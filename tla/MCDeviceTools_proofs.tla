------------------------ MODULE MCDeviceTools_proofs ------------------------
(***************************************************************************)
(* Proofs about the tools that install the app, cut its network and buy,   *)
(* and about all the tools together, for any bounds and timeouts.          *)
(***************************************************************************)
EXTENDS MCDeviceTools, ScreenTools_proofs, FiniteSetTheorems

-----------------------------------------------------------------------------
(* The network runner.                                                     *)

NetworkTry ==
  {"prepare", "start-processes", "loop", "validate", "capture", "ack", "start-recording",
   "finish-recording", "disable", "require-off", "prove-bytes", "prove-again", "release-cap",
   "restore-wifi-first", "restore", "confirm-anr", "tap-anr"}

NetworkProgram == <<"capture-initial", "prepare", "start-processes", "loop", "validate">>

NetworkThings == {"recorder", "driver", "logcat", "observer", "ack", "evidence", "directory"}

NetworkUndone ==
  /\ {"wifi", "data", "app", "owned"} \subseteq DOMAIN device
  /\ {"initial", "changed", "android_pid", "recording", "phase_index"} \subseteq DOMAIN mem
  /\ mem.phase_index \in Nat
  /\ device.owned \subseteq NetworkThings
  /\ "recorder" \in device.owned => mem.recording \/ "finish-recording" \in failed
  /\ mode \in {"run", "cleanup", "done"}
  /\ mode = "run" => "directory" \notin device.owned
  /\ mode = "run" =>
       \/ ~mem.changed /\ todo = NetworkProgram
       \/ mem.initial # Network!Off /\ todo \in Seq(NetworkTry)
  /\ mode # "run" =>
       /\ Undoing(Network!CLEANUP)
       /\ mem.changed => mem.initial # Network!Off
       /\ mem.changed /\ Network!Radios(device) # mem.initial =>
            Len(todo) >= 9 \/ "restore" \in failed
       /\ "recorder" \in device.owned => Len(todo) >= 7 \/ "finish-recording" \in failed
       /\ "driver" \in device.owned => Len(todo) >= 6 \/ "stop-driver" \in failed
       /\ "logcat" \in device.owned => Len(todo) >= 5 \/ "stop-logcat" \in failed
       /\ "observer" \in device.owned => Len(todo) >= 4 \/ "remove-observer" \in failed
       /\ mem.android_pid # 0 /\ device.app # 0 => Len(todo) >= 3 \/ "stop-app" \in failed
       /\ "ack" \in device.owned => Len(todo) >= 2 \/ "remove-acks" \in failed
       /\ "evidence" \in device.owned => Len(todo) >= 1 \/ "remove-evidence" \in failed
       /\ "directory" \in device.owned => "prepare" \in failed

LEMMA NetworkCleanup ==
  /\ Network!CLEANUP \in Seq({"restore", "final-evidence", "finish-recording",
                              "stop-driver", "stop-logcat", "remove-observer",
                              "stop-app", "remove-acks", "remove-evidence"})
  /\ Len(Network!CLEANUP) = 9
  /\ Network!CLEANUP[1] = "restore"
  /\ Network!CLEANUP[2] = "final-evidence"
  /\ Network!CLEANUP[3] = "finish-recording"
  /\ Network!CLEANUP[4] = "stop-driver"
  /\ Network!CLEANUP[5] = "stop-logcat"
  /\ Network!CLEANUP[6] = "remove-observer"
  /\ Network!CLEANUP[7] = "stop-app"
  /\ Network!CLEANUP[8] = "remove-acks"
  /\ Network!CLEANUP[9] = "remove-evidence"
BY DEF Network!CLEANUP

LEMMA NetworkPlaces ==
  ASSUME Undoing(Network!CLEANUP)
  PROVE  /\ todo = <<>> => Len(todo) = 0
         /\ todo # <<>> => Len(todo) \in 1..9
         /\ todo # <<>> =>
              \/ Len(todo) = 9 /\ Head(todo) = "restore"
              \/ Len(todo) = 8 /\ Head(todo) = "final-evidence"
              \/ Len(todo) = 7 /\ Head(todo) = "finish-recording"
              \/ Len(todo) = 6 /\ Head(todo) = "stop-driver"
              \/ Len(todo) = 5 /\ Head(todo) = "stop-logcat"
              \/ Len(todo) = 4 /\ Head(todo) = "remove-observer"
              \/ Len(todo) = 3 /\ Head(todo) = "stop-app"
              \/ Len(todo) = 2 /\ Head(todo) = "remove-acks"
              \/ Len(todo) = 1 /\ Head(todo) = "remove-evidence"
<1> DEFINE n == Len(todo)
<1>0. todo = <<>> => n = 0
  OBVIOUS
<1>1. todo # <<>> => n \in 1..9 /\ Head(todo) = Network!CLEANUP[9 - n + 1]
  BY NetworkCleanup, UndoingParts
<1>2. todo # <<>> =>
        \/ n = 9
        \/ n = 8
        \/ n = 7
        \/ n = 6
        \/ n = 5
        \/ n = 4
        \/ n = 3
        \/ n = 2
        \/ n = 1
  BY <1>1
<1>3. /\ 9 - 1 + 1 = 9
      /\ 9 - 2 + 1 = 8
      /\ 9 - 3 + 1 = 7
      /\ 9 - 4 + 1 = 6
      /\ 9 - 5 + 1 = 5
      /\ 9 - 6 + 1 = 4
      /\ 9 - 7 + 1 = 3
      /\ 9 - 8 + 1 = 2
      /\ 9 - 9 + 1 = 1
  OBVIOUS
<1> HIDE DEF n
<1>4. todo # <<>> =>
        \/ n = 9 /\ Head(todo) = "restore"
        \/ n = 8 /\ Head(todo) = "final-evidence"
        \/ n = 7 /\ Head(todo) = "finish-recording"
        \/ n = 6 /\ Head(todo) = "stop-driver"
        \/ n = 5 /\ Head(todo) = "stop-logcat"
        \/ n = 4 /\ Head(todo) = "remove-observer"
        \/ n = 3 /\ Head(todo) = "stop-app"
        \/ n = 2 /\ Head(todo) = "remove-acks"
        \/ n = 1 /\ Head(todo) = "remove-evidence"
  BY <1>1, <1>2, <1>3, NetworkCleanup
<1>5. QED
  BY <1>0, <1>1, <1>4 DEF n

LEMMA NetworkInit ==
  ASSUME Network!Init
  PROVE  NetworkUndone
BY DEF Network!Init, Network!Start, NetworkUndone, NetworkProgram

(* The app, the emulator and the fixture bring nothing into being that the *)
(* tool has to undo, and a radio that returns was not as it had been.      *)
LEMMA NetworkOthers ==
  ASSUME NetworkUndone, Network!Environment, ~Network!Signal
  PROVE  NetworkUndone'
<1>1. UNCHANGED <<todo, mode, errors, failed, mem>>
  BY DEF Network!Environment, Network!AppCheckpoint, Network!AppRestarts, Network!DriverExits,
     Network!SetupAnr, Network!RadioReturns, Network!FixtureServe, Network!control
<1>2. {"wifi", "data", "app", "owned"} \subseteq DOMAIN device' /\ device'.owned = device.owned
  BY DEF NetworkUndone, Network!Environment, Network!AppCheckpoint, Network!AppRestarts,
     Network!DriverExits, Network!SetupAnr, Network!RadioReturns, Network!FixtureServe
<1>3. device'.app # 0 => device.app # 0
  BY DEF NetworkUndone, Network!Environment, Network!AppCheckpoint, Network!AppRestarts,
     Network!DriverExits, Network!SetupAnr, Network!RadioReturns, Network!FixtureServe
<1>4. \/ Network!Radios(device') = Network!Radios(device)
      \/ Network!Radios(device) = Network!Off
  <2>1. CASE Network!RadioReturns
    BY <2>1 DEF Network!RadioReturns
  <2>2. CASE ~Network!RadioReturns
    <3>1. device'.wifi = device.wifi /\ device'.data = device.data
      BY <2>2 DEF NetworkUndone, Network!Environment, Network!AppCheckpoint, Network!AppRestarts,
         Network!DriverExits, Network!SetupAnr, Network!FixtureServe
    <3>2. QED
      BY <3>1 DEF Network!Radios
  <2>3. QED
    BY <2>1, <2>2
<1>5. QED
  BY <1>1, <1>2, <1>3, <1>4 DEF NetworkUndone, Undoing, Rest

LEMMA NetworkPhases ==
  /\ Network!Phases \in Seq({"app-ready", "players-ready", "initial-ready", "offline-confirmed",
                              "reconnected-confirmed", "recovery-confirmed", "teardown-complete",
                              "offline-unreachable"})
  /\ \A phase \in {"app-ready", "players-ready", "initial-ready", "offline-confirmed",
                    "reconnected-confirmed", "recovery-confirmed", "teardown-complete",
                    "offline-unreachable"} :
        Network!Handler(phase) \in Seq(NetworkTry)
<1> DEFINE P == {"app-ready", "players-ready", "initial-ready", "offline-confirmed",
                 "reconnected-confirmed", "recovery-confirmed", "teardown-complete",
                 "offline-unreachable"}
<1>1. Network!PHASES \in Seq(P) /\ Len(Network!PHASES) = 7
  BY DEF Network!PHASES
<1>2. Network!Phases \in Seq(P)
  <2>1. <<"offline-unreachable">> \in Seq(P)
    OBVIOUS
  <2> HIDE DEF P
  <2>2. SubSeq(Network!PHASES, 1, 3) \in Seq(P) /\ SubSeq(Network!PHASES, 4, 7) \in Seq(P)
    <3> DEFINE all == Network!PHASES
    <3>1. all \in Seq(P) /\ Len(all) = 7
      BY <1>1
    <3> HIDE DEF all
    <3>2. \A i \in 1..7 : all[i] \in P
      BY <3>1, ElementOfSeq
    <3>3. SubSeq(all, 1, 3) \in Seq(P) /\ SubSeq(all, 4, 7) \in Seq(P)
      BY <3>1, <3>2, SubSeqProperties
    <3>4. QED
      BY <3>3 DEF all
  <2>3. SubSeq(Network!PHASES, 1, 3) \o <<"offline-unreachable">>
          \o SubSeq(Network!PHASES, 4, 7) \in Seq(P)
    BY <2>1, <2>2, ConcatProperties
  <2>4. QED
    BY <1>1, <2>3 DEF Network!Phases
<1>3. ASSUME NEW phase \in P
      PROVE  Network!Handler(phase) \in Seq(NetworkTry)
  <2>1. CASE phase = "offline-confirmed"
    <3>1. /\ <<"capture", "require-off">> \in Seq(NetworkTry)
          /\ <<"prove-again", "release-cap">> \in Seq(NetworkTry) /\ <<>> \in Seq(NetworkTry)
          /\ <<"finish-recording", "start-recording", "restore-wifi-first", "restore",
               "capture", "ack">> \in Seq(NetworkTry)
      BY DEF NetworkTry
    <3>2. (IF mem.variant = "decoder_failure" THEN <<"prove-again", "release-cap">> ELSE <<>>)
            \in Seq(NetworkTry)
      BY <3>1
    <3>3. QED
      BY <2>1, <3>1, <3>2, ConcatProperties DEF Network!Handler
  <2>2. CASE phase = "app-ready"
    BY <2>2 DEF Network!Handler, NetworkTry
  <2>9. CASE phase = "players-ready"
    BY <2>9 DEF Network!Handler, NetworkTry
  <2>3. CASE phase = "initial-ready"
    BY <2>3 DEF Network!Handler, NetworkTry
  <2>4. CASE phase = "offline-unreachable"
    BY <2>4 DEF Network!Handler, NetworkTry
  <2>5. CASE phase = "reconnected-confirmed"
    BY <2>5 DEF Network!Handler, NetworkTry
  <2>6. CASE phase = "recovery-confirmed"
    BY <2>6 DEF Network!Handler, NetworkTry
  <2>7. CASE phase = "teardown-complete"
    BY <2>7 DEF Network!Handler, NetworkTry
  <2>8. QED
    BY <2>1, <2>2, <2>3, <2>4, <2>5, <2>6, <2>7, <2>9
<1>4. QED
  BY <1>2, <1>3

LEMMA NetworkOnlyTries ==
  ASSUME NetworkUndone, mode = "run"
  PROVE  /\ todo # <<>> =>
              /\ \/ Head(todo) = "capture-initial" /\ ~mem.changed /\ todo = NetworkProgram
                 \/ Head(todo) \in NetworkTry /\ mem.initial # Network!Off
              /\ Tail(todo) \in Seq(NetworkTry)
         /\ todo = <<>> => mem.initial # Network!Off
<1>1. CASE ~mem.changed /\ todo = NetworkProgram
  BY <1>1 DEF NetworkProgram, NetworkTry
<1>2. CASE mem.initial # Network!Off /\ todo \in Seq(NetworkTry)
  BY <1>2
<1>3. QED
  BY <1>1, <1>2 DEF NetworkUndone

LEMMA NetworkControl ==
  ASSUME NetworkUndone, Network!Runner \/ Network!Signal, mode = "run"
  PROVE  \/ /\ mode' = "run" /\ todo # <<>>
            /\ \/ todo' = Tail(todo)
               \/ todo' = <<>> \o Tail(todo)
               \/ todo' = <<"confirm-anr">> \o Tail(todo)
               \/ todo' = <<"tap-anr">> \o Tail(todo)
               \/ Network!ObserveCheckpoint
                  /\ todo' = Network!Handler(Head(device.queue).phase) \o todo
                  /\ \E phase \in {Network!Phases[mem.phase_index + 1]} :
                       mem.phase_index < Len(Network!Phases) /\ Head(device.queue).phase = phase
         \/ mode' = "cleanup" /\ todo' = Network!CLEANUP
<1>1. CASE Network!ObserveCheckpoint
  BY <1>1 DEF Network!ObserveCheckpoint, Network!Raise, Network!Running, Network!Now
<1>2. CASE ~Network!ObserveCheckpoint
  <2>1. ~Network!Report
    BY DEF Network!Report
  <2>2. QED
    BY <1>2, <2>1 DEF Network!Runner, Network!Signal,
       Network!CaptureInitial, Network!Prepare, Network!StartProcesses,
       Network!LoopEnds, Network!Validate, Network!Capture, Network!ConfirmAnr,
       Network!TapAnr, Network!Disable, Network!RestoreWifiFirst, Network!Restore,
       Network!RequireOff, Network!StartRecording, Network!FinishRecording,
       Network!Ack, Network!ProveBytes, Network!ProveAgain, Network!ReleaseCap,
       Network!Fails,
       Network!FinalEvidence, Network!StopDriver, Network!StopLogcat,
       Network!RemoveObserver, Network!StopTestApp, Network!RemoveAcks,
       Network!RemoveEvidence,
       Network!Require, Network!ReturnOrFail, Network!Return, Network!ReturnUnheeded,
       Network!Call,
       Network!Raise, Network!Proceed, Network!EnterFinally, Network!control,
       Network!Running, Network!Now
<1>3. QED
  BY <1>1, <1>2

LEMMA NetworkKnows ==
  ASSUME NetworkUndone, Network!Runner \/ Network!Signal, mode = "run"
  PROVE  /\ mode' = "run" => /\ mem'.initial # Network!Off /\ todo' \in Seq(NetworkTry)
         /\ mem'.changed => mem'.initial # Network!Off
         /\ {"initial", "changed", "android_pid", "recording", "phase_index"} \subseteq DOMAIN mem'
         /\ mem'.phase_index \in Nat
<1>1. /\ {"initial", "changed", "android_pid", "recording", "phase_index"} \subseteq DOMAIN mem'
  BY DEF NetworkUndone, Network!Runner, Network!Signal,
     Network!CaptureInitial, Network!Prepare, Network!StartProcesses,
     Network!ObserveCheckpoint, Network!LoopEnds, Network!Validate, Network!Capture,
     Network!ConfirmAnr, Network!TapAnr, Network!Disable, Network!RestoreWifiFirst,
     Network!Restore, Network!RequireOff, Network!StartRecording,
     Network!FinishRecording, Network!Ack, Network!ProveBytes, Network!ProveAgain,
     Network!ReleaseCap, Network!Fails,
     Network!FinalEvidence, Network!StopDriver, Network!StopLogcat,
     Network!RemoveObserver, Network!StopTestApp, Network!RemoveAcks,
     Network!RemoveEvidence
<1>2. mem'.phase_index \in {mem.phase_index, mem.phase_index + 1}
  BY DEF NetworkUndone, Network!Runner, Network!Signal,
     Network!CaptureInitial, Network!Prepare, Network!StartProcesses,
     Network!ObserveCheckpoint, Network!LoopEnds, Network!Validate, Network!Capture,
     Network!ConfirmAnr, Network!TapAnr, Network!Disable, Network!RestoreWifiFirst,
     Network!Restore, Network!RequireOff, Network!StartRecording,
     Network!FinishRecording, Network!Ack, Network!ProveBytes, Network!ProveAgain,
     Network!ReleaseCap, Network!Fails,
     Network!FinalEvidence, Network!StopDriver, Network!StopLogcat,
     Network!RemoveObserver, Network!StopTestApp, Network!RemoveAcks,
     Network!RemoveEvidence
<1>3. CASE Network!CaptureInitial
  <2>1. /\ mem'.initial = Network!Radios(device) /\ mem'.changed = mem.changed
        /\ ~mem.changed
    BY <1>3, NetworkOnlyTries DEF NetworkUndone, Network!CaptureInitial, Network!Now, NetworkTry
  <2>2. \/ mode' = "cleanup"
        \/ (device.wifi \/ device.data) /\ todo' = <<>> \o Tail(todo) /\ todo # <<>>
    BY <1>3 DEF Network!CaptureInitial, Network!Require, Network!Return, Network!Call,
       Network!Raise, Network!Now
  <2>3. device.wifi \/ device.data => Network!Radios(device) # Network!Off
    BY DEF Network!Radios, Network!Off
  <2>4. <<>> \in Seq(NetworkTry)
    OBVIOUS
  <2>5. mode' = "run" => mem'.initial # Network!Off
    BY <2>1, <2>2, <2>3, CallKeeps
  <2>6. mode' = "run" => todo' \in Seq(NetworkTry)
    <3>1. todo # <<>> => Tail(todo) \in Seq(NetworkTry)
      BY NetworkOnlyTries
    <3>2. todo # <<>> => <<>> \o Tail(todo) \in Seq(NetworkTry)
      BY <3>1
    <3>3. QED
      BY <2>2, <3>2
  <2>7. mem'.changed => mem'.initial # Network!Off
    BY <2>1
  <2>8. mem'.phase_index \in Nat
    BY <1>2 DEF NetworkUndone
  <2>9. QED
    BY <1>1, <2>5, <2>6, <2>7, <2>8
<1>4. CASE ~Network!CaptureInitial
  <2>1. mem'.initial = mem.initial
    BY <1>4 DEF NetworkUndone, Network!Runner, Network!Signal,
       Network!Prepare, Network!StartProcesses, Network!ObserveCheckpoint,
       Network!LoopEnds, Network!Validate, Network!Capture, Network!ConfirmAnr,
       Network!TapAnr, Network!Disable, Network!RestoreWifiFirst, Network!Restore,
       Network!RequireOff, Network!StartRecording, Network!FinishRecording,
       Network!Ack, Network!ProveBytes, Network!ProveAgain, Network!ReleaseCap,
       Network!Fails,
       Network!FinalEvidence, Network!StopDriver, Network!StopLogcat,
       Network!RemoveObserver, Network!StopTestApp, Network!RemoveAcks,
       Network!RemoveEvidence
  <2>2. mem'.changed => mem.changed \/ mem.initial # Network!Off
    <3>1. CASE Network!Disable
      BY <3>1, NetworkOnlyTries DEF Network!Disable, Network!Now
    <3>2. CASE ~Network!Disable
      <4>1. mem'.changed = mem.changed
        BY <1>4, <3>2 DEF NetworkUndone, Network!Runner, Network!Signal,
           Network!Prepare, Network!StartProcesses, Network!ObserveCheckpoint,
           Network!LoopEnds, Network!Validate, Network!Capture, Network!ConfirmAnr,
           Network!TapAnr, Network!RestoreWifiFirst, Network!Restore,
           Network!RequireOff, Network!StartRecording, Network!FinishRecording,
           Network!Ack, Network!ProveBytes, Network!ProveAgain, Network!ReleaseCap,
           Network!Fails,
           Network!FinalEvidence, Network!StopDriver, Network!StopLogcat,
           Network!RemoveObserver, Network!StopTestApp, Network!RemoveAcks,
           Network!RemoveEvidence
      <4>2. QED
        BY <4>1
    <3>3. QED
      BY <3>1, <3>2
  <2>3. mem'.changed => mem'.initial # Network!Off
    BY <2>1, <2>2 DEF NetworkUndone
  <2>4. mode' = "run" => todo = <<>> \/ Head(todo) # "capture-initial"
    BY <1>4 DEF Network!Runner, Network!Signal,
       Network!Prepare, Network!StartProcesses, Network!ObserveCheckpoint,
       Network!LoopEnds, Network!Validate, Network!Capture, Network!ConfirmAnr,
       Network!TapAnr, Network!Disable, Network!RestoreWifiFirst, Network!Restore,
       Network!RequireOff, Network!StartRecording, Network!FinishRecording,
       Network!Ack, Network!ProveBytes, Network!ProveAgain, Network!ReleaseCap,
       Network!Fails,
       Network!FinalEvidence, Network!StopDriver, Network!StopLogcat,
       Network!RemoveObserver, Network!StopTestApp, Network!RemoveAcks,
       Network!RemoveEvidence,
       Network!Require, Network!ReturnOrFail, Network!Return, Network!Call,
       Network!Raise, Network!Proceed, Network!EnterFinally, Network!control, Network!Report,
       Network!Running, Network!Now
  <2>5. mode' = "run" => mem.initial # Network!Off /\ todo \in Seq(NetworkTry)
    BY <2>4, NetworkOnlyTries DEF NetworkUndone, NetworkProgram
  <2>6. mode' = "run" => todo' \in Seq(NetworkTry)
    <3>1. SUFFICES ASSUME mode' = "run"
                   PROVE  todo' \in Seq(NetworkTry)
      OBVIOUS
    <3>2. todo \in Seq(NetworkTry) /\ (todo # <<>> => Tail(todo) \in Seq(NetworkTry))
      BY <2>5, <3>1
    <3>3. CASE /\ Network!ObserveCheckpoint
               /\ todo' = Network!Handler(Head(device.queue).phase) \o todo
               /\ \E phase \in {Network!Phases[mem.phase_index + 1]} :
                    mem.phase_index < Len(Network!Phases) /\ Head(device.queue).phase = phase
      <4> DEFINE k == mem.phase_index + 1
      <4>1. k \in 1..Len(Network!Phases)
        BY <3>3, NetworkPhases DEF NetworkUndone
      <4>2. Network!Handler(Network!Phases[k]) \in Seq(NetworkTry)
        <5> HIDE DEF k
        <5>1. Network!Phases[k] \in
                {"app-ready", "players-ready", "initial-ready", "offline-confirmed",
                 "reconnected-confirmed", "recovery-confirmed", "teardown-complete",
                 "offline-unreachable"}
          BY <4>1, NetworkPhases, ElementOfSeq
        <5>2. QED
          BY <5>1, NetworkPhases
      <4>3. Head(device.queue).phase = Network!Phases[k]
        BY <3>3
      <4>4. QED
        BY <3>2, <3>3, <4>2, <4>3, ConcatProperties
    <3>4. /\ <<>> \in Seq(NetworkTry) /\ <<"confirm-anr">> \in Seq(NetworkTry)
          /\ <<"tap-anr">> \in Seq(NetworkTry)
      BY DEF NetworkTry
    <3>5. CASE /\ todo # <<>>
               /\ \/ todo' = Tail(todo)
                  \/ todo' = <<>> \o Tail(todo)
                  \/ todo' = <<"confirm-anr">> \o Tail(todo)
                  \/ todo' = <<"tap-anr">> \o Tail(todo)
      BY <3>2, <3>4, <3>5, ConcatProperties
    <3>6. QED
      BY <3>1, <3>3, <3>5, NetworkControl
  <2>7. QED
    BY <1>1, <1>2, <2>1, <2>3, <2>5, <2>6 DEF NetworkUndone
<1>5. QED
  BY <1>3, <1>4

LEMMA NetworkRunning ==
  ASSUME NetworkUndone, Network!Runner \/ Network!Signal, mode = "run"
  PROVE  /\ {"wifi", "data", "app", "owned"} \subseteq DOMAIN device'
         /\ device'.owned \subseteq NetworkThings
         /\ "recorder" \in device'.owned => mem'.recording \/ "finish-recording" \in failed'
         /\ mode' = "run" => "directory" \notin device'.owned
         /\ "directory" \in device'.owned => "prepare" \in failed'
<1>0. ~Network!FinalEvidence /\ ~Network!StopDriver /\ ~Network!StopLogcat
      /\ ~Network!RemoveObserver /\ ~Network!StopTestApp /\ ~Network!RemoveAcks
      /\ ~Network!RemoveEvidence /\ ~Network!Report
  BY NetworkOnlyTries DEF Network!FinalEvidence, Network!StopDriver, Network!StopLogcat,
     Network!RemoveObserver, Network!StopTestApp, Network!RemoveAcks, Network!RemoveEvidence,
     Network!Report, Network!Now, NetworkTry
<1>1. {"wifi", "data", "app", "owned"} \subseteq DOMAIN device'
  BY <1>0 DEF NetworkUndone, Network!Runner, Network!Signal,
     Network!CaptureInitial, Network!Prepare, Network!StartProcesses,
     Network!ObserveCheckpoint, Network!LoopEnds, Network!Validate, Network!Capture,
     Network!ConfirmAnr, Network!TapAnr, Network!Disable, Network!RestoreWifiFirst,
     Network!Restore, Network!RequireOff, Network!StartRecording,
     Network!FinishRecording, Network!Ack, Network!ProveBytes, Network!ProveAgain,
     Network!ReleaseCap, Network!Fails, Network!Apply, Network!Own, Network!Drop
<1>2. CASE Network!Prepare
  <2>1. /\ device'.owned \subseteq NetworkThings
        /\ "recorder" \in device'.owned => "recorder" \in device.owned
        /\ mem' = mem /\ failed \subseteq failed'
    BY <1>2 DEF NetworkUndone, NetworkThings, Network!Prepare, Network!Return, Network!Call,
       Network!Raise
  <2>2. /\ mode' = "run" => "directory" \notin device'.owned
        /\ "directory" \in device'.owned => "prepare" \in failed'
    BY <1>2 DEF NetworkUndone, Network!Prepare, Network!Now, Network!Raise, Network!Return,
       Network!Call
  <2>3. QED
    BY <1>1, <2>1, <2>2 DEF NetworkUndone
<1> DEFINE Otherwise == ~Network!Prepare
<1>5. ASSUME Otherwise
      PROVE  device'.owned \in {device.owned,
                        device.owned \cup {"logcat", "driver"}, device.owned \cup {"logcat"},
                        device.owned \cup {"recorder"}, device.owned \ {"recorder"},
                        device.owned \cup {"ack"}}
  BY <1>0, <1>5 DEF NetworkUndone, Network!Runner, Network!Signal,
     Network!CaptureInitial, Network!StartProcesses,
     Network!ObserveCheckpoint, Network!LoopEnds, Network!Validate, Network!Capture,
     Network!ConfirmAnr, Network!TapAnr, Network!Disable, Network!RestoreWifiFirst,
     Network!Restore, Network!RequireOff, Network!StartRecording,
     Network!FinishRecording, Network!Ack, Network!ProveBytes, Network!ProveAgain,
     Network!ReleaseCap, Network!Fails, Network!Apply, Network!Own, Network!Drop
<1>3. ASSUME Otherwise
      PROVE  "recorder" \in device'.owned => mem'.recording \/ "finish-recording" \in failed'
  <2>1. CASE Network!FinishRecording
    <3>1. \/ device' = [device EXCEPT !.owned = @ \ {"recorder"}]
          \/ "finish-recording" \in failed'
          \/ ~mem.recording /\ device' = device /\ failed' = failed
      BY <2>1 DEF Network!FinishRecording, Network!Drop, Network!Raise, Network!Now,
         Network!Return, Network!Call
    <3>2. QED
      BY <3>1 DEF NetworkUndone
  <2>2. CASE Network!StartRecording
    BY <2>2 DEF Network!StartRecording, NetworkUndone
  <2>3. CASE ~Network!FinishRecording /\ ~Network!StartRecording
    <3>1. device'.owned \in {device.owned,
                        device.owned \cup {"logcat", "driver"}, device.owned \cup {"logcat"},
                        device.owned \cup {"ack"}}
      BY <1>0, <1>3, <2>3 DEF NetworkUndone, Network!Runner, Network!Signal, Network!CaptureInitial,
         Network!StartProcesses, Network!ObserveCheckpoint, Network!LoopEnds,
         Network!Validate, Network!Capture, Network!ConfirmAnr, Network!TapAnr, Network!Disable,
         Network!RestoreWifiFirst, Network!Restore, Network!RequireOff, Network!Ack,
         Network!ProveBytes, Network!ProveAgain, Network!ReleaseCap, Network!Fails, Network!Apply,
         Network!Own, Network!Drop
    <3>2. mem'.recording = mem.recording
      BY <1>0, <2>3 DEF NetworkUndone, Network!Runner, Network!Signal,
         Network!CaptureInitial, Network!Prepare, Network!StartProcesses,
         Network!ObserveCheckpoint, Network!LoopEnds, Network!Validate,
         Network!Capture, Network!ConfirmAnr, Network!TapAnr, Network!Disable,
         Network!RestoreWifiFirst, Network!Restore, Network!RequireOff, Network!Ack,
         Network!ProveBytes, Network!ProveAgain, Network!ReleaseCap, Network!Fails
    <3>3. failed \subseteq failed'
      BY <1>0, <2>3 DEF Network!Runner, Network!Signal,
         Network!CaptureInitial, Network!Prepare, Network!StartProcesses,
         Network!ObserveCheckpoint, Network!LoopEnds, Network!Validate,
         Network!Capture, Network!ConfirmAnr, Network!TapAnr, Network!Disable,
         Network!RestoreWifiFirst, Network!Restore, Network!RequireOff, Network!Ack,
         Network!ProveBytes, Network!ProveAgain, Network!ReleaseCap, Network!Fails,
         Network!Require, Network!ReturnOrFail, Network!Return, Network!Call,
         Network!Raise, Network!Proceed, Network!EnterFinally, Network!control
    <3>4. QED
      BY <3>1, <3>2, <3>3 DEF NetworkUndone
  <2>4. QED
    BY <2>1, <2>2, <2>3
<1>4. QED
  BY <1>1, <1>2, <1>3, <1>5 DEF NetworkUndone, NetworkThings

LEMMA NetworkCleaningControl ==
  ASSUME NetworkUndone, Network!Runner \/ Network!Signal, mode = "cleanup"
  PROVE  \/ /\ mode' = "done" /\ todo = <<>> /\ todo' = <<>>
            /\ UNCHANGED <<device, mem, seen, failed>>
         \/ mode' = "done" /\ UNCHANGED <<todo, failed, device, mem>>
         \/ /\ mode' = "cleanup" /\ todo # <<>> /\ Undoing(Network!CLEANUP)'
            /\ \/ Network!Restore \/ Network!FinalEvidence \/ Network!FinishRecording
               \/ Network!StopDriver \/ Network!StopLogcat \/ Network!RemoveObserver
               \/ Network!StopTestApp \/ Network!RemoveAcks \/ Network!RemoveEvidence
               \/ Network!Raise(Network!CLEANUP) /\ UNCHANGED <<device, mem>>
            /\ failed \subseteq failed' /\ Len(todo') = Len(todo) - 1
<1> DEFINE n == Len(todo)
           new == Len(todo')
<1>1. Undoing(Network!CLEANUP)
  BY DEF NetworkUndone
<1>2. todo # <<>> => Head(todo) \in {"restore", "final-evidence", "finish-recording", "stop-driver", "stop-logcat",
                                 "remove-observer", "stop-app", "remove-acks", "remove-evidence"}
  BY <1>1, NetworkPlaces
<1>3. \/ Network!Restore \/ Network!FinalEvidence \/ Network!FinishRecording
      \/ Network!StopDriver \/ Network!StopLogcat \/ Network!RemoveObserver
      \/ Network!StopTestApp \/ Network!RemoveAcks \/ Network!RemoveEvidence
      \/ Network!Raise(Network!CLEANUP) /\ UNCHANGED <<device, mem>> /\ todo # <<>>
      \/ Network!Report /\ UNCHANGED <<device, mem, seen>>
      \/ mode' = "done" /\ UNCHANGED <<todo, failed, device, mem>>
  BY <1>2 DEF Network!Runner, Network!Signal,
     Network!CaptureInitial, Network!Prepare, Network!StartProcesses,
     Network!ObserveCheckpoint, Network!LoopEnds, Network!Validate, Network!Capture,
     Network!ConfirmAnr, Network!TapAnr, Network!Disable, Network!RestoreWifiFirst,
     Network!RequireOff, Network!StartRecording, Network!Ack, Network!ProveBytes,
     Network!ProveAgain, Network!ReleaseCap, Network!Fails,
     Network!Running, Network!Now, Network!EnterFinally
<1>4. CASE Network!Report /\ UNCHANGED <<device, mem, seen>>
  BY <1>4 DEF Network!Report
<1>5. CASE \/ Network!Restore \/ Network!FinalEvidence \/ Network!FinishRecording
           \/ Network!StopDriver \/ Network!StopLogcat \/ Network!RemoveObserver
           \/ Network!StopTestApp \/ Network!RemoveAcks \/ Network!RemoveEvidence
           \/ Network!Raise(Network!CLEANUP) /\ UNCHANGED <<device, mem>> /\ todo # <<>>
  <2>1. todo # <<>>
    BY <1>5 DEF Network!Restore, Network!FinishRecording, Network!FinalEvidence,
       Network!StopDriver, Network!StopLogcat, Network!RemoveObserver, Network!StopTestApp,
       Network!RemoveAcks, Network!RemoveEvidence, Network!Now
  <2>2. \/ Network!Return \/ Network!ReturnUnheeded
        \/ Network!Raise(Network!CLEANUP)
        \/ todo' = Tail(todo) /\ UNCHANGED <<mode, errors, failed>>
    BY <1>5 DEF Network!Restore, Network!FinishRecording, Network!FinalEvidence,
       Network!StopDriver, Network!StopLogcat, Network!RemoveObserver, Network!StopTestApp,
       Network!RemoveAcks, Network!RemoveEvidence, Network!Now, Network!Proceed,
       Network!Require
  <2>3. /\ \/ todo' = Tail(todo)
           \/ todo' = <<>> \o Tail(todo)
        /\ mode' = "cleanup" /\ failed \subseteq failed'
    BY <2>2 DEF Network!Return, Network!Call, Network!Raise, Network!ReturnUnheeded, Network!Running
  <2>4. Undoing(Network!CLEANUP)' /\ Len(todo') = Len(todo) - 1
    BY <1>1, <2>1, <2>3, NetworkCleanup, UndoingNext
  <2>5. QED
    BY <1>5, <2>1, <2>3, <2>4
<1>6. QED
  BY <1>3, <1>4, <1>5

LEMMA UndoingPending ==
  ASSUME NEW S, NEW c \in Seq(S), Undoing(c), NEW k \in 1..Len(c), Len(todo) >= k
  PROVE  c[Len(c) - k + 1] \in Network!Range(todo)
<1>1. /\ Len(todo) \in 1..Len(c)
      /\ todo = Rest(c, Len(todo))
      /\ Len(c) \in Nat
  BY DEF Undoing
<1> DEFINE n == Len(todo)
           i == n - k + 1
<1>2. n \in 1..Len(c) /\ i \in 1..n
  BY <1>1
<1>3. todo[i] = c[Len(c) - n + i]
  <2> HIDE DEF n, i
  <2>1. \A j \in 1..n : Rest(c, n)[j] = c[Len(c) - n + j]
    BY <1>1, <1>2 DEF Rest
  <2>2. todo = Rest(c, n)
    BY <1>1 DEF n
  <2>3. QED
    BY <1>2, <2>1, <2>2
<1>4. Len(c) - n + i = Len(c) - k + 1
  BY <1>1
<1>5. QED
  BY <1>2, <1>3, <1>4 DEF Network!Range

(* The clean-up of the network runner.                                     *)
LEMMA NetworkCleaning ==
  ASSUME NetworkUndone, Network!Runner \/ Network!Signal, mode = "cleanup"
  PROVE  NetworkUndone'
<1> DEFINE n == Len(todo)
           new == Len(todo')
           Kept ==
             /\ {"wifi", "data", "app", "owned"} \subseteq DOMAIN device
             /\ {"initial", "changed", "android_pid", "recording", "phase_index"}
                  \subseteq DOMAIN mem
             /\ mem.phase_index \in Nat
             /\ device.owned \subseteq NetworkThings
             /\ "directory" \in device.owned => "prepare" \in failed
             /\ "recorder" \in device.owned => mem.recording \/ "finish-recording" \in failed
             /\ mem.changed => mem.initial # Network!Off
<1>1. /\ Kept
      /\ n = Len(todo) /\ new = Len(todo')
      /\ mem.changed /\ Network!Radios(device) # mem.initial => n >= 9 \/ "restore" \in failed
      /\ "recorder" \in device.owned => n >= 7 \/ "finish-recording" \in failed
      /\ "driver" \in device.owned => n >= 6 \/ "stop-driver" \in failed
      /\ "logcat" \in device.owned => n >= 5 \/ "stop-logcat" \in failed
      /\ "observer" \in device.owned => n >= 4 \/ "remove-observer" \in failed
      /\ mem.android_pid # 0 /\ device.app # 0 => n >= 3 \/ "stop-app" \in failed
      /\ "ack" \in device.owned => n >= 2 \/ "remove-acks" \in failed
      /\ "evidence" \in device.owned => n >= 1 \/ "remove-evidence" \in failed
  BY DEF NetworkUndone
<1>2. /\ todo # <<>> => n \in 1..9
      /\ todo # <<>> =>
           \/ n = 9 /\ Head(todo) = "restore"
           \/ n = 8 /\ Head(todo) = "final-evidence"
           \/ n = 7 /\ Head(todo) = "finish-recording"
           \/ n = 6 /\ Head(todo) = "stop-driver"
           \/ n = 5 /\ Head(todo) = "stop-logcat"
           \/ n = 4 /\ Head(todo) = "remove-observer"
           \/ n = 3 /\ Head(todo) = "stop-app"
           \/ n = 2 /\ Head(todo) = "remove-acks"
           \/ n = 1 /\ Head(todo) = "remove-evidence"
  BY NetworkPlaces DEF NetworkUndone
<1>3. CASE /\ mode' = "done" /\ todo = <<>> /\ todo' = <<>>
           /\ UNCHANGED <<device, mem, seen, failed>>
  <2>1. Undoing(Network!CLEANUP)' /\ Len(todo') = 0 /\ n = 0
    BY <1>3, NetworkCleanup, UndoingOver
  <2> HIDE DEF n, new
  <2>2. QED
    BY <1>1, <1>3, <2>1 DEF NetworkUndone, Network!Radios
<1>4. CASE mode' = "done" /\ UNCHANGED <<todo, failed, device, mem>>
  <2>1. Undoing(Network!CLEANUP)'
    BY <1>4 DEF NetworkUndone, Undoing, Rest
  <2>2. QED
    BY <1>1, <1>4, <2>1 DEF NetworkUndone, Network!Radios
<1>5. CASE /\ mode' = "cleanup" /\ todo # <<>> /\ Undoing(Network!CLEANUP)'
           /\ \/ Network!Restore \/ Network!FinalEvidence \/ Network!FinishRecording
              \/ Network!StopDriver \/ Network!StopLogcat \/ Network!RemoveObserver
              \/ Network!StopTestApp \/ Network!RemoveAcks \/ Network!RemoveEvidence
              \/ Network!Raise(Network!CLEANUP) /\ UNCHANGED <<device, mem>>
           /\ failed \subseteq failed' /\ Len(todo') = Len(todo) - 1
  <2>0. new = n - 1
    BY <1>5
  <2> HIDE DEF n, new
  <2> DEFINE Effects ==
        /\ {"wifi", "data", "app", "owned"} \subseteq DOMAIN device'
        /\ {"initial", "changed", "android_pid", "recording", "phase_index"}
             \subseteq DOMAIN mem'
        /\ mem'.changed = mem.changed /\ mem'.initial = mem.initial
        /\ mem'.android_pid = mem.android_pid /\ mem'.phase_index = mem.phase_index
        /\ device'.owned \subseteq device.owned
        /\ device'.app # 0 => device.app # 0
        /\ "recorder" \in device'.owned => mem'.recording \/ "finish-recording" \in failed'
        /\ n # 9 => Network!Radios(device') = Network!Radios(device)
        /\ n = 9 => \/ ~mem.changed
                     \/ Network!Radios(device') = mem.initial
                     \/ "restore" \in failed'
        /\ n = 7 => "recorder" \notin device'.owned \/ "finish-recording" \in failed'
        /\ n = 6 => "driver" \notin device'.owned \/ "stop-driver" \in failed'
        /\ n = 5 => "logcat" \notin device'.owned \/ "stop-logcat" \in failed'
        /\ n = 4 => "observer" \notin device'.owned \/ "remove-observer" \in failed'
        /\ n = 3 => ~(mem.android_pid # 0 /\ device'.app # 0) \/ "stop-app" \in failed'
        /\ n = 2 => "ack" \notin device'.owned \/ "remove-acks" \in failed'
        /\ n = 1 => "evidence" \notin device'.owned \/ "remove-evidence" \in failed'
  <2>1. Effects
    <3>1. CASE Network!Restore
      <4>1. n = 9 /\ mem' = [mem EXCEPT !.unready = FALSE]
        BY <1>2, <3>1 DEF Network!Restore, Network!Now
      <4>2. CASE ~mem.changed
        <5>1. device' = device
          BY <3>1, <4>2 DEF Network!Restore
        <5>2. QED
          BY <1>1, <1>5, <4>1, <4>2, <5>1
      <4>3. CASE mem.changed
        <5>1. PICK raised \in BOOLEAN : /\ Network!Apply(mem.initial, raised)
                                        /\ Network!Proceed(raised \/ mem.unready)
          BY <3>1, <4>3 DEF Network!Restore
        <5>2. PICK actual \in Network!Applied(mem.initial) :
                /\ device' = [device EXCEPT !.wifi = actual.wifi, !.data = actual.data]
                /\ actual # mem.initial => raised
          BY <5>1 DEF Network!Apply
        <5>3. /\ {"wifi", "data", "app", "owned"} \subseteq DOMAIN device'
              /\ device'.wifi = actual.wifi /\ device'.data = actual.data
              /\ device'.app = device.app /\ device'.owned = device.owned
          BY <1>1, <5>2
        <5>4. Network!Radios(device') = actual
          BY <5>3 DEF Network!Radios, Network!Applied
        <5>5. raised => "restore" \in failed'
          BY <3>1, <5>1 DEF Network!Proceed, Network!Raise, Network!Restore, Network!Now
        <5>6. QED
          BY <1>1, <1>5, <4>1, <5>2, <5>3, <5>4, <5>5
      <4>4. QED
        BY <4>2, <4>3
    <3>2. CASE Network!FinalEvidence
      <4>1. n = 8 /\ device' = device /\ mem' = mem
        BY <1>2, <3>2 DEF Network!FinalEvidence, Network!Now
      <4>2. QED
        BY <1>1, <1>5, <4>1
    <3>3. CASE Network!FinishRecording
      <4>1. /\ n = 7
            /\ \/ device' = [device EXCEPT !.owned = @ \ {"recorder"}]
               \/ device' = device /\ "finish-recording" \in failed'
               \/ device' = device /\ ~mem.recording
            /\ \/ mem' = mem
               \/ mem' = [mem EXCEPT !.recording = FALSE]
               \/ mem' = [mem EXCEPT !.recording = FALSE, !.verified = @ + 1]
        BY <1>2, <3>3 DEF Network!FinishRecording, Network!Now, Network!Drop, Network!Raise
      <4>2. /\ {"wifi", "data", "app", "owned"} \subseteq DOMAIN device'
            /\ device'.wifi = device.wifi /\ device'.data = device.data
            /\ device'.app = device.app
        BY <1>1, <4>1
      <4>3. \/ device'.owned = device.owned \ {"recorder"}
            \/ /\ device'.owned = device.owned
               /\ "finish-recording" \in failed' \/ ~mem.recording
        BY <1>1, <4>1
      <4>4. /\ {"initial", "changed", "android_pid", "recording", "phase_index"}
                 \subseteq DOMAIN mem'
            /\ mem'.changed = mem.changed /\ mem'.initial = mem.initial
            /\ mem'.android_pid = mem.android_pid /\ mem'.phase_index = mem.phase_index
        BY <1>1, <4>1
      <4>5. "recorder" \in device'.owned => "finish-recording" \in failed'
        BY <1>1, <1>5, <4>3
      <4>6. QED
        BY <1>1, <4>1, <4>2, <4>3, <4>4, <4>5 DEF Network!Radios
    <3>4. CASE Network!StopDriver
      <4>1. n = 6 /\ mem' = mem /\ device' = [device EXCEPT !.owned = @ \ {"driver"}, !.driver = "none"]
        BY <1>2, <3>4 DEF Network!StopDriver, Network!Now, Network!Drop
      <4>2. /\ {"wifi", "data", "app", "owned"} \subseteq DOMAIN device'
            /\ device'.wifi = device.wifi /\ device'.data = device.data
            /\ device'.app = device.app /\ device'.owned = device.owned \ {"driver"}
        BY <1>1, <4>1
      <4>3. QED
        BY <1>1, <1>5, <4>1, <4>2 DEF Network!Radios
    <3>5. CASE Network!StopLogcat
      <4>1. n = 5 /\ mem' = mem /\ device' = [device EXCEPT !.owned = @ \ {"logcat"}]
        BY <1>2, <3>5 DEF Network!StopLogcat, Network!Now, Network!Drop
      <4>2. /\ {"wifi", "data", "app", "owned"} \subseteq DOMAIN device'
            /\ device'.wifi = device.wifi /\ device'.data = device.data
            /\ device'.app = device.app /\ device'.owned = device.owned \ {"logcat"}
        BY <1>1, <4>1
      <4>3. QED
        BY <1>1, <1>5, <4>1, <4>2 DEF Network!Radios
    <3>6. CASE Network!RemoveObserver
      <4>1. /\ n = 4 /\ mem' = mem
            /\ \/ device' = [device EXCEPT !.owned = @ \ {"observer"}]
               \/ device' = device /\ "remove-observer" \in failed'
        BY <1>2, <3>6 DEF Network!RemoveObserver, Network!Now, Network!ReturnUnheeded, Network!Drop
      <4>2. /\ {"wifi", "data", "app", "owned"} \subseteq DOMAIN device'
            /\ device'.wifi = device.wifi /\ device'.data = device.data
            /\ device'.app = device.app
        BY <1>1, <4>1
      <4>3. \/ device'.owned = device.owned \ {"observer"}
            \/ device'.owned = device.owned /\ "remove-observer" \in failed'
        BY <1>1, <4>1
      <4>4. QED
        BY <1>1, <1>5, <4>1, <4>2, <4>3 DEF Network!Radios
    <3>7. CASE Network!RemoveAcks
      <4>1. n = 2 /\ mem' = mem /\ device' = [device EXCEPT !.owned = @ \ {"ack"}]
        BY <1>2, <3>7 DEF Network!RemoveAcks, Network!Now, Network!Drop
      <4>2. /\ {"wifi", "data", "app", "owned"} \subseteq DOMAIN device'
            /\ device'.wifi = device.wifi /\ device'.data = device.data
            /\ device'.app = device.app /\ device'.owned = device.owned \ {"ack"}
        BY <1>1, <4>1
      <4>3. QED
        BY <1>1, <1>5, <4>1, <4>2 DEF Network!Radios
    <3>8. CASE Network!RemoveEvidence
      <4>1. /\ n = 1 /\ mem' = mem
            /\ \/ device' = [device EXCEPT !.owned = @ \ {"evidence"}]
               \/ device' = device /\ "remove-evidence" \in failed'
        BY <1>2, <3>8 DEF Network!RemoveEvidence, Network!Now, Network!ReturnUnheeded, Network!Drop
      <4>2. /\ {"wifi", "data", "app", "owned"} \subseteq DOMAIN device'
            /\ device'.wifi = device.wifi /\ device'.data = device.data
            /\ device'.app = device.app
        BY <1>1, <4>1
      <4>3. \/ device'.owned = device.owned \ {"evidence"}
            \/ device'.owned = device.owned /\ "remove-evidence" \in failed'
        BY <1>1, <4>1
      <4>4. QED
        BY <1>1, <1>5, <4>1, <4>2, <4>3 DEF Network!Radios
    <3>9. CASE Network!StopTestApp
      <4>1. /\ n = 3 /\ mem' = mem
            /\ device' = [device EXCEPT !.app = IF @ = mem.android_pid THEN 0 ELSE @]
            /\ mem.android_pid = 0 \/ device.app \in {0, mem.android_pid} \/ "stop-app" \in failed'
        BY <1>2, <3>9 DEF Network!StopTestApp, Network!Now, Network!Require, Network!Raise
      <4>2. /\ {"wifi", "data", "app", "owned"} \subseteq DOMAIN device'
            /\ device'.wifi = device.wifi /\ device'.data = device.data
            /\ device'.owned = device.owned
            /\ device'.app = IF device.app = mem.android_pid THEN 0 ELSE device.app
        BY <1>1, <4>1
      <4>3. QED
        BY <1>1, <1>5, <4>1, <4>2 DEF Network!Radios
    <3>10. CASE Network!Raise(Network!CLEANUP) /\ UNCHANGED <<device, mem>>
      <4>1. device' = device /\ mem' = mem /\ Head(todo) \in failed'
        BY <3>10 DEF Network!Raise
      <4>2. /\ n = 9 => "restore" \in failed'
            /\ n = 7 => "finish-recording" \in failed'
            /\ n = 6 => "stop-driver" \in failed'
            /\ n = 5 => "stop-logcat" \in failed'
            /\ n = 4 => "remove-observer" \in failed'
            /\ n = 3 => "stop-app" \in failed'
            /\ n = 2 => "remove-acks" \in failed'
            /\ n = 1 => "remove-evidence" \in failed'
        BY <1>2, <1>5, <4>1
      <4>3. QED
        BY <1>1, <1>5, <4>1, <4>2
    <3>11. QED
      BY <1>5, <3>1, <3>2, <3>3, <3>4, <3>5, <3>6, <3>7, <3>8, <3>9, <3>10
  <2>2. n \in 1..9
    BY <1>2, <1>5
  <2>3. mem'.changed /\ Network!Radios(device') # mem'.initial =>
          new >= 9 \/ "restore" \in failed'
    BY <1>1, <1>5, <2>0, <2>1, <2>2
  <2>4. "recorder" \in device'.owned =>
          new >= 7 \/ "finish-recording" \in failed'
    BY <1>1, <1>5, <2>0, <2>1, <2>2
  <2>5. "driver" \in device'.owned =>
          new >= 6 \/ "stop-driver" \in failed'
    BY <1>1, <1>5, <2>0, <2>1, <2>2
  <2>6. "logcat" \in device'.owned =>
          new >= 5 \/ "stop-logcat" \in failed'
    BY <1>1, <1>5, <2>0, <2>1, <2>2
  <2>7. "observer" \in device'.owned =>
          new >= 4 \/ "remove-observer" \in failed'
    BY <1>1, <1>5, <2>0, <2>1, <2>2
  <2>8. mem'.android_pid # 0 /\ device'.app # 0 =>
          new >= 3 \/ "stop-app" \in failed'
    BY <1>1, <1>5, <2>0, <2>1, <2>2
  <2>9. "ack" \in device'.owned =>
          new >= 2 \/ "remove-acks" \in failed'
    BY <1>1, <1>5, <2>0, <2>1, <2>2
  <2>10. "evidence" \in device'.owned =>
          new >= 1 \/ "remove-evidence" \in failed'
    BY <1>1, <1>5, <2>0, <2>1, <2>2
  <2>11. QED
    BY <1>1, <1>5, <2>1, <2>3, <2>4, <2>5, <2>6, <2>7, <2>8, <2>9, <2>10
    DEF NetworkUndone, new, Network!Radios
<1>6. QED
  BY <1>3, <1>4, <1>5, NetworkCleaningControl

LEMMA NetworkDone ==
  ASSUME mode = "done"
  PROVE  ~Network!Runner /\ ~Network!Signal
BY DEF Network!Runner, Network!Signal,
   Network!CaptureInitial, Network!Prepare, Network!StartProcesses,
   Network!ObserveCheckpoint, Network!LoopEnds, Network!Validate, Network!Capture,
   Network!ConfirmAnr, Network!TapAnr, Network!FinalEvidence, Network!Disable,
   Network!RestoreWifiFirst, Network!Restore, Network!RequireOff,
   Network!StartRecording, Network!FinishRecording, Network!Ack, Network!ProveBytes,
   Network!ProveAgain, Network!ReleaseCap, Network!StopDriver, Network!StopLogcat,
   Network!RemoveObserver, Network!StopTestApp, Network!RemoveAcks,
   Network!RemoveEvidence, Network!Fails, Network!Now, Network!EnterFinally,
   Network!Report, Network!Running

LEMMA NetworkUndoneStep ==
  ASSUME NetworkUndone, Network!Next
  PROVE  NetworkUndone'
<1>1. CASE Network!Environment /\ ~Network!Signal
  BY <1>1, NetworkOthers
<1>2. CASE Network!Runner \/ Network!Signal
  <2>1. CASE mode = "run"
    <3>1. CASE mode' = "run"
      BY <1>2, <2>1, <3>1, NetworkRunning, NetworkKnows DEF NetworkUndone
    <3>2. CASE mode' = "cleanup" /\ todo' = Network!CLEANUP
      <4>1. Undoing(Network!CLEANUP)' /\ Len(todo') = 9
        BY <3>2, NetworkCleanup, UndoingStarts
      <4>2. QED
        BY <1>2, <2>1, <3>2, <4>1, NetworkRunning, NetworkKnows DEF NetworkUndone
    <3>3. QED
      BY <1>2, <2>1, <3>1, <3>2, NetworkControl
  <2>2. CASE mode = "cleanup"
    BY <1>2, <2>2, NetworkCleaning
  <2>3. CASE mode = "done"
    BY <1>2, <2>3, NetworkDone
  <2>4. QED
    BY <2>1, <2>2, <2>3 DEF NetworkUndone
<1>3. QED
  BY <1>1, <1>2 DEF Network!Next, Network!Environment

LEMMA NetworkRestored ==
  ASSUME NetworkUndone, Done
  PROVE  Network!Restored
<1> DEFINE n == Len(todo)
           Pending == Network!Range(todo)
<1>1. mode = "done"
  BY DEF Done
<1>2. \A k \in 1..9 : n >= k => Network!CLEANUP[9 - k + 1] \in Pending
  BY <1>1, NetworkCleanup, UndoingPending DEF NetworkUndone
<1>3. /\ 9 - 9 + 1 = 1
      /\ 9 - 7 + 1 = 3
      /\ 9 - 6 + 1 = 4
      /\ 9 - 5 + 1 = 5
      /\ 9 - 4 + 1 = 6
      /\ 9 - 3 + 1 = 7
      /\ 9 - 2 + 1 = 8
      /\ 9 - 1 + 1 = 9
  OBVIOUS
<1>4. /\ mem.changed /\ Network!Radios(device) # mem.initial => n >= 9 \/ "restore" \in failed
      /\ "recorder" \in device.owned => n >= 7 \/ "finish-recording" \in failed
      /\ "driver" \in device.owned => n >= 6 \/ "stop-driver" \in failed
      /\ "logcat" \in device.owned => n >= 5 \/ "stop-logcat" \in failed
      /\ "observer" \in device.owned => n >= 4 \/ "remove-observer" \in failed
      /\ mem.android_pid # 0 /\ device.app # 0 => n >= 3 \/ "stop-app" \in failed
      /\ "ack" \in device.owned => n >= 2 \/ "remove-acks" \in failed
      /\ "evidence" \in device.owned => n >= 1 \/ "remove-evidence" \in failed
      /\ "directory" \in device.owned => "prepare" \in failed
      /\ device.owned \subseteq NetworkThings
  BY <1>1 DEF NetworkUndone
<1> HIDE DEF n, Pending
<1>5. /\ n >= 9 => "restore" \in Pending
      /\ n >= 7 => "finish-recording" \in Pending
      /\ n >= 6 => "stop-driver" \in Pending
      /\ n >= 5 => "stop-logcat" \in Pending
      /\ n >= 4 => "remove-observer" \in Pending
      /\ n >= 3 => "stop-app" \in Pending
      /\ n >= 2 => "remove-acks" \in Pending
      /\ n >= 1 => "remove-evidence" \in Pending
  BY <1>2, <1>3, NetworkCleanup
<1>6. QED
  BY <1>4, <1>5 DEF Network!Restored, Network!Cleaner, Network!Missed, NetworkThings, Pending

-----------------------------------------------------------------------------
(* The install runner.                                                     *)

InstallationProgram ==
  <<"prepare", "storage", "uninstall", "install", "start-recorder", "launch",
    "wait", "metadata", "log", "stable", "look-again", "finish-recorder">>

(* What may follow the first launch, the dialog aside.                     *)
InstallationLater ==
  {"launch", "relaunch", "wait", "look", "metadata", "log", "stable", "look-again",
   "finish-recorder"}

(* Before the first launch the program is followed to the letter; later,   *)
(* what is to be done about a dialog comes first, and only if nothing was  *)
(* done about one before.                                                  *)
InstallationBefore == Undoing(InstallationProgram) /\ Len(todo) >= 7

InstallationDialog ==
  \E rest \in Seq(InstallationLater) :
    \/ todo = <<"recover">> \o rest
    \/ todo = <<"confirm", "tap">> \o rest
    \/ todo = <<"tap">> \o rest

InstallationTaps ==
  /\ "taps" \in DOMAIN seen
  /\ {"attempts", "recovered", "finish_attempted"} \subseteq DOMAIN mem
  /\ mem.attempts \in Nat
  /\ seen.taps = 0 \/ (seen.taps = 1 /\ mem.recovered)
  /\ mode \in {"run", "cleanup", "done"}
  /\ mode = "run" =>
       \/ /\ mem.attempts = 0 /\ ~mem.recovered /\ ~mem.finish_attempted
          /\ InstallationBefore
       \/ mem.attempts > 0 /\ todo \in Seq(InstallationLater)
       \/ mem.attempts > 0 /\ ~mem.recovered /\ InstallationDialog
  /\ mode # "run" => Undoing(Installation!CLEANUP)
  /\ mode = "done" => todo = <<>>

InstallationUndone ==
  /\ {"owned", "app"} \subseteq DOMAIN device
  /\ {"authorized", "remote_root_created", "remote_files", "process"} \subseteq DOMAIN mem
  /\ device.owned \subseteq {"recorder", "recording", "directory"}
  /\ mode = "run" /\ mem.attempts = 0 /\ Len(todo) >= 8 => device.owned \subseteq {"directory"}
  /\ "recorder" \in device.owned =>
       mem.process /\ (mem.finish_attempted => "finish-recorder" \in failed)
  /\ "recording" \in device.owned => "recording" \in mem.remote_files
  /\ "directory" \in device.owned => mem.remote_root_created \/ "storage" \in failed
  /\ mode # "run" =>
       /\ "recorder" \in device.owned => Len(todo) >= 3 \/ "finish-recorder" \in failed
       /\ "recording" \in device.owned =>
            Len(todo) >= 1 \/ {"force-stop", "remove-files"} \cap failed # {}
       /\ "directory" \in device.owned =>
            Len(todo) >= 1 \/ {"storage", "force-stop", "remove-files"} \cap failed # {}
       /\ mem.authorized /\ device.app # 0 => Len(todo) >= 2 \/ "force-stop" \in failed

(* The app is started when the emulator has been found to be the one.      *)
InstallationAuthorized ==
  /\ device.app # 0 => mem.authorized /\ mem.attempts > 0
  /\ mode = "run" /\ (mem.attempts > 0 \/ Len(todo) <= 11) => mem.authorized

LEMMA InstallationCleanup ==
  /\ Installation!CLEANUP \in Seq({"finish-recorder", "force-stop", "remove-files"})
  /\ Len(Installation!CLEANUP) = 3
  /\ Installation!CLEANUP[1] = "finish-recorder"
  /\ Installation!CLEANUP[2] = "force-stop"
  /\ Installation!CLEANUP[3] = "remove-files"
BY DEF Installation!CLEANUP

LEMMA InstallationPlaces ==
  ASSUME Undoing(Installation!CLEANUP)
  PROVE  /\ todo = <<>> => Len(todo) = 0
         /\ todo # <<>> => Len(todo) \in 1..3
         /\ todo # <<>> =>
              \/ Len(todo) = 3 /\ Head(todo) = "finish-recorder"
              \/ Len(todo) = 2 /\ Head(todo) = "force-stop"
              \/ Len(todo) = 1 /\ Head(todo) = "remove-files"
<1> DEFINE n == Len(todo)
<1>0. todo = <<>> => n = 0
  OBVIOUS
<1>1. todo # <<>> => n \in 1..3 /\ Head(todo) = Installation!CLEANUP[3 - n + 1]
  BY InstallationCleanup, UndoingParts
<1>2. todo # <<>> =>
        \/ n = 3
        \/ n = 2
        \/ n = 1
  BY <1>1
<1>3. /\ 3 - 1 + 1 = 3
      /\ 3 - 2 + 1 = 2
      /\ 3 - 3 + 1 = 1
  OBVIOUS
<1> HIDE DEF n
<1>4. todo # <<>> =>
        \/ n = 3 /\ Head(todo) = "finish-recorder"
        \/ n = 2 /\ Head(todo) = "force-stop"
        \/ n = 1 /\ Head(todo) = "remove-files"
  BY <1>1, <1>2, <1>3, InstallationCleanup
<1>5. QED
  BY <1>0, <1>1, <1>4 DEF n

LEMMA InstallationOrder ==
  /\ InstallationProgram \in Seq(InstallationLater \cup
       {"prepare", "storage", "uninstall", "install", "start-recorder"})
  /\ Len(InstallationProgram) = 12
  /\ InstallationProgram[1] = "prepare" /\ InstallationProgram[2] = "storage"
  /\ InstallationProgram[3] = "uninstall" /\ InstallationProgram[4] = "install"
  /\ InstallationProgram[5] = "start-recorder" /\ InstallationProgram[6] = "launch"
  /\ \A i \in 7..12 : InstallationProgram[i] \in InstallationLater
BY DEF InstallationProgram, InstallationLater

LEMMA InstallationInit ==
  ASSUME Installation!Init
  PROVE  InstallationTaps /\ InstallationUndone /\ InstallationAuthorized
<1>1. todo = InstallationProgram /\ mode = "run"
  BY DEF Installation!Init, Installation!Start, InstallationProgram
<1>2. Undoing(InstallationProgram) /\ Len(todo) = 12
  <2>1. Rest(InstallationProgram, 12) = InstallationProgram
    BY InstallationOrder, RestEnds
  <2>2. Len(todo) = 12 /\ 12 \in 0..12
    BY <1>1, InstallationOrder
  <2>3. QED
    BY <1>1, <2>1, <2>2, InstallationOrder DEF Undoing
<1>3. InstallationUndone
  BY <1>1 DEF Installation!Init, InstallationUndone
<1>4. InstallationTaps
  <2>1. /\ "taps" \in DOMAIN seen /\ seen.taps = 0 /\ mem.attempts = 0
        /\ {"attempts", "recovered", "finish_attempted"} \subseteq DOMAIN mem
        /\ ~mem.recovered /\ ~mem.finish_attempted
    BY DEF Installation!Init
  <2>2. InstallationBefore
    BY <1>2 DEF InstallationBefore
  <2>3. QED
    BY <1>1, <2>1, <2>2 DEF InstallationTaps
<1>5. InstallationAuthorized
  <2>1. device.app = 0 /\ mem.attempts = 0
    BY DEF Installation!Init
  <2>2. QED
    BY <1>2, <2>1 DEF InstallationAuthorized
<1>6. QED
  BY <1>3, <1>4, <1>5

(* The operation that runs in the try block, and what is left after it.    *)
LEMMA InstallationHead ==
  ASSUME InstallationTaps, mode = "run", todo # <<>>
  PROVE  \/ /\ mem.attempts = 0 /\ ~mem.recovered /\ ~mem.finish_attempted
            /\ InstallationBefore
            /\ \/ Len(todo) = 12 /\ Head(todo) = "prepare"
               \/ Len(todo) = 11 /\ Head(todo) = "storage"
               \/ Len(todo) = 10 /\ Head(todo) = "uninstall"
               \/ Len(todo) = 9 /\ Head(todo) = "install"
               \/ Len(todo) = 8 /\ Head(todo) = "start-recorder"
               \/ Len(todo) = 7 /\ Head(todo) = "launch" /\ Tail(todo) \in Seq(InstallationLater)
         \/ /\ mem.attempts > 0
            /\ Head(todo) \in InstallationLater /\ Tail(todo) \in Seq(InstallationLater)
         \/ /\ mem.attempts > 0 /\ ~mem.recovered
            /\ Head(todo) \in {"recover", "tap"} /\ Tail(todo) \in Seq(InstallationLater)
         \/ /\ mem.attempts > 0 /\ ~mem.recovered /\ Head(todo) = "confirm"
            /\ \E rest \in Seq(InstallationLater) : Tail(todo) = <<"tap">> \o rest
<1>1. CASE mem.attempts > 0 /\ todo \in Seq(InstallationLater)
  BY <1>1, CallKeeps
<1>2. CASE mem.attempts > 0 /\ ~mem.recovered /\ InstallationDialog
  <2>1. PICK rest \in Seq(InstallationLater) :
          \/ todo = <<"recover">> \o rest
          \/ todo = <<"confirm", "tap">> \o rest
          \/ todo = <<"tap">> \o rest
    BY <1>2 DEF InstallationDialog
  <2>2. CASE todo = <<"recover">> \o rest
    <3>1. Head(todo) = "recover" /\ Tail(todo) = rest
      BY <2>2, PushOne
    <3>2. QED
      BY <1>2, <3>1
  <2>3. CASE todo = <<"tap">> \o rest
    <3>1. Head(todo) = "tap" /\ Tail(todo) = rest
      BY <2>3, PushOne
    <3>2. QED
      BY <1>2, <3>1
  <2>4. CASE todo = <<"confirm", "tap">> \o rest
    <3>1. todo = <<"confirm">> \o (<<"tap">> \o rest)
      BY <2>4, PushTwo
    <3>2. <<"tap">> \o rest \in Seq(InstallationLater \cup {"tap"})
      BY PushOne
    <3>3. Head(todo) = "confirm" /\ Tail(todo) = <<"tap">> \o rest
      BY <3>1, <3>2, PushOne
    <3>4. QED
      BY <1>2, <3>3
  <2>5. QED
    BY <2>1, <2>2, <2>3, <2>4
<1>3. CASE /\ mem.attempts = 0 /\ ~mem.recovered /\ ~mem.finish_attempted
           /\ InstallationBefore
  <2> DEFINE n == Len(todo)
  <2>1. /\ n \in 7..12 /\ Head(todo) = InstallationProgram[12 - n + 1]
        /\ Tail(todo) = Rest(InstallationProgram, n - 1)
    <3>0. todo # <<>> /\ n >= 7
      BY <1>3 DEF InstallationBefore
    <3>1. n \in 1..12
      BY <1>3, <3>0, InstallationOrder, UndoingParts DEF InstallationBefore
    <3>2. Head(todo) = InstallationProgram[12 - n + 1]
      BY <1>3, InstallationOrder, UndoingParts DEF InstallationBefore
    <3>3. todo = Rest(InstallationProgram, n)
      BY <1>3 DEF InstallationBefore, Undoing
    <3>4. Tail(todo) = Rest(InstallationProgram, n - 1)
      BY <3>1, <3>3, InstallationOrder, RestParts
    <3>5. n \in 7..12
      <4> HIDE DEF n
      <4>1. QED
        BY <3>0, <3>1
    <3>6. QED
      BY <3>2, <3>4, <3>5
  <2> HIDE DEF n
  <2>2. \/ n = 12 \/ n = 11 \/ n = 10 \/ n = 9 \/ n = 8 \/ n = 7
    BY <2>1
  <2>3. /\ 12 - 12 + 1 = 1
        /\ 12 - 11 + 1 = 2
        /\ 12 - 10 + 1 = 3
        /\ 12 - 9 + 1 = 4
        /\ 12 - 8 + 1 = 5
        /\ 12 - 7 + 1 = 6
    OBVIOUS
  <2>4. Rest(InstallationProgram, 6) \in Seq(InstallationLater)
    <3>1. Len(InstallationProgram) = 12 /\ 12 - 6 + 1 = 7
      BY InstallationOrder
    <3>2. Rest(InstallationProgram, 6) = SubSeq(InstallationProgram, 7, 12)
      BY <3>1 DEF Rest
    <3>3. SubSeq(InstallationProgram, 7, 12) \in Seq(InstallationLater)
      <4> DEFINE p == InstallationProgram
                 A == InstallationLater
      <4>1. \E T : p \in Seq(T) /\ Len(p) = 12
        BY InstallationOrder
      <4>2. \A i \in 7..12 : p[i] \in A
        BY InstallationOrder
      <4> HIDE DEF p, A
      <4>3. /\ DOMAIN SubSeq(p, 7, 12) = 1..6 /\ SubSeq(p, 7, 12) = [i \in 1..6 |-> p[i + 6]]
        BY <4>1
      <4>4. \A i \in 1..6 : i + 6 \in 7..12
        OBVIOUS
      <4>5. [i \in 1..6 |-> p[i + 6]] \in [1..6 -> A]
        BY <4>2, <4>4
      <4>6. QED
        BY <4>3, <4>5, SeqDef DEF p, A
    <3>4. QED
      BY <3>2, <3>3
  <2>5. n = 7 => Tail(todo) \in Seq(InstallationLater)
    <3>1. 7 - 1 = 6
      OBVIOUS
    <3>2. QED
      BY <2>1, <2>4, <3>1
  <2>6. QED
    BY <1>3, <2>1, <2>2, <2>3, <2>5, InstallationOrder DEF n
<1>4. QED
  BY <1>1, <1>2, <1>3 DEF InstallationTaps

(* The try block never reaches what only the clean-up does.                *)
LEMMA InstallationOnlyTries ==
  ASSUME InstallationTaps, mode = "run"
  PROVE  ~Installation!ForceStop /\ ~Installation!RemoveFiles /\ ~Installation!Report
BY InstallationHead DEF Installation!ForceStop, Installation!RemoveFiles, Installation!Report,
   Installation!Now, InstallationLater

LEMMA InstallationDone ==
  ASSUME Installation!Runner
  PROVE  mode # "done"
BY DEF Installation!Runner,
   Installation!PrepareDevice, Installation!PrepareStorage, Installation!Uninstall,
   Installation!Install, Installation!StartRecorder, Installation!FinishRecorder,
   Installation!AmStart, Installation!Relaunch, Installation!Recover,
   Installation!Confirm, Installation!Tap, Installation!ReadPid, Installation!Look,
   Installation!CheckLog, Installation!CheckStable, Installation!LookAgain,
   Installation!Check, Installation!Fails, Installation!ForceStop,
   Installation!RemoveFiles,
   Installation!Running, Installation!Now, Installation!EnterFinally, Installation!Report

(* Everything but the runner leaves it alone, and adds nothing to undo.    *)
LEMMA InstallationOthers ==
  ASSUME InstallationTaps, InstallationUndone, Installation!Expire \/ Installation!Environment
  PROVE  InstallationTaps' /\ InstallationUndone'
<1>1. /\ UNCHANGED <<todo, mode, failed, mem, seen>>
  BY DEF Installation!Expire, Installation!Environment, Installation!ShowOnboarding,
     Installation!SetupAnr, Installation!AppDies, Installation!control
<1>2. InstallationTaps'
  BY <1>1 DEF InstallationTaps, InstallationBefore, InstallationDialog, Undoing, Rest
<1>3. /\ {"owned", "app"} \subseteq DOMAIN device' /\ device'.owned = device.owned
      /\ device'.app = device.app \/ mode = "run"
  BY DEF Installation!Expire, Installation!Environment, Installation!ShowOnboarding,
     Installation!SetupAnr, Installation!AppDies, Installation!Running, InstallationUndone
<1>4. InstallationUndone'
  BY <1>1, <1>3 DEF InstallationUndone
<1>5. QED
  BY <1>2, <1>4

LEMMA InstallationWorks ==
  ASSUME InstallationTaps, Installation!Runner, mode = "run"
  PROVE  InstallationTaps'
<1> DEFINE Goal == InstallationTaps'
           Later == Seq(InstallationLater)
           before == /\ mem.attempts = 0 /\ ~mem.recovered /\ ~mem.finish_attempted
                     /\ InstallationBefore /\ Len(todo) >= 8
           Kept == /\ "taps" \in DOMAIN seen' /\ seen'.taps = seen.taps
                   /\ {"attempts", "recovered", "finish_attempted"} \subseteq DOMAIN mem'
                   /\ mem'.attempts = mem.attempts /\ mem'.recovered = mem.recovered
<1>1. todo # <<>> =>
      \/ /\ before
         /\ Head(todo) \in {"prepare", "storage", "uninstall", "install", "start-recorder"}
      \/ /\ mem.attempts = 0 /\ ~mem.recovered
         /\ Head(todo) = "launch" /\ Tail(todo) \in Later
      \/ /\ mem.attempts > 0
         /\ Head(todo) \in InstallationLater /\ Tail(todo) \in Later
      \/ /\ mem.attempts > 0 /\ ~mem.recovered
         /\ Head(todo) \in {"recover", "tap"} /\ Tail(todo) \in Later
      \/ /\ mem.attempts > 0 /\ ~mem.recovered /\ Head(todo) = "confirm"
         /\ \E rest \in Later : Tail(todo) = <<"tap">> \o rest
  <2>1. 12 >= 8 /\ 11 >= 8 /\ 10 >= 8 /\ 9 >= 8 /\ 8 >= 8
    OBVIOUS
  <2>2. QED
    BY <2>1, InstallationHead
<1>2. /\ "taps" \in DOMAIN seen /\ mem.attempts \in Nat
      /\ {"attempts", "recovered", "finish_attempted"} \subseteq DOMAIN mem
      /\ seen.taps = 0 \/ (seen.taps = 1 /\ mem.recovered)
  BY DEF InstallationTaps
<1>3. ASSUME Kept, mode' = "cleanup", todo' = Installation!CLEANUP
      PROVE  Goal
  <2>1. Undoing(Installation!CLEANUP)'
    BY <1>3, InstallationCleanup, UndoingStarts
  <2>2. QED
    BY <1>2, <1>3, <2>1 DEF InstallationTaps
<1>4. ASSUME Kept, Installation!Raise(Installation!CLEANUP)
      PROVE  Goal
  BY <1>3, <1>4 DEF Installation!Raise, Installation!Running
<1>5. ASSUME Kept, mode' = "run", mem.attempts > 0, todo' \in Later
      PROVE  Goal
  BY <1>2, <1>5 DEF InstallationTaps
<1>6. ASSUME Kept, mode' = "run", mem.attempts > 0, ~mem.recovered, NEW rest \in Later,
             \/ todo' = <<"recover">> \o rest
             \/ todo' = <<"confirm", "tap">> \o rest
             \/ todo' = <<"tap">> \o rest
      PROVE  Goal
  BY <1>2, <1>6 DEF InstallationTaps, InstallationDialog
<1>7. ASSUME Kept, before, todo # <<>>, mem'.finish_attempted = mem.finish_attempted,
             Installation!Return
      PROVE  Goal
  <2>1. todo' = <<>> \o Tail(todo) /\ mode' = "run"
    BY <1>7 DEF Installation!Return, Installation!Call
  <2>2. Undoing(InstallationProgram)' /\ Len(todo') = Len(todo) - 1 /\ Len(todo) \in Nat
    <3>1. Undoing(InstallationProgram)
      BY <1>7 DEF InstallationBefore
    <3>2. Len(todo) \in Nat
      BY <3>1, InstallationOrder DEF Undoing
    <3>3. QED
      BY <1>7, <2>1, <3>1, <3>2, InstallationOrder, UndoingNext
  <2>3. Len(todo') >= 7
    BY <1>7, <2>2
  <2>4. QED
    BY <1>2, <1>7, <2>1, <2>2, <2>3 DEF InstallationTaps, InstallationBefore
<1>8. ASSUME Kept, todo # <<>>, Installation!Return, mem.attempts > 0, Tail(todo) \in Later
      PROVE  Goal
  <2>1. todo' = <<>> \o Tail(todo) /\ mode' = "run"
    BY <1>8 DEF Installation!Return, Installation!Call
  <2>2. todo' \in Later
    BY <1>8, <2>1
  <2>3. QED
    BY <1>5, <1>8, <2>1, <2>2
<1>9. ASSUME NEW ops, ops \in Later, Tail(todo) \in Later
      PROVE  ops \o Tail(todo) \in Later
  BY <1>9
<1> SUFFICES Goal
  BY DEF Goal
<1>10. UNCHANGED <<mem, seen>> => Kept
  BY <1>2
<1>11. ASSUME NEW op, todo # <<>>, Head(todo) = op, NEW condition, Kept,
              op \in {"metadata", "log", "stable", "look-again"},
              Installation!Require(condition, Installation!CLEANUP)
       PROVE  Goal
  <2>1. mem.attempts > 0 /\ Tail(todo) \in Later
    BY <1>1, <1>11 DEF InstallationLater
  <2>2. QED
    BY <1>4, <1>8, <1>11, <2>1 DEF Installation!Require
<1> HIDE DEF Goal
<1>20. CASE Installation!PrepareDevice
  <2>1. todo # <<>> /\ Head(todo) = "prepare"
    BY <1>20 DEF Installation!PrepareDevice, Installation!Now
  <2>2. Kept /\ mem'.finish_attempted = mem.finish_attempted
    BY <1>2, <1>20 DEF Installation!PrepareDevice
  <2>3. before
    BY <1>1, <2>1 DEF InstallationLater
  <2>4. Installation!Return \/ Installation!Raise(Installation!CLEANUP)
    BY <1>20 DEF Installation!PrepareDevice, Installation!Require, Installation!ReturnOrFail
  <2>5. QED
    BY <1>4, <1>7, <2>1, <2>2, <2>3, <2>4
<1>21. CASE Installation!PrepareStorage
  <2>1. todo # <<>> /\ Head(todo) = "storage"
    BY <1>21 DEF Installation!PrepareStorage, Installation!Now
  <2>2. Kept /\ mem'.finish_attempted = mem.finish_attempted
    BY <1>2, <1>21 DEF Installation!PrepareStorage
  <2>3. before
    BY <1>1, <2>1 DEF InstallationLater
  <2>4. Installation!Return \/ Installation!Raise(Installation!CLEANUP)
    BY <1>21 DEF Installation!PrepareStorage, Installation!Require, Installation!ReturnOrFail
  <2>5. QED
    BY <1>4, <1>7, <2>1, <2>2, <2>3, <2>4
<1>22. CASE Installation!Uninstall
  <2>1. todo # <<>> /\ Head(todo) = "uninstall"
    BY <1>22 DEF Installation!Uninstall, Installation!Now
  <2>2. Kept /\ mem'.finish_attempted = mem.finish_attempted
    BY <1>2, <1>22 DEF Installation!Uninstall
  <2>3. before
    BY <1>1, <2>1 DEF InstallationLater
  <2>4. Installation!Return \/ Installation!Raise(Installation!CLEANUP)
    BY <1>22 DEF Installation!Uninstall, Installation!Require, Installation!ReturnOrFail
  <2>5. QED
    BY <1>4, <1>7, <2>1, <2>2, <2>3, <2>4
<1>23. CASE Installation!Install
  <2>1. todo # <<>> /\ Head(todo) = "install"
    BY <1>23 DEF Installation!Install, Installation!Now
  <2>2. Kept /\ mem'.finish_attempted = mem.finish_attempted
    BY <1>2, <1>23 DEF Installation!Install
  <2>3. before
    BY <1>1, <2>1 DEF InstallationLater
  <2>4. Installation!Return \/ Installation!Raise(Installation!CLEANUP)
    BY <1>23 DEF Installation!Install, Installation!Require, Installation!ReturnOrFail
  <2>5. QED
    BY <1>4, <1>7, <2>1, <2>2, <2>3, <2>4
<1>24. CASE Installation!StartRecorder
  <2>1. todo # <<>> /\ Head(todo) = "start-recorder"
    BY <1>24 DEF Installation!StartRecorder, Installation!Now
  <2>2. Kept /\ mem'.finish_attempted = mem.finish_attempted
    BY <1>2, <1>24 DEF Installation!StartRecorder
  <2>3. before
    BY <1>1, <2>1 DEF InstallationLater
  <2>4. Installation!Return \/ Installation!Raise(Installation!CLEANUP)
    BY <1>24 DEF Installation!StartRecorder, Installation!Require, Installation!ReturnOrFail
  <2>5. QED
    BY <1>4, <1>7, <2>1, <2>2, <2>3, <2>4
<1>25. CASE Installation!FinishRecorder
  <2>1. todo # <<>> /\ Head(todo) = "finish-recorder"
    BY <1>25 DEF Installation!FinishRecorder, Installation!Now
  <2>2. Kept
    BY <1>2, <1>25 DEF Installation!FinishRecorder
  <2>3. mem.attempts > 0 /\ Tail(todo) \in Later
    BY <1>1, <2>1 DEF InstallationLater
  <2>4. Installation!Return \/ Installation!Raise(Installation!CLEANUP)
    BY <1>25 DEF Installation!FinishRecorder
  <2>5. QED
    BY <1>4, <1>8, <2>1, <2>2, <2>3, <2>4
<1>26. CASE Installation!AmStart
  <2>1. todo # <<>> /\ Head(todo) = "launch" /\ mode' = "run" /\ seen' = seen
    BY <1>26 DEF Installation!AmStart, Installation!Now
  <2>2. \/ todo' = <<>> \o Tail(todo)
        \/ todo' = <<"relaunch">> \o Tail(todo)
        \/ todo' = <<"recover", "relaunch">> \o Tail(todo) /\ mem.attempts = 0
    BY <1>26 DEF Installation!AmStart
  <2>3. /\ {"attempts", "recovered", "finish_attempted"} \subseteq DOMAIN mem'
        /\ mem'.attempts = mem.attempts + 1 /\ mem'.recovered = mem.recovered
    BY <1>2, <1>26 DEF Installation!AmStart
  <2>4. mem'.attempts \in Nat /\ mem'.attempts > 0
    BY <1>2, <2>3
  <2>5. Tail(todo) \in Later /\ (mem.attempts = 0 => ~mem.recovered)
    BY <1>1, <1>2, <2>1
  <2>6. <<>> \in Later /\ <<"relaunch">> \in Later
    BY DEF InstallationLater
  <2>7. CASE todo' = <<>> \o Tail(todo) \/ todo' = <<"relaunch">> \o Tail(todo)
    <3>1. todo' \in Later
      BY <1>9, <2>5, <2>6, <2>7
    <3>2. QED
      BY <1>2, <2>1, <2>3, <2>4, <3>1 DEF InstallationTaps, Goal
  <2>8. CASE todo' = <<"recover", "relaunch">> \o Tail(todo) /\ mem.attempts = 0
    <3>1. <<"relaunch">> \o Tail(todo) \in Later
      BY <1>9, <2>5, <2>6
    <3>2. todo' = <<"recover">> \o (<<"relaunch">> \o Tail(todo))
      BY <2>5, <2>8, PushTwo
    <3>3. InstallationDialog'
      BY <3>1, <3>2 DEF InstallationDialog
    <3>4. QED
      BY <1>2, <2>1, <2>3, <2>4, <2>5, <2>8, <3>3 DEF InstallationTaps, Goal
  <2>9. QED
    BY <2>2, <2>7, <2>8
<1>27. CASE Installation!Relaunch
  <2>1. todo # <<>> /\ Head(todo) = "relaunch" /\ Kept
    BY <1>10, <1>27 DEF Installation!Relaunch, Installation!Now, Installation!Unchanged
  <2>2. mem.attempts > 0 /\ Tail(todo) \in Later
    BY <1>1, <2>1 DEF InstallationLater
  <2>3. \/ Installation!Call(<<"launch">>)
        \/ Installation!Return
        \/ Installation!Raise(Installation!CLEANUP)
    BY <1>27 DEF Installation!Relaunch, Installation!Require
  <2>4. ASSUME Installation!Call(<<"launch">>)
        PROVE  Goal
    <3>1. mode' = "run" /\ todo' = <<"launch">> \o Tail(todo)
      BY <2>4 DEF Installation!Call
    <3>2. <<"launch">> \in Later
      BY DEF InstallationLater
    <3>3. todo' \in Later
      BY <1>9, <2>2, <3>1, <3>2
    <3>4. QED
      BY <1>5, <2>1, <2>2, <3>1, <3>3
  <2>5. QED
    BY <1>4, <1>8, <2>1, <2>2, <2>3, <2>4
<1>28. CASE Installation!Recover
  <2>1. todo # <<>> /\ Head(todo) = "recover" /\ Kept
    BY <1>10, <1>28 DEF Installation!Recover, Installation!Now, Installation!Unchanged
  <2>2. mem.attempts > 0 /\ ~mem.recovered /\ Tail(todo) \in Later
    BY <1>1, <2>1 DEF InstallationLater
  <2>3. /\ mode' = "run"
        /\ \/ todo' = <<"confirm", "tap">> \o Tail(todo)
           \/ todo' = <<>> \o Tail(todo)
    BY <1>28 DEF Installation!Recover, Installation!Call
  <2>4. <<>> \o Tail(todo) \in Later
    BY <2>2
  <2>5. QED
    BY <1>5, <1>6, <2>1, <2>2, <2>3, <2>4
<1>29. CASE Installation!Confirm
  <2>1. todo # <<>> /\ Head(todo) = "confirm" /\ Kept
    BY <1>10, <1>29 DEF Installation!Confirm, Installation!Check, Installation!Now,
       Installation!Unchanged
  <2>2. mem.attempts > 0 /\ ~mem.recovered
    BY <1>1, <2>1 DEF InstallationLater
  <2>3. PICK rest \in Later : Tail(todo) = <<"tap">> \o rest
    BY <1>1, <2>1 DEF InstallationLater
  <2>4. Installation!Return \/ Installation!Raise(Installation!CLEANUP)
    BY <1>29 DEF Installation!Confirm, Installation!Check, Installation!Require
  <2>5. Installation!Return => mode' = "run" /\ todo' = <<"tap">> \o rest
    <3>1. <<"tap">> \o rest \in Seq(InstallationLater \cup {"tap"})
      BY PushOne
    <3>2. <<>> \o (<<"tap">> \o rest) = <<"tap">> \o rest
      BY <3>1
    <3>3. QED
      BY <2>3, <3>2 DEF Installation!Return, Installation!Call
  <2>6. QED
    BY <1>4, <1>6, <2>1, <2>2, <2>4, <2>5
<1>30. CASE Installation!Tap
  <2>1. todo # <<>> /\ Head(todo) = "tap" /\ mode' = "run" /\ todo' = Tail(todo)
    BY <1>30 DEF Installation!Tap, Installation!Now
  <2>2. mem.attempts > 0 /\ ~mem.recovered /\ Tail(todo) \in Later
    BY <1>1, <2>1 DEF InstallationLater
  <2>3. seen' = [seen EXCEPT !.taps = @ + 1] /\ "taps" \in DOMAIN seen' /\ seen'.taps = seen.taps + 1
    BY <1>2, <1>30 DEF Installation!Tap
  <2>4. /\ {"attempts", "recovered", "finish_attempted"} \subseteq DOMAIN mem'
        /\ mem'.attempts = mem.attempts /\ mem'.recovered
    BY <1>2, <1>30 DEF Installation!Tap
  <2>5. seen'.taps = 1
    BY <1>2, <2>2, <2>3
  <2>6. QED
    BY <1>2, <2>1, <2>2, <2>3, <2>4, <2>5 DEF InstallationTaps, Goal
<1>31. CASE Installation!ReadPid
  <2>1. todo # <<>> /\ Head(todo) = "wait" /\ Kept
    BY <1>2, <1>31 DEF Installation!ReadPid, Installation!Now
  <2>2. mem.attempts > 0 /\ Tail(todo) \in Later
    BY <1>1, <2>1 DEF InstallationLater
  <2>3. Installation!Raise(Installation!CLEANUP) \/ Installation!Call(<<"look">>)
    BY <1>31 DEF Installation!ReadPid
  <2>4. ASSUME Installation!Call(<<"look">>)
        PROVE  Goal
    <3>1. mode' = "run" /\ todo' = <<"look">> \o Tail(todo)
      BY <2>4 DEF Installation!Call
    <3>2. <<"look">> \in Later
      BY DEF InstallationLater
    <3>3. todo' \in Later
      BY <1>9, <2>2, <3>1, <3>2
    <3>4. QED
      BY <1>5, <2>1, <2>2, <3>1, <3>3
  <2>5. QED
    BY <1>4, <2>1, <2>3, <2>4
<1>32. CASE Installation!Look
  <2>1. todo # <<>> /\ Head(todo) = "look" /\ Kept
    BY <1>2, <1>32 DEF Installation!Look, Installation!Now
  <2>2. mem.attempts > 0 /\ Tail(todo) \in Later
    BY <1>1, <2>1 DEF InstallationLater
  <2>3. \/ Installation!Raise(Installation!CLEANUP)
        \/ Installation!Call(<<"confirm", "tap", "wait">>) /\ ~mem.recovered
        \/ Installation!Return
        \/ Installation!Call(<<"wait">>)
    BY <1>32 DEF Installation!Look
  <2>4. <<"wait">> \in Later
    BY DEF InstallationLater
  <2>5. <<"wait">> \o Tail(todo) \in Later
    BY <1>9, <2>2, <2>4
  <2>6. ASSUME Installation!Call(<<"wait">>)
        PROVE  Goal
    <3>1. mode' = "run" /\ todo' = <<"wait">> \o Tail(todo)
      BY <2>6 DEF Installation!Call
    <3>2. QED
      BY <1>5, <2>1, <2>2, <2>5, <3>1
  <2>7. ASSUME Installation!Call(<<"confirm", "tap", "wait">>), ~mem.recovered
        PROVE  Goal
    <3>1. mode' = "run" /\ todo' = <<"confirm", "tap", "wait">> \o Tail(todo)
      BY <2>7 DEF Installation!Call
    <3>2. <<"confirm", "tap", "wait">> \o Tail(todo) = <<"confirm", "tap">> \o (<<"wait">> \o Tail(todo))
      <4> DEFINE T == {"confirm", "tap"} \cup InstallationLater
                 a == <<"confirm", "tap">>
                 b == <<"wait">>
                 r == Tail(todo)
      <4>1. a \o b = <<"confirm", "tap", "wait">>
        BY TwoAndOne
      <4>2. a \in Seq(T) /\ b \in Seq(T) /\ r \in Seq(T)
        BY <2>2 DEF InstallationLater
      <4> HIDE DEF a, b, r, T
      <4>3. (a \o b) \o r = a \o (b \o r)
        BY <4>2, ConcatAssociative
      <4>4. QED
        BY <4>1, <4>3 DEF a, b, r
    <3>3. QED
      BY <1>6, <2>1, <2>2, <2>5, <2>7, <3>1, <3>2
  <2>8. QED
    BY <1>4, <1>8, <2>1, <2>2, <2>3, <2>6, <2>7
<1>33. CASE Installation!CheckLog
  <2>1. todo # <<>> /\ Head(todo) = "log" /\ Kept
    BY <1>10, <1>33 DEF Installation!CheckLog, Installation!Check, Installation!Now,
       Installation!Unchanged
  <2>2. QED
    BY <1>11, <1>33, <2>1 DEF Installation!CheckLog, Installation!Check
<1>34. CASE Installation!CheckStable
  <2>1. todo # <<>> /\ Head(todo) = "stable" /\ Kept
    BY <1>10, <1>34 DEF Installation!CheckStable, Installation!Check, Installation!Now,
       Installation!Unchanged
  <2>2. QED
    BY <1>11, <1>34, <2>1 DEF Installation!CheckStable, Installation!Check
<1>35. CASE Installation!LookAgain
  <2>1. todo # <<>> /\ Head(todo) = "look-again" /\ Kept
    BY <1>10, <1>35 DEF Installation!LookAgain, Installation!Check, Installation!Now,
       Installation!Unchanged
  <2>2. QED
    BY <1>11, <1>35, <2>1 DEF Installation!LookAgain, Installation!Check
<1>36. CASE Installation!Check("metadata", TRUE)
  <2>1. todo # <<>> /\ Head(todo) = "metadata" /\ Kept
    BY <1>10, <1>36 DEF Installation!Check, Installation!Now, Installation!Unchanged
  <2>2. QED
    BY <1>11, <1>36, <2>1 DEF Installation!Check
<1>37. CASE \E op \in {"confirm", "look", "metadata", "stable"} : Installation!Fails(op)
  BY <1>4, <1>10, <1>37 DEF Installation!Fails, Installation!Unchanged
<1>38. CASE Installation!EnterFinally(Installation!CLEANUP) /\ Installation!Unchanged
  BY <1>3, <1>10, <1>38 DEF Installation!EnterFinally, Installation!Unchanged
<1>39. QED
  BY <1>20, <1>21, <1>22, <1>23, <1>24, <1>25, <1>26, <1>27, <1>28, <1>29, <1>30, <1>31, <1>32,
     <1>33, <1>34, <1>35, <1>36, <1>37, <1>38, InstallationOnlyTries DEF Installation!Runner

LEMMA InstallationCleaningControl ==
  ASSUME InstallationTaps, Installation!Runner, mode = "cleanup"
  PROVE  /\ InstallationTaps'
         /\ \/ /\ mode' = "done" /\ todo = <<>> /\ todo' = <<>>
               /\ UNCHANGED <<device, mem, failed>>
            \/ /\ mode' = "cleanup" /\ todo # <<>>
               /\ \/ Installation!FinishRecorder \/ Installation!ForceStop
                  \/ Installation!RemoveFiles
               /\ failed \subseteq failed'
               /\ \/ Len(todo') = Len(todo) - 1
                  \/ Len(todo') = 0 /\ Head(todo) \in failed' /\ Head(todo) # "finish-recorder"
<1>1. Undoing(Installation!CLEANUP)
  BY DEF InstallationTaps
<1>2. todo # <<>> => Head(todo) \in {"finish-recorder", "force-stop", "remove-files"}
  BY <1>1, InstallationPlaces
<1>3. \/ Installation!FinishRecorder \/ Installation!ForceStop \/ Installation!RemoveFiles
      \/ Installation!Report /\ Installation!Unchanged
  BY <1>2 DEF Installation!Runner,
     Installation!PrepareDevice, Installation!PrepareStorage, Installation!Uninstall,
     Installation!Install, Installation!StartRecorder, Installation!AmStart,
     Installation!Relaunch, Installation!Recover, Installation!Confirm,
     Installation!Tap, Installation!ReadPid, Installation!Look,
     Installation!CheckLog, Installation!CheckStable, Installation!LookAgain,
     Installation!Check, Installation!Fails,
     Installation!Running, Installation!Now, Installation!EnterFinally
<1>4. /\ "taps" \in DOMAIN seen' /\ seen' = seen
      /\ {"attempts", "recovered", "finish_attempted"} \subseteq DOMAIN mem'
      /\ mem'.attempts = mem.attempts /\ mem'.recovered = mem.recovered
  BY <1>3 DEF Installation!FinishRecorder, Installation!ForceStop, Installation!RemoveFiles,
     Installation!Unchanged, InstallationTaps
<1>5. ASSUME Undoing(Installation!CLEANUP)', mode' = "cleanup" \/ (mode' = "done" /\ todo' = <<>>)
      PROVE  InstallationTaps'
  BY <1>4, <1>5 DEF InstallationTaps
<1>6. CASE Installation!Report /\ Installation!Unchanged
  <2>1. mode' = "done" /\ todo = <<>> /\ todo' = <<>> /\ UNCHANGED <<device, mem, failed>>
    BY <1>6 DEF Installation!Report, Installation!Unchanged
  <2>2. Undoing(Installation!CLEANUP)'
    BY <2>1, InstallationCleanup, UndoingOver
  <2>3. QED
    BY <1>5, <2>1, <2>2
<1>7. CASE \/ Installation!FinishRecorder \/ Installation!ForceStop
           \/ Installation!RemoveFiles
  <2>1. todo # <<>>
    BY <1>7 DEF Installation!FinishRecorder, Installation!ForceStop,
       Installation!RemoveFiles, Installation!Now
  <2>2. \/ Installation!Return
        \/ Installation!Raise(Installation!CLEANUP)
        \/ Installation!ReturnUnheeded
        \/ Installation!RaiseOut /\ Head(todo) # "finish-recorder"
    BY <1>7 DEF Installation!FinishRecorder, Installation!ForceStop,
       Installation!RemoveFiles, Installation!Now
  <2>3. /\ \/ todo' = Tail(todo)
           \/ todo' = <<>> \o Tail(todo)
           \/ todo' = <<>> /\ Head(todo) # "finish-recorder" /\ Head(todo) \in failed'
        /\ mode' = "cleanup" /\ failed \subseteq failed'
    BY <1>7, <2>2 DEF Installation!Return, Installation!Call, Installation!Raise,
       Installation!ReturnUnheeded, Installation!RaiseOut, Installation!Running
  <2>4. /\ Undoing(Installation!CLEANUP)'
        /\ \/ Len(todo') = Len(todo) - 1
           \/ todo' = <<>> /\ Len(todo') = 0
              /\ Head(todo) # "finish-recorder" /\ Head(todo) \in failed'
    <3>1. CASE todo' = Tail(todo) \/ todo' = <<>> \o Tail(todo)
      BY <1>1, <2>1, <3>1, InstallationCleanup, UndoingNext
    <3>2. CASE todo' = <<>> /\ Head(todo) # "finish-recorder" /\ Head(todo) \in failed'
      BY <3>2, InstallationCleanup, UndoingOver
    <3>3. QED
      BY <2>3, <3>1, <3>2
  <2>5. InstallationTaps'
    BY <1>5, <2>3, <2>4
  <2>6. QED
    BY <1>7, <2>1, <2>3, <2>4, <2>5
<1>8. QED
  BY <1>3, <1>6, <1>7

LEMMA InstallationTapsStep ==
  ASSUME InstallationTaps, InstallationUndone, Installation!Next
  PROVE  InstallationTaps'
<1>1. CASE Installation!Runner
  BY <1>1, InstallationWorks, InstallationCleaningControl, InstallationDone DEF InstallationTaps
<1>2. CASE Installation!Expire \/ Installation!Environment
  BY <1>2, InstallationOthers
<1>3. QED
  BY <1>1, <1>2 DEF Installation!Next

(* What the try block brings into being, it remembers, or it raised.       *)
LEMMA InstallationRunning ==
  ASSUME InstallationTaps, InstallationUndone, Installation!Runner, mode = "run"
  PROVE  InstallationUndone'
<1> DEFINE Holds ==
             /\ {"owned", "app"} \subseteq DOMAIN device'
             /\ {"authorized", "remote_root_created", "remote_files", "process"} \subseteq DOMAIN mem'
             /\ device'.owned \subseteq {"recorder", "recording", "directory"}
             /\ "recorder" \in device'.owned =>
                  mem'.process /\ (mem'.finish_attempted => "finish-recorder" \in failed')
             /\ "recording" \in device'.owned => "recording" \in mem'.remote_files
             /\ "directory" \in device'.owned => mem'.remote_root_created \/ "storage" \in failed'
           First == mode' = "run" /\ mem'.attempts = 0 /\ Len(todo') >= 8
                       => device'.owned \subseteq {"directory"}
           Kept == /\ {"authorized", "remote_root_created", "remote_files", "process", "finish_attempted"}
                        \subseteq DOMAIN mem'
                   /\ mem'.remote_root_created = mem.remote_root_created
                   /\ mem'.remote_files = mem.remote_files /\ mem'.process = mem.process
                   /\ mem'.finish_attempted = mem.finish_attempted
<1>1. /\ {"owned", "app"} \subseteq DOMAIN device
      /\ {"authorized", "remote_root_created", "remote_files", "process"} \subseteq DOMAIN mem
      /\ device.owned \subseteq {"recorder", "recording", "directory"}
      /\ mem.attempts = 0 /\ Len(todo) >= 8 => device.owned \subseteq {"directory"}
      /\ "recorder" \in device.owned =>
           mem.process /\ (mem.finish_attempted => "finish-recorder" \in failed)
      /\ "recording" \in device.owned => "recording" \in mem.remote_files
      /\ "directory" \in device.owned => mem.remote_root_created \/ "storage" \in failed
      /\ "finish_attempted" \in DOMAIN mem /\ "attempts" \in DOMAIN mem
      /\ mem.attempts \in Nat
  BY DEF InstallationUndone, InstallationTaps
<1>2. \/ mode' = "run"
      \/ mode' = "cleanup" /\ todo' = Installation!CLEANUP
  <2>1. ~Installation!ForceStop /\ ~Installation!RemoveFiles /\ ~Installation!Report
    BY InstallationOnlyTries
  <2>2. QED
    BY <2>1 DEF Installation!Runner,
       Installation!PrepareDevice, Installation!PrepareStorage,
       Installation!Uninstall, Installation!Install, Installation!StartRecorder,
       Installation!FinishRecorder, Installation!AmStart, Installation!Relaunch,
       Installation!Recover, Installation!Confirm, Installation!Tap,
       Installation!ReadPid, Installation!Look, Installation!CheckLog,
       Installation!CheckStable, Installation!LookAgain, Installation!Check,
       Installation!Fails,
       Installation!EnterFinally, Installation!Require, Installation!ReturnOrFail,
       Installation!Return, Installation!Call, Installation!Raise, Installation!Running
<1>3. ASSUME Holds, First
      PROVE  InstallationUndone'
  <2>1. CASE mode' = "run"
    BY <1>3, <2>1 DEF InstallationUndone
  <2>2. CASE mode' = "cleanup" /\ todo' = Installation!CLEANUP
    <3>1. Len(todo') = 3
      BY <2>2, InstallationCleanup
    <3>2. QED
      BY <1>3, <2>2, <3>1 DEF InstallationUndone
  <2>3. QED
    BY <1>2, <2>1, <2>2
<1>4. ASSUME device'.owned = device.owned, {"owned", "app"} \subseteq DOMAIN device', Kept,
             failed \subseteq failed'
      PROVE  Holds
  BY <1>1, <1>4
<1>5. failed \subseteq failed'
  BY DEF Installation!Runner, Installation!PrepareDevice, Installation!PrepareStorage,
     Installation!Uninstall, Installation!Install, Installation!StartRecorder,
     Installation!FinishRecorder, Installation!AmStart, Installation!Relaunch,
     Installation!Recover, Installation!Confirm, Installation!Tap, Installation!ReadPid,
     Installation!Look, Installation!CheckLog, Installation!CheckStable, Installation!LookAgain,
     Installation!Check, Installation!Fails, Installation!ForceStop, Installation!RemoveFiles,
     Installation!EnterFinally, Installation!Report, Installation!Require,
     Installation!ReturnOrFail, Installation!Return, Installation!ReturnUnheeded,
     Installation!Call, Installation!Raise, Installation!RaiseOut
<1>6. todo # <<>> =>
      \/ /\ mem.attempts = 0 /\ ~mem.finish_attempted /\ Undoing(InstallationProgram)
         /\ \/ Len(todo) = 12 /\ Head(todo) = "prepare"
            \/ Len(todo) = 11 /\ Head(todo) = "storage"
            \/ Len(todo) = 10 /\ Head(todo) = "uninstall"
            \/ Len(todo) = 9 /\ Head(todo) = "install"
            \/ Len(todo) = 8 /\ Head(todo) = "start-recorder"
            \/ Len(todo) = 7 /\ Head(todo) = "launch"
      \/ /\ mem.attempts > 0
         /\ Head(todo) \in InstallationLater \cup {"recover", "tap", "confirm"}
  BY InstallationHead DEF InstallationBefore
<1>7. ASSUME Installation!Return, todo # <<>>, mem.attempts = 0
      PROVE  Len(todo') = Len(todo) - 1
  <2>1. todo' = <<>> \o Tail(todo) /\ Undoing(InstallationProgram)
    BY <1>6, <1>7, InstallationHead DEF Installation!Return, Installation!Call, InstallationBefore,
       InstallationLater, InstallationTaps
  <2>2. QED
    BY <1>7, <2>1, InstallationOrder, UndoingNext
<1>8. ASSUME todo # <<>>, Head(todo) \in {"prepare", "storage", "uninstall", "install", "start-recorder"}
      PROVE  /\ mem.attempts = 0 /\ ~mem.finish_attempted
             /\ device.owned \subseteq {"directory"}
  <2>1. 12 >= 8 /\ 11 >= 8 /\ 10 >= 8 /\ 9 >= 8 /\ 8 >= 8
    OBVIOUS
  <2>2. QED
    BY <1>1, <1>6, <1>8, <2>1 DEF InstallationLater
<1>9. CASE Installation!PrepareStorage
  <2>1. todo # <<>> /\ Head(todo) = "storage"
    BY <1>9 DEF Installation!PrepareStorage, Installation!Now
  <2>2. device.owned \subseteq {"directory"}
    BY <1>8, <2>1
  <2>3. \/ /\ device' = device /\ mem' = mem
        \/ /\ device' = [device EXCEPT !.owned = @ \cup {"directory"}]
           /\ mem' = [mem EXCEPT !.remote_root_created = TRUE, !.remote_files = {"probe"}]
        \/ /\ mem' = [mem EXCEPT !.remote_files = {"probe"}]
           /\ \/ device' = device
              \/ device' = [device EXCEPT !.owned = @ \cup {"directory"}]
           /\ "storage" \in failed'
    BY <1>9, <2>1 DEF Installation!PrepareStorage, Installation!Own, Installation!Raise
  <2>4. {"owned", "app"} \subseteq DOMAIN device' /\ device'.owned \subseteq {"directory"}
    BY <1>1, <2>2, <2>3
  <2>5. {"authorized", "remote_root_created", "remote_files", "process"} \subseteq DOMAIN mem'
    BY <1>1, <2>3
  <2>6. "directory" \in device'.owned => mem'.remote_root_created \/ "storage" \in failed'
    BY <1>1, <1>5, <2>3
  <2>7. QED
    BY <1>3, <2>4, <2>5, <2>6
<1>10. CASE Installation!StartRecorder
  <2>1. todo # <<>> /\ Head(todo) = "start-recorder"
    BY <1>10 DEF Installation!StartRecorder, Installation!Now
  <2>2. device.owned \subseteq {"directory"} /\ ~mem.finish_attempted /\ mem.attempts = 0
    BY <1>8, <2>1
  <2>3. Len(todo) = 8
    BY <1>6, <2>1, <2>2
  <2>4. \/ device' = device /\ mem' = mem /\ Installation!Raise(Installation!CLEANUP)
        \/ /\ device' = [device EXCEPT !.owned = @ \cup {"recorder", "recording"}]
           /\ mem' = [mem EXCEPT !.remote_files = @ \cup {"recording"}, !.process = TRUE,
                                 !.pid_known = ~errors']
           /\ Installation!Return \/ Installation!Raise(Installation!CLEANUP)
    BY <1>10 DEF Installation!StartRecorder, Installation!ReturnOrFail
  <2>5. ~(mode' = "run" /\ Len(todo') >= 8)
    <3>1. CASE Installation!Return
      <4>1. Len(todo') = Len(todo) - 1
        BY <1>7, <2>1, <2>2, <3>1
      <4>2. QED
        BY <2>3, <4>1
    <3>2. CASE Installation!Raise(Installation!CLEANUP)
      BY <3>2 DEF Installation!Raise
    <3>3. QED
      BY <2>4, <3>1, <3>2
  <2>6. CASE device' = device /\ mem' = mem
    BY <1>1, <1>3, <1>4, <1>5, <2>5, <2>6
  <2>7. CASE /\ device' = [device EXCEPT !.owned = @ \cup {"recorder", "recording"}]
             /\ mem' = [mem EXCEPT !.remote_files = @ \cup {"recording"}, !.process = TRUE,
                                   !.pid_known = ~errors']
    <3>1. /\ {"owned", "app"} \subseteq DOMAIN device'
          /\ device'.owned = device.owned \cup {"recorder", "recording"}
      BY <1>1, <2>7
    <3>2. /\ {"authorized", "remote_root_created", "remote_files", "process", "finish_attempted"}
               \subseteq DOMAIN mem'
          /\ mem'.remote_files = mem.remote_files \cup {"recording"} /\ mem'.process
          /\ mem'.remote_root_created = mem.remote_root_created
          /\ mem'.finish_attempted = mem.finish_attempted
      BY <1>1, <2>7
    <3>3. QED
      BY <1>1, <1>3, <1>5, <2>2, <2>5, <3>1, <3>2
  <2>8. QED
    BY <2>4, <2>6, <2>7
<1>11. CASE Installation!FinishRecorder
  <2>1. todo # <<>> /\ Head(todo) = "finish-recorder"
    BY <1>11 DEF Installation!FinishRecorder, Installation!Now
  <2>2. mem.attempts > 0
    BY <1>6, <2>1
  <2>3. \/ device' = device /\ mem' = mem
        \/ /\ mem' = [mem EXCEPT !.finish_attempted = TRUE]
           /\ \/ device' = [device EXCEPT !.owned = @ \ {"recorder"}]
              \/ device' = device /\ "finish-recorder" \in failed'
    BY <1>11, <2>1 DEF Installation!FinishRecorder, Installation!Drop, Installation!Raise,
       Installation!Running
  <2>4. CASE device' = device /\ mem' = mem
    BY <1>1, <1>3, <1>4, <1>5, <2>2, <2>4
  <2>5. CASE /\ mem' = [mem EXCEPT !.finish_attempted = TRUE]
             /\ \/ device' = [device EXCEPT !.owned = @ \ {"recorder"}]
                \/ device' = device /\ "finish-recorder" \in failed'
    <3>1. /\ {"owned", "app"} \subseteq DOMAIN device' /\ device'.owned \subseteq device.owned
          /\ "recorder" \in device'.owned => "finish-recorder" \in failed'
      BY <1>1, <2>5
    <3>2. /\ {"authorized", "remote_root_created", "remote_files", "process", "attempts"}
               \subseteq DOMAIN mem'
          /\ mem'.remote_files = mem.remote_files /\ mem'.process = mem.process
          /\ mem'.remote_root_created = mem.remote_root_created
          /\ mem'.attempts = mem.attempts
      BY <1>1, <2>5
    <3>3. ~(mem'.attempts = 0)
      BY <1>1, <2>2, <3>2
    <3>4. QED
      BY <1>1, <1>3, <1>5, <3>1, <3>2, <3>3
  <2>6. QED
    BY <2>3, <2>4, <2>5
<1>12. CASE \/ Installation!PrepareDevice \/ Installation!Uninstall \/ Installation!Install
  <2>1. todo # <<>> /\ Head(todo) \in {"prepare", "uninstall", "install"}
    BY <1>12 DEF Installation!PrepareDevice, Installation!Uninstall, Installation!Install,
       Installation!Now
  <2>2. device.owned \subseteq {"directory"}
    BY <1>8, <2>1
  <2>3. device'.owned = device.owned /\ {"owned", "app"} \subseteq DOMAIN device'
    BY <1>1, <1>12 DEF Installation!PrepareDevice, Installation!Uninstall, Installation!Install
  <2>4. Kept
    BY <1>1, <1>12 DEF Installation!PrepareDevice, Installation!Uninstall, Installation!Install
  <2>5. QED
    BY <1>3, <1>4, <1>5, <2>2, <2>3, <2>4
<1>13. CASE Installation!AmStart
  <2>1. device'.owned = device.owned /\ {"owned", "app"} \subseteq DOMAIN device'
    BY <1>1, <1>13 DEF Installation!AmStart
  <2>2. Kept /\ mem'.attempts = mem.attempts + 1
    BY <1>1, <1>13 DEF Installation!AmStart
  <2>3. mem'.attempts # 0
    BY <1>1, <2>2
  <2>4. QED
    BY <1>3, <1>4, <1>5, <2>1, <2>2, <2>3
<1>14. ASSUME ~Installation!PrepareDevice, ~Installation!PrepareStorage, ~Installation!Uninstall,
              ~Installation!Install, ~Installation!StartRecorder, ~Installation!FinishRecorder,
              ~Installation!AmStart
       PROVE  InstallationUndone'
  <2>1. ~Installation!ForceStop /\ ~Installation!RemoveFiles /\ ~Installation!Report
    BY InstallationOnlyTries
  <2>2. /\ device'.owned = device.owned /\ {"owned", "app"} \subseteq DOMAIN device'
        /\ Kept /\ mem'.attempts = mem.attempts
    BY <1>1, <1>14, <2>1 DEF Installation!Runner,
       Installation!Relaunch, Installation!Recover, Installation!Confirm,
       Installation!Tap, Installation!ReadPid, Installation!Look,
       Installation!CheckLog, Installation!CheckStable, Installation!LookAgain,
       Installation!Check, Installation!Fails,
       Installation!Unchanged
  <2>3. ASSUME mode' = "run", todo # <<>>
        PROVE  mem'.attempts # 0
    <3>1. Head(todo) \notin {"prepare", "storage", "uninstall", "install", "start-recorder", "launch"}
      BY <1>14, <2>1, <2>3 DEF Installation!Runner,
         Installation!Relaunch, Installation!Recover, Installation!Confirm,
         Installation!Tap, Installation!ReadPid, Installation!Look,
         Installation!CheckLog, Installation!CheckStable, Installation!LookAgain,
         Installation!Check, Installation!Fails,
         Installation!EnterFinally, Installation!Raise, Installation!Now
    <3>2. mem.attempts > 0
      BY <1>6, <2>3, <3>1
    <3>3. QED
      BY <1>1, <2>2, <3>2
  <2>4. todo = <<>> => mode' # "run"
    BY <1>14, <2>1 DEF Installation!Runner,
       Installation!Relaunch, Installation!Recover, Installation!Confirm,
       Installation!Tap, Installation!ReadPid, Installation!Look,
       Installation!CheckLog, Installation!CheckStable, Installation!LookAgain,
       Installation!Check, Installation!Fails,
       Installation!EnterFinally, Installation!Now
  <2>5. QED
    BY <1>3, <1>4, <1>5, <2>2, <2>3, <2>4
<1>15. QED
  BY <1>9, <1>10, <1>11, <1>12, <1>13, <1>14

LEMMA InstallationCleaning ==
  ASSUME InstallationTaps, InstallationUndone, Installation!Runner, mode = "cleanup"
  PROVE  InstallationUndone'
<1> DEFINE n == Len(todo)
           new == Len(todo')
<1>1. /\ {"owned", "app"} \subseteq DOMAIN device
      /\ {"authorized", "remote_root_created", "remote_files", "process"} \subseteq DOMAIN mem
      /\ "finish_attempted" \in DOMAIN mem
      /\ device.owned \subseteq {"recorder", "recording", "directory"}
      /\ "recorder" \in device.owned =>
           mem.process /\ (mem.finish_attempted => "finish-recorder" \in failed)
      /\ "recording" \in device.owned => "recording" \in mem.remote_files
      /\ "directory" \in device.owned => mem.remote_root_created \/ "storage" \in failed
      /\ "recorder" \in device.owned => n >= 3 \/ "finish-recorder" \in failed
      /\ "recording" \in device.owned =>
           n >= 1 \/ {"force-stop", "remove-files"} \cap failed # {}
      /\ "directory" \in device.owned =>
           n >= 1 \/ {"storage", "force-stop", "remove-files"} \cap failed # {}
      /\ mem.authorized /\ device.app # 0 => n >= 2 \/ "force-stop" \in failed
  BY DEF InstallationUndone, InstallationTaps
<1>2. /\ todo = <<>> => n = 0
      /\ todo # <<>> =>
           \/ n = 3 /\ Head(todo) = "finish-recorder"
           \/ n = 2 /\ Head(todo) = "force-stop"
           \/ n = 1 /\ Head(todo) = "remove-files"
  BY InstallationPlaces DEF InstallationTaps
<1>3. CASE mode' = "done" /\ todo = <<>> /\ todo' = <<>> /\ UNCHANGED <<device, mem, failed>>
  <2>1. n = 0 /\ new = 0
    BY <1>2, <1>3
  <2> HIDE DEF n, new
  <2>2. QED
    BY <1>1, <1>3, <2>1 DEF InstallationUndone, n, new
<1>4. CASE /\ mode' = "cleanup" /\ todo # <<>>
           /\ \/ Installation!FinishRecorder \/ Installation!ForceStop
              \/ Installation!RemoveFiles
           /\ failed \subseteq failed'
           /\ \/ Len(todo') = Len(todo) - 1
              \/ Len(todo') = 0 /\ Head(todo) \in failed' /\ Head(todo) # "finish-recorder"
  <2>0. new = n - 1 \/ (new = 0 /\ Head(todo) \in failed' /\ Head(todo) # "finish-recorder")
    BY <1>4
  <2> HIDE DEF n, new
  <2> DEFINE Effects ==
        /\ {"owned", "app"} \subseteq DOMAIN device'
        /\ {"authorized", "remote_root_created", "remote_files", "process", "finish_attempted"}
             \subseteq DOMAIN mem'
        /\ mem'.authorized = mem.authorized /\ mem'.remote_files = mem.remote_files
        /\ mem'.remote_root_created = mem.remote_root_created /\ mem'.process = mem.process
        /\ mem'.finish_attempted => mem.finish_attempted
        /\ device'.owned \subseteq device.owned
        /\ device'.app # 0 => device.app # 0
        /\ n = 3 => "recorder" \notin device'.owned \/ "finish-recorder" \in failed'
        /\ n = 2 => ~(mem.authorized /\ device'.app # 0) \/ "force-stop" \in failed'
        /\ n = 1 => "recording" \notin device'.owned \/ "remove-files" \in failed'
        /\ n = 1 => \/ "directory" \notin device'.owned
                    \/ {"storage", "remove-files"} \cap failed' # {}
  <2>1. Effects
    <3>1. CASE Installation!FinishRecorder
      <4>1. n = 3 /\ mode # "run"
        BY <1>2, <1>4, <3>1 DEF Installation!FinishRecorder, Installation!Now
      <4>2. \/ device' = device /\ mem' = mem /\ (~mem.process \/ mem.finish_attempted)
            \/ /\ mem' = [mem EXCEPT !.finish_attempted = FALSE]
               /\ \/ device' = [device EXCEPT !.owned = @ \ {"recorder"}]
                  \/ device' = device /\ "finish-recorder" \in failed'
        BY <3>1, <4>1 DEF Installation!FinishRecorder, Installation!Drop, Installation!Raise,
           Installation!Running, Installation!Now
      <4>3. CASE device' = device /\ mem' = mem /\ (~mem.process \/ mem.finish_attempted)
        BY <1>1, <1>4, <4>1, <4>3
      <4>4. CASE /\ mem' = [mem EXCEPT !.finish_attempted = FALSE]
                 /\ \/ device' = [device EXCEPT !.owned = @ \ {"recorder"}]
                    \/ device' = device /\ "finish-recorder" \in failed'
        <5>1. /\ {"owned", "app"} \subseteq DOMAIN device' /\ device'.owned \subseteq device.owned
              /\ "recorder" \in device'.owned => "finish-recorder" \in failed'
              /\ device'.app = device.app
          BY <1>1, <4>4
        <5>2. /\ {"authorized", "remote_root_created", "remote_files", "process", "finish_attempted"}
                   \subseteq DOMAIN mem'
              /\ mem'.authorized = mem.authorized /\ mem'.remote_files = mem.remote_files
              /\ mem'.remote_root_created = mem.remote_root_created /\ mem'.process = mem.process
              /\ ~mem'.finish_attempted
          BY <1>1, <4>4
        <5>3. QED
          BY <4>1, <5>1, <5>2
      <4>5. QED
        BY <4>2, <4>3, <4>4
    <3>2. CASE Installation!ForceStop
      <4>1. /\ n = 2 /\ mem' = mem
            /\ \/ device' = device /\ (~mem.authorized \/ "force-stop" \in failed')
               \/ device' = [device EXCEPT !.app = 0]
        BY <1>2, <1>4, <3>2 DEF Installation!ForceStop, Installation!Now, Installation!RaiseOut,
           Installation!ReturnUnheeded
      <4>2. /\ {"owned", "app"} \subseteq DOMAIN device' /\ device'.owned = device.owned
            /\ device'.app = 0 \/ (device'.app = device.app /\ (~mem.authorized \/ "force-stop" \in failed'))
        BY <1>1, <4>1
      <4>3. QED
        BY <1>1, <4>1, <4>2
    <3>3. CASE Installation!RemoveFiles
      <4>1. /\ n = 1 /\ mem' = mem
            /\ \E gone \in SUBSET Installation!Removable :
                 /\ device' = [device EXCEPT !.owned = @ \ gone]
                 /\ gone = Installation!Removable \/ "remove-files" \in failed'
        BY <1>2, <1>4, <3>3 DEF Installation!RemoveFiles, Installation!Now, Installation!RaiseOut,
           Installation!ReturnUnheeded
      <4>2. /\ {"owned", "app"} \subseteq DOMAIN device' /\ device'.owned \subseteq device.owned
            /\ device'.app = device.app
            /\ device'.owned \cap Installation!Removable = {} \/ "remove-files" \in failed'
        BY <1>1, <4>1
      <4>3. "recording" \notin device'.owned \/ "remove-files" \in failed'
        BY <1>1, <4>2 DEF Installation!Removable
      <4>4. "directory" \notin device'.owned \/ {"storage", "remove-files"} \cap failed' # {}
        BY <1>1, <1>4, <4>2 DEF Installation!Removable
      <4>5. QED
        BY <1>1, <4>1, <4>2, <4>3, <4>4
    <3>4. QED
      BY <1>4, <3>1, <3>2, <3>3
  <2>2. n = 3 \/ n = 2 \/ n = 1
    BY <1>2, <1>4
  <2>3. \/ n = 3 /\ new = 2
        \/ n = 2 /\ new = 1
        \/ n = 2 /\ new = 0 /\ "force-stop" \in failed'
        \/ n = 1 /\ new = 0
    <3>1. new = n - 1 =>
            \/ n = 3 /\ new = 2
            \/ n = 2 /\ new = 1
            \/ n = 1 /\ new = 0
      BY <2>2
    <3>2. QED
      BY <1>2, <1>4, <2>0, <3>1
  <2>4. "recorder" \in device'.owned => new >= 3 \/ "finish-recorder" \in failed'
    BY <1>1, <1>4, <2>1, <2>3
  <2>5. "recording" \in device'.owned =>
           new >= 1 \/ {"force-stop", "remove-files"} \cap failed' # {}
    BY <1>1, <1>4, <2>1, <2>3
  <2>6. "directory" \in device'.owned =>
           new >= 1 \/ {"storage", "force-stop", "remove-files"} \cap failed' # {}
    BY <1>1, <1>4, <2>1, <2>3
  <2>7. mem'.authorized /\ device'.app # 0 => new >= 2 \/ "force-stop" \in failed'
    BY <1>1, <1>4, <2>1, <2>3
  <2>8. QED
    BY <1>1, <1>4, <2>1, <2>4, <2>5, <2>6, <2>7 DEF InstallationUndone, new
<1>5. QED
  BY <1>3, <1>4, InstallationCleaningControl

LEMMA InstallationUndoneStep ==
  ASSUME InstallationTaps, InstallationUndone, Installation!Next
  PROVE  InstallationUndone'
<1>1. CASE Installation!Runner
  BY <1>1, InstallationRunning, InstallationCleaning, InstallationDone DEF InstallationTaps
<1>2. CASE Installation!Expire \/ Installation!Environment
  BY <1>2, InstallationOthers
<1>3. QED
  BY <1>1, <1>2 DEF Installation!Next

LEMMA InstallationAuthorizedStep ==
  ASSUME InstallationTaps, InstallationUndone, InstallationAuthorized, Installation!Next
  PROVE  InstallationAuthorized'
<1>1. /\ "app" \in DOMAIN device /\ {"authorized", "attempts"} \subseteq DOMAIN mem
      /\ mem.attempts \in Nat
      /\ device.app # 0 => mem.authorized /\ mem.attempts > 0
      /\ mode = "run" /\ (mem.attempts > 0 \/ Len(todo) <= 11) => mem.authorized
  BY DEF InstallationTaps, InstallationUndone, InstallationAuthorized
<1>2. CASE Installation!PrepareDevice /\ mode = "run"
  <2>1. todo # <<>> /\ Head(todo) = "prepare"
    BY <1>2 DEF Installation!PrepareDevice, Installation!Now
  <2>2. mem.attempts = 0 /\ device.app = 0
    BY <1>1, <1>2, <2>1, InstallationHead DEF InstallationLater
  <2>3. /\ device' = device /\ mem' = [mem EXCEPT !.authorized = device.emulator]
        /\ mode' = "run" => device.emulator
    BY <1>2 DEF Installation!PrepareDevice, Installation!Require, Installation!Raise
  <2>4. device'.app = 0 /\ mem'.authorized = device.emulator
    BY <1>1, <2>2, <2>3
  <2>5. QED
    BY <2>3, <2>4 DEF InstallationAuthorized
<1>3. CASE Installation!AmStart /\ mode = "run"
  <2>1. todo # <<>> /\ Head(todo) = "launch"
    BY <1>3 DEF Installation!AmStart, Installation!Now
  <2>2. mem.attempts > 0 \/ Len(todo) = 7
    BY <2>1, <1>3, InstallationHead
  <2>3. mem.authorized
    <3>1. 7 <= 11
      OBVIOUS
    <3>2. QED
      BY <1>1, <1>3, <2>2, <3>1
  <2>4. mem'.authorized = mem.authorized /\ mem'.attempts = mem.attempts + 1
    BY <1>1, <1>3 DEF Installation!AmStart
  <2>5. mem'.attempts > 0
    BY <1>1, <2>4
  <2>6. QED
    BY <2>3, <2>4, <2>5 DEF InstallationAuthorized
<1>4. CASE Installation!Runner /\ mode = "run" /\ ~Installation!PrepareDevice /\ ~Installation!AmStart
  <2>1. ~Installation!ForceStop /\ ~Installation!RemoveFiles /\ ~Installation!Report
    BY <1>4, InstallationOnlyTries
  <2>2. /\ mem'.authorized = mem.authorized /\ mem'.attempts = mem.attempts
        /\ device'.app # 0 => device.app # 0
    BY <1>1, <1>4, <2>1 DEF Installation!Runner,
       Installation!PrepareStorage, Installation!Uninstall, Installation!Install,
       Installation!StartRecorder, Installation!FinishRecorder,
       Installation!Relaunch, Installation!Recover, Installation!Confirm,
       Installation!Tap, Installation!ReadPid, Installation!Look,
       Installation!CheckLog, Installation!CheckStable, Installation!LookAgain,
       Installation!Check, Installation!Fails, Installation!Unchanged,
       Installation!Own, Installation!Drop
  <2>3. ASSUME todo # <<>>
        PROVE  Head(todo) # "prepare"
    BY <1>4, <2>1, <2>3 DEF Installation!Runner,
       Installation!PrepareStorage, Installation!Uninstall, Installation!Install,
       Installation!StartRecorder, Installation!FinishRecorder,
       Installation!Relaunch, Installation!Recover, Installation!Confirm,
       Installation!Tap, Installation!ReadPid, Installation!Look,
       Installation!CheckLog, Installation!CheckStable, Installation!LookAgain,
       Installation!Check, Installation!Fails, Installation!Now,
       Installation!EnterFinally
  <2>4. todo = <<>> => mode' # "run"
    BY <1>4, <2>1 DEF Installation!Runner,
       Installation!PrepareStorage, Installation!Uninstall, Installation!Install,
       Installation!StartRecorder, Installation!FinishRecorder,
       Installation!Relaunch, Installation!Recover, Installation!Confirm,
       Installation!Tap, Installation!ReadPid, Installation!Look,
       Installation!CheckLog, Installation!CheckStable, Installation!LookAgain,
       Installation!Check, Installation!Fails, Installation!Now,
       Installation!EnterFinally
  <2>5. todo # <<>> => mem.attempts > 0 \/ Len(todo) <= 11
    <3>1. todo # <<>> =>
            \/ mem.attempts > 0 \/ Len(todo) = 11 \/ Len(todo) = 10 \/ Len(todo) = 9
            \/ Len(todo) = 8 \/ Len(todo) = 7
      BY <1>4, <2>3, InstallationHead
    <3>2. 11 <= 11 /\ 10 <= 11 /\ 9 <= 11 /\ 8 <= 11 /\ 7 <= 11
      OBVIOUS
    <3>3. QED
      BY <3>1, <3>2, Zenon
  <2>6. mode' = "run" => mem.authorized
    BY <1>1, <1>4, <2>4, <2>5
  <2>7. QED
    BY <1>1, <2>2, <2>6 DEF InstallationAuthorized
<1>5. CASE Installation!Runner /\ mode = "cleanup"
  <2>1. /\ mem'.authorized = mem.authorized /\ mem'.attempts = mem.attempts
        /\ device'.app # 0 => device.app # 0
        /\ mode' # "run"
    <3>1. CASE UNCHANGED <<device, mem>> /\ mode' = "done"
      BY <3>1
    <3>2. CASE mode' = "cleanup" /\ Installation!FinishRecorder
      BY <1>1, <3>2 DEF Installation!FinishRecorder, Installation!Drop
    <3>3. CASE mode' = "cleanup" /\ Installation!ForceStop
      BY <1>1, <3>3 DEF Installation!ForceStop
    <3>4. CASE mode' = "cleanup" /\ Installation!RemoveFiles
      BY <1>1, <3>4 DEF Installation!RemoveFiles
    <3>5. QED
      BY <1>5, <3>1, <3>2, <3>3, <3>4, InstallationCleaningControl
  <2>2. QED
    BY <1>1, <2>1 DEF InstallationAuthorized
<1>6. CASE Installation!Expire \/ Installation!Environment
  <2>1. /\ UNCHANGED <<todo, mode, mem>>
        /\ device'.app # 0 => device.app # 0
    BY <1>1, <1>6 DEF Installation!Expire, Installation!Environment, Installation!ShowOnboarding,
       Installation!SetupAnr, Installation!AppDies, Installation!control
  <2>2. QED
    BY <1>1, <2>1 DEF InstallationAuthorized
<1>7. QED
  BY <1>2, <1>3, <1>4, <1>5, <1>6, InstallationDone DEF Installation!Next, InstallationTaps

LEMMA InstallationRestored ==
  ASSUME InstallationTaps, InstallationUndone, InstallationAuthorized, Done
  PROVE  Installation!Restored
<1>1. mode = "done" /\ Len(todo) = 0
  BY DEF Done, InstallationTaps
<1>2. /\ "recorder" \in device.owned => "finish-recorder" \in failed
      /\ "recording" \in device.owned => {"force-stop", "remove-files"} \cap failed # {}
      /\ "directory" \in device.owned => {"storage", "force-stop", "remove-files"} \cap failed # {}
      /\ device.app # 0 => "force-stop" \in failed
      /\ device.owned \subseteq {"recorder", "recording", "directory"}
  BY <1>1 DEF InstallationUndone, InstallationAuthorized
<1>3. QED
  BY <1>2 DEF Installation!Restored, Installation!Cleaner

-----------------------------------------------------------------------------
(* The billing and relaunch journey.                                       *)

LEMMA ConcatHead ==
  ASSUME NEW S, NEW s \in Seq(S), s # <<>>, NEW r \in Seq(S)
  PROVE  s \o r = <<Head(s)>> \o (Tail(s) \o r)
<1> DEFINE h == <<Head(s)>>
           t == Tail(s)
<1>1. /\ h \in Seq(S) /\ Len(h) = 1 /\ h[1] = s[1]
      /\ t \in Seq(S) /\ Len(t) = Len(s) - 1 /\ \A i \in 1..(Len(s) - 1) : t[i] = s[i + 1]
      /\ Len(s) \in Nat /\ Len(s) >= 1
  BY HeadTailProperties
<1> HIDE DEF h, t
<1>0. h \in Seq(S) /\ t \in Seq(S)
  BY <1>1
<1>2. /\ h \o t \in Seq(S) /\ Len(h \o t) = Len(h) + Len(t)
      /\ \A i \in 1..Len(h) + Len(t) : (h \o t)[i] = IF i <= Len(h) THEN h[i] ELSE t[i - Len(h)]
  BY <1>0, ConcatProperties
<1>3. Len(h \o t) = Len(s) /\ \A i \in 1..Len(s) : (h \o t)[i] = s[i]
  <2>1. Len(h) + Len(t) = Len(s)
    BY <1>1
  <2>2. ASSUME NEW i \in 1..Len(s)
        PROVE  (h \o t)[i] = s[i]
    <3>1. CASE i = 1
      BY <1>1, <1>2, <2>1, <3>1
    <3>2. CASE i # 1
      <4>1. (h \o t)[i] = t[i - 1] /\ i - 1 \in 1..(Len(s) - 1) /\ (i - 1) + 1 = i
        BY <1>1, <1>2, <2>1, <3>2
      <4>2. QED
        BY <1>1, <4>1
    <3>3. QED
      BY <3>1, <3>2
  <2>3. QED
    BY <1>2, <2>1, <2>2
<1>4. h \o t = s
  BY <1>2, <1>3, SeqEqual
<1>5. (h \o t) \o r = h \o (t \o r)
  BY <1>0, ConcatAssociative
<1>6. QED
  BY <1>4, <1>5 DEF h, t

BillingTry ==
  {"save", "matrix", "drive", "dialogs", "the-pid", "stop-app", "gone", "build", "relaunch",
   "same-customer", "new-pid", "probe", "probed", "verdict"}

(* What is still to be done about a dialog of the store, before the rest.  *)
BillingFinish(rest) == <<"finish-recording">> \o rest
BillingTap(rest) == <<"tap">> \o BillingFinish(rest)
BillingLookAgain(rest) == <<"look-again">> \o BillingTap(rest)
BillingLook(rest) == <<"look">> \o BillingLookAgain(rest)
BillingStart(rest) == <<"start-recording">> \o BillingLook(rest)
BillingRecover(rest) == <<"recover">> \o BillingLook(rest)

BillingAnswers ==
  \E rest \in Seq(BillingTry) :
    \/ todo = BillingFinish(rest)
    \/ todo = BillingTap(rest)
    \/ todo = BillingLookAgain(rest)
    \/ todo = BillingLook(rest)

(* A recorder runs only while its end is still to come, and the system's   *)
(* dialog is tapped only while the tool allows itself another time.        *)
BillingTaps ==
  /\ "taps" \in DOMAIN seen /\ "owned" \in DOMAIN device
  /\ {"recoveries", "safe_emulator"} \subseteq DOMAIN mem
  /\ seen.taps \in Nat /\ mem.recoveries \in Nat /\ faults \in Nat
  /\ seen.taps <= mem.recoveries + faults /\ mem.recoveries <= MAX_SYSTEM_ANR_RECOVERIES
  /\ mode \in {"run", "cleanup", "done"}
  /\ mode = "run" =>
       \/ ~mem.safe_emulator /\ todo = Billing!Program /\ "recorder" \notin device.owned
       \/ mem.safe_emulator /\ todo \in Seq(BillingTry) /\ "recorder" \notin device.owned
       \/ /\ mem.safe_emulator /\ "recorder" \notin device.owned
          /\ \E rest \in Seq(BillingTry) : todo = BillingStart(rest)
       \/ mem.safe_emulator /\ BillingAnswers
       \/ /\ mem.safe_emulator /\ mem.recoveries < MAX_SYSTEM_ANR_RECOVERIES
          /\ \E rest \in Seq(BillingTry) : todo = BillingRecover(rest)
  /\ mode # "run" => Undoing(Billing!DialogCleanup)
  /\ mode = "done" => todo = <<>>

BillingUndone ==
  /\ {"owned", "pids", "drive", "report"} \subseteq DOMAIN device /\ "passed" \in DOMAIN mem
  /\ device.pids # {} => mem.safe_emulator
  /\ device.report = "passed" => mem.passed /\ mode # "run" /\ todo = <<>>
  /\ mode # "run" =>
       /\ "recorder" \in device.owned => Len(todo) >= 5 \/ "finish-recording" \in failed
       /\ device.drive = "running" => Len(todo) >= 4
       /\ device.pids # {} => Len(todo) >= 3 \/ "stop-again" \in failed
       /\ "files" \in device.owned => Len(todo) >= 2 \/ "remove-files" \in failed

LEMMA BillingRestParts ==
  ASSUME NEW rest \in Seq(BillingTry)
  PROVE  /\ /\ BillingFinish(rest) # <<>> /\ Head(BillingFinish(rest)) = "finish-recording"
            /\ Tail(BillingFinish(rest)) = rest
         /\ /\ BillingTap(rest) # <<>> /\ Head(BillingTap(rest)) = "tap"
            /\ Tail(BillingTap(rest)) = BillingFinish(rest)
         /\ /\ BillingLookAgain(rest) # <<>> /\ Head(BillingLookAgain(rest)) = "look-again"
            /\ Tail(BillingLookAgain(rest)) = BillingTap(rest)
         /\ /\ BillingLook(rest) # <<>> /\ Head(BillingLook(rest)) = "look"
            /\ Tail(BillingLook(rest)) = BillingLookAgain(rest)
         /\ /\ BillingStart(rest) # <<>> /\ Head(BillingStart(rest)) = "start-recording"
            /\ Tail(BillingStart(rest)) = BillingLook(rest)
         /\ /\ BillingRecover(rest) # <<>> /\ Head(BillingRecover(rest)) = "recover"
            /\ Tail(BillingRecover(rest)) = BillingLook(rest)
<1> DEFINE T == BillingTry \cup {"finish-recording", "tap", "look-again", "look",
                                 "start-recording", "recover"}
<1>1. rest \in Seq(T)
  OBVIOUS
<1>2. \A x \in T, s \in Seq(T) :
         /\ <<x>> \o s \in Seq(T) /\ <<x>> \o s # <<>>
         /\ Head(<<x>> \o s) = x /\ Tail(<<x>> \o s) = s
  <2> SUFFICES ASSUME NEW x \in T, NEW s \in Seq(T)
               PROVE  /\ <<x>> \o s \in Seq(T) /\ <<x>> \o s # <<>>
                      /\ Head(<<x>> \o s) = x /\ Tail(<<x>> \o s) = s
    OBVIOUS
  <2>1. T \cup {x} = T
    OBVIOUS
  <2> HIDE DEF T
  <2>2. QED
    BY <2>1, PushOne
<1>3. /\ "finish-recording" \in T /\ "tap" \in T /\ "look-again" \in T /\ "look" \in T
      /\ "start-recording" \in T /\ "recover" \in T
  OBVIOUS
<1> HIDE DEF T
<1>4. BillingFinish(rest) \in Seq(T) /\ BillingTap(rest) \in Seq(T)
  BY <1>1, <1>2, <1>3 DEF BillingFinish, BillingTap
<1>5. BillingLookAgain(rest) \in Seq(T)
  BY <1>2, <1>3, <1>4 DEF BillingLookAgain
<1>6. BillingLook(rest) \in Seq(T)
  BY <1>2, <1>3, <1>5 DEF BillingLook
<1>7. /\ BillingFinish(rest) # <<>> /\ Head(BillingFinish(rest)) = "finish-recording"
      /\ Tail(BillingFinish(rest)) = rest
  BY <1>1, <1>2, <1>3 DEF BillingFinish
<1>8. /\ BillingTap(rest) # <<>> /\ Head(BillingTap(rest)) = "tap"
      /\ Tail(BillingTap(rest)) = BillingFinish(rest)
  BY <1>2, <1>3, <1>4 DEF BillingTap
<1>9. /\ BillingLookAgain(rest) # <<>> /\ Head(BillingLookAgain(rest)) = "look-again"
      /\ Tail(BillingLookAgain(rest)) = BillingTap(rest)
  BY <1>2, <1>3, <1>4 DEF BillingLookAgain
<1>10. /\ BillingLook(rest) # <<>> /\ Head(BillingLook(rest)) = "look"
       /\ Tail(BillingLook(rest)) = BillingLookAgain(rest)
  BY <1>2, <1>3, <1>5 DEF BillingLook
<1>11. /\ BillingStart(rest) # <<>> /\ Head(BillingStart(rest)) = "start-recording"
       /\ Tail(BillingStart(rest)) = BillingLook(rest)
  BY <1>2, <1>3, <1>6 DEF BillingStart
<1>12. /\ BillingRecover(rest) # <<>> /\ Head(BillingRecover(rest)) = "recover"
       /\ Tail(BillingRecover(rest)) = BillingLook(rest)
  BY <1>2, <1>3, <1>6 DEF BillingRecover
<1>13. QED
  BY <1>7, <1>8, <1>9, <1>10, <1>11, <1>12

(* What the calls put before the rest.                                     *)
LEMMA BillingCalls ==
  ASSUME NEW rest \in Seq(BillingTry)
  PROVE  /\ Billing!PerformSteps \o rest = BillingStart(rest)
         /\ <<"look", "look-again">> \o BillingTap(rest) = BillingLook(rest)
         /\ <<"recover", "look">> \o BillingLookAgain(rest) = BillingRecover(rest)
         /\ <<"recover", "look", "look-again">> \o BillingTap(rest) = BillingRecover(rest)
<1> DEFINE T == BillingTry \cup {"finish-recording", "tap", "look-again", "look",
                                 "start-recording", "recover"}
<1>1. rest \in Seq(T) /\ \A x \in T : <<x>> \in Seq(T)
  OBVIOUS
<1>2. /\ <<"start-recording", "look", "look-again", "tap", "finish-recording">> \in Seq(T)
      /\ <<"look", "look-again", "tap", "finish-recording">> \in Seq(T)
      /\ <<"look-again", "tap", "finish-recording">> \in Seq(T)
      /\ <<"tap", "finish-recording">> \in Seq(T)
      /\ <<"finish-recording">> \in Seq(T)
      /\ <<"recover", "look", "look-again">> \in Seq(T)
      /\ <<"look", "look-again">> \in Seq(T)
  OBVIOUS
<1>3. /\ Tail(<<"start-recording", "look", "look-again", "tap", "finish-recording">>)
           = <<"look", "look-again", "tap", "finish-recording">>
      /\ Head(<<"start-recording", "look", "look-again", "tap", "finish-recording">>)
           = "start-recording"
      /\ <<"start-recording", "look", "look-again", "tap", "finish-recording">> # <<>>
  OBVIOUS
<1>4. /\ Tail(<<"look", "look-again", "tap", "finish-recording">>)
           = <<"look-again", "tap", "finish-recording">>
      /\ Head(<<"look", "look-again", "tap", "finish-recording">>) = "look"
      /\ <<"look", "look-again", "tap", "finish-recording">> # <<>>
  OBVIOUS
<1>5. /\ Tail(<<"look-again", "tap", "finish-recording">>) = <<"tap", "finish-recording">>
      /\ Head(<<"look-again", "tap", "finish-recording">>) = "look-again"
      /\ <<"look-again", "tap", "finish-recording">> # <<>>
  OBVIOUS
<1>6. /\ Tail(<<"tap", "finish-recording">>) = <<"finish-recording">>
      /\ Head(<<"tap", "finish-recording">>) = "tap"
      /\ <<"tap", "finish-recording">> # <<>>
  OBVIOUS
<1>7. /\ Tail(<<"recover", "look", "look-again">>) = <<"look", "look-again">>
      /\ Head(<<"recover", "look", "look-again">>) = "recover"
      /\ <<"recover", "look", "look-again">> # <<>>
  OBVIOUS
<1>8. /\ "finish-recording" \in T /\ "tap" \in T /\ "look-again" \in T /\ "look" \in T
      /\ "start-recording" \in T /\ "recover" \in T
  OBVIOUS
<1> HIDE DEF T
<1>9. <<"tap", "finish-recording">> \o rest = BillingTap(rest)
  BY <1>1, <1>2, <1>6, ConcatHead DEF BillingTap, BillingFinish
<1>10. <<"look-again", "tap", "finish-recording">> \o rest = BillingLookAgain(rest)
  <2> DEFINE whole == <<"look-again", "tap", "finish-recording">>
             later == <<"tap", "finish-recording">>
  <2>1. whole \in Seq(T) /\ whole # <<>> /\ Head(whole) = "look-again" /\ Tail(whole) = later
    BY <1>2, <1>5
  <2>2. later \o rest = BillingTap(rest)
    BY <1>9
  <2> HIDE DEF whole, later
  <2>3. whole \o rest = BillingLookAgain(rest)
    <3>1. rest \in Seq(T)
      BY <1>1
    <3>2. whole \o rest = <<Head(whole)>> \o (Tail(whole) \o rest)
      BY <2>1, <3>1, ConcatHead
    <3>3. <<Head(whole)>> = <<"look-again">>
      BY <2>1
    <3>4. Tail(whole) \o rest = later \o rest
      BY <2>1
    <3>5. QED
      BY <2>2, <3>2, <3>3, <3>4 DEF BillingLookAgain
  <2>4. QED
    BY <2>3 DEF whole
<1>11. <<"look", "look-again", "tap", "finish-recording">> \o rest = BillingLook(rest)
  <2> DEFINE whole == <<"look", "look-again", "tap", "finish-recording">>
             later == <<"look-again", "tap", "finish-recording">>
  <2>1. whole \in Seq(T) /\ whole # <<>> /\ Head(whole) = "look" /\ Tail(whole) = later
    BY <1>2, <1>4
  <2>2. later \o rest = BillingLookAgain(rest)
    BY <1>10
  <2> HIDE DEF whole, later
  <2>3. whole \o rest = BillingLook(rest)
    <3>1. rest \in Seq(T)
      BY <1>1
    <3>2. whole \o rest = <<Head(whole)>> \o (Tail(whole) \o rest)
      BY <2>1, <3>1, ConcatHead
    <3>3. <<Head(whole)>> = <<"look">>
      BY <2>1
    <3>4. Tail(whole) \o rest = later \o rest
      BY <2>1
    <3>5. QED
      BY <2>2, <3>2, <3>3, <3>4 DEF BillingLook
  <2>4. QED
    BY <2>3 DEF whole
<1>12. Billing!PerformSteps \o rest = BillingStart(rest)
  BY <1>1, <1>2, <1>3, <1>11, ConcatHead DEF BillingStart, Billing!PerformSteps
<1>13. BillingFinish(rest) \in Seq(T)
  BY <1>1, <1>8, ConcatProperties DEF BillingFinish
<1>14. BillingTap(rest) \in Seq(T)
  BY <1>1, <1>8, <1>13, ConcatProperties DEF BillingTap
<1>15. BillingLookAgain(rest) \in Seq(T)
  BY <1>1, <1>8, <1>14, ConcatProperties DEF BillingLookAgain
<1>16. <<"look", "look-again">> \o BillingTap(rest) = BillingLook(rest)
  BY <1>14, PushTwo DEF BillingLook, BillingLookAgain
<1>17. <<"recover", "look">> \o BillingLookAgain(rest) = BillingRecover(rest)
  BY <1>15, PushTwo DEF BillingLook, BillingRecover
<1>18. <<"recover", "look", "look-again">> \o BillingTap(rest) = BillingRecover(rest)
  BY <1>2, <1>7, <1>14, <1>16, ConcatHead DEF BillingRecover
<1>19. QED
  BY <1>12, <1>16, <1>17, <1>18

LEMMA BillingProgram ==
  /\ Billing!Program # <<>> /\ Head(Billing!Program) = "verify"
  /\ Tail(Billing!Program) \in Seq(BillingTry)
  /\ Billing!Probe \in Seq(BillingTry)
<1> DEFINE T == BillingTry \cup {"verify"}
           a == <<"verify", "save", "matrix", "drive", "dialogs", "the-pid", "save", "stop-app", "gone", "build",
                  "relaunch", "drive", "same-customer", "new-pid", "save", "stop-app", "build", "save">>
           b == Billing!Probe
           c == <<"verdict", "save">>
<1>1. Billing!Program = (a \o b) \o c
  BY DEF Billing!Program
<1>2. b \in Seq(BillingTry) /\ c \in Seq(BillingTry)
  BY DEF Billing!Probe, BillingTry
<1>3. a \in Seq(T) /\ a # <<>> /\ Head(a) = "verify"
  BY DEF BillingTry
<1>4. Tail(a) \in Seq(BillingTry)
  BY DEF BillingTry
<1>5. b \in Seq(T) /\ c \in Seq(T) /\ b \o c \in Seq(BillingTry)
  BY <1>2
<1> HIDE DEF a, b, c
<1>6. (a \o b) \o c = a \o (b \o c)
  BY <1>3, <1>5, ConcatAssociative
<1>7. b \o c \in Seq(T)
  BY <1>5
<1> HIDE DEF T
<1>8. a \o (b \o c) = <<"verify">> \o (Tail(a) \o (b \o c))
  BY <1>3, <1>7, ConcatHead
<1>9. Tail(a) \o (b \o c) \in Seq(BillingTry)
  BY <1>4, <1>5, ConcatProperties
<1>10. Billing!Program = <<"verify">> \o (Tail(a) \o (b \o c))
  BY <1>1, <1>6, <1>8
<1>11. QED
  <2> DEFINE later == Tail(a) \o (b \o c)
  <2>1. later \in Seq(BillingTry) /\ Billing!Program = <<"verify">> \o later
    BY <1>9, <1>10
  <2> HIDE DEF later
  <2>2. /\ <<"verify">> \o later # <<>> /\ Head(<<"verify">> \o later) = "verify"
        /\ Tail(<<"verify">> \o later) = later
    BY <2>1, PushOne
  <2>3. QED
    BY <1>2, <2>1, <2>2 DEF b

LEMMA BillingCleanup ==
  /\ Billing!DialogCleanup \in Seq({"finish-recording", "stop-drive", "stop-again", "remove-files",
                                    "save-verdict"})
  /\ Len(Billing!DialogCleanup) = 5
  /\ Billing!DialogCleanup[1] = "finish-recording"
  /\ Billing!DialogCleanup[2] = "stop-drive"
  /\ Billing!DialogCleanup[3] = "stop-again"
  /\ Billing!DialogCleanup[4] = "remove-files"
  /\ Billing!DialogCleanup[5] = "save-verdict"
  /\ Tail(Billing!DialogCleanup) = Billing!CLEANUP
  /\ Rest(Billing!DialogCleanup, 4) = Billing!CLEANUP
  /\ Len(Billing!CLEANUP) = 4
<1> DEFINE T == {"finish-recording", "stop-drive", "stop-again", "remove-files", "save-verdict"}
           a == <<"finish-recording">>
           b == Billing!CLEANUP
           all == Billing!DialogCleanup
<1>1. /\ a \in Seq(T) /\ Len(a) = 1 /\ a[1] = "finish-recording"
      /\ b \in Seq(T) /\ Len(b) = 4
      /\ b[1] = "stop-drive" /\ b[2] = "stop-again" /\ b[3] = "remove-files"
      /\ b[4] = "save-verdict"
  BY DEF Billing!CLEANUP
<1>2. all = a \o b
  BY DEF Billing!DialogCleanup
<1> HIDE DEF T, a, b, all
<1>3. /\ all \in Seq(T) /\ Len(all) = Len(a) + Len(b)
      /\ \A i \in 1..Len(a) + Len(b) : all[i] = IF i <= Len(a) THEN a[i] ELSE b[i - Len(a)]
  BY <1>1, <1>2, ConcatProperties
<1>4. /\ Len(all) = 5
      /\ all[1] = a[1] /\ all[2] = b[1] /\ all[3] = b[2] /\ all[4] = b[3] /\ all[5] = b[4]
  <2>1. Len(a) + Len(b) = 5
    BY <1>1
  <2>2. /\ 2 - 1 = 1 /\ 3 - 1 = 2 /\ 4 - 1 = 3 /\ 5 - 1 = 4
    OBVIOUS
  <2>3. QED
    BY <1>1, <1>3, <2>1, <2>2
<1>5. Tail(all) = b
  <2>1. Tail(<<"finish-recording">> \o b) = b
    <3>1. b \in Seq(T)
      BY <1>1
    <3>2. QED
      BY <3>1, PushOne
  <2>2. QED
    BY <1>2, <2>1 DEF a
<1>6. Rest(all, 4) = b
  <2>1. 5 \in 1..Len(all) /\ 5 - 1 = 4 /\ Rest(all, 5) = all
    <3>1. Rest(all, Len(all)) = all
      BY <1>3, RestEnds
    <3>2. QED
      BY <1>4, <3>1
  <2>2. Tail(Rest(all, 5)) = Rest(all, 5 - 1)
    BY <1>3, <2>1, RestParts
  <2>3. QED
    BY <1>5, <2>1, <2>2
<1>7. QED
  BY <1>1, <1>3, <1>4, <1>5, <1>6 DEF T, b, all

LEMMA BillingPlaces ==
  ASSUME Undoing(Billing!DialogCleanup)
  PROVE  /\ todo = <<>> => Len(todo) = 0
         /\ todo # <<>> => Len(todo) \in 1..5
         /\ todo # <<>> =>
              \/ Len(todo) = 5 /\ Head(todo) = "finish-recording"
              \/ Len(todo) = 4 /\ Head(todo) = "stop-drive"
              \/ Len(todo) = 3 /\ Head(todo) = "stop-again"
              \/ Len(todo) = 2 /\ Head(todo) = "remove-files"
              \/ Len(todo) = 1 /\ Head(todo) = "save-verdict"
<1> DEFINE n == Len(todo)
<1>0. todo = <<>> => n = 0
  OBVIOUS
<1>1. todo # <<>> => n \in 1..5 /\ Head(todo) = Billing!DialogCleanup[5 - n + 1]
  BY BillingCleanup, UndoingParts
<1>2. todo # <<>> =>
        \/ n = 5
        \/ n = 4
        \/ n = 3
        \/ n = 2
        \/ n = 1
  BY <1>1
<1>3. /\ 5 - 1 + 1 = 5
      /\ 5 - 2 + 1 = 4
      /\ 5 - 3 + 1 = 3
      /\ 5 - 4 + 1 = 2
      /\ 5 - 5 + 1 = 1
  OBVIOUS
<1> HIDE DEF n
<1>4. todo # <<>> =>
        \/ n = 5 /\ Head(todo) = "finish-recording"
        \/ n = 4 /\ Head(todo) = "stop-drive"
        \/ n = 3 /\ Head(todo) = "stop-again"
        \/ n = 2 /\ Head(todo) = "remove-files"
        \/ n = 1 /\ Head(todo) = "save-verdict"
  BY <1>1, <1>2, <1>3, BillingCleanup
<1>5. QED
  BY <1>0, <1>1, <1>4 DEF n

(* An exception starts the clean-up, with or without the recording.        *)
LEMMA BillingStarts ==
  /\ todo' = Billing!CLEANUP => Undoing(Billing!DialogCleanup)' /\ Len(todo') = 4
  /\ todo' = Billing!DialogCleanup => Undoing(Billing!DialogCleanup)' /\ Len(todo') = 5
<1>1. ASSUME todo' = Billing!CLEANUP
      PROVE  Undoing(Billing!DialogCleanup)' /\ Len(todo') = 4
  <2>1. Len(todo') = 4 /\ todo' = Rest(Billing!DialogCleanup, 4) /\ 4 \in 0..5
    BY <1>1, BillingCleanup
  <2>2. QED
    BY <2>1, BillingCleanup DEF Undoing, Rest
<1>2. ASSUME todo' = Billing!DialogCleanup
      PROVE  Undoing(Billing!DialogCleanup)' /\ Len(todo') = 5
  BY <1>2, BillingCleanup, UndoingStarts
<1>3. QED
  BY <1>1, <1>2

LEMMA BillingInit ==
  ASSUME Billing!Init
  PROVE  BillingTaps /\ BillingUndone
<1>1. todo = Billing!Program /\ mode = "run" /\ faults = 0
  BY DEF Billing!Init, Billing!Start
<1>2. BillingUndone
  BY <1>1 DEF Billing!Init, BillingUndone
<1>3. /\ "taps" \in DOMAIN seen /\ "owned" \in DOMAIN device
      /\ {"recoveries", "safe_emulator"} \subseteq DOMAIN mem
      /\ seen.taps = 0 /\ mem.recoveries = 0 /\ ~mem.safe_emulator
      /\ "recorder" \notin device.owned
  BY DEF Billing!Init
<1>4. BillingTaps
  BY <1>1, <1>3, SystemAssumption DEF BillingTaps
<1>5. QED
  BY <1>2, <1>4

(* The operation that runs in the try block, and what is left after it.    *)
LEMMA BillingHead ==
  ASSUME BillingTaps, mode = "run", todo # <<>>
  PROVE  \/ /\ ~mem.safe_emulator /\ "recorder" \notin device.owned
            /\ Head(todo) = "verify" /\ Tail(todo) \in Seq(BillingTry)
         \/ /\ mem.safe_emulator /\ "recorder" \notin device.owned
            /\ Head(todo) \in BillingTry /\ Tail(todo) \in Seq(BillingTry)
         \/ /\ mem.safe_emulator /\ "recorder" \notin device.owned
            /\ Head(todo) = "start-recording"
            /\ \E rest \in Seq(BillingTry) : Tail(todo) = BillingLook(rest)
         \/ /\ mem.safe_emulator /\ Head(todo) = "finish-recording"
            /\ Tail(todo) \in Seq(BillingTry)
         \/ /\ mem.safe_emulator /\ Head(todo) = "tap"
            /\ \E rest \in Seq(BillingTry) : Tail(todo) = BillingFinish(rest)
         \/ /\ mem.safe_emulator /\ Head(todo) = "look-again"
            /\ \E rest \in Seq(BillingTry) : Tail(todo) = BillingTap(rest)
         \/ /\ mem.safe_emulator /\ Head(todo) = "look"
            /\ \E rest \in Seq(BillingTry) : Tail(todo) = BillingLookAgain(rest)
         \/ /\ mem.safe_emulator /\ Head(todo) = "recover"
            /\ mem.recoveries < MAX_SYSTEM_ANR_RECOVERIES
            /\ \E rest \in Seq(BillingTry) : Tail(todo) = BillingLook(rest)
<1>1. CASE ~mem.safe_emulator /\ todo = Billing!Program /\ "recorder" \notin device.owned
  BY <1>1, BillingProgram
<1>2. CASE mem.safe_emulator /\ todo \in Seq(BillingTry) /\ "recorder" \notin device.owned
  BY <1>2, CallKeeps
<1>3. CASE /\ mem.safe_emulator /\ "recorder" \notin device.owned
           /\ \E rest \in Seq(BillingTry) : todo = BillingStart(rest)
  <2>1. PICK rest \in Seq(BillingTry) : todo = BillingStart(rest)
    BY <1>3
  <2>2. Head(todo) = "start-recording" /\ Tail(todo) = BillingLook(rest)
    BY <2>1, BillingRestParts
  <2>3. QED
    BY <1>3, <2>2
<1>4. CASE mem.safe_emulator /\ BillingAnswers
  <2>1. PICK rest \in Seq(BillingTry) :
          \/ todo = BillingFinish(rest)
          \/ todo = BillingTap(rest)
          \/ todo = BillingLookAgain(rest)
          \/ todo = BillingLook(rest)
    BY <1>4 DEF BillingAnswers
  <2>2. \/ Head(todo) = "finish-recording" /\ Tail(todo) = rest
        \/ Head(todo) = "tap" /\ Tail(todo) = BillingFinish(rest)
        \/ Head(todo) = "look-again" /\ Tail(todo) = BillingTap(rest)
        \/ Head(todo) = "look" /\ Tail(todo) = BillingLookAgain(rest)
    BY <2>1, BillingRestParts
  <2>3. QED
    BY <1>4, <2>2
<1>5. CASE /\ mem.safe_emulator /\ mem.recoveries < MAX_SYSTEM_ANR_RECOVERIES
           /\ \E rest \in Seq(BillingTry) : todo = BillingRecover(rest)
  <2>1. PICK rest \in Seq(BillingTry) : todo = BillingRecover(rest)
    BY <1>5
  <2>2. Head(todo) = "recover" /\ Tail(todo) = BillingLook(rest)
    BY <2>1, BillingRestParts
  <2>3. QED
    BY <1>5, <2>2
<1>6. QED
  BY <1>1, <1>2, <1>3, <1>4, <1>5 DEF BillingTaps

LEMMA BillingAreSequences ==
  ASSUME NEW rest \in Seq(BillingTry)
  PROVE  /\ <<>> \o rest = rest
         /\ <<>> \o BillingFinish(rest) = BillingFinish(rest)
         /\ <<>> \o BillingTap(rest) = BillingTap(rest)
         /\ <<>> \o BillingLookAgain(rest) = BillingLookAgain(rest)
         /\ <<>> \o BillingLook(rest) = BillingLook(rest)
<1> DEFINE T == BillingTry \cup {"finish-recording", "tap", "look-again", "look"}
<1>1. rest \in Seq(T) /\ \A x \in T : <<x>> \in Seq(T)
  OBVIOUS
<1>2. "finish-recording" \in T /\ "tap" \in T /\ "look-again" \in T /\ "look" \in T
  OBVIOUS
<1> HIDE DEF T
<1>3. BillingFinish(rest) \in Seq(T)
  BY <1>1, <1>2, ConcatProperties DEF BillingFinish
<1>4. BillingTap(rest) \in Seq(T)
  BY <1>1, <1>2, <1>3, ConcatProperties DEF BillingTap
<1>5. BillingLookAgain(rest) \in Seq(T)
  BY <1>1, <1>2, <1>4, ConcatProperties DEF BillingLookAgain
<1>6. BillingLook(rest) \in Seq(T)
  BY <1>1, <1>2, <1>5, ConcatProperties DEF BillingLook
<1>7. QED
  BY <1>1, <1>3, <1>4, <1>5, <1>6, ConcatEmptySeq

(* The app, the store and the clock leave the runner alone, and add        *)
(* nothing to undo.                                                        *)
LEMMA BillingOthers ==
  ASSUME BillingTaps, BillingUndone, Billing!Environment
  PROVE  BillingTaps' /\ BillingUndone'
<1>1. /\ UNCHANGED <<todo, mode, failed, mem, seen>>
      /\ faults' = faults \/ faults' = faults + 1
  BY DEF Billing!Environment,
     Billing!StoreDialog, Billing!JourneyEnds, Billing!Expire, Billing!SystemAnr,
     Billing!AppMisbehaves, Billing!TimePasses,
     Billing!Goes, Billing!control, Billing!NoFault, Billing!Fault
<1>2. {"owned", "pids", "drive", "report"} \subseteq DOMAIN device'
  BY DEF BillingUndone, Billing!Environment,
     Billing!StoreDialog, Billing!JourneyEnds, Billing!Expire, Billing!SystemAnr,
     Billing!AppMisbehaves, Billing!TimePasses
<1>3. device'.owned = device.owned /\ device'.report = device.report
  BY DEF BillingUndone, Billing!Environment,
     Billing!StoreDialog, Billing!JourneyEnds, Billing!Expire, Billing!SystemAnr,
     Billing!AppMisbehaves, Billing!TimePasses
<1>4. device'.drive = "running" => device.drive = "running"
  BY DEF BillingUndone, Billing!Environment, Billing!Driving,
     Billing!StoreDialog, Billing!JourneyEnds, Billing!Expire, Billing!SystemAnr,
     Billing!AppMisbehaves, Billing!TimePasses
<1>5. device'.pids = device.pids \/ (mode = "run" /\ device.pids # {})
  BY DEF BillingUndone, Billing!Environment, Billing!Running,
     Billing!StoreDialog, Billing!JourneyEnds, Billing!Expire, Billing!SystemAnr,
     Billing!AppMisbehaves, Billing!TimePasses
<1>6. BillingTaps'
  <2>1. faults' \in Nat /\ seen'.taps <= mem'.recoveries + faults'
    BY <1>1 DEF BillingTaps
  <2>2. QED
    BY <1>1, <1>2, <1>3, <2>1 DEF BillingTaps, BillingAnswers, Undoing, Rest
<1>7. BillingUndone'
  BY <1>1, <1>2, <1>3, <1>4, <1>5 DEF BillingUndone
<1>8. QED
  BY <1>6, <1>7

(* The try block never reaches what only the clean-up does.                *)
LEMMA BillingOnlyTries ==
  ASSUME BillingTaps, mode = "run"
  PROVE  /\ ~Billing!StopDrive /\ ~Billing!StopAgain /\ ~Billing!RemoveRemote
         /\ ~Billing!SaveVerdict /\ ~Billing!Report
BY BillingHead DEF Billing!StopDrive, Billing!StopAgain, Billing!RemoveRemote,
   Billing!SaveVerdict, Billing!Report, Billing!Now, BillingTry

LEMMA BillingDone ==
  ASSUME Billing!Runner
  PROVE  mode # "done"
BY DEF Billing!Runner,
   Billing!Verify, Billing!Save, Billing!Launch, Billing!Perform, Billing!DriveEnds,
   Billing!DriveFails, Billing!Probed, Billing!Verdict, Billing!Check, Billing!Fails,
   Billing!ThePid, Billing!ForceStop, Billing!StartRecording, Billing!Look,
   Billing!LookFails, Billing!Recover, Billing!Close, Billing!LookTimesOut,
   Billing!Tap, Billing!FinishRecording, Billing!StopDrive, Billing!StopAgain,
   Billing!RemoveRemote, Billing!SaveVerdict,
   Billing!Running, Billing!Now, Billing!EnterFinally, Billing!Report, Billing!Looking,
   Billing!Marker

LEMMA BillingWorks ==
  ASSUME BillingTaps, Billing!Runner, mode = "run"
  PROVE  /\ BillingTaps'
         /\ mode' # "run" =>
              /\ Len(todo') >= 4
              /\ "recorder" \in device'.owned =>
                   Len(todo') >= 5 \/ "finish-recording" \in failed'
<1> DEFINE Begun == mode' # "run" => /\ Len(todo') >= 4
                                     /\ "recorder" \in device'.owned =>
                                          Len(todo') >= 5 \/ "finish-recording" \in failed'
           Goal == BillingTaps' /\ Begun
           Later == Seq(BillingTry)
           Same == /\ {"recoveries", "safe_emulator"} \subseteq DOMAIN mem'
                   /\ mem'.recoveries = mem.recoveries /\ mem'.safe_emulator = mem.safe_emulator
           Kept == /\ "taps" \in DOMAIN seen' /\ seen'.taps = seen.taps
                   /\ "owned" \in DOMAIN device' /\ Same
           free == "recorder" \notin device.owned
           free2 == "recorder" \notin device'.owned
<1>1. todo # <<>> =>
      \/ ~mem.safe_emulator /\ free /\ Head(todo) = "verify" /\ Tail(todo) \in Later
      \/ /\ mem.safe_emulator /\ free
         /\ Head(todo) \in BillingTry /\ Tail(todo) \in Later
      \/ /\ mem.safe_emulator /\ free /\ Head(todo) = "start-recording"
         /\ \E rest \in Later : Tail(todo) = BillingLook(rest)
      \/ mem.safe_emulator /\ Head(todo) = "finish-recording" /\ Tail(todo) \in Later
      \/ /\ mem.safe_emulator /\ Head(todo) = "tap"
         /\ \E rest \in Later : Tail(todo) = BillingFinish(rest)
      \/ /\ mem.safe_emulator /\ Head(todo) = "look-again"
         /\ \E rest \in Later : Tail(todo) = BillingTap(rest)
      \/ /\ mem.safe_emulator /\ Head(todo) = "look"
         /\ \E rest \in Later : Tail(todo) = BillingLookAgain(rest)
      \/ /\ mem.safe_emulator /\ Head(todo) = "recover"
         /\ mem.recoveries < MAX_SYSTEM_ANR_RECOVERIES
         /\ \E rest \in Later : Tail(todo) = BillingLook(rest)
  BY BillingHead
<1>2. /\ "taps" \in DOMAIN seen /\ "owned" \in DOMAIN device
      /\ {"recoveries", "safe_emulator"} \subseteq DOMAIN mem
      /\ seen.taps \in Nat /\ mem.recoveries \in Nat /\ faults \in Nat
      /\ seen.taps <= mem.recoveries + faults /\ mem.recoveries <= MAX_SYSTEM_ANR_RECOVERIES
  BY DEF BillingTaps
<1>3. faults' = faults \/ faults' = faults + 1
  BY DEF Billing!Runner,
     Billing!Verify, Billing!Save, Billing!Launch, Billing!Perform,
     Billing!DriveEnds, Billing!DriveFails, Billing!Probed, Billing!Verdict,
     Billing!Check, Billing!Fails, Billing!ThePid, Billing!ForceStop,
     Billing!StartRecording, Billing!Look, Billing!LookFails, Billing!Recover,
     Billing!Close, Billing!LookTimesOut, Billing!Tap, Billing!FinishRecording,
     Billing!StopDrive, Billing!StopAgain, Billing!RemoveRemote, Billing!SaveVerdict,
     Billing!Fault, Billing!NoFault, Billing!Report,
     Billing!Require, Billing!ReturnOrFail, Billing!Return, Billing!Call, Billing!Raise,
     Billing!EnterFinally, Billing!Running, Billing!Unchanged
<1>4. faults' \in Nat /\ (Kept => seen'.taps <= mem'.recoveries + faults')
  BY <1>2, <1>3
<1>5. ASSUME Kept, Billing!Raise(Billing!CLEANUP), free2 \/ "finish-recording" \in failed'
      PROVE  Goal
  <2>1. mode' = "cleanup" /\ todo' = Billing!CLEANUP
    BY <1>5 DEF Billing!Raise, Billing!Running
  <2>2. Undoing(Billing!DialogCleanup)' /\ Len(todo') = 4
    BY <2>1, BillingStarts
  <2>3. QED
    BY <1>2, <1>4, <1>5, <2>1, <2>2 DEF BillingTaps
<1>6. ASSUME Kept, Billing!Raise(Billing!DialogCleanup)
      PROVE  Goal
  <2>1. mode' = "cleanup" /\ todo' = Billing!DialogCleanup
    BY <1>6 DEF Billing!Raise, Billing!Running
  <2>2. Undoing(Billing!DialogCleanup)' /\ Len(todo') = 5
    BY <2>1, BillingStarts
  <2>3. QED
    BY <1>2, <1>4, <1>6, <2>1, <2>2 DEF BillingTaps
<1>7. ASSUME Kept, mode' = "run", mem.safe_emulator, todo' \in Later, free2
      PROVE  Goal
  BY <1>2, <1>4, <1>7 DEF BillingTaps
<1>8. ASSUME Kept, mode' = "run", mem.safe_emulator, NEW rest \in Later,
             todo' = BillingStart(rest), free2
      PROVE  Goal
  BY <1>2, <1>4, <1>8 DEF BillingTaps
<1>9. ASSUME Kept, mode' = "run", mem.safe_emulator, NEW rest \in Later,
             \/ todo' = BillingFinish(rest)
             \/ todo' = BillingTap(rest)
             \/ todo' = BillingLookAgain(rest)
             \/ todo' = BillingLook(rest)
      PROVE  Goal
  BY <1>2, <1>4, <1>9 DEF BillingTaps, BillingAnswers
<1>10. ASSUME Kept, mode' = "run", mem.safe_emulator, NEW rest \in Later,
              mem.recoveries < MAX_SYSTEM_ANR_RECOVERIES, todo' = BillingRecover(rest)
      PROVE  Goal
  BY <1>2, <1>4, <1>10 DEF BillingTaps
<1>11. UNCHANGED <<device, mem, seen>> => Kept /\ (free => free2)
  BY <1>2
<1>12. ASSUME todo # <<>>, Billing!Return
       PROVE  mode' = "run" /\ todo' = Tail(todo)
  <2>1. mode' = "run" /\ todo' = <<>> \o Tail(todo)
    BY <1>12 DEF Billing!Return, Billing!Call
  <2>2. <<>> \o Tail(todo) = Tail(todo)
    <3>1. \A rest \in Later : /\ <<>> \o rest = rest
                              /\ <<>> \o BillingFinish(rest) = BillingFinish(rest)
                              /\ <<>> \o BillingTap(rest) = BillingTap(rest)
                              /\ <<>> \o BillingLookAgain(rest) = BillingLookAgain(rest)
                              /\ <<>> \o BillingLook(rest) = BillingLook(rest)
      BY BillingAreSequences
    <3>2. QED
      BY <1>1, <1>12, <3>1
  <2>3. QED
    BY <2>1, <2>2
<1> SUFFICES Goal
  BY DEF Goal
<1>13. ASSUME todo # <<>>, Head(todo) \in BillingTry, Kept, free => free2,
              Billing!Return \/ Billing!Raise(Billing!CLEANUP)
       PROVE  Goal
  <2>1. mem.safe_emulator /\ free /\ Tail(todo) \in Later
    BY <1>1, <1>13 DEF BillingTry
  <2>2. QED
    BY <1>5, <1>7, <1>12, <1>13, <2>1
<1> HIDE DEF Goal
<1>20. CASE Billing!Verify
  <2>1. todo # <<>> /\ Head(todo) = "verify" /\ Billing!Return
    BY <1>20 DEF Billing!Verify, Billing!Now
  <2>2. Tail(todo) \in Later /\ free
    BY <1>1, <2>1 DEF BillingTry
  <2>3. todo' = Tail(todo) /\ mode' = "run"
    BY <1>12, <2>1
  <2>4. /\ seen' = seen /\ device' = device
        /\ {"recoveries", "safe_emulator"} \subseteq DOMAIN mem'
        /\ mem'.recoveries = mem.recoveries /\ mem'.safe_emulator
    BY <1>2, <1>20 DEF Billing!Verify
  <2>5. /\ faults' \in Nat /\ seen'.taps <= mem'.recoveries + faults'
    BY <1>2, <1>3, <2>4
  <2>6. "recorder" \notin device'.owned
    BY <2>2, <2>4
  <2>7. QED
    BY <1>2, <2>2, <2>3, <2>4, <2>5, <2>6 DEF BillingTaps, Goal
<1>21. CASE Billing!Save
  <2>1. todo # <<>> /\ Head(todo) \in {"save"}
    BY <1>21 DEF Billing!Save, Billing!Now
  <2>2. Head(todo) \in BillingTry
    BY <2>1 DEF BillingTry
  <2>3. Kept /\ (free => free2)
    BY <1>2, <1>21 DEF Billing!Save, Billing!Unchanged
  <2>4. Billing!Return \/ Billing!Raise(Billing!CLEANUP)
    BY <1>21 DEF Billing!Save, Billing!Require
  <2>5. QED
    BY <1>13, <2>1, <2>2, <2>3, <2>4
<1>22. CASE \E journey \in {"matrix", "relaunch", "probe"} : Billing!Launch(journey)
  <2>1. todo # <<>> /\ Head(todo) \in {"matrix", "relaunch", "probe"}
    BY <1>22 DEF Billing!Launch, Billing!Now
  <2>2. Head(todo) \in BillingTry
    BY <2>1 DEF BillingTry
  <2>3. Kept /\ (free => free2)
    BY <1>2, <1>22 DEF Billing!Launch, Billing!Unchanged
  <2>4. Billing!Return \/ Billing!Raise(Billing!CLEANUP)
    BY <1>22 DEF Billing!Launch, Billing!Require
  <2>5. QED
    BY <1>13, <2>1, <2>2, <2>3, <2>4
<1>23. CASE Billing!Perform
  <2>1. todo # <<>> /\ Head(todo) = "drive"
    BY <1>23 DEF Billing!Perform, Billing!Marker, Billing!Now
  <2>2. mem.safe_emulator /\ free /\ Tail(todo) \in Later
    BY <1>1, <2>1 DEF BillingTry
  <2>3. Kept /\ free2
    BY <1>2, <2>2, <1>23 DEF Billing!Perform
  <2>4. \/ Billing!Call(Billing!PerformSteps \o <<"drive">>)
        \/ Billing!Raise(Billing!CLEANUP)
    BY <1>23 DEF Billing!Perform
  <2>5. ASSUME Billing!Call(Billing!PerformSteps \o <<"drive">>)
        PROVE  Goal
    <3> DEFINE T == BillingTry \cup {"start-recording", "look", "look-again", "tap", "finish-recording"}
               steps == Billing!PerformSteps
               one == <<"drive">>
               r == Tail(todo)
    <3>1. mode' = "run" /\ todo' = (steps \o one) \o r
      BY <2>5 DEF Billing!Call
    <3>2. steps \in Seq(T) /\ one \in Seq(T) /\ r \in Seq(T) /\ one \in Later
      BY <2>2 DEF Billing!PerformSteps, BillingTry
    <3>3. one \o r \in Later
      <4> HIDE DEF one, r
      <4>1. r \in Later
        BY <2>2 DEF r
      <4>2. QED
        BY <3>2, <4>1, ConcatProperties
    <3> HIDE DEF steps, one, r, T
    <3>4. todo' = steps \o (one \o r)
      BY <3>1, <3>2, ConcatAssociative
    <3>5. todo' = BillingStart(one \o r)
      BY <3>3, <3>4, BillingCalls DEF steps
    <3>6. QED
      BY <1>8, <2>2, <2>3, <3>1, <3>3, <3>5
  <2>6. QED
    BY <1>5, <2>3, <2>4, <2>5
<1>24. CASE Billing!DriveEnds
  <2>1. todo # <<>> /\ Head(todo) \in {"drive"}
    BY <1>24 DEF Billing!DriveEnds, Billing!Now
  <2>2. Head(todo) \in BillingTry
    BY <2>1 DEF BillingTry
  <2>3. Kept /\ (free => free2)
    BY <1>2, <1>24 DEF Billing!DriveEnds, Billing!Unchanged
  <2>4. Billing!Return \/ Billing!Raise(Billing!CLEANUP)
    BY <1>24 DEF Billing!DriveEnds, Billing!Require
  <2>5. QED
    BY <1>13, <2>1, <2>2, <2>3, <2>4
<1>25. CASE Billing!DriveFails
  <2>1. todo # <<>> /\ Head(todo) \in {"drive"}
    BY <1>25 DEF Billing!DriveFails, Billing!Now
  <2>2. Head(todo) \in BillingTry
    BY <2>1 DEF BillingTry
  <2>3. Kept /\ (free => free2)
    BY <1>2, <1>25 DEF Billing!DriveFails, Billing!Unchanged
  <2>4. Billing!Return \/ Billing!Raise(Billing!CLEANUP)
    BY <1>25 DEF Billing!DriveFails, Billing!Require
  <2>5. QED
    BY <1>13, <2>1, <2>2, <2>3, <2>4
<1>26. CASE Billing!Probed
  <2>1. todo # <<>> /\ Head(todo) = "probed"
    BY <1>26 DEF Billing!Probed, Billing!Now
  <2>2. Head(todo) \in BillingTry /\ mem.safe_emulator /\ free /\ Tail(todo) \in Later
    BY <1>1, <2>1 DEF BillingTry
  <2>3. Kept /\ free2
    BY <1>11, <2>2, <1>26 DEF Billing!Probed, Billing!Unchanged
  <2>4. \/ Billing!Call(Billing!Probe)
        \/ Billing!Return
        \/ Billing!Raise(Billing!CLEANUP)
    BY <1>26 DEF Billing!Probed
  <2>5. ASSUME Billing!Call(Billing!Probe)
        PROVE  Goal
    <3>1. mode' = "run" /\ todo' = Billing!Probe \o Tail(todo)
      BY <2>5 DEF Billing!Call
    <3>2. todo' \in Later
      BY <2>2, <3>1, BillingProgram, ConcatProperties
    <3>3. QED
      BY <1>7, <2>2, <2>3, <3>1, <3>2
  <2>6. QED
    BY <1>13, <2>1, <2>2, <2>3, <2>4, <2>5
<1>27. CASE Billing!Verdict
  <2>1. todo # <<>> /\ Head(todo) \in {"verdict"}
    BY <1>27 DEF Billing!Verdict, Billing!Now
  <2>2. Head(todo) \in BillingTry
    BY <2>1 DEF BillingTry
  <2>3. Kept /\ (free => free2)
    BY <1>2, <1>27 DEF Billing!Verdict, Billing!Unchanged
  <2>4. Billing!Return \/ Billing!Raise(Billing!CLEANUP)
    BY <1>27 DEF Billing!Verdict, Billing!Require
  <2>5. QED
    BY <1>13, <2>1, <2>2, <2>3, <2>4
<1>28. CASE Billing!Check("dialogs", mem.completed = Billing!STAGES)
  <2>1. todo # <<>> /\ Head(todo) \in {"dialogs"}
    BY <1>28 DEF Billing!Check, Billing!Now
  <2>2. Head(todo) \in BillingTry
    BY <2>1 DEF BillingTry
  <2>3. Kept /\ (free => free2)
    BY <1>2, <1>28 DEF Billing!Check, Billing!Unchanged
  <2>4. Billing!Return \/ Billing!Raise(Billing!CLEANUP)
    BY <1>28 DEF Billing!Check, Billing!Require
  <2>5. QED
    BY <1>13, <2>1, <2>2, <2>3, <2>4
<1>29. CASE Billing!Check("same-customer", mem.evidence.customer = mem.customer)
  <2>1. todo # <<>> /\ Head(todo) \in {"same-customer"}
    BY <1>29 DEF Billing!Check, Billing!Now
  <2>2. Head(todo) \in BillingTry
    BY <2>1 DEF BillingTry
  <2>3. Kept /\ (free => free2)
    BY <1>2, <1>29 DEF Billing!Check, Billing!Unchanged
  <2>4. Billing!Return \/ Billing!Raise(Billing!CLEANUP)
    BY <1>29 DEF Billing!Check, Billing!Require
  <2>5. QED
    BY <1>13, <2>1, <2>2, <2>3, <2>4
<1>30. CASE Billing!Check("gone", device.pids = {})
  <2>1. todo # <<>> /\ Head(todo) \in {"gone"}
    BY <1>30 DEF Billing!Check, Billing!Now
  <2>2. Head(todo) \in BillingTry
    BY <2>1 DEF BillingTry
  <2>3. Kept /\ (free => free2)
    BY <1>2, <1>30 DEF Billing!Check, Billing!Unchanged
  <2>4. Billing!Return \/ Billing!Raise(Billing!CLEANUP)
    BY <1>30 DEF Billing!Check, Billing!Require
  <2>5. QED
    BY <1>13, <2>1, <2>2, <2>3, <2>4
<1>31. CASE Billing!Check("build", Billing!InTime)
  <2>1. todo # <<>> /\ Head(todo) \in {"build"}
    BY <1>31 DEF Billing!Check, Billing!Now
  <2>2. Head(todo) \in BillingTry
    BY <2>1 DEF BillingTry
  <2>3. Kept /\ (free => free2)
    BY <1>2, <1>31 DEF Billing!Check, Billing!Unchanged
  <2>4. Billing!Return \/ Billing!Raise(Billing!CLEANUP)
    BY <1>31 DEF Billing!Check, Billing!Require
  <2>5. QED
    BY <1>13, <2>1, <2>2, <2>3, <2>4
<1>32. CASE Billing!ThePid("the-pid", TRUE)
  <2>1. todo # <<>> /\ Head(todo) \in {"the-pid"}
    BY <1>32 DEF Billing!ThePid, Billing!Now
  <2>2. Head(todo) \in BillingTry
    BY <2>1 DEF BillingTry
  <2>3. Kept /\ (free => free2)
    BY <1>2, <1>32 DEF Billing!ThePid, Billing!Unchanged
  <2>4. Billing!Return \/ Billing!Raise(Billing!CLEANUP)
    BY <1>32 DEF Billing!ThePid, Billing!Require
  <2>5. QED
    BY <1>13, <2>1, <2>2, <2>3, <2>4
<1>33. CASE Billing!ThePid("new-pid", device.pids # mem.pid)
  <2>1. todo # <<>> /\ Head(todo) \in {"new-pid"}
    BY <1>33 DEF Billing!ThePid, Billing!Now
  <2>2. Head(todo) \in BillingTry
    BY <2>1 DEF BillingTry
  <2>3. Kept /\ (free => free2)
    BY <1>2, <1>33 DEF Billing!ThePid, Billing!Unchanged
  <2>4. Billing!Return \/ Billing!Raise(Billing!CLEANUP)
    BY <1>33 DEF Billing!ThePid, Billing!Require
  <2>5. QED
    BY <1>13, <2>1, <2>2, <2>3, <2>4
<1>34. CASE Billing!ForceStop("stop-app")
  <2>1. todo # <<>> /\ Head(todo) \in {"stop-app"}
    BY <1>34 DEF Billing!ForceStop, Billing!Now
  <2>2. Head(todo) \in BillingTry
    BY <2>1 DEF BillingTry
  <2>3. Kept /\ (free => free2)
    BY <1>2, <1>34 DEF Billing!ForceStop, Billing!Unchanged
  <2>4. Billing!Return \/ Billing!Raise(Billing!CLEANUP)
    BY <1>34 DEF Billing!ForceStop, Billing!Require
  <2>5. QED
    BY <1>13, <2>1, <2>2, <2>3, <2>4
<1>35. CASE \E op \in {"verify", "matrix", "build", "relaunch", "probe", "the-pid"} : Billing!Fails(op)
  <2>1. /\ todo # <<>> /\ Head(todo) \in BillingTry \cup {"verify"}
        /\ Billing!Raise(Billing!CLEANUP) /\ UNCHANGED <<device, mem, seen>>
    BY <1>35 DEF Billing!Fails, Billing!Now, Billing!Unchanged, BillingTry
  <2>2. free
    BY <1>1, <2>1 DEF BillingTry
  <2>3. QED
    BY <1>5, <1>11, <2>1, <2>2
<1>36. CASE Billing!StartRecording
  <2>1. todo # <<>> /\ Head(todo) = "start-recording"
    BY <1>36 DEF Billing!StartRecording, Billing!Now
  <2>2. mem.safe_emulator /\ \E rest \in Later : Tail(todo) = BillingLook(rest)
    BY <1>1, <2>1 DEF BillingTry
  <2>3. Kept
    BY <1>2, <1>36 DEF Billing!StartRecording
  <2>4. Billing!Return \/ Billing!Raise(Billing!DialogCleanup)
    BY <1>36 DEF Billing!StartRecording, Billing!ReturnOrFail
  <2>5. QED
    BY <1>6, <1>9, <1>12, <2>1, <2>2, <2>3, <2>4
<1>37. CASE Billing!Look
  <2>1. /\ todo # <<>> /\ Head(todo) \in {"look", "look-again"} /\ Billing!Return
        /\ UNCHANGED <<device, mem, seen>>
    BY <1>37 DEF Billing!Look, Billing!Looking, Billing!Unchanged
  <2>2. /\ mem.safe_emulator
        /\ \E rest \in Later : Tail(todo) = BillingTap(rest) \/ Tail(todo) = BillingLookAgain(rest)
    BY <1>1, <2>1 DEF BillingTry
  <2>3. QED
    BY <1>9, <1>11, <1>12, <2>1, <2>2
<1>38. CASE Billing!LookFails
  <2>1. /\ todo # <<>> /\ Head(todo) = "look-again" /\ mode' = "run"
        /\ todo' = <<"look", "look-again">> \o Tail(todo) /\ UNCHANGED <<device, mem, seen>>
    BY <1>38 DEF Billing!LookFails, Billing!Now, Billing!Call, Billing!Unchanged
  <2>2. PICK rest \in Later : Tail(todo) = BillingTap(rest)
    BY <1>1, <2>1 DEF BillingTry
  <2>3. mem.safe_emulator
    BY <1>1, <2>1 DEF BillingTry
  <2>4. todo' = BillingLook(rest)
    BY <2>1, <2>2, BillingCalls
  <2>5. QED
    BY <1>9, <1>11, <2>1, <2>3, <2>4
<1>39. CASE Billing!Recover
  <2>1. /\ todo # <<>> /\ Head(todo) \in {"look", "look-again"} /\ mode' = "run"
        /\ UNCHANGED <<device, mem, seen>> /\ mem.recoveries < MAX_SYSTEM_ANR_RECOVERIES
    BY <1>39 DEF Billing!Recover, Billing!Looking, Billing!Call, Billing!Unchanged
  <2>2. mem.safe_emulator
    BY <1>1, <2>1 DEF BillingTry
  <2>3. CASE Head(todo) = "look"
    <3>1. PICK rest \in Later : Tail(todo) = BillingLookAgain(rest)
      BY <1>1, <2>1, <2>3 DEF BillingTry
    <3>2. todo' = <<"recover", "look">> \o Tail(todo)
      BY <2>3, <1>39 DEF Billing!Recover, Billing!Call
    <3>3. todo' = BillingRecover(rest)
      BY <3>1, <3>2, BillingCalls
    <3>4. QED
      BY <1>10, <1>11, <2>1, <2>2, <3>3
  <2>4. CASE Head(todo) = "look-again"
    <3>1. PICK rest \in Later : Tail(todo) = BillingTap(rest)
      BY <1>1, <2>1, <2>4 DEF BillingTry
    <3>2. todo' = <<"recover", "look", "look-again">> \o Tail(todo)
      BY <2>4, <1>39 DEF Billing!Recover, Billing!Call
    <3>3. todo' = BillingRecover(rest)
      BY <3>1, <3>2, BillingCalls
    <3>4. QED
      BY <1>10, <1>11, <2>1, <2>2, <3>3
  <2>5. QED
    BY <2>1, <2>3, <2>4
<1>40. CASE Billing!Close
  <2>1. /\ todo # <<>> /\ Head(todo) = "recover"
        /\ mode' = "run" /\ todo' = Tail(todo)
    BY <1>12, <1>40 DEF Billing!Close, Billing!Now, Billing!Return, Billing!Call
  <2>2. PICK rest \in Later : Tail(todo) = BillingLook(rest)
    BY <1>1, <2>1 DEF BillingTry
  <2>3. mem.safe_emulator /\ mem.recoveries < MAX_SYSTEM_ANR_RECOVERIES
    BY <1>1, <2>1 DEF BillingTry
  <2>4. CASE UNCHANGED <<device, mem, seen>>
    BY <1>9, <1>11, <2>1, <2>2, <2>3, <2>4
  <2>5. CASE /\ device' = [device EXCEPT !.anr = FALSE]
             /\ seen' = [seen EXCEPT !.taps = @ + 1]
             /\ \/ mem' = [mem EXCEPT !.recoveries = @ + 1]
                \/ mem' = mem /\ faults' = faults + 1
    <3>1. /\ "owned" \in DOMAIN device' /\ device'.owned = device.owned
          /\ "taps" \in DOMAIN seen' /\ seen'.taps = seen.taps + 1
      BY <1>2, <2>5
    <3>2. /\ {"recoveries", "safe_emulator"} \subseteq DOMAIN mem'
          /\ mem'.safe_emulator = mem.safe_emulator
          /\ \/ mem'.recoveries = mem.recoveries + 1
             \/ mem'.recoveries = mem.recoveries /\ faults' = faults + 1
      BY <1>2, <2>5
    <3>3. /\ seen'.taps \in Nat /\ mem'.recoveries \in Nat
          /\ seen'.taps <= mem'.recoveries + faults'
          /\ mem'.recoveries <= MAX_SYSTEM_ANR_RECOVERIES
      BY <1>2, <1>3, <2>3, <3>1, <3>2, SystemAssumption
    <3>4. BillingAnswers'
      BY <2>1, <2>2 DEF BillingAnswers
    <3>5. QED
      BY <1>4, <2>1, <2>3, <3>1, <3>2, <3>3, <3>4 DEF BillingTaps, Goal
  <2>6. QED
    BY <2>4, <2>5, <1>40 DEF Billing!Close, Billing!Unchanged, Billing!Fault
<1>41. CASE Billing!LookTimesOut
  BY <1>6, <1>11, <1>41 DEF Billing!LookTimesOut, Billing!Unchanged
<1>42. CASE Billing!Tap
  <2>1. todo # <<>> /\ Head(todo) = "tap"
    BY <1>42 DEF Billing!Tap, Billing!Now
  <2>2. mem.safe_emulator /\ \E rest \in Later : Tail(todo) = BillingFinish(rest)
    BY <1>1, <2>1 DEF BillingTry
  <2>3. Kept
    BY <1>2, <1>42 DEF Billing!Tap
  <2>4. Billing!Return \/ Billing!Raise(Billing!DialogCleanup)
    BY <1>42 DEF Billing!Tap, Billing!ReturnOrFail
  <2>5. QED
    BY <1>6, <1>9, <1>12, <2>1, <2>2, <2>3, <2>4
<1>43. CASE Billing!FinishRecording
  <2>1. todo # <<>> /\ Head(todo) = "finish-recording" /\ UNCHANGED <<mem, seen>>
    BY <1>43 DEF Billing!FinishRecording, Billing!Now
  <2>2. mem.safe_emulator /\ Tail(todo) \in Later
    BY <1>1, <2>1 DEF BillingTry
  <2>3. \/ device' = [device EXCEPT !.owned = @ \ {"recorder"}] /\ Billing!Return
        \/ device' = device /\ Billing!Raise(Billing!CLEANUP) /\ "finish-recording" \in failed'
    BY <2>1, <1>43 DEF Billing!FinishRecording, Billing!Drop, Billing!Raise
  <2>4. Kept /\ (device' # device => free2)
    BY <1>2, <2>1, <2>3
  <2>5. CASE device' = [device EXCEPT !.owned = @ \ {"recorder"}] /\ Billing!Return
    <3>1. free2
      BY <1>2, <2>5
    <3>2. QED
      BY <1>7, <1>12, <2>1, <2>2, <2>4, <2>5, <3>1
  <2>6. QED
    BY <1>5, <2>3, <2>4, <2>5
<1>44. CASE Billing!EnterFinally(Billing!CLEANUP) /\ Billing!Unchanged
  <2>1. /\ todo = <<>> /\ mode' = "cleanup" /\ todo' = Billing!CLEANUP
        /\ UNCHANGED <<device, mem, seen>>
    BY <1>44 DEF Billing!EnterFinally, Billing!Unchanged
  <2>2. free
    BY <2>1, BillingRestParts, BillingProgram DEF BillingTaps, BillingAnswers
  <2>3. Undoing(Billing!DialogCleanup)' /\ Len(todo') = 4
    BY <2>1, BillingStarts
  <2>4. QED
    BY <1>2, <1>4, <1>11, <2>1, <2>2, <2>3 DEF BillingTaps, Goal
<1>45. QED
  BY <1>20, <1>21, <1>22, <1>23, <1>24, <1>25, <1>26, <1>27, <1>28, <1>29, <1>30, <1>31, <1>32,
     <1>33, <1>34, <1>35, <1>36, <1>37, <1>38, <1>39, <1>40, <1>41, <1>42, <1>43, <1>44,
     BillingOnlyTries DEF Billing!Runner

LEMMA BillingRunning ==
  ASSUME BillingTaps, BillingUndone, Billing!Runner, mode = "run"
  PROVE  BillingUndone'
<1>1. /\ {"owned", "pids", "drive", "report"} \subseteq DOMAIN device
      /\ {"passed", "safe_emulator"} \subseteq DOMAIN mem
      /\ device.pids # {} => mem.safe_emulator
      /\ device.report # "passed"
  BY DEF BillingUndone, BillingTaps
<1>2. /\ ~Billing!StopDrive /\ ~Billing!StopAgain /\ ~Billing!RemoveRemote
      /\ ~Billing!SaveVerdict /\ ~Billing!Report
  BY BillingOnlyTries
<1>3. {"owned", "pids", "drive", "report"} \subseteq DOMAIN device'
  BY <1>1, <1>2 DEF Billing!Runner,
     Billing!Verify, Billing!Save, Billing!Launch, Billing!Perform,
     Billing!DriveEnds, Billing!DriveFails, Billing!Probed, Billing!Verdict,
     Billing!Check, Billing!Fails, Billing!ThePid, Billing!ForceStop,
     Billing!StartRecording, Billing!Look, Billing!LookFails, Billing!Recover,
     Billing!Close, Billing!LookTimesOut, Billing!Tap, Billing!FinishRecording,
     Billing!Drop, Billing!Unchanged
<1>4. /\ {"passed", "safe_emulator"} \subseteq DOMAIN mem'
      /\ mem.safe_emulator => mem'.safe_emulator
  BY <1>1, <1>2 DEF Billing!Runner,
     Billing!Verify, Billing!Save, Billing!Launch, Billing!Perform,
     Billing!DriveEnds, Billing!DriveFails, Billing!Probed, Billing!Verdict,
     Billing!Check, Billing!Fails, Billing!ThePid, Billing!ForceStop,
     Billing!StartRecording, Billing!Look, Billing!LookFails, Billing!Recover,
     Billing!Close, Billing!LookTimesOut, Billing!Tap, Billing!FinishRecording,
     Billing!Unchanged
<1>5. device'.report # "passed"
  BY <1>1, <1>2 DEF Billing!Runner,
     Billing!Verify, Billing!Save, Billing!Launch, Billing!Perform,
     Billing!DriveEnds, Billing!DriveFails, Billing!Probed, Billing!Verdict,
     Billing!Check, Billing!Fails, Billing!ThePid, Billing!ForceStop,
     Billing!StartRecording, Billing!Look, Billing!LookFails, Billing!Recover,
     Billing!Close, Billing!LookTimesOut, Billing!Tap, Billing!FinishRecording,
     Billing!Drop, Billing!Unchanged
<1>6. device'.pids # {} => mem'.safe_emulator
  <2>1. CASE mem.safe_emulator
    BY <1>4, <2>1
  <2>2. CASE ~mem.safe_emulator
    <3>1. todo # <<>> => Head(todo) = "verify"
      BY <2>2, BillingHead
    <3>2. device' = device
      BY <1>2, <3>1 DEF Billing!Runner,
         Billing!Verify, Billing!Save, Billing!Launch, Billing!Perform,
         Billing!DriveEnds, Billing!DriveFails, Billing!Probed, Billing!Verdict,
         Billing!Check, Billing!Fails, Billing!ThePid, Billing!ForceStop,
         Billing!StartRecording, Billing!Look, Billing!LookFails, Billing!Recover,
         Billing!Close, Billing!LookTimesOut, Billing!Tap, Billing!FinishRecording,
         Billing!Unchanged, Billing!Looking, Billing!Marker, Billing!Now
    <3>3. QED
      BY <1>1, <2>2, <3>2
  <2>3. QED
    BY <2>1, <2>2
<1>7. mode' # "run" => /\ Len(todo') >= 4
                       /\ "recorder" \in device'.owned =>
                            Len(todo') >= 5 \/ "finish-recording" \in failed'
  BY BillingWorks
<1>8. mode' # "run" => Len(todo') >= 3 /\ Len(todo') >= 2
  <2>1. mode' # "run" => Len(todo') \in Nat
    BY BillingWorks, BillingCleanup DEF BillingTaps, Undoing
  <2>2. QED
    BY <1>7, <2>1
<1>9. QED
  BY <1>1, <1>3, <1>4, <1>5, <1>6, <1>7, <1>8 DEF BillingUndone

LEMMA BillingCleaningControl ==
  ASSUME BillingTaps, Billing!Runner, mode = "cleanup"
  PROVE  /\ BillingTaps'
         /\ \/ /\ mode' = "done" /\ todo = <<>> /\ todo' = <<>>
               /\ UNCHANGED <<device, mem, failed>>
            \/ /\ mode' = "cleanup" /\ todo # <<>>
               /\ \/ Billing!FinishRecording \/ Billing!StopDrive \/ Billing!StopAgain
                  \/ Billing!RemoveRemote \/ Billing!SaveVerdict
               /\ failed \subseteq failed' /\ Len(todo') = Len(todo) - 1
<1>1. Undoing(Billing!DialogCleanup)
  BY DEF BillingTaps
<1>2. todo # <<>> => Head(todo) \in {"finish-recording", "stop-drive", "stop-again", "remove-files",
                                  "save-verdict"}
  BY <1>1, BillingPlaces
<1>3. \/ Billing!FinishRecording \/ Billing!StopDrive \/ Billing!StopAgain
      \/ Billing!RemoveRemote \/ Billing!SaveVerdict
      \/ Billing!Report /\ Billing!Unchanged
  BY <1>2 DEF Billing!Runner,
     Billing!Verify, Billing!Save, Billing!Launch, Billing!Perform,
     Billing!DriveEnds, Billing!DriveFails, Billing!Probed, Billing!Verdict,
     Billing!Check, Billing!Fails, Billing!ThePid, Billing!ForceStop,
     Billing!StartRecording, Billing!Look, Billing!LookFails, Billing!Recover,
     Billing!Close, Billing!LookTimesOut, Billing!Tap,
     Billing!Running, Billing!Now, Billing!EnterFinally, Billing!Looking, Billing!Marker
<1>4. /\ seen' = seen /\ "owned" \in DOMAIN device'
      /\ {"recoveries", "safe_emulator"} \subseteq DOMAIN mem'
      /\ mem'.recoveries = mem.recoveries
      /\ faults' = faults \/ faults' = faults + 1
  BY <1>3 DEF BillingTaps,
     Billing!StopDrive, Billing!StopAgain, Billing!RemoveRemote, Billing!SaveVerdict,
     Billing!FinishRecording, Billing!Drop, Billing!Report,
     Billing!Require, Billing!ReturnOrFail, Billing!Return, Billing!Call, Billing!Raise,
     Billing!EnterFinally, Billing!Running, Billing!Unchanged,
     Billing!Fault, Billing!NoFault
<1>5. ASSUME Undoing(Billing!DialogCleanup)', mode' = "cleanup" \/ (mode' = "done" /\ todo' = <<>>)
      PROVE  BillingTaps'
  <2>1. faults' \in Nat /\ seen'.taps <= mem'.recoveries + faults'
    BY <1>4 DEF BillingTaps
  <2>2. QED
    BY <1>4, <1>5, <2>1 DEF BillingTaps
<1>6. CASE Billing!Report /\ Billing!Unchanged
  <2>1. mode' = "done" /\ todo = <<>> /\ todo' = <<>> /\ UNCHANGED <<device, mem, failed>>
    BY <1>6 DEF Billing!Report, Billing!Unchanged
  <2>2. Undoing(Billing!DialogCleanup)'
    BY <2>1, BillingCleanup, UndoingOver
  <2>3. QED
    BY <1>5, <2>1, <2>2
<1>7. CASE \/ Billing!FinishRecording \/ Billing!StopDrive \/ Billing!StopAgain
           \/ Billing!RemoveRemote \/ Billing!SaveVerdict
  <2>1. todo # <<>>
    BY <1>7 DEF Billing!FinishRecording, Billing!StopDrive, Billing!StopAgain,
       Billing!RemoveRemote, Billing!SaveVerdict, Billing!Now
  <2>2. Billing!Return \/ Billing!Raise(Billing!CLEANUP)
    BY <1>7 DEF Billing!FinishRecording, Billing!StopDrive, Billing!StopAgain,
       Billing!RemoveRemote, Billing!SaveVerdict
  <2>3. /\ todo' = Tail(todo) \/ todo' = <<>> \o Tail(todo)
        /\ mode' = "cleanup" /\ failed \subseteq failed'
    BY <2>2 DEF Billing!Return, Billing!Call, Billing!Raise, Billing!Running
  <2>4. Undoing(Billing!DialogCleanup)' /\ Len(todo') = Len(todo) - 1
    BY <1>1, <2>1, <2>3, BillingCleanup, UndoingNext
  <2>5. BillingTaps'
    BY <1>5, <2>3, <2>4
  <2>6. QED
    BY <1>7, <2>1, <2>3, <2>4, <2>5
<1>8. QED
  BY <1>3, <1>6, <1>7

LEMMA BillingTapsStep ==
  ASSUME BillingTaps, BillingUndone, Billing!Next
  PROVE  BillingTaps'
<1>1. CASE Billing!Runner
  BY <1>1, BillingWorks, BillingCleaningControl, BillingDone DEF BillingTaps
<1>2. CASE Billing!Environment
  BY <1>2, BillingOthers
<1>3. QED
  BY <1>1, <1>2 DEF Billing!Next

LEMMA BillingCleaning ==
  ASSUME BillingTaps, BillingUndone, Billing!Runner, mode = "cleanup"
  PROVE  BillingUndone'
<1> DEFINE n == Len(todo)
           new == Len(todo')
<1>1. /\ {"owned", "pids", "drive", "report"} \subseteq DOMAIN device
      /\ {"passed", "safe_emulator"} \subseteq DOMAIN mem
      /\ device.pids # {} => mem.safe_emulator
      /\ device.report = "passed" => mem.passed /\ todo = <<>>
      /\ "recorder" \in device.owned => n >= 5 \/ "finish-recording" \in failed
      /\ device.drive = "running" => n >= 4
      /\ device.pids # {} => n >= 3 \/ "stop-again" \in failed
      /\ "files" \in device.owned => n >= 2 \/ "remove-files" \in failed
  BY DEF BillingUndone, BillingTaps
<1>2. /\ todo = <<>> => n = 0
      /\ todo # <<>> =>
           \/ n = 5 /\ Head(todo) = "finish-recording"
           \/ n = 4 /\ Head(todo) = "stop-drive"
           \/ n = 3 /\ Head(todo) = "stop-again"
           \/ n = 2 /\ Head(todo) = "remove-files"
           \/ n = 1 /\ Head(todo) = "save-verdict"
  BY BillingPlaces DEF BillingTaps
<1>3. CASE mode' = "done" /\ todo = <<>> /\ todo' = <<>> /\ UNCHANGED <<device, mem, failed>>
  <2>1. n = 0 /\ new = 0
    BY <1>2, <1>3
  <2> HIDE DEF n, new
  <2>2. QED
    BY <1>1, <1>3, <2>1 DEF BillingUndone, n, new
<1>4. CASE /\ mode' = "cleanup" /\ todo # <<>>
           /\ \/ Billing!FinishRecording \/ Billing!StopDrive \/ Billing!StopAgain
              \/ Billing!RemoveRemote \/ Billing!SaveVerdict
           /\ failed \subseteq failed' /\ Len(todo') = Len(todo) - 1
  <2>0. new = n - 1 /\ (new = 0 => todo' = <<>>)
    <3>1. Undoing(Billing!DialogCleanup)'
      BY <1>4, BillingCleaningControl DEF BillingTaps
    <3>2. Len(todo') = 0 => todo' = <<>>
      BY <3>1, BillingCleanup, RestEnds DEF Undoing, Rest
    <3>3. QED
      BY <1>4, <3>2
  <2> HIDE DEF n, new
  <2> DEFINE Effects ==
        /\ {"owned", "pids", "drive", "report"} \subseteq DOMAIN device'
        /\ {"passed", "safe_emulator"} \subseteq DOMAIN mem'
        /\ mem'.safe_emulator = mem.safe_emulator
        /\ device'.owned \subseteq device.owned
        /\ device'.pids \subseteq device.pids
        /\ device'.drive = device.drive \/ device'.drive # "running"
        /\ n # 1 => device'.report = device.report
        /\ n = 1 /\ device'.report = "passed" => mem'.passed
        /\ n = 5 => "recorder" \notin device'.owned \/ "finish-recording" \in failed'
        /\ n = 4 => device'.drive # "running"
        /\ n = 3 => device'.pids = {} \/ "stop-again" \in failed'
        /\ n = 2 => "files" \notin device'.owned \/ "remove-files" \in failed'
  <2>1. Effects
    <3>1. CASE Billing!FinishRecording
      <4>1. /\ n = 5 /\ mem' = mem
            /\ \/ device' = [device EXCEPT !.owned = @ \ {"recorder"}]
               \/ device' = device /\ "finish-recording" \in failed'
        BY <1>2, <1>4, <3>1 DEF Billing!FinishRecording, Billing!Drop, Billing!Raise, Billing!Now
      <4>2. QED
        BY <1>1, <4>1
    <3>2. CASE Billing!StopDrive
      <4>1. /\ n = 4 /\ mem' = mem
            /\ device' = [device EXCEPT !.drive = "off", !.dialog = "none"]
        BY <1>2, <1>4, <3>2 DEF Billing!StopDrive, Billing!Now
      <4>2. QED
        BY <1>1, <4>1
    <3>3. CASE Billing!StopAgain
      <4>1. n = 3
        BY <1>2, <1>4, <3>3 DEF Billing!StopAgain, Billing!Now
      <4>2. \/ mem' = mem /\ device' = [device EXCEPT !.pids = IF mem.safe_emulator THEN {} ELSE @]
            \/ /\ mem' = [mem EXCEPT !.passed = FALSE] /\ device' = device
               /\ "stop-again" \in failed'
        BY <3>3 DEF Billing!StopAgain, Billing!Raise, Billing!Now
      <4>3. CASE mem' = mem /\ device' = [device EXCEPT !.pids = IF mem.safe_emulator THEN {} ELSE @]
        BY <1>1, <4>1, <4>3
      <4>4. CASE /\ mem' = [mem EXCEPT !.passed = FALSE] /\ device' = device
                 /\ "stop-again" \in failed'
        BY <1>1, <4>1, <4>4
      <4>5. QED
        BY <4>2, <4>3, <4>4
    <3>4. CASE Billing!RemoveRemote
      <4>1. n = 2
        BY <1>2, <1>4, <3>4 DEF Billing!RemoveRemote, Billing!Now
      <4>2. \/ mem' = mem /\ device' = [device EXCEPT !.owned = @ \ {"files"}]
            \/ /\ mem' = [mem EXCEPT !.passed = FALSE] /\ device' = device
               /\ "remove-files" \in failed'
        BY <3>4 DEF Billing!RemoveRemote, Billing!Drop, Billing!Raise, Billing!Now
      <4>3. QED
        BY <1>1, <4>1, <4>2
    <3>5. CASE Billing!SaveVerdict
      <4>1. n = 1 /\ mem' = mem
        BY <1>2, <1>4, <3>5 DEF Billing!SaveVerdict, Billing!Now
      <4>2. \/ device' = [device EXCEPT !.report = IF mem.passed THEN "passed" ELSE "failed"]
            \/ device' = device
        BY <3>5 DEF Billing!SaveVerdict
      <4>3. device'.report = "passed" => mem.passed
        BY <1>1, <4>2
      <4>4. QED
        BY <1>1, <4>1, <4>2, <4>3
    <3>6. QED
      BY <1>4, <3>1, <3>2, <3>3, <3>4, <3>5
  <2>2. n = 5 \/ n = 4 \/ n = 3 \/ n = 2 \/ n = 1
    BY <1>2, <1>4
  <2>3. "recorder" \in device'.owned => "finish-recording" \in failed'
    BY <1>1, <1>4, <2>1, <2>2
  <2>4. device'.drive = "running" => new >= 4
    BY <1>1, <1>4, <2>0, <2>1, <2>2
  <2>5. device'.pids # {} => new >= 3 \/ "stop-again" \in failed'
    BY <1>1, <1>4, <2>0, <2>1, <2>2
  <2>6. "files" \in device'.owned => new >= 2 \/ "remove-files" \in failed'
    BY <1>1, <1>4, <2>0, <2>1, <2>2
  <2>7. device'.report = "passed" => mem'.passed /\ todo' = <<>>
    <3>1. n # 1 => device'.report # "passed"
      BY <1>1, <1>4, <2>1
    <3>2. n = 1 => todo' = <<>>
      BY <2>0
    <3>3. QED
      BY <2>1, <3>1, <3>2
  <2>8. device'.pids # {} => mem'.safe_emulator
    BY <1>1, <2>1
  <2>9. QED
    BY <1>1, <1>4, <2>1, <2>3, <2>4, <2>5, <2>6, <2>7, <2>8 DEF BillingUndone, new
<1>5. QED
  BY <1>3, <1>4, BillingCleaningControl

LEMMA BillingUndoneStep ==
  ASSUME BillingTaps, BillingUndone, Billing!Next
  PROVE  BillingUndone'
<1>1. CASE Billing!Runner
  BY <1>1, BillingRunning, BillingCleaning, BillingDone DEF BillingTaps
<1>2. CASE Billing!Environment
  BY <1>2, BillingOthers
<1>3. QED
  BY <1>1, <1>2 DEF Billing!Next

LEMMA BillingRestored ==
  ASSUME BillingTaps, BillingUndone, Done
  PROVE  Billing!Restored
<1>1. mode = "done" /\ Len(todo) = 0
  BY DEF Done, BillingTaps
<1>2. /\ "recorder" \in device.owned => "finish-recording" \in failed
      /\ device.drive # "running"
      /\ device.pids # {} => "stop-again" \in failed
      /\ "files" \in device.owned => "remove-files" \in failed
      /\ device.report = "passed" => mem.passed
  BY <1>1 DEF BillingUndone
<1>3. QED
  BY <1>2 DEF Billing!Restored

-----------------------------------------------------------------------------
(* All of them.                                                            *)

ToolInvariant ==
  /\ tool \in {"network", "recording", "installation", "observer", "lifecycle", "fullscreen",
               "together focus", "interruption", "billing"}
  /\ tool = "network" => NetworkUndone
  /\ tool = "recording" => RecordingUndone
  /\ tool = "installation" => InstallationTaps /\ InstallationUndone /\ InstallationAuthorized
  /\ tool = "observer" => ObserverKnows /\ ObserverUndone /\ ObserverEnds
  /\ tool = "lifecycle" => LifecycleTaps /\ LifecycleUndone
  /\ tool = "fullscreen" => FullscreenTaps /\ FullscreenUndone
  /\ tool = "together focus" => TogetherUndone
  /\ tool = "interruption" => InterruptionUndone
  /\ tool = "billing" => BillingTaps /\ BillingUndone

LEMMA ToolInvariantInit ==
  ASSUME ToolInit
  PROVE  ToolInvariant
<1>1. CASE tool = "network" /\ Network!Init
  BY <1>1, NetworkInit DEF ToolInvariant
<1>2. CASE tool = "recording" /\ Recording!Init
  BY <1>2, RecordingInit DEF ToolInvariant
<1>3. CASE tool = "installation" /\ Installation!Init
  BY <1>3, InstallationInit DEF ToolInvariant
<1>4. CASE tool = "observer" /\ Observer!Init
  BY <1>4, ObserverInit DEF ToolInvariant
<1>5. CASE tool = "lifecycle" /\ Lifecycle!Init
  BY <1>5, LifecycleInit DEF ToolInvariant
<1>6. CASE tool = "fullscreen" /\ Fullscreen!Init
  BY <1>6, FullscreenInit DEF ToolInvariant
<1>7. CASE tool = "together focus" /\ TogetherFocus!Init
  BY <1>7, TogetherInit DEF ToolInvariant
<1>8. CASE tool = "interruption" /\ Interruption!Init
  BY <1>8, InterruptionInit DEF ToolInvariant
<1>9. CASE tool = "billing" /\ Billing!Init
  BY <1>9, BillingInit DEF ToolInvariant
<1>10. QED
  BY <1>1, <1>2, <1>3, <1>4, <1>5, <1>6, <1>7, <1>8, <1>9 DEF ToolInit

(* What nobody touches stays as it is.                                     *)
LEMMA ToolInvariantStutters ==
  ASSUME ToolInvariant, UNCHANGED <<vars, tool>>
  PROVE  ToolInvariant'
<1>1. /\ todo' = todo /\ mode' = mode /\ failed' = failed /\ faults' = faults
      /\ device' = device /\ mem' = mem /\ seen' = seen /\ tool' = tool
  BY DEF vars
<1>2. NetworkUndone => NetworkUndone'
  BY <1>1 DEF NetworkUndone, Network!Radios, Undoing, Rest
<1>3. RecordingUndone => RecordingUndone'
  BY <1>1 DEF RecordingUndone, RecordingBefore, RecordingNever, RecordingStopping, RecordingAgain,
     EndsIn, Undoing, Rest
<1>4. InstallationTaps => InstallationTaps'
  BY <1>1 DEF InstallationTaps, InstallationBefore, InstallationDialog, Undoing, Rest
<1>5. InstallationUndone => InstallationUndone'
  BY <1>1 DEF InstallationUndone, Undoing, Rest
<1>6. ObserverKnows => ObserverKnows'
  BY <1>1 DEF ObserverKnows, Undoing, Rest
<1>7. ObserverUndone => ObserverUndone'
  BY <1>1 DEF ObserverUndone, Undoing, Rest
<1>8. ObserverEnds => ObserverEnds'
  BY <1>1 DEF ObserverEnds, Undoing, Rest
<1>9. LifecycleTaps => LifecycleTaps'
  BY <1>1 DEF LifecycleTaps, Undoing, Rest
<1>10. LifecycleUndone => LifecycleUndone'
  BY <1>1 DEF LifecycleUndone, Undoing, Rest
<1>11. FullscreenTaps => FullscreenTaps'
  BY <1>1 DEF FullscreenTaps, Undoing, Rest
<1>12. FullscreenUndone => FullscreenUndone'
  BY <1>1 DEF FullscreenUndone, Undoing, Rest
<1>13. TogetherUndone => TogetherUndone'
  BY <1>1 DEF TogetherUndone, Undoing, Rest
<1>14. InterruptionUndone => InterruptionUndone'
  BY <1>1 DEF InterruptionUndone, Undoing, Rest
<1>15. BillingTaps => BillingTaps'
  BY <1>1 DEF BillingTaps, BillingAnswers, Undoing, Rest
<1>16. BillingUndone => BillingUndone'
  BY <1>1 DEF BillingUndone, Undoing, Rest
<1>17. InstallationAuthorized => InstallationAuthorized'
  BY <1>1 DEF InstallationAuthorized
<1>18. QED
  BY <1>1, <1>2, <1>3, <1>4, <1>5, <1>6, <1>7, <1>8, <1>9, <1>10, <1>11, <1>12, <1>13, <1>14,
     <1>15, <1>16, <1>17 DEF ToolInvariant

-----------------------------------------------------------------------------
(* The verdict of the installation.                                        *)

(* The verdict of the installation: what is known when the first d         *)
(* operations of the program have been done.                               *)
InstallationFields ==
  /\ {"emulator", "package", "app", "fatal", "onboarding", "window", "late", "owned"} \subseteq DOMAIN device
  /\ {"process", "pid", "installed_pid", "finish_attempted"} \subseteq DOMAIN mem
  /\ "shown" \in DOMAIN seen
  /\ device.app \in Nat /\ mem.pid \in Nat

(* A process that was asked for still runs, or the log says that it died.  *)
InstallationProcesses == mem.pid # 0 => mem.pid = device.app \/ mem.pid \in device.fatal

InstallationSoFar(d) ==
  /\ d >= 1 => device.emulator
  /\ d < 6 => mem.pid = 0
  /\ d >= 4 => device.package = "new"
  /\ d >= 5 => mem.process
  /\ d < 7 => seen.shown = {}
  /\ d >= 7 => /\ mem.installed_pid # 0
               /\ seen.shown = {mem.installed_pid} \/ mem.installed_pid \in device.fatal
  /\ d >= 9 => seen.shown = {mem.installed_pid}
  /\ d >= 12 => mem.finish_attempted

(* What comes before the wait for the first screen, again or once more.    *)
InstallationAgain == {"launch", "relaunch", "recover", "confirm", "tap"}

InstallationPassing ==
  /\ mode = "run" =>
       /\ errors = FALSE /\ InstallationFields /\ InstallationProcesses
       /\ \/ \E d \in 0..12 : todo = After(InstallationProgram, d) /\ InstallationSoFar(d)
          \/ \E ops \in Seq(InstallationAgain) :
               todo = ops \o After(InstallationProgram, 6) /\ InstallationSoFar(6)
          \/ /\ todo = <<"look">> \o After(InstallationProgram, 7)
             /\ InstallationSoFar(6) /\ mem.pid # 0
  /\ mode # "run" /\ ~errors => InstallationFields /\ Installation!Earned

LEMMA InstallationCalls ==
  ASSUME NEW i \in 1..12
  PROVE  /\ InstallationProgram[i] = "prepare" <=> i = 1
         /\ InstallationProgram[i] = "uninstall" <=> i = 3
         /\ InstallationProgram[i] = "install" <=> i = 4
         /\ InstallationProgram[i] = "start-recorder" <=> i = 5
         /\ InstallationProgram[i] = "launch" <=> i = 6
         /\ InstallationProgram[i] = "wait" <=> i = 7
         /\ InstallationProgram[i] = "log" <=> i = 9
         /\ InstallationProgram[i] = "finish-recorder" <=> i = 12
         /\ InstallationProgram[i] # "look"
         /\ InstallationProgram[i] \in InstallationAgain => i = 6
BY DEF InstallationProgram, InstallationAgain

LEMMA InstallationRaises ==
  ASSUME mode = "run", errors = FALSE, Installation!Next, errors' # FALSE
  PROVE  mode' # "run" /\ errors' = TRUE
BY DEF Installation!Next, Installation!Runner, Installation!Environment,
   Installation!PrepareDevice, Installation!PrepareStorage, Installation!Uninstall,
   Installation!Install, Installation!StartRecorder, Installation!FinishRecorder,
   Installation!AmStart, Installation!Relaunch, Installation!Recover, Installation!Confirm,
   Installation!Tap, Installation!ReadPid, Installation!Look, Installation!CheckLog,
   Installation!CheckStable, Installation!LookAgain, Installation!Check, Installation!Fails,
   Installation!ForceStop, Installation!RemoveFiles, Installation!EnterFinally,
   Installation!Report, Installation!Expire, Installation!ShowOnboarding, Installation!SetupAnr,
   Installation!AppDies, Installation!Unchanged, Installation!control, Installation!Require,
   Installation!ReturnOrFail, Installation!Return, Installation!ReturnUnheeded,
   Installation!Call, Installation!Raise, Installation!RaiseOut, Installation!Running,
   Installation!Now

(* What the tool remembers of the process, and what it has seen of it.     *)
InstallationMemory == <<mem.pid, mem.installed_pid, seen.shown>>

(* What is left alone by everything that is not named here.                *)
InstallationKeeps(op) ==
  /\ InstallationFields' /\ device'.emulator = device.emulator
  /\ op \notin {"uninstall", "install"} => device'.package = device.package
  /\ device.fatal \subseteq device'.fatal
  /\ op # "uninstall" => \/ device.app = 0 \/ device'.app = device.app
                         \/ device.app \in device'.fatal
  /\ mem.process => mem'.process
  /\ op # "finish-recorder" => mem'.finish_attempted = mem.finish_attempted

(* An operation of the program that returns.                               *)
InstallationReturns(op) ==
  /\ InstallationMemory' = InstallationMemory
  /\ op = "prepare" => device.emulator
  /\ op = "install" => device'.package = "new"
  /\ op = "start-recorder" => mem'.process
  /\ op = "log" => mem.installed_pid \notin device.fatal /\ device'.fatal = device.fatal
  /\ op = "finish-recorder" /\ mem.process => mem'.finish_attempted

(* The first screen is seen of the process whose number was read.          *)
InstallationLooks ==
  /\ mem'.pid = mem.pid /\ mem'.installed_pid = mem.pid /\ device' = device
  /\ seen'.shown = seen.shown \cup {device.app}

LEMMA InstallationEffects ==
  ASSUME InstallationFields, InstallationTaps, mode = "run", Installation!Next, errors' = FALSE
  PROVE  \/ /\ mode' = "cleanup" /\ todo = <<>> /\ UNCHANGED <<device, mem, seen>>
         \/ /\ mode' = "run" /\ todo' = todo /\ InstallationKeeps("none")
            /\ InstallationMemory' = InstallationMemory
         \/ /\ mode' = "run" /\ todo # <<>> /\ Head(todo) \in InstallationAgain
            /\ InstallationKeeps(Head(todo)) /\ InstallationMemory' = InstallationMemory
            /\ \E ops \in Seq(InstallationAgain) : todo' = ops \o Tail(todo)
         \/ /\ mode' = "run" /\ todo # <<>> /\ Head(todo) \notin InstallationAgain \cup {"wait", "look"}
            /\ InstallationKeeps(Head(todo)) /\ InstallationReturns(Head(todo))
            /\ todo' = <<>> \o Tail(todo)
         \/ /\ mode' = "run" /\ todo # <<>> /\ Head(todo) = "wait" /\ InstallationKeeps("wait")
            /\ mem'.pid = device.app /\ device.app # 0 /\ device' = device /\ seen' = seen
            /\ todo' = <<"look">> \o Tail(todo)
         \/ /\ mode' = "run" /\ todo # <<>> /\ Head(todo) = "look" /\ InstallationKeeps("look")
            /\ \/ /\ InstallationMemory' = InstallationMemory
                  /\ \/ todo' = <<"confirm", "tap", "wait">> \o Tail(todo)
                     \/ todo' = <<"wait">> \o Tail(todo)
               \/ InstallationLooks /\ todo' = <<>> \o Tail(todo)
<1> USE DEF InstallationFields, InstallationMemory, InstallationKeeps
<1>1. CASE Installation!Expire \/ Installation!Environment
  <2>1. mode' = "run" /\ todo' = todo /\ mem' = mem /\ seen' = seen
    BY <1>1 DEF Installation!Expire, Installation!Environment, Installation!ShowOnboarding,
       Installation!SetupAnr, Installation!AppDies, Installation!control
  <2>2. \/ device' = [device EXCEPT !.late = TRUE] \/ device' = [device EXCEPT !.onboarding = TRUE]
        \/ device' = [device EXCEPT !.window = "setup-anr"]
        \/ device' = [device EXCEPT !.app = @ + 1, !.fatal = @ \cup {device.app}, !.onboarding = FALSE]
    BY <1>1 DEF Installation!Expire, Installation!Environment, Installation!ShowOnboarding,
       Installation!SetupAnr, Installation!AppDies
  <2>3. /\ {"emulator", "package", "app", "fatal", "onboarding", "window", "late", "owned"}
             \subseteq DOMAIN device'
        /\ device'.emulator = device.emulator /\ device'.package = device.package
        /\ \/ device'.fatal = device.fatal /\ device'.app = device.app
           \/ device'.fatal = device.fatal \cup {device.app} /\ device'.app = device.app + 1
    BY <2>2
  <2>4. QED
    BY <2>1, <2>3
<1>2. CASE (Installation!EnterFinally(Installation!CLEANUP) \/ Installation!Report) /\ Installation!Unchanged
  BY <1>2, InstallationOnlyTries DEF Installation!EnterFinally, Installation!Unchanged
<1> USE DEF InstallationReturns, InstallationAgain, Installation!Require, Installation!ReturnOrFail, Installation!Return,
     Installation!Call, Installation!Raise, Installation!RaiseOut, Installation!Running,
     Installation!Now
<1>3. CASE Installation!PrepareDevice
  BY <1>3 DEF Installation!PrepareDevice
<1>4. CASE Installation!PrepareStorage
  BY <1>4 DEF Installation!PrepareStorage, Installation!Own
<1>5. CASE Installation!Uninstall
  <2>1. /\ todo # <<>> /\ Head(todo) = "uninstall" /\ mode' = "run" /\ mem' = mem /\ seen' = seen
        /\ todo' = <<>> \o Tail(todo) /\ device' = [device EXCEPT !.package = "none", !.app = 0]
    BY <1>5 DEF Installation!Uninstall
  <2>2. InstallationKeeps("uninstall") /\ InstallationReturns("uninstall")
    BY <2>1
  <2>3. QED
    BY <2>1, <2>2
<1>6. CASE Installation!Install
  BY <1>6 DEF Installation!Install
<1>7. CASE Installation!StartRecorder
  BY <1>7 DEF Installation!StartRecorder
<1>8. CASE Installation!FinishRecorder
  BY <1>8 DEF Installation!FinishRecorder, Installation!Drop
<1>9. CASE Installation!AmStart
  <2>1. /\ todo # <<>> /\ Head(todo) = "launch" /\ mode' = "run" /\ seen' = seen
        /\ \E window : device' = [device EXCEPT !.app = IF @ = 0 THEN 1 ELSE @, !.window = window]
        /\ \E attempts, expired : mem' = [mem EXCEPT !.attempts = attempts, !.expired = expired]
        /\ \E ops \in {<<>>, <<"recover", "relaunch">>, <<"relaunch">>} : todo' = ops \o Tail(todo)
    <3>1. PICK outcome \in {"accepted", "expired", "refused"} :
         /\ device' = [device EXCEPT !.app = IF @ = 0 THEN 1 ELSE @,
                                     !.window = IF @ = "launcher" THEN "app" ELSE @]
         /\ mem' = [mem EXCEPT !.attempts = @ + 1, !.expired = outcome = "expired"]
         /\ todo' = (CASE outcome = "accepted" -> <<>>
                       [] outcome # "accepted" /\ mem.attempts = 0 -> <<"recover", "relaunch">>
                       [] OTHER -> <<"relaunch">>) \o Tail(todo)
      BY <1>9 DEF Installation!AmStart
    <3>2. \E window : device' = [device EXCEPT !.app = IF @ = 0 THEN 1 ELSE @, !.window = window]
      BY <3>1, Zenon
    <3>3. \E attempts, expired : mem' = [mem EXCEPT !.attempts = attempts, !.expired = expired]
      BY <3>1, Zenon
    <3>4. \E ops \in {<<>>, <<"recover", "relaunch">>, <<"relaunch">>} : todo' = ops \o Tail(todo)
      <4>1. CASE outcome = "accepted"
        BY <3>1, <4>1
      <4>2. CASE outcome # "accepted" /\ mem.attempts = 0
        BY <3>1, <4>2
      <4>3. CASE outcome # "accepted" /\ mem.attempts # 0
        BY <3>1, <4>3
      <4>4. QED
        BY <4>1, <4>2, <4>3
    <3>5. QED
      BY <1>9, <3>2, <3>3, <3>4 DEF Installation!AmStart
  <2>2. /\ <<>> \in Seq(InstallationAgain) /\ <<"recover", "relaunch">> \in Seq(InstallationAgain)
        /\ <<"relaunch">> \in Seq(InstallationAgain)
    OBVIOUS
  <2>3. InstallationKeeps("launch") /\ InstallationMemory' = InstallationMemory
    BY <2>1
  <2>4. QED
    BY <2>1, <2>2, <2>3
<1>10. CASE Installation!Relaunch \/ Installation!Recover \/ Installation!Confirm
  <2>1. /\ todo # <<>> /\ Head(todo) \in {"relaunch", "recover", "confirm"} /\ mode' = "run"
        /\ UNCHANGED <<device, mem, seen>>
        /\ \E ops \in {<<>>, <<"launch">>, <<"confirm", "tap">>} : todo' = ops \o Tail(todo)
    BY <1>10 DEF Installation!Relaunch, Installation!Recover, Installation!Confirm,
       Installation!Check, Installation!Unchanged
  <2>2. /\ <<>> \in Seq(InstallationAgain) /\ <<"launch">> \in Seq(InstallationAgain)
        /\ <<"confirm", "tap">> \in Seq(InstallationAgain)
    OBVIOUS
  <2>3. QED
    BY <2>1, <2>2
<1>11. CASE Installation!Tap
  <2>1. /\ todo # <<>> /\ Head(todo) = "tap" /\ mode' = "run" /\ todo' = Tail(todo)
        /\ seen' = [seen EXCEPT !.taps = @ + 1]
        /\ device' = device \/ device' = [device EXCEPT !.window = "app"]
        /\ mem' = [mem EXCEPT !.recovered = TRUE, !.recovery_pid = mem.pid]
    BY <1>11 DEF Installation!Tap
  <2>2. InstallationKeeps("tap") /\ InstallationMemory' = InstallationMemory
    BY <2>1
  <2>3. Tail(todo) = <<>> \o Tail(todo) /\ <<>> \in Seq(InstallationAgain)
    BY <2>1, InstallationHead
  <2>4. QED
    BY <2>1, <2>2, <2>3
<1>12. CASE Installation!ReadPid
  BY <1>12 DEF Installation!ReadPid
<1>13. CASE Installation!Look
  BY <1>13 DEF Installation!Look, InstallationLooks
<1>14. CASE Installation!CheckLog \/ Installation!CheckStable \/ Installation!LookAgain
            \/ Installation!Check("metadata", TRUE)
  BY <1>14 DEF Installation!CheckLog, Installation!CheckStable, Installation!LookAgain,
     Installation!Check, Installation!Unchanged
<1>15. CASE \E op \in {"confirm", "look", "metadata", "stable"} : Installation!Fails(op)
  BY <1>15 DEF Installation!Fails
<1>16. QED
  BY <1>1, <1>2, <1>3, <1>4, <1>5, <1>6, <1>7, <1>8, <1>9, <1>10, <1>11, <1>12, <1>13, <1>14, <1>15,
     InstallationOnlyTries DEF Installation!Next, Installation!Runner

InstallationOps ==
  InstallationAgain \cup InstallationLater \cup
    {"prepare", "storage", "uninstall", "install", "start-recorder"}

(* The program, with or without an operation put before it.                *)
LEMMA InstallationPlace ==
  /\ InstallationProgram \in Seq(InstallationOps) /\ Len(InstallationProgram) = 12
  /\ After(InstallationProgram, 6) \in Seq(InstallationOps)
  /\ After(InstallationProgram, 7) \in Seq(InstallationOps)
  /\ <<>> \o After(InstallationProgram, 6) = After(InstallationProgram, 6)
  /\ <<>> \o After(InstallationProgram, 7) = After(InstallationProgram, 7)
  /\ <<"wait">> \o After(InstallationProgram, 7) = After(InstallationProgram, 6)
  /\ <<"confirm", "tap", "wait">> \o After(InstallationProgram, 7)
       = <<"confirm", "tap">> \o After(InstallationProgram, 6)
<1> DEFINE P == InstallationProgram
           S == InstallationOps
           r == After(P, 7)
<1>1. P \in Seq(S) /\ Len(P) = 12 /\ P[7] = "wait"
  BY DEF InstallationProgram, InstallationAgain, InstallationLater, InstallationOps
<1> HIDE DEF P, S
<1>2. 6 \in 0..Len(P) /\ 7 \in 0..Len(P) /\ 6 # Len(P) /\ 6 + 1 = 7
  BY <1>1
<1>3. /\ After(P, 6) \in Seq(S) /\ After(P, 7) \in Seq(S)
      /\ <<>> \o After(P, 6) = After(P, 6) /\ <<>> \o After(P, 7) = After(P, 7)
  BY <1>1, <1>2, AfterIsSeq
<1>4. <<P[6 + 1]>> \o After(P, 6 + 1) = After(P, 6)
  BY <1>1, <1>2, AfterPush
<1>5. <<"wait">> \o After(P, 7) = After(P, 6)
  BY <1>1, <1>2, <1>4
<1>6. <<"confirm", "tap", "wait">> \o r = <<"confirm", "tap">> \o After(P, 6)
  <2> DEFINE T == S \cup {"confirm", "tap", "wait"}
  <2>1. <<"confirm", "tap">> \in Seq(T) /\ <<"wait">> \in Seq(T)
    OBVIOUS
  <2>2. r \in Seq(T)
    BY <1>3
  <2> HIDE DEF r, T
  <2>3. (<<"confirm", "tap">> \o <<"wait">>) \o r = <<"confirm", "tap">> \o (<<"wait">> \o r)
    BY <2>1, <2>2, ConcatAssociative
  <2>4. <<"confirm", "tap">> \o <<"wait">> = <<"confirm", "tap", "wait">>
    BY TwoAndOne
  <2>5. <<"wait">> \o r = After(P, 6)
    BY <1>5 DEF r
  <2>6. QED
    BY <2>3, <2>4, <2>5
<1>7. QED
  BY <1>1, <1>3, <1>5, <1>6 DEF P, S

(* Operations of the first launch before the rest of the program.          *)
LEMMA InstallationAgainParts ==
  ASSUME NEW ops \in Seq(InstallationAgain), ops # <<>>,
         todo = ops \o After(InstallationProgram, 6)
  PROVE  /\ todo # <<>> /\ Head(todo) \in InstallationAgain
         /\ \A more \in Seq(InstallationAgain) :
              \E all \in Seq(InstallationAgain) :
                 more \o Tail(todo) = all \o After(InstallationProgram, 6)
<1> DEFINE A == InstallationAgain
           S == InstallationOps
           r == After(InstallationProgram, 6)
<1>1. ops \in Seq(S) /\ r \in Seq(S) /\ Head(ops) \in A /\ Tail(ops) \in Seq(A) /\ Tail(ops) \in Seq(S)
  BY InstallationPlace DEF InstallationOps
<1>2. todo = <<Head(ops)>> \o (Tail(ops) \o r)
  BY <1>1, ConcatHead
<1> HIDE DEF A, S, r
<1>3. Tail(ops) \o r \in Seq(S)
  BY <1>1
<1>4. todo # <<>> /\ Head(todo) = Head(ops) /\ Tail(todo) = Tail(ops) \o r
  <2> DEFINE x == Head(ops)
             t == Tail(ops) \o r
  <2>1. t \in Seq(S) /\ todo = <<x>> \o t
    BY <1>2, <1>3
  <2> HIDE DEF x, t
  <2>2. <<x>> \o t # <<>> /\ Head(<<x>> \o t) = x /\ Tail(<<x>> \o t) = t
    BY <2>1, PushOne
  <2>3. QED
    BY <2>1, <2>2 DEF x, t
<1>5. ASSUME NEW more \in Seq(A)
      PROVE  \E all \in Seq(A) : more \o Tail(todo) = all \o r
  <2>1. more \in Seq(S) /\ Tail(ops) \in Seq(S) /\ more \o Tail(ops) \in Seq(A)
    BY <1>1 DEF A, S, InstallationOps
  <2>2. (more \o Tail(ops)) \o r = more \o (Tail(ops) \o r)
    BY <1>1, <2>1, ConcatAssociative
  <2>3. QED
    BY <1>4, <2>1, <2>2
<1>6. QED
  BY <1>1, <1>4, <1>5 DEF A, r

(* What a step knows afterwards, the operation aside.                      *)
LEMMA InstallationKept ==
  ASSUME InstallationFields, InstallationProcesses, NEW d \in 0..12, InstallationSoFar(d),
         NEW op, InstallationKeeps(op), InstallationMemory' = InstallationMemory,
         op \in {"uninstall", "install"} => d < 4,
         op = "finish-recorder" => d < 12
  PROVE  InstallationFields' /\ InstallationProcesses' /\ InstallationSoFar(d)'
<1>1. InstallationFields'
  BY DEF InstallationKeeps
<1>2. InstallationProcesses'
  <2>1. op = "uninstall" => mem.pid = 0
    BY DEF InstallationSoFar
  <2>2. QED
    BY <2>1 DEF InstallationKeeps, InstallationMemory, InstallationProcesses
<1>3. InstallationSoFar(d)'
  BY DEF InstallationKeeps, InstallationMemory, InstallationSoFar
<1>4. QED
  BY <1>1, <1>2, <1>3

(* One operation more has been done.                                       *)
LEMMA InstallationGoesOn ==
  ASSUME NEW d \in 0..11, NEW op, op = InstallationProgram[d + 1], op \notin {"launch", "wait", "look"},
         InstallationFields, InstallationProcesses, InstallationSoFar(d),
         InstallationKeeps(op), InstallationReturns(op)
  PROVE  InstallationFields' /\ InstallationProcesses' /\ InstallationSoFar(d + 1)'
<1>0. d + 1 \in 1..12 /\ d \in 0..12
  OBVIOUS
<1>1. /\ op = "prepare" <=> d + 1 = 1
      /\ op = "uninstall" <=> d + 1 = 3
      /\ op = "install" <=> d + 1 = 4
      /\ op = "start-recorder" <=> d + 1 = 5
      /\ d + 1 # 6 /\ d + 1 # 7
      /\ op = "log" <=> d + 1 = 9
      /\ op = "finish-recorder" <=> d + 1 = 12
  BY <1>0, InstallationCalls
<1>2. InstallationMemory' = InstallationMemory
  BY DEF InstallationReturns
<1>3. InstallationFields' /\ InstallationProcesses' /\ InstallationSoFar(d)'
  <2>1. op \in {"uninstall", "install"} => d < 4
    BY <1>1
  <2>2. QED
    BY <1>0, <1>1, <1>2, <2>1, InstallationKept
<1>4. InstallationSoFar(d + 1)'
  <2> DEFINE e == d + 1
  <2>1. /\ e >= 1 => device'.emulator
        /\ e < 6 => mem'.pid = 0
        /\ e < 7 => seen'.shown = {}
        /\ e >= 7 => /\ mem'.installed_pid # 0
                     /\ seen'.shown = {mem'.installed_pid} \/ mem'.installed_pid \in device'.fatal
    BY <1>1, <1>3 DEF InstallationSoFar, InstallationReturns, InstallationKeeps
  <2>2. e >= 4 => device'.package = "new"
    BY <1>1, <1>3 DEF InstallationSoFar, InstallationReturns
  <2>3. e >= 5 => mem'.process
    BY <1>1, <1>3 DEF InstallationSoFar, InstallationReturns
  <2>4. e >= 9 => seen'.shown = {mem'.installed_pid}
    <3>1. CASE e = 9
      BY <1>1, <1>3, <3>1 DEF InstallationSoFar, InstallationReturns, InstallationMemory
    <3>2. CASE e # 9
      BY <1>3, <3>2 DEF InstallationSoFar
    <3>3. QED
      BY <3>1, <3>2
  <2>5. e >= 12 => mem'.finish_attempted
    BY <1>1 DEF InstallationSoFar, InstallationReturns
  <2>6. QED
    BY <2>1, <2>2, <2>3, <2>4, <2>5 DEF InstallationSoFar
<1>5. QED
  BY <1>3, <1>4

LEMMA InstallationPassingRuns ==
  ASSUME InstallationTaps, InstallationPassing, mode = "run", Installation!Next, errors' = FALSE
  PROVE  InstallationPassing'
<1> DEFINE P == InstallationProgram
           places == \/ \E d \in 0..12 : todo = After(P, d) /\ InstallationSoFar(d)
                     \/ \E ops \in Seq(InstallationAgain) :
                          todo = ops \o After(P, 6) /\ InstallationSoFar(6)
                     \/ todo = <<"look">> \o After(P, 7) /\ InstallationSoFar(6) /\ mem.pid # 0
           nowhere == mode' = "run" /\ todo' = todo /\ InstallationKeeps("none")
                      /\ InstallationMemory' = InstallationMemory
           again == mode' = "run" /\ todo # <<>> /\ Head(todo) \in InstallationAgain
                    /\ InstallationKeeps(Head(todo)) /\ InstallationMemory' = InstallationMemory
                    /\ \E ops \in Seq(InstallationAgain) : todo' = ops \o Tail(todo)
           returns == mode' = "run" /\ todo # <<>>
                      /\ Head(todo) \notin InstallationAgain \cup {"wait", "look"}
                      /\ InstallationKeeps(Head(todo)) /\ InstallationReturns(Head(todo))
                      /\ todo' = <<>> \o Tail(todo)
           waits == mode' = "run" /\ todo # <<>> /\ Head(todo) = "wait" /\ InstallationKeeps("wait")
                    /\ mem'.pid = device.app /\ device.app # 0 /\ device' = device /\ seen' = seen
                    /\ todo' = <<"look">> \o Tail(todo)
           looks == mode' = "run" /\ todo # <<>> /\ Head(todo) = "look" /\ InstallationKeeps("look")
                    /\ \/ /\ InstallationMemory' = InstallationMemory
                          /\ \/ todo' = <<"confirm", "tap", "wait">> \o Tail(todo)
                             \/ todo' = <<"wait">> \o Tail(todo)
                       \/ InstallationLooks /\ todo' = <<>> \o Tail(todo)
<1>1. errors = FALSE /\ InstallationFields /\ InstallationProcesses /\ places
  BY DEF InstallationPassing
<1>2. \/ mode' = "cleanup" /\ todo = <<>> /\ UNCHANGED <<device, mem, seen>>
      \/ nowhere \/ again \/ returns \/ waits \/ looks
  BY <1>1, InstallationEffects
<1>3. /\ P \in Seq(InstallationOps) /\ Len(P) = 12
      /\ After(P, 6) \in Seq(InstallationOps) /\ After(P, 7) \in Seq(InstallationOps)
      /\ <<>> \o After(P, 6) = After(P, 6) /\ <<>> \o After(P, 7) = After(P, 7)
      /\ <<"wait">> \o After(P, 7) = After(P, 6)
      /\ <<"confirm", "tap", "wait">> \o After(P, 7) = <<"confirm", "tap">> \o After(P, 6)
      /\ <<"confirm", "tap">> \in Seq(InstallationAgain) /\ <<>> \in Seq(InstallationAgain)
  BY InstallationPlace DEF InstallationAgain
<1>4. ASSUME InstallationFields', InstallationProcesses', mode' = "run",
             \/ \E d \in 0..12 : todo' = After(P, d) /\ InstallationSoFar(d)'
             \/ \E ops \in Seq(InstallationAgain) : todo' = ops \o After(P, 6) /\ InstallationSoFar(6)'
             \/ todo' = <<"look">> \o After(P, 7) /\ InstallationSoFar(6)' /\ mem'.pid # 0
      PROVE  InstallationPassing'
  <2>1. /\ After(P, 6)' = After(P, 6) /\ After(P, 7)' = After(P, 7)
        /\ \A d \in 0..12 : After(P, d)' = After(P, d)
    BY DEF After, InstallationProgram
  <2>2. QED
    BY <1>4, <2>1 DEF InstallationPassing
<1>5. CASE \E d \in 0..12 : todo = After(P, d) /\ InstallationSoFar(d)
  <2>1. PICK d \in 0..12 : todo = After(P, d) /\ InstallationSoFar(d)
    BY <1>5
  <2>2. CASE todo = <<>>
    <3>1. d = 12
      BY <1>3, <2>1, <2>2, ProgramEnds
    <3>2. CASE mode' = "cleanup" /\ UNCHANGED <<device, mem, seen>>
      BY <1>1, <2>1, <3>1, <3>2 DEF InstallationPassing, InstallationFields, InstallationSoFar,
         Installation!Earned
    <3>3. CASE nowhere
      BY <1>1, <1>4, <2>1, <3>3, InstallationKept
    <3>4. QED
      BY <1>2, <2>2, <3>2, <3>3
  <2>3. CASE todo # <<>>
    <3>1. /\ d + 1 \in 1..12 /\ d + 1 \in 0..12 /\ Head(todo) = P[d + 1]
          /\ Tail(todo) = After(P, d + 1) /\ <<>> \o Tail(todo) = Tail(todo)
      <4>1. d \in 0..Len(P)
        BY <1>3
      <4>2. P \in Seq(InstallationOps) /\ Len(P) = 12 /\ todo = After(P, d) /\ todo # <<>>
        BY <1>3, <2>1, <2>3
      <4> HIDE DEF P
      <4>3. /\ d + 1 \in 1..Len(P) /\ d + 1 \in 0..Len(P) /\ Head(todo) = P[d + 1]
            /\ Tail(todo) = After(P, d + 1) /\ <<>> \o Tail(todo) = Tail(todo)
        BY <4>1, <4>2, ProgramHead
      <4>4. QED
        BY <4>2, <4>3
    <3>2. d \in 0..11 /\ d < 12
      BY <3>1
    <3>3. CASE nowhere
      BY <1>1, <1>4, <2>1, <3>3, InstallationKept
    <3>4. CASE again
      <4>1. d + 1 = 6
        BY <3>1, <3>4, InstallationCalls
      <4>2. d = 5
        BY <4>1
      <4>3. PICK ops \in Seq(InstallationAgain) : todo' = ops \o After(P, 6)
        BY <3>1, <3>4, <4>1
      <4>4. Head(todo) # "uninstall" /\ Head(todo) # "install" /\ Head(todo) # "finish-recorder"
        BY <3>4 DEF InstallationAgain
      <4>5. PICK op : op = Head(todo)
        OBVIOUS
      <4>6. InstallationFields' /\ InstallationProcesses' /\ InstallationSoFar(d)'
        BY <1>1, <2>1, <3>4, <4>4, <4>5, InstallationKept
      <4>7. InstallationSoFar(6)'
        BY <4>2, <4>6 DEF InstallationSoFar
      <4>8. QED
        BY <1>4, <3>4, <4>3, <4>6, <4>7
    <3>5. CASE returns
      <4>1. PICK op : op = P[d + 1]
        OBVIOUS
      <4>2. op \notin {"launch", "wait", "look"}
        BY <3>1, <3>5, <4>1 DEF InstallationAgain
      <4>3. InstallationFields' /\ InstallationProcesses' /\ InstallationSoFar(d + 1)'
        BY <1>1, <2>1, <3>1, <3>2, <3>5, <4>1, <4>2, InstallationGoesOn
      <4>4. QED
        BY <1>4, <3>1, <3>5, <4>3
    <3>6. CASE waits
      <4>1. d + 1 = 7
        BY <3>1, <3>6, InstallationCalls
      <4>2. d = 6
        BY <4>1
      <4>3. InstallationFields' /\ InstallationProcesses'
        BY <3>6 DEF InstallationKeeps, InstallationProcesses
      <4>4. InstallationSoFar(6)'
        BY <2>1, <3>6, <4>2 DEF InstallationSoFar, InstallationKeeps
      <4>5. todo' = <<"look">> \o After(P, 7) /\ mem'.pid # 0
        BY <3>1, <3>6, <4>1
      <4>6. QED
        BY <1>4, <3>6, <4>3, <4>4, <4>5
    <3>7. ~looks
      BY <3>1, InstallationCalls
    <3>8. QED
      BY <1>2, <2>3, <3>3, <3>4, <3>5, <3>6, <3>7
  <2>4. QED
    BY <2>2, <2>3
<1>6. CASE \E ops \in Seq(InstallationAgain) :
             todo = ops \o After(P, 6) /\ InstallationSoFar(6)
  <2>1. PICK ops \in Seq(InstallationAgain) : todo = ops \o After(P, 6) /\ InstallationSoFar(6)
    BY <1>6
  <2>2. CASE ops = <<>>
    BY <1>3, <1>5, <2>1, <2>2
  <2>3. CASE ops # <<>>
    <3>1. /\ todo # <<>> /\ Head(todo) \in InstallationAgain
          /\ \A more \in Seq(InstallationAgain) :
               \E all \in Seq(InstallationAgain) : more \o Tail(todo) = all \o After(P, 6)
      BY <2>1, <2>3, InstallationAgainParts
    <3>2. nowhere \/ again
      BY <1>2, <3>1 DEF InstallationAgain
    <3>3. CASE nowhere
      <4>1. InstallationFields' /\ InstallationProcesses' /\ InstallationSoFar(6)'
        BY <1>1, <2>1, <3>3, InstallationKept
      <4>2. QED
        BY <1>4, <2>1, <3>3, <4>1
    <3>4. CASE again
      <4>1. PICK all \in Seq(InstallationAgain) : todo' = all \o After(P, 6)
        BY <3>1, <3>4
      <4>2. PICK op : op = Head(todo)
        OBVIOUS
      <4>3. op \notin {"uninstall", "install", "finish-recorder"}
        BY <3>1, <4>2 DEF InstallationAgain
      <4>4. InstallationFields' /\ InstallationProcesses' /\ InstallationSoFar(6)'
        BY <1>1, <2>1, <3>4, <4>2, <4>3, InstallationKept
      <4>5. QED
        BY <1>4, <3>4, <4>1, <4>4
    <3>5. QED
      BY <3>2, <3>3, <3>4
  <2>4. QED
    BY <2>2, <2>3
<1>7. CASE todo = <<"look">> \o After(P, 7) /\ InstallationSoFar(6) /\ mem.pid # 0
  <2>1. todo # <<>> /\ Head(todo) = "look" /\ Tail(todo) = After(P, 7)
    <3> DEFINE r == After(P, 7)
    <3>1. r \in Seq(InstallationOps) /\ todo = <<"look">> \o r
      BY <1>3, <1>7
    <3> HIDE DEF r
    <3>2. QED
      BY <3>1, PushOne DEF r
  <2>2. nowhere \/ looks
    BY <1>2, <2>1 DEF InstallationAgain
  <2>3. CASE nowhere
    <3>1. InstallationFields' /\ InstallationProcesses' /\ InstallationSoFar(6)'
      BY <1>1, <1>7, <2>3, InstallationKept
    <3>2. mem'.pid # 0
      BY <1>7, <2>3 DEF InstallationMemory
    <3>3. QED
      BY <1>4, <1>7, <2>3, <3>1, <3>2
  <2>4. CASE looks /\ InstallationMemory' = InstallationMemory
             /\ \/ todo' = <<"confirm", "tap", "wait">> \o Tail(todo)
                \/ todo' = <<"wait">> \o Tail(todo)
    <3>0. InstallationKeeps("look") /\ InstallationMemory' = InstallationMemory /\ 6 \in 0..12
      BY <2>4
    <3>1. InstallationFields' /\ InstallationProcesses' /\ InstallationSoFar(6)'
      BY <1>1, <1>7, <3>0, InstallationKept
    <3>2. todo' = <<"confirm", "tap">> \o After(P, 6) \/ todo' = <<>> \o After(P, 6)
      BY <1>3, <2>1, <2>4
    <3>3. QED
      BY <1>3, <1>4, <2>4, <3>1, <3>2
  <2>5. CASE looks /\ InstallationLooks /\ todo' = <<>> \o Tail(todo)
    <3>1. InstallationFields' /\ InstallationProcesses'
      BY <1>1, <2>5 DEF InstallationKeeps, InstallationLooks, InstallationProcesses
    <3>2. /\ device.emulator /\ device.package = "new" /\ mem.process /\ seen.shown = {}
          /\ mem.pid = device.app \/ mem.pid \in device.fatal
      BY <1>1, <1>7 DEF InstallationSoFar, InstallationProcesses
    <3>3. /\ device' = device /\ mem'.installed_pid = mem.pid /\ mem.pid # 0 /\ mem'.process
          /\ seen'.shown = {device.app}
      BY <1>7, <2>5, <3>2 DEF InstallationKeeps, InstallationLooks
    <3>4. InstallationSoFar(7)'
      BY <3>2, <3>3 DEF InstallationSoFar
    <3>5. todo' = After(P, 7) /\ 7 \in 0..12
      BY <1>3, <2>1, <2>5
    <3>6. QED
      BY <1>4, <2>5, <3>1, <3>4, <3>5
  <2>6. QED
    BY <2>2, <2>3, <2>4, <2>5
<1>8. QED
  BY <1>1, <1>5, <1>6, <1>7

LEMMA InstallationPassingCleans ==
  ASSUME InstallationTaps, InstallationPassing, mode # "run", Installation!Next
  PROVE  InstallationPassing'
<1>1. CASE Installation!Environment \/ Installation!Expire
  <2>1. UNCHANGED <<todo, mode, errors, mem, seen>> /\ Installation!ShowOnboarding
    BY <1>1 DEF Installation!Environment, Installation!Expire, Installation!ShowOnboarding,
       Installation!SetupAnr, Installation!AppDies, Installation!control, Installation!Running
  <2>2. device' = [device EXCEPT !.onboarding = TRUE]
    BY <2>1 DEF Installation!ShowOnboarding
  <2>3. QED
    BY <2>1, <2>2 DEF InstallationPassing, InstallationFields, Installation!Earned
<1>2. CASE Installation!Runner
  <2>1. mode = "cleanup"
    BY <1>2, InstallationDone DEF InstallationTaps
  <2>2. \/ mode' = "done" /\ UNCHANGED <<device, mem>>
        \/ /\ mode' = "cleanup"
           /\ \/ Installation!FinishRecorder \/ Installation!ForceStop
              \/ Installation!RemoveFiles
    BY <1>2, <2>1, InstallationCleaningControl
  <2>3. seen' = seen
    <3>1. todo # <<>> => Head(todo) \in {"finish-recorder", "force-stop", "remove-files"}
      BY <2>1, InstallationPlaces DEF InstallationTaps
    <3>2. \/ Installation!FinishRecorder \/ Installation!ForceStop \/ Installation!RemoveFiles
          \/ Installation!Report /\ Installation!Unchanged
      BY <1>2, <2>1, <3>1 DEF Installation!Next, Installation!Runner, Installation!Environment,
         Installation!PrepareDevice, Installation!PrepareStorage, Installation!Uninstall,
         Installation!Install, Installation!StartRecorder, Installation!FinishRecorder,
         Installation!AmStart, Installation!Relaunch, Installation!Recover, Installation!Confirm,
         Installation!Tap, Installation!ReadPid, Installation!Look, Installation!CheckLog,
         Installation!CheckStable, Installation!LookAgain, Installation!Check, Installation!Fails,
         Installation!ForceStop, Installation!RemoveFiles, Installation!EnterFinally,
         Installation!Report, Installation!Expire, Installation!ShowOnboarding,
         Installation!SetupAnr, Installation!AppDies, Installation!Unchanged,
         Installation!control, Installation!Running, Installation!Now
    <3>3. QED
      BY <3>2 DEF Installation!FinishRecorder, Installation!ForceStop, Installation!RemoveFiles,
         Installation!Unchanged
  <2>4. errors' = errors \/ errors' = TRUE
    BY <1>2 DEF Installation!Next, Installation!Runner, Installation!Environment,
       Installation!PrepareDevice, Installation!PrepareStorage, Installation!Uninstall,
       Installation!Install, Installation!StartRecorder, Installation!FinishRecorder,
       Installation!AmStart, Installation!Relaunch, Installation!Recover, Installation!Confirm,
       Installation!Tap, Installation!ReadPid, Installation!Look, Installation!CheckLog,
       Installation!CheckStable, Installation!LookAgain, Installation!Check, Installation!Fails,
       Installation!ForceStop, Installation!RemoveFiles, Installation!EnterFinally,
       Installation!Report, Installation!Expire, Installation!ShowOnboarding,
       Installation!SetupAnr, Installation!AppDies, Installation!Unchanged, Installation!control,
       Installation!Require, Installation!ReturnOrFail, Installation!Return,
       Installation!ReturnUnheeded, Installation!Call, Installation!Raise,
       Installation!RaiseOut, Installation!Running, Installation!Now
  <2>5. CASE errors' \/ errors
    BY <2>2, <2>4, <2>5 DEF InstallationPassing
  <2>6. CASE ~errors' /\ ~errors
    <3>1. InstallationFields /\ Installation!Earned
      BY <2>1, <2>6 DEF InstallationPassing
    <3>2. /\ mem' = mem
          /\ \/ device' = device \/ device' = [device EXCEPT !.app = 0]
             \/ \E things : device' = [device EXCEPT !.owned = @ \ things]
      <4>1. CASE Installation!FinishRecorder
        BY <3>1, <4>1 DEF Installation!FinishRecorder, Installation!Earned
      <4>2. CASE Installation!ForceStop
        BY <4>2 DEF Installation!ForceStop
      <4>3. CASE Installation!RemoveFiles
        BY <4>3, Zenon DEF Installation!RemoveFiles
      <4>4. QED
        BY <2>2, <4>1, <4>2, <4>3
    <3>3. InstallationFields' /\ Installation!Earned'
      BY <2>3, <3>1, <3>2 DEF InstallationFields, Installation!Earned
    <3>4. QED
      BY <2>2, <3>3 DEF InstallationPassing
  <2>7. QED
    BY <2>5, <2>6
<1>3. QED
  BY <1>1, <1>2 DEF Installation!Next

LEMMA InstallationPassingInit ==
  ASSUME Installation!Init
  PROVE  InstallationPassing
<1>1. todo = InstallationProgram /\ mode = "run" /\ errors = FALSE
  BY DEF Installation!Init, Installation!Start, InstallationProgram
<1>2. InstallationFields /\ InstallationProcesses /\ InstallationSoFar(0)
  BY DEF Installation!Init, InstallationFields, InstallationProcesses, InstallationSoFar
<1>3. After(InstallationProgram, 0) = InstallationProgram /\ 0 \in 0..12
  BY InstallationPlace, AfterNone
<1>4. QED
  BY <1>1, <1>2, <1>3 DEF InstallationPassing

-----------------------------------------------------------------------------
(* The verdict of the network runner.                                      *)

NetworkFields ==
  /\ {"wifi", "data", "app", "at", "queue", "driver", "fixture", "early"} \subseteq DOMAIN device
  /\ {"variant", "phase_index", "android_pid", "acks", "proved", "released"} \subseteq DOMAIN mem
  /\ {"pids", "online"} \subseteq DOMAIN seen
  /\ device.app \in Nat /\ device.at \in Nat \ {0} /\ mem.android_pid \in Nat /\ mem.acks \in Nat

NetworkNames ==
  {"app-ready", "players-ready", "initial-ready", "offline-unreachable", "offline-confirmed",
   "reconnected-confirmed", "recovery-confirmed", "teardown-complete"}

Decoder == mem.variant = "decoder_failure"

(* What the runner has before it in its phase, and the operation of it     *)
(* that is the n-th from the end.                                          *)
NetworkWhole ==
  IF mem.phase_index = 0 THEN NetworkProgram
  ELSE Network!Handler(Network!Phases[mem.phase_index]) \o <<"loop", "validate">>

NetworkCall(n) == NetworkWhole[Len(NetworkWhole) - n + 1]

NetworkOps == NetworkTry \cup {"capture-initial"}

(* The runner has come some way through it; in a capture it may be         *)
(* recovering from a dialog of the system.                                 *)
NetworkPlaced ==
  /\ mem.phase_index \in 0..Len(Network!Phases) /\ todo \in Seq(NetworkOps)
  /\ \/ Undoing(NetworkWhole)
     \/ /\ todo # <<>> /\ Head(todo) \in {"confirm-anr", "tap-anr"}
        /\ Len(todo) \in 1..Len(NetworkWhole) /\ NetworkCall(Len(todo)) = "capture"
        /\ Tail(todo) = Rest(NetworkWhole, Len(todo) - 1)

(* The process of the checkpoints has been replaced by another.            *)
Astray == mem.android_pid # 0 /\ device.app > mem.android_pid

(* The checkpoints that were taken came from one process; each but the     *)
(* last of them has been acknowledged.                                     *)
NetworkProcess ==
  /\ mem.android_pid <= device.app
  /\ IF mem.phase_index = 0 /\ Len(todo) >= 3
     THEN device.queue = <<>> /\ device.driver = "none"
     ELSE device.app # 0
  /\ IF mem.phase_index = 0 THEN seen.pids = {} /\ mem.android_pid = 0
     ELSE seen.pids = {mem.android_pid} /\ mem.android_pid # 0
  /\ mem.acks <= mem.phase_index
  /\ mem.phase_index # 0 /\ Len(todo) >= 3 => mem.acks < mem.phase_index
  /\ mem.phase_index # 0 /\ ~Astray => mem.phase_index < device.at
  /\ Len(todo) <= 1 => mem.phase_index = Len(Network!Phases) /\ device.driver # "running"

(* A checkpoint of the process that runs is one it has passed; with        *)
(* offline-confirmed the row of an early request would be in the log.      *)
NetworkQueued ==
  /\ device.queue \in Seq([phase : NetworkNames, pid : Nat, passed : BOOLEAN])
  /\ \A k \in 1..Len(device.queue) :
       /\ device.queue[k].pid <= device.app
       /\ device.queue[k].pid = device.app =>
            \E j \in 1..Len(Network!Phases) :
               j < device.at /\ device.queue[k].phase = Network!Phases[j]
       /\ /\ device.queue[k].pid = device.app /\ ~Astray /\ Decoder
          /\ device.queue[k].phase = "offline-confirmed"
          => mem.proved /\ (device.early => device.fixture # "reached")

LastOffline == IF Decoder THEN 5 ELSE 4

(* The device is on the network again, and the radios are still to be read.*)
NetworkCaught ==
  /\ Network!Radios(device) # Network!Off
  /\ \/ mem.phase_index \in 3..LastOffline - 1 /\ Len(todo) <= 2
     \/ mem.phase_index = 4 /\ Decoder /\ Len(todo) >= 5
     \/ mem.phase_index = LastOffline /\ Len(todo) >= (IF Decoder THEN 11 ELSE 9)

(* An early request is in the log when the proof is repeated, and before   *)
(* that the proof had been given.                                          *)
NetworkBytes ==
  /\ device.fixture \in {"below", "reached", "logged", "released", "beyond"}
  /\ device.early => device.fixture # "below"
  /\ mem.phase_index >= 4 /\ ~(mem.phase_index = 4 /\ Len(todo) >= 4) => mem.proved
  /\ ~Astray /\ mem.phase_index = 5 /\ Len(todo) >= 10 =>
       (device.early => device.fixture # "reached")
  /\ ~Astray /\ mem.phase_index = 5 /\ Len(todo) = 9 => ~device.early
  /\ ~Astray /\ mem.released => ~device.early /\ device.fixture \in {"released", "beyond"}
  /\ Len(todo) = 0 => mem.released

(* What is known while the runner has not failed.                          *)
NetworkSound ==
  /\ NetworkFields /\ NetworkPlaced /\ NetworkProcess /\ NetworkQueued
  /\ ~Astray /\ seen.online => NetworkCaught
  /\ Decoder => NetworkBytes

(* A run that went astray is caught when the app is stopped.               *)
NetworkPassing ==
  /\ mode = "run" => errors = FALSE /\ NetworkSound
  /\ mode # "run" /\ ~errors =>
       /\ NetworkFields /\ mem.phase_index = Len(Network!Phases) /\ seen.pids = {mem.android_pid}
       /\ device.driver # "running"
       /\ \/ /\ ~seen.online
             /\ Decoder => ~device.early /\ device.fixture \in {"released", "beyond"}
          \/ Astray /\ Len(todo) >= 3

LEMMA ConcatAt ==
  ASSUME NEW S, NEW a \in Seq(S), NEW b \in Seq(S)
  PROVE  /\ a \o b \in Seq(S) /\ Len(a \o b) = Len(a) + Len(b)
         /\ \A k \in 1..Len(a) : (a \o b)[k] = a[k]
         /\ \A k \in 1..Len(b) : (a \o b)[Len(a) + k] = b[k]
<1>1. /\ a \o b \in Seq(S) /\ Len(a \o b) = Len(a) + Len(b)
      /\ \A i \in 1..Len(a) + Len(b) : (a \o b)[i] = IF i <= Len(a) THEN a[i] ELSE b[i - Len(a)]
  BY ConcatProperties
<1>2. Len(a) \in Nat /\ Len(b) \in Nat
  OBVIOUS
<1> DEFINE c == a \o b
           la == Len(a)
           lb == Len(b)
<1>3. /\ la \in Nat /\ lb \in Nat
      /\ \A i \in 1..la + lb : c[i] = IF i <= la THEN a[i] ELSE b[i - la]
  BY <1>1, <1>2
<1> HIDE DEF c, la, lb
<1>4. \A k \in 1..la : c[k] = a[k]
  BY <1>3
<1>5. ASSUME NEW k \in 1..lb
      PROVE  c[la + k] = b[k]
  <2>1. la + k \in 1..la + lb /\ ~(la + k <= la) /\ (la + k) - la = k
    BY <1>3
  <2>2. QED
    BY <1>3, <2>1
<1>6. QED
  BY <1>1, <1>4, <1>5 DEF c, la, lb

(* The phases, by number.                                                  *)
LEMMA NetworkPhaseNumbers ==
  /\ ~Decoder =>
       /\ Len(Network!Phases) = 7
       /\ Network!Phases[1] = "app-ready" /\ Network!Phases[2] = "players-ready"
       /\ Network!Phases[3] = "initial-ready" /\ Network!Phases[4] = "offline-confirmed"
       /\ Network!Phases[5] = "reconnected-confirmed" /\ Network!Phases[6] = "recovery-confirmed"
       /\ Network!Phases[7] = "teardown-complete"
  /\ Decoder =>
       /\ Len(Network!Phases) = 8
       /\ Network!Phases[1] = "app-ready" /\ Network!Phases[2] = "players-ready"
       /\ Network!Phases[3] = "initial-ready" /\ Network!Phases[4] = "offline-unreachable"
       /\ Network!Phases[5] = "offline-confirmed" /\ Network!Phases[6] = "reconnected-confirmed"
       /\ Network!Phases[7] = "recovery-confirmed" /\ Network!Phases[8] = "teardown-complete"
<1>1. CASE ~Decoder
  BY <1>1 DEF Decoder, Network!Phases, Network!PHASES
<1>2. CASE Decoder
  <2> DEFINE p == Network!PHASES
             S == NetworkNames
             x == SubSeq(p, 1, 3)
             y == <<"offline-unreachable">>
             z == SubSeq(p, 4, 7)
  <2>1. p \in Seq(S) /\ Len(p) = 7 /\ \A i \in 1..7 : p[i] \in S
    BY DEF Network!PHASES, NetworkNames
  <2>2. /\ p[1] = "app-ready" /\ p[2] = "players-ready" /\ p[3] = "initial-ready"
        /\ p[4] = "offline-confirmed" /\ p[5] = "reconnected-confirmed"
        /\ p[6] = "recovery-confirmed" /\ p[7] = "teardown-complete"
    BY DEF Network!PHASES
  <2>3. y \in Seq(S) /\ Len(y) = 1 /\ y[1] = "offline-unreachable"
    BY DEF NetworkNames
  <2>4. Network!Phases = (x \o y) \o z
    BY <1>2 DEF Decoder, Network!Phases
  <2> HIDE DEF p, S
  <2>5. /\ x \in Seq(S) /\ Len(x) = 3 /\ \A i \in 1..3 : x[i] = p[1 + i - 1]
        /\ z \in Seq(S) /\ Len(z) = 4 /\ \A i \in 1..4 : z[i] = p[4 + i - 1]
    BY <2>1, SubSeqProperties
  <2>6. /\ x[1] = p[1] /\ x[2] = p[2] /\ x[3] = p[3]
        /\ z[1] = p[4] /\ z[2] = p[5] /\ z[3] = p[6] /\ z[4] = p[7]
    BY <2>5
  <2> HIDE DEF x, y, z
  <2> DEFINE xy == x \o y
             all == xy \o z
  <2>7. /\ xy \in Seq(S) /\ Len(xy) = Len(x) + Len(y)
        /\ \A k \in 1..Len(x) : xy[k] = x[k]
        /\ \A k \in 1..Len(y) : xy[Len(x) + k] = y[k]
    <3>1. x \in Seq(S) /\ y \in Seq(S)
      BY <2>3, <2>5
    <3>2. QED
      BY <3>1, ConcatAt
  <2>8. Len(xy) = 4 /\ xy[1] = x[1] /\ xy[2] = x[2] /\ xy[3] = x[3] /\ xy[4] = y[1]
    <3>1. 3 + 1 = 4
      OBVIOUS
    <3>2. QED
      BY <2>3, <2>5, <2>7, <3>1
  <2>9. /\ Len(all) = Len(xy) + Len(z)
        /\ \A k \in 1..Len(xy) : all[k] = xy[k]
        /\ \A k \in 1..Len(z) : all[Len(xy) + k] = z[k]
    <3> HIDE DEF xy
    <3>1. xy \in Seq(S) /\ z \in Seq(S)
      BY <2>5, <2>7
    <3>2. QED
      BY <3>1, ConcatAt
  <2> HIDE DEF xy, all
  <2>10. /\ Len(all) = 8 /\ all[1] = xy[1] /\ all[2] = xy[2] /\ all[3] = xy[3] /\ all[4] = xy[4]
         /\ all[5] = z[1] /\ all[6] = z[2] /\ all[7] = z[3] /\ all[8] = z[4]
    <3>1. 4 + 1 = 5 /\ 4 + 2 = 6 /\ 4 + 3 = 7 /\ 4 + 4 = 8
      OBVIOUS
    <3>2. QED
      BY <2>5, <2>8, <2>9, <3>1
  <2>11. Network!Phases = all
    BY <2>4 DEF all, xy
  <2>12. QED
    BY <1>2, <2>2, <2>3, <2>6, <2>8, <2>10, <2>11
<1>3. QED
  BY <1>1, <1>2

(* What the runner does when the app says that it is offline.              *)
LEMMA NetworkOfflineHandler ==
  /\ Network!Handler("offline-confirmed") \in Seq(NetworkOps)
  /\ ~Decoder =>
       /\ Len(Network!Handler("offline-confirmed")) = 8
       /\ Network!Handler("offline-confirmed")[1] = "capture"
       /\ Network!Handler("offline-confirmed")[2] = "require-off"
       /\ Network!Handler("offline-confirmed")[3] = "finish-recording"
       /\ Network!Handler("offline-confirmed")[4] = "start-recording"
       /\ Network!Handler("offline-confirmed")[5] = "restore-wifi-first"
       /\ Network!Handler("offline-confirmed")[6] = "restore"
       /\ Network!Handler("offline-confirmed")[7] = "capture"
       /\ Network!Handler("offline-confirmed")[8] = "ack"
  /\ Decoder =>
       /\ Len(Network!Handler("offline-confirmed")) = 10
       /\ Network!Handler("offline-confirmed")[1] = "capture"
       /\ Network!Handler("offline-confirmed")[2] = "require-off"
       /\ Network!Handler("offline-confirmed")[3] = "prove-again"
       /\ Network!Handler("offline-confirmed")[4] = "release-cap"
       /\ Network!Handler("offline-confirmed")[5] = "finish-recording"
       /\ Network!Handler("offline-confirmed")[6] = "start-recording"
       /\ Network!Handler("offline-confirmed")[7] = "restore-wifi-first"
       /\ Network!Handler("offline-confirmed")[8] = "restore"
       /\ Network!Handler("offline-confirmed")[9] = "capture"
       /\ Network!Handler("offline-confirmed")[10] = "ack"
<1> DEFINE S == NetworkOps
           h == Network!Handler("offline-confirmed")
           x == <<"capture", "require-off">>
           y == IF Decoder THEN <<"prove-again", "release-cap">> ELSE <<>>
           z == <<"finish-recording", "start-recording", "restore-wifi-first", "restore",
                  "capture", "ack">>
           xy == x \o y
           all == xy \o z
<1>1. /\ x \in Seq(S) /\ Len(x) = 2 /\ x[1] = "capture" /\ x[2] = "require-off"
      /\ z \in Seq(S) /\ Len(z) = 6 /\ z[1] = "finish-recording" /\ z[2] = "start-recording"
      /\ z[3] = "restore-wifi-first" /\ z[4] = "restore" /\ z[5] = "capture" /\ z[6] = "ack"
  BY DEF NetworkOps, NetworkTry
<1>2. /\ y \in Seq(S)
      /\ Decoder => Len(y) = 2 /\ y[1] = "prove-again" /\ y[2] = "release-cap"
      /\ ~Decoder => Len(y) = 0
  <2>1. CASE Decoder
    BY <2>1 DEF NetworkOps, NetworkTry
  <2>2. CASE ~Decoder
    BY <2>2
  <2>3. QED
    BY <2>1, <2>2
<1>3. h = all
  BY DEF Network!Handler, Decoder
<1> HIDE DEF S, h, x, y, z
<1>4. /\ xy \in Seq(S) /\ Len(xy) = Len(x) + Len(y)
      /\ \A k \in 1..Len(x) : xy[k] = x[k]
      /\ \A k \in 1..Len(y) : xy[Len(x) + k] = y[k]
  <2>1. x \in Seq(S) /\ y \in Seq(S)
    BY <1>1, <1>2
  <2>2. QED
    BY <2>1, ConcatAt
<1> HIDE DEF xy
<1>5. /\ all \in Seq(S) /\ Len(all) = Len(xy) + Len(z)
      /\ \A k \in 1..Len(xy) : all[k] = xy[k]
      /\ \A k \in 1..Len(z) : all[Len(xy) + k] = z[k]
  <2>1. xy \in Seq(S) /\ z \in Seq(S)
    BY <1>1, <1>4
  <2>2. QED
    BY <2>1, ConcatAt
<1> HIDE DEF all
<1>6. CASE ~Decoder
  <2>1. Len(xy) = 2 /\ xy[1] = "capture" /\ xy[2] = "require-off"
    BY <1>1, <1>2, <1>4, <1>6
  <2>2. 2 + 1 = 3 /\ 2 + 2 = 4 /\ 2 + 3 = 5 /\ 2 + 4 = 6 /\ 2 + 5 = 7 /\ 2 + 6 = 8
    OBVIOUS
  <2>3. /\ Len(all) = 8 /\ all[1] = xy[1] /\ all[2] = xy[2] /\ all[3] = z[1] /\ all[4] = z[2]
        /\ all[5] = z[3] /\ all[6] = z[4] /\ all[7] = z[5] /\ all[8] = z[6]
    BY <1>1, <1>5, <2>1, <2>2
  <2>4. QED
    BY <1>1, <1>3, <1>5, <1>6, <2>1, <2>3 DEF h, S
<1>7. CASE Decoder
  <2>0. 2 + 1 = 3 /\ 2 + 2 = 4
    OBVIOUS
  <2>1. /\ Len(xy) = 4 /\ xy[1] = "capture" /\ xy[2] = "require-off"
        /\ xy[3] = "prove-again" /\ xy[4] = "release-cap"
    <3>1. Len(x) = 2 /\ Len(y) = 2 /\ y[1] = "prove-again" /\ y[2] = "release-cap"
      BY <1>1, <1>2, <1>7
    <3>2. xy[2 + 1] = y[1] /\ xy[2 + 2] = y[2] /\ xy[1] = x[1] /\ xy[2] = x[2]
      BY <1>4, <3>1
    <3>3. QED
      BY <1>1, <1>4, <2>0, <3>1, <3>2
  <2>2. 4 + 1 = 5 /\ 4 + 2 = 6 /\ 4 + 3 = 7 /\ 4 + 4 = 8 /\ 4 + 5 = 9 /\ 4 + 6 = 10
    OBVIOUS
  <2>3. /\ Len(all) = 10 /\ all[1] = xy[1] /\ all[2] = xy[2] /\ all[3] = xy[3] /\ all[4] = xy[4]
        /\ all[5] = z[1] /\ all[6] = z[2] /\ all[7] = z[3] /\ all[8] = z[4]
        /\ all[9] = z[5] /\ all[10] = z[6]
    BY <1>1, <1>5, <2>1, <2>2
  <2>4. QED
    BY <1>1, <1>3, <1>5, <1>7, <2>1, <2>3 DEF h, S
<1>8. QED
  BY <1>6, <1>7

(* The handlers whose calls have to be told apart, from their end; none of *)
(* these calls is in the others.                                           *)
NetworkSwitch == {"disable", "restore-wifi-first", "restore"}
NetworkFirst == {"capture-initial", "prepare", "start-processes", "loop", "validate"}

NetworkHandledAt(phase, h, k) ==
  /\ h[k] \notin NetworkFirst \cup {"confirm-anr", "tap-anr"}
  /\ h[k] = "ack" <=> k = Len(h)
  /\ h[k] = "disable" => phase = "initial-ready"
  /\ h[k] \in {"restore-wifi-first", "restore"} =>
      phase = "offline-confirmed" /\ k > (IF Decoder THEN 4 ELSE 2)
  /\ h[k] = "require-off" <=> \/ phase = "offline-unreachable" /\ k = 1
                              \/ phase = "offline-confirmed" /\ k = 2
  /\ h[k] = "prove-bytes" <=> phase = "offline-unreachable" /\ k = 2
  /\ h[k] = "prove-again" <=> phase = "offline-confirmed" /\ Decoder /\ k = 3
  /\ h[k] = "release-cap" <=> phase = "offline-confirmed" /\ Decoder /\ k = 4

NetworkHandled(phase, h) ==
  /\ h \in Seq(NetworkOps)
  /\ phase # "teardown-complete" => Len(h) >= 2
  /\ phase = "teardown-complete" => Len(h) = 0
  /\ phase = "offline-unreachable" => Len(h) = 3
  /\ phase = "offline-confirmed" => Len(h) = IF Decoder THEN 10 ELSE 8
  /\ \A k \in 1..Len(h) : NetworkHandledAt(phase, h, k)

LEMMA NetworkHandlers ==
  ASSUME NEW phase \in NetworkNames
  PROVE  NetworkHandled(phase, Network!Handler(phase))
<1> DEFINE h == Network!Handler(phase)
<1> USE DEF NetworkFirst, NetworkHandled
<1>1. CASE phase = "offline-confirmed"
  <2>1. h = Network!Handler("offline-confirmed")
    BY <1>1
  <2> HIDE DEF h
  <2>2. CASE ~Decoder
    <3>1. /\ h \in Seq(NetworkOps) /\ Len(h) = 8 /\ h[1] = "capture" /\ h[2] = "require-off"
          /\ h[3] = "finish-recording" /\ h[4] = "start-recording"
          /\ h[5] = "restore-wifi-first" /\ h[6] = "restore" /\ h[7] = "capture" /\ h[8] = "ack"
      BY <2>1, <2>2, NetworkOfflineHandler
    <3>2. \A k \in 1..8 : k = 1 \/ k = 2 \/ k = 3 \/ k = 4 \/ k = 5 \/ k = 6 \/ k = 7 \/ k = 8
      OBVIOUS
    <3>3. ASSUME NEW k \in 1..Len(h)
          PROVE  NetworkHandledAt(phase, h, k)
      BY <1>1, <2>2, <3>1, <3>2 DEF NetworkHandledAt
    <3>4. QED
      BY <1>1, <2>2, <3>1, <3>3 DEF h
  <2>3. CASE Decoder
    <3>1. /\ h \in Seq(NetworkOps) /\ Len(h) = 10 /\ h[1] = "capture" /\ h[2] = "require-off"
          /\ h[3] = "prove-again" /\ h[4] = "release-cap"
          /\ h[5] = "finish-recording" /\ h[6] = "start-recording"
          /\ h[7] = "restore-wifi-first" /\ h[8] = "restore" /\ h[9] = "capture" /\ h[10] = "ack"
      BY <2>1, <2>3, NetworkOfflineHandler
    <3>2. \A k \in 1..10 : \/ k = 1 \/ k = 2 \/ k = 3 \/ k = 4 \/ k = 5
                           \/ k = 6 \/ k = 7 \/ k = 8 \/ k = 9 \/ k = 10
      OBVIOUS
    <3>3. ASSUME NEW k \in 1..Len(h)
          PROVE  NetworkHandledAt(phase, h, k)
      BY <1>1, <2>3, <3>1, <3>2 DEF NetworkHandledAt
    <3>4. QED
      BY <1>1, <2>3, <3>1, <3>3 DEF h
  <2>4. QED
    BY <2>2, <2>3
<1>2. CASE phase = "app-ready"
  <2>1. h = <<"capture", "ack">>
    BY <1>2 DEF Network!Handler
  <2>2. h \in Seq(NetworkOps) /\ Len(h) = 2
    BY <2>1 DEF NetworkOps, NetworkTry
  <2>3. /\ h[1] = "capture"
        /\ h[2] = "ack"
    BY <2>1
  <2>4. \A k \in 1..2 : k = 1 \/ k = 2
    OBVIOUS
  <2> HIDE DEF h
  <2>5. ASSUME NEW k \in 1..Len(h)
        PROVE  NetworkHandledAt(phase, h, k)
    BY <1>2, <2>2, <2>3, <2>4 DEF NetworkHandledAt
  <2>6. QED
    BY <1>2, <2>2, <2>5 DEF h
<1>3. CASE phase = "players-ready"
  <2>1. h = <<"start-recording", "ack">>
    BY <1>3 DEF Network!Handler
  <2>2. h \in Seq(NetworkOps) /\ Len(h) = 2
    BY <2>1 DEF NetworkOps, NetworkTry
  <2>3. /\ h[1] = "start-recording"
        /\ h[2] = "ack"
    BY <2>1
  <2>4. \A k \in 1..2 : k = 1 \/ k = 2
    OBVIOUS
  <2> HIDE DEF h
  <2>5. ASSUME NEW k \in 1..Len(h)
        PROVE  NetworkHandledAt(phase, h, k)
    BY <1>3, <2>2, <2>3, <2>4 DEF NetworkHandledAt
  <2>6. QED
    BY <1>3, <2>2, <2>5 DEF h
<1>4. CASE phase = "initial-ready"
  <2>1. h = <<"capture", "finish-recording", "start-recording", "disable", "capture", "ack">>
    BY <1>4 DEF Network!Handler
  <2>2. h \in Seq(NetworkOps) /\ Len(h) = 6
    BY <2>1 DEF NetworkOps, NetworkTry
  <2>3. /\ h[1] = "capture"
        /\ h[2] = "finish-recording"
        /\ h[3] = "start-recording"
        /\ h[4] = "disable"
        /\ h[5] = "capture"
        /\ h[6] = "ack"
    BY <2>1
  <2>4. \A k \in 1..6 : k = 1 \/ k = 2 \/ k = 3 \/ k = 4 \/ k = 5 \/ k = 6
    OBVIOUS
  <2> HIDE DEF h
  <2>5. ASSUME NEW k \in 1..Len(h)
        PROVE  NetworkHandledAt(phase, h, k)
    BY <1>4, <2>2, <2>3, <2>4 DEF NetworkHandledAt
  <2>6. QED
    BY <1>4, <2>2, <2>5 DEF h
<1>5. CASE phase = "offline-unreachable"
  <2>1. h = <<"require-off", "prove-bytes", "ack">>
    BY <1>5 DEF Network!Handler
  <2>2. h \in Seq(NetworkOps) /\ Len(h) = 3
    BY <2>1 DEF NetworkOps, NetworkTry
  <2>3. /\ h[1] = "require-off"
        /\ h[2] = "prove-bytes"
        /\ h[3] = "ack"
    BY <2>1
  <2>4. \A k \in 1..3 : k = 1 \/ k = 2 \/ k = 3
    OBVIOUS
  <2> HIDE DEF h
  <2>5. ASSUME NEW k \in 1..Len(h)
        PROVE  NetworkHandledAt(phase, h, k)
    <3>1. CASE k = 1
      BY <1>5, <2>2, <2>3, <3>1 DEF NetworkHandledAt
    <3>2. CASE k = 2
      BY <1>5, <2>2, <2>3, <3>2 DEF NetworkHandledAt
    <3>3. CASE k = 3
      BY <1>5, <2>2, <2>3, <3>3 DEF NetworkHandledAt
    <3>4. QED
      BY <2>2, <2>4, <3>1, <3>2, <3>3
  <2>6. QED
    BY <1>5, <2>2, <2>5 DEF h
<1>6. CASE phase = "reconnected-confirmed"
  <2>1. h = <<"capture", "finish-recording", "start-recording", "ack">>
    BY <1>6 DEF Network!Handler
  <2>2. h \in Seq(NetworkOps) /\ Len(h) = 4
    BY <2>1 DEF NetworkOps, NetworkTry
  <2>3. /\ h[1] = "capture"
        /\ h[2] = "finish-recording"
        /\ h[3] = "start-recording"
        /\ h[4] = "ack"
    BY <2>1
  <2>4. \A k \in 1..4 : k = 1 \/ k = 2 \/ k = 3 \/ k = 4
    OBVIOUS
  <2> HIDE DEF h
  <2>5. ASSUME NEW k \in 1..Len(h)
        PROVE  NetworkHandledAt(phase, h, k)
    BY <1>6, <2>2, <2>3, <2>4 DEF NetworkHandledAt
  <2>6. QED
    BY <1>6, <2>2, <2>5 DEF h
<1>7. CASE phase = "recovery-confirmed"
  <2>1. h = <<"capture", "finish-recording", "ack">>
    BY <1>7 DEF Network!Handler
  <2>2. h \in Seq(NetworkOps) /\ Len(h) = 3
    BY <2>1 DEF NetworkOps, NetworkTry
  <2>3. /\ h[1] = "capture"
        /\ h[2] = "finish-recording"
        /\ h[3] = "ack"
    BY <2>1
  <2>4. \A k \in 1..3 : k = 1 \/ k = 2 \/ k = 3
    OBVIOUS
  <2> HIDE DEF h
  <2>5. ASSUME NEW k \in 1..Len(h)
        PROVE  NetworkHandledAt(phase, h, k)
    BY <1>7, <2>2, <2>3, <2>4 DEF NetworkHandledAt
  <2>6. QED
    <3>1. \A k \in 1..Len(h) : NetworkHandledAt(phase, h, k)
      BY <2>5
    <3>2. /\ phase # "teardown-complete" /\ phase # "offline-unreachable"
          /\ phase # "offline-confirmed" /\ Len(h) >= 2
      BY <1>7, <2>2
    <3>3. QED
      BY <2>2, <3>1, <3>2, Zenon DEF h
<1>8. CASE phase = "teardown-complete"
  <2>1. h = <<>>
    BY <1>8 DEF Network!Handler
  <2>2. h \in Seq(NetworkOps) /\ Len(h) = 0
    BY <2>1 DEF NetworkOps, NetworkTry
  <2> HIDE DEF h
  <2>5. QED
    BY <1>8, <2>2 DEF h
<1>9. QED
  BY <1>1, <1>2, <1>3, <1>4, <1>5, <1>6, <1>7, <1>8 DEF NetworkNames

(* Where each call is in what the runner has before it.                    *)
NetworkWhere(n) ==
  /\ NetworkCall(n) = "validate" <=> n = 1
  /\ NetworkCall(n) = "loop" <=> n = 2
  /\ NetworkCall(n) = "ack" <=> mem.phase_index # 0 /\ n = 3
  /\ NetworkCall(n) = "capture-initial" <=> mem.phase_index = 0 /\ n = 5
  /\ NetworkCall(n) = "prepare" <=> mem.phase_index = 0 /\ n = 4
  /\ NetworkCall(n) = "start-processes" <=> mem.phase_index = 0 /\ n = 3
  /\ NetworkCall(n) \notin {"confirm-anr", "tap-anr"}
  /\ NetworkCall(n) = "disable" => mem.phase_index = 3 /\ n >= 3
  /\ NetworkCall(n) \in {"restore-wifi-first", "restore"} =>
       mem.phase_index = LastOffline /\ n < 9 /\ n >= 3
  /\ NetworkCall(n) = "require-off" <=>
       \/ Decoder /\ mem.phase_index = 4 /\ n = 5
       \/ mem.phase_index = LastOffline /\ n = IF Decoder THEN 11 ELSE 9
  /\ NetworkCall(n) = "prove-bytes" <=> Decoder /\ mem.phase_index = 4 /\ n = 4
  /\ NetworkCall(n) = "prove-again" <=> Decoder /\ mem.phase_index = 5 /\ n = 10
  /\ NetworkCall(n) = "release-cap" <=> Decoder /\ mem.phase_index = 5 /\ n = 9

LEMMA NetworkCalls ==
  ASSUME mem.phase_index \in 0..Len(Network!Phases)
  PROVE  /\ NetworkWhole \in Seq(NetworkOps) /\ Len(NetworkWhole) \in Nat
         /\ Len(NetworkWhole) >= 2
         /\ mem.phase_index = 0 => Len(NetworkWhole) = 5
         /\ mem.phase_index = 4 /\ Decoder => Len(NetworkWhole) = 5
         /\ mem.phase_index = LastOffline => Len(NetworkWhole) = IF Decoder THEN 12 ELSE 10
         /\ \A n \in 1..Len(NetworkWhole) : NetworkWhere(n)
<1> DEFINE i == mem.phase_index
           W == NetworkWhole
<1>1. CASE i = 0
  <2>1. W = NetworkProgram
    BY <1>1 DEF NetworkWhole
  <2>2. W \in Seq(NetworkOps) /\ Len(W) = 5
    BY <2>1 DEF NetworkProgram, NetworkOps, NetworkTry
  <2>3. /\ W[5] = "validate" /\ W[4] = "loop" /\ W[3] = "start-processes"
        /\ W[2] = "prepare" /\ W[1] = "capture-initial"
    BY <2>1 DEF NetworkProgram
  <2>4. ASSUME NEW n \in 1..Len(W)
        PROVE  NetworkWhere(n)
    <3> DEFINE c == NetworkCall(n)
    <3>1. c = W[5 - n + 1]
      BY <2>2 DEF NetworkCall
    <3>2. n = 1 \/ n = 2 \/ n = 3 \/ n = 4 \/ n = 5
      BY <2>2
    <3>3. \/ n = 1 /\ c = "validate"
          \/ n = 2 /\ c = "loop"
          \/ n = 3 /\ c = "start-processes"
          \/ n = 4 /\ c = "prepare"
          \/ n = 5 /\ c = "capture-initial"
      <4>1. /\ n = 1 => 5 - n + 1 = 5
            /\ n = 2 => 5 - n + 1 = 4
            /\ n = 3 => 5 - n + 1 = 3
            /\ n = 4 => 5 - n + 1 = 2
            /\ n = 5 => 5 - n + 1 = 1
        OBVIOUS
      <4> HIDE DEF c, W
      <4>2. QED
        BY <2>3, <3>1, <3>2, <4>1
    <3> HIDE DEF c
    <3>4. QED
      BY <1>1, <2>2, <3>3 DEF NetworkWhere, c, LastOffline
  <2>5. QED
    BY <1>1, <2>2, <2>4 DEF LastOffline
<1>2. CASE i # 0
  <2> DEFINE phase == Network!Phases[i]
             h == Network!Handler(phase)
             e == <<"loop", "validate">>
  <2>0. mem.phase_index \in 1..Len(Network!Phases)
    BY <1>2
  <2>1. /\ phase \in NetworkNames
        /\ phase = "teardown-complete" <=> i = Len(Network!Phases)
        /\ phase = "initial-ready" <=> i = 3
        /\ phase = "offline-unreachable" <=> Decoder /\ i = 4
        /\ phase = "offline-confirmed" <=> i = LastOffline
    <3>1. CASE ~Decoder
      <4>1. i = 1 \/ i = 2 \/ i = 3 \/ i = 4 \/ i = 5 \/ i = 6 \/ i = 7
        <5>1. Len(Network!Phases) = 7
          BY <3>1, NetworkPhaseNumbers
        <5>2. QED
          BY <2>0, <5>1
      <4> HIDE DEF i
      <4>2. QED
        BY <3>1, <4>1, NetworkPhaseNumbers DEF LastOffline, NetworkNames
    <3>2. CASE Decoder
      <4>1. i = 1 \/ i = 2 \/ i = 3 \/ i = 4 \/ i = 5 \/ i = 6 \/ i = 7 \/ i = 8
        <5>1. Len(Network!Phases) = 8
          BY <3>2, NetworkPhaseNumbers
        <5>2. QED
          BY <2>0, <5>1
      <4> HIDE DEF i
      <4>2. QED
        BY <3>2, <4>1, NetworkPhaseNumbers DEF LastOffline, NetworkNames
    <3>3. QED
      BY <3>1, <3>2
  <2>2. NetworkHandled(phase, h) /\ h \in Seq(NetworkOps)
    BY <2>1, NetworkHandlers DEF NetworkHandled
  <2>3. e \in Seq(NetworkOps) /\ Len(e) = 2 /\ e[1] = "loop" /\ e[2] = "validate"
    BY DEF NetworkOps, NetworkTry
  <2>4. W = h \o e
    BY <1>2 DEF NetworkWhole
  <2> HIDE DEF phase, h, e, W
  <2> DEFINE l == Len(h)
  <2>5. /\ W \in Seq(NetworkOps) /\ Len(W) = l + 2 /\ l \in Nat
        /\ \A k \in 1..l : W[k] = h[k]
        /\ W[l + 1] = "loop" /\ W[l + 2] = "validate"
    <3>1. /\ W \in Seq(NetworkOps) /\ Len(W) = l + Len(e)
          /\ \A k \in 1..l : W[k] = h[k]
          /\ \A k \in 1..Len(e) : W[l + k] = e[k]
      <4>1. h \in Seq(NetworkOps) /\ e \in Seq(NetworkOps)
        BY <2>2, <2>3
      <4>2. QED
        BY <2>4, <4>1, ConcatAt
    <3>2. l \in Nat
      BY <2>2
    <3>3. QED
      BY <2>3, <3>1, <3>2
  <2>6. /\ i # Len(Network!Phases) => l >= 2
        /\ i = Len(Network!Phases) => l = 0
        /\ i = 4 /\ Decoder => l = 3
        /\ i = LastOffline => l = IF Decoder THEN 10 ELSE 8
    <3>1. i # Len(Network!Phases) => l >= 2
      BY <2>1, <2>2 DEF NetworkHandled
    <3>2. i = Len(Network!Phases) => l = 0
      BY <2>1, <2>2 DEF NetworkHandled
    <3>3. i = 4 /\ Decoder => l = 3
      BY <2>1, <2>2 DEF NetworkHandled
    <3>4. i = LastOffline => l = IF Decoder THEN 10 ELSE 8
      BY <2>1, <2>2 DEF NetworkHandled
    <3>5. QED
      BY <3>1, <3>2, <3>3, <3>4
  <2>7. ASSUME NEW n \in 1..Len(W)
        PROVE  NetworkWhere(n)
    <3> DEFINE c == NetworkCall(n)
               k == l + 3 - n
    <3>1. c = W[l + 2 - n + 1]
      BY <2>5 DEF NetworkCall, W
    <3>2. l + 2 - 1 + 1 = l + 2 /\ l + 2 - 2 + 1 = l + 1 /\ l + 2 - n + 1 = k
      BY <2>5
    <3>3. /\ n = 1 => c = "validate"
          /\ n = 2 => c = "loop"
      BY <2>5, <3>1, <3>2
    <3>4. n >= 3 => k \in 1..l /\ c = h[k]
      BY <2>5, <3>1, <3>2
    <3>5. n >= 3 => NetworkHandledAt(phase, h, k)
      <4> HIDE DEF k, l
      <4>1. QED
        BY <2>2, <3>4 DEF NetworkHandled, l
    <3>6. n \in Nat /\ n >= 1 /\ n <= l + 2 /\ Len(W) = l + 2
      BY <2>5
    <3>7. CASE n < 3
      <4>1. n = 1 \/ n = 2
        BY <3>6, <3>7
      <4> HIDE DEF c, l, k
      <4>2. i = LastOffline => n # (IF Decoder THEN 11 ELSE 9)
        BY <4>1
      <4>3. QED
        BY <1>2, <3>3, <4>1, <4>2 DEF NetworkWhere, c
    <3>8. CASE n >= 3
      <4>1. /\ c \notin NetworkFirst \cup {"confirm-anr", "tap-anr"} /\ (c = "ack" <=> n = 3)
        BY <2>5, <3>4, <3>5, <3>6, <3>8 DEF NetworkHandledAt
      <4>2. /\ c = "disable" => i = 3
            /\ c \in {"restore-wifi-first", "restore"} =>
                 i = LastOffline /\ k > (IF Decoder THEN 4 ELSE 2)
            /\ c = "require-off" <=> \/ Decoder /\ i = 4 /\ k = 1
                                     \/ i = LastOffline /\ k = 2
            /\ c = "prove-bytes" <=> Decoder /\ i = 4 /\ k = 2
            /\ c = "prove-again" <=> i = LastOffline /\ Decoder /\ k = 3
            /\ c = "release-cap" <=> i = LastOffline /\ Decoder /\ k = 4
        <5> HIDE DEF k, c, l, i
        <5>1. QED
          BY <2>1, <3>4, <3>5, <3>8 DEF NetworkHandledAt
      <4>3. /\ Decoder /\ i = 4 => (k = 1 <=> n = 5) /\ (k = 2 <=> n = 4)
            /\ Decoder /\ i = LastOffline =>
                 /\ i = 5 /\ (k = 2 <=> n = 11) /\ (k = 3 <=> n = 10) /\ (k = 4 <=> n = 9)
                 /\ (k > 4 <=> n < 9)
            /\ ~Decoder /\ i = LastOffline => (k = 2 <=> n = 9) /\ (k > 2 <=> n < 9)
            /\ Decoder /\ i = 5 => i = LastOffline
        <5>1. /\ Decoder => LastOffline = 5
              /\ ~Decoder => LastOffline = 4
          BY DEF LastOffline
        <5>2. /\ Decoder /\ i = 4 => l = 3
              /\ Decoder /\ i = LastOffline => l = 10
              /\ ~Decoder /\ i = LastOffline => l = 8
          BY <2>6
        <5>3. l \in Nat
          BY <2>5
        <5> HIDE DEF l, i, W
        <5>4. /\ l = 3 => (k = 1 <=> n = 5) /\ (k = 2 <=> n = 4)
              /\ l = 10 => /\ k = 2 <=> n = 11
                           /\ k = 3 <=> n = 10
                           /\ k = 4 <=> n = 9
                           /\ k > 4 <=> n < 9
              /\ l = 8 => (k = 2 <=> n = 9) /\ (k > 2 <=> n < 9)
          BY <3>6, <5>3
        <5> HIDE DEF k
        <5>5. QED
          BY <5>1, <5>2, <5>4
      <4> HIDE DEF k, l, i, W, c
      <4>4. /\ c = "require-off" <=>
                 \/ Decoder /\ i = 4 /\ n = 5
                 \/ i = LastOffline /\ n = IF Decoder THEN 11 ELSE 9
            /\ c \in {"restore-wifi-first", "restore"} => i = LastOffline /\ n < 9
        BY <4>2, <4>3
      <4>5. /\ c = "prove-bytes" <=> Decoder /\ i = 4 /\ n = 4
            /\ c = "prove-again" <=> Decoder /\ i = 5 /\ n = 10
            /\ c = "release-cap" <=> Decoder /\ i = 5 /\ n = 9
        BY <4>2, <4>3
      <4>6. QED
        BY <1>2, <3>6, <3>8, <4>1, <4>2, <4>4, <4>5 DEF NetworkWhere, NetworkFirst, c, i, W
    <3>9. QED
      BY <3>6, <3>7, <3>8
  <2>8. QED
    <3>1. W \in Seq(NetworkOps) /\ Len(W) \in Nat /\ Len(W) >= 2
      BY <2>5
    <3>2. /\ i = 4 /\ Decoder => Len(W) = 5
          /\ i = LastOffline => Len(W) = IF Decoder THEN 12 ELSE 10
      <4>0. Len(W) = l + 2
        BY <2>5
      <4>1. /\ i = 4 /\ Decoder => l = 3
            /\ i = LastOffline /\ Decoder => l = 10
            /\ i = LastOffline /\ ~Decoder => l = 8
        BY <2>6
      <4> HIDE DEF l
      <4>2. i = 4 /\ Decoder => Len(W) = 5
        BY <4>0, <4>1
      <4>3. i = LastOffline /\ Decoder => Len(W) = 12
        BY <4>0, <4>1
      <4>4. i = LastOffline /\ ~Decoder => Len(W) = 10
        BY <4>0, <4>1
      <4>5. QED
        BY <4>2, <4>3, <4>4
    <3>3. QED
      BY <1>2, <2>7, <3>1, <3>2 DEF W
<1>3. QED
  BY <1>1, <1>2

(* The operation that runs now.                                            *)
LEMMA NetworkHead ==
  ASSUME NetworkPlaced, todo # <<>>
  PROVE  /\ Len(todo) \in 1..Len(NetworkWhole) /\ Len(NetworkWhole) \in Nat
         /\ NetworkWhole \in Seq(NetworkOps)
         /\ NetworkWhere(Len(todo)) /\ Head(todo) \in NetworkOps
         /\ \/ Head(todo) = NetworkCall(Len(todo))
            \/ /\ NetworkCall(Len(todo)) = "capture"
               /\ Head(todo) \in {"confirm-anr", "tap-anr"}
         /\ Tail(todo) = Rest(NetworkWhole, Len(todo) - 1)
         /\ Len(Tail(todo)) = Len(todo) - 1 /\ Tail(todo) \in Seq(NetworkOps)
         /\ <<>> \o Tail(todo) = Tail(todo)
<1> DEFINE W == NetworkWhole
           n == Len(todo)
<1>1. W \in Seq(NetworkOps) /\ Len(W) \in Nat /\ \A k \in 1..Len(W) : NetworkWhere(k)
  BY NetworkCalls DEF NetworkPlaced
<1>2. /\ todo \in Seq(NetworkOps) /\ Head(todo) \in NetworkOps /\ Tail(todo) \in Seq(NetworkOps)
      /\ Len(Tail(todo)) = n - 1 /\ <<>> \o Tail(todo) = Tail(todo)
  BY DEF NetworkPlaced
<1>3. CASE Undoing(W)
  <2> HIDE DEF W
  <2>1. /\ n \in 1..Len(W) /\ Head(todo) = W[Len(W) - n + 1]
        /\ Len(Tail(todo)) = n - 1 /\ Tail(todo) = Rest(W, Len(Tail(todo)))
    BY <1>1, <1>3, UndoingParts
  <2>2. QED
    BY <1>1, <1>2, <2>1 DEF NetworkCall, W
<1>4. CASE ~Undoing(W)
  <2>1. /\ Head(todo) \in {"confirm-anr", "tap-anr"} /\ n \in 1..Len(W)
        /\ NetworkCall(n) = "capture" /\ Tail(todo) = Rest(W, n - 1)
    BY <1>4 DEF NetworkPlaced
  <2>2. QED
    BY <1>1, <1>2, <2>1
<1>5. QED
  BY <1>3, <1>4

LEMMA NetworkWholeStays ==
  ASSUME mem'.variant = mem.variant, mem'.phase_index = mem.phase_index
  PROVE  /\ NetworkWhole' = NetworkWhole /\ Network!Phases' = Network!Phases
         /\ Decoder' = Decoder /\ LastOffline' = LastOffline
<1>1. Network!Phases' = Network!Phases
  BY DEF Network!Phases, Network!PHASES
<1>2. Network!Handler(Network!Phases[mem.phase_index])'
        = Network!Handler(Network!Phases[mem.phase_index])
  BY <1>1 DEF Network!Handler
<1>3. Decoder' = Decoder
  BY DEF Decoder
<1>4. QED
  BY <1>1, <1>2, <1>3 DEF NetworkWhole, NetworkProgram, LastOffline

LEMMA NetworkGoesOn ==
  ASSUME NetworkPlaced, todo # <<>>, mem'.variant = mem.variant,
         mem'.phase_index = mem.phase_index,
         todo' = Tail(todo) \/ todo' = <<>> \o Tail(todo)
  PROVE  NetworkPlaced' /\ Len(todo') = Len(todo) - 1
<1> DEFINE W == NetworkWhole
           n == Len(todo)
<1>1. /\ todo' = Rest(W, n - 1) /\ Len(todo') = n - 1 /\ n \in 1..Len(W) /\ Len(W) \in Nat
      /\ todo' \in Seq(NetworkOps)
  BY NetworkHead
<1>2. NetworkWhole' = W /\ Network!Phases' = Network!Phases
  BY NetworkWholeStays
<1>3. Len(todo') \in 0..Len(W) /\ todo' = Rest(W, Len(todo'))
  BY <1>1
<1>4. Undoing(NetworkWhole)'
  <2> HIDE DEF W
  <2>1. QED
    BY <1>2, <1>3 DEF Undoing, Rest
<1>5. QED
  BY <1>1, <1>2, <1>4 DEF NetworkPlaced

(* A dialog of the system is recovered from in the place of the capture.   *)
LEMMA NetworkAsks ==
  ASSUME NetworkPlaced, todo # <<>>, mem'.variant = mem.variant,
         mem'.phase_index = mem.phase_index,
         NEW op \in {"confirm-anr", "tap-anr"}, todo' = <<op>> \o Tail(todo),
         Head(todo) \in {"capture", "confirm-anr"}
  PROVE  NetworkPlaced' /\ Len(todo') = Len(todo)
<1> DEFINE W == NetworkWhole
           n == Len(todo)
           r == Tail(todo)
<1>1. /\ n \in 1..Len(W) /\ Len(W) \in Nat /\ NetworkCall(n) = "capture"
      /\ r = Rest(W, n - 1) /\ r \in Seq(NetworkOps) /\ Len(r) = n - 1
  <2>1. NetworkWhere(n)
    BY NetworkHead
  <2>2. NetworkCall(n) \notin {"confirm-anr", "tap-anr"}
    BY <2>1 DEF NetworkWhere
  <2>3. QED
    BY <2>2, NetworkHead
<1>2. NetworkWhole' = W /\ Network!Phases' = Network!Phases /\ NetworkCall(n)' = W[Len(W) - n' + 1]
  BY NetworkWholeStays DEF NetworkCall
<1>3. op \in NetworkOps
  BY DEF NetworkOps, NetworkTry
<1>4. /\ todo' \in Seq(NetworkOps \cup {op}) /\ todo' # <<>> /\ Head(todo') = op /\ Tail(todo') = r
  <2> HIDE DEF r
  <2>1. todo' = <<op>> \o r /\ r \in Seq(NetworkOps)
    BY <1>1 DEF r
  <2> DEFINE new == <<op>> \o r
  <2>2. /\ new \in Seq(NetworkOps \cup {op}) /\ new # <<>> /\ Head(new) = op /\ Tail(new) = r
    BY <2>1, PushOne
  <2> HIDE DEF new
  <2>3. QED
    BY <2>1, <2>2 DEF new
<1>5. todo' \in Seq(NetworkOps)
  <2>1. NetworkOps \cup {op} = NetworkOps
    BY <1>3
  <2>2. QED
    BY <1>4, <2>1
<1>6. Len(todo') = n
  <2>1. Len(Tail(todo')) = Len(todo') - 1 /\ Len(todo') \in Nat
    BY <1>4, <1>5
  <2>2. QED
    BY <1>1, <1>4, <2>1
<1>7. /\ Len(todo') \in 1..Len(NetworkWhole') /\ NetworkCall(Len(todo))' = "capture"
      /\ Tail(todo') = Rest(NetworkWhole, Len(todo) - 1)'
  BY <1>1, <1>2, <1>4, <1>6 DEF Rest, NetworkCall
<1>8. mem'.phase_index \in 0..Len(Network!Phases')
  BY <1>2 DEF NetworkPlaced
<1>9. QED
  BY <1>4, <1>5, <1>6, <1>7, <1>8 DEF NetworkPlaced

(* The same of the next state.                                             *)
NetworkWholeKnown ==
  mem.phase_index \in 0..Len(Network!Phases) =>
    /\ NetworkWhole \in Seq(NetworkOps) /\ Len(NetworkWhole) >= 2
    /\ mem.phase_index = 4 /\ Decoder => Len(NetworkWhole) = 5
    /\ mem.phase_index = LastOffline => Len(NetworkWhole) = IF Decoder THEN 12 ELSE 10

LEMMA NetworkWholeIsKnown == NetworkWholeKnown
BY NetworkCalls DEF NetworkWholeKnown

LEMMA NetworkWholeStaysKnown == NetworkWholeKnown'
BY NetworkWholeIsKnown, PTL

(* The loop takes the next checkpoint.                                     *)
LEMMA NetworkEnters ==
  ASSUME NetworkPlaced, todo # <<>>, Head(todo) = "loop", mem'.variant = mem.variant,
         mem.phase_index < Len(Network!Phases), mem'.phase_index = mem.phase_index + 1,
         todo' = Network!Handler(Network!Phases[mem.phase_index + 1]) \o todo
  PROVE  NetworkPlaced' /\ Len(todo') = Len(NetworkWhole')
<1> DEFINE W == NetworkWhole
           e == <<"loop", "validate">>
<1>1. /\ Len(todo) = 2 /\ NetworkCall(1) = "validate" /\ todo \in Seq(NetworkOps)
      /\ W \in Seq(NetworkOps) /\ Len(W) \in Nat /\ 1 \in 1..Len(W) /\ Tail(todo) = Rest(W, 1)
  <2>1. NetworkWhere(Len(todo)) /\ Head(todo) = NetworkCall(Len(todo))
    BY NetworkHead
  <2>2. Len(todo) = 2 /\ Len(todo) - 1 = 1
    BY <2>1 DEF NetworkWhere
  <2>3. /\ W \in Seq(NetworkOps) /\ Len(W) \in Nat /\ 2 \in 1..Len(W) /\ Tail(todo) = Rest(W, 1)
    BY <2>2, NetworkHead
  <2>4. 1 \in 1..Len(W)
    BY <2>3
  <2>5. NetworkWhere(1)
    BY <2>4, NetworkCalls DEF NetworkPlaced
  <2>6. QED
    BY <2>2, <2>3, <2>4, <2>5 DEF NetworkWhere, NetworkPlaced
<1>2. todo = e
  <2>1. Head(Tail(todo)) = "validate"
    <3> HIDE DEF W
    <3>1. Head(Rest(W, 1)) = W[Len(W) - 1 + 1]
      BY <1>1, RestParts
    <3>2. QED
      BY <1>1, <3>1 DEF NetworkCall, W
  <2>2. todo[1] = "loop" /\ todo[2] = "validate"
    <3> DEFINE t == Tail(todo)
    <3>1. /\ Len(t) = 1 /\ t \in Seq(NetworkOps) /\ \A k \in 1..Len(t) : t[k] = todo[k + 1]
      BY <1>1, HeadTailProperties
    <3>2. todo[1] = "loop"
      BY <1>1
    <3>3. Head(t) = "validate"
      BY <2>1
    <3> HIDE DEF t
    <3>4. Head(t) = t[1]
      BY <3>1, FirstIsHead
    <3>5. 1 \in 1..Len(t) /\ 1 + 1 = 2
      BY <3>1
    <3>6. t[1] = todo[2]
      BY <3>1, <3>5
    <3>7. QED
      BY <3>2, <3>3, <3>4, <3>6
  <2>3. e \in Seq(NetworkOps) /\ Len(e) = 2 /\ e[1] = "loop" /\ e[2] = "validate"
    BY DEF NetworkOps, NetworkTry
  <2> HIDE DEF e
  <2>4. \A k \in 1..Len(todo) : todo[k] = e[k]
    BY <1>1, <2>2, <2>3
  <2>5. QED
    BY <1>1, <2>3, <2>4, SeqEqual
<1>3. Network!Phases' = Network!Phases
  BY DEF Network!Phases, Network!PHASES
<1>4. /\ mem'.phase_index \in 0..Len(Network!Phases') /\ mem'.phase_index # 0
  <2>1. Len(Network!Phases) \in Nat /\ mem.phase_index \in Nat
    BY NetworkPhases DEF NetworkPlaced
  <2>2. QED
    BY <1>3, <2>1
<1>5. Network!Handler(Network!Phases[mem.phase_index])'
        = Network!Handler(Network!Phases[mem.phase_index + 1])
  BY <1>3 DEF Network!Handler
<1>6. NetworkWhole' = todo'
  BY <1>2, <1>4, <1>5 DEF NetworkWhole
<1>7. NetworkWhole' \in Seq(NetworkOps)
  BY <1>4, NetworkWholeStaysKnown DEF NetworkWholeKnown, NetworkOps, NetworkTry
<1>8. Undoing(NetworkWhole)'
  BY <1>6, <1>7 DEF Undoing, Rest
<1>9. QED
  BY <1>4, <1>6, <1>7, <1>8 DEF NetworkPlaced

LEMMA NetworkRaises ==
  ASSUME mode = "run", errors = FALSE, Network!Next, errors' # FALSE
  PROVE  mode' # "run" /\ errors' = TRUE
BY DEF Network!Next, Network!Runner, Network!CaptureInitial, Network!Prepare,
   Network!StartProcesses, Network!ObserveCheckpoint, Network!LoopEnds, Network!Validate,
   Network!Capture, Network!ConfirmAnr, Network!TapAnr, Network!FinalEvidence, Network!Disable,
   Network!RestoreWifiFirst, Network!Restore, Network!RequireOff, Network!StartRecording,
   Network!FinishRecording, Network!Ack, Network!ProveBytes, Network!ProveAgain,
   Network!ReleaseCap, Network!StopDriver, Network!StopLogcat, Network!RemoveObserver,
   Network!StopTestApp, Network!RemoveAcks, Network!RemoveEvidence, Network!Fails,
   Network!EnterFinally, Network!Report, Network!Environment, Network!AppCheckpoint,
   Network!AppRestarts, Network!DriverExits, Network!SetupAnr, Network!RadioReturns,
   Network!FixtureServe, Network!Signal, Network!control, Network!Require, Network!ReturnOrFail,
   Network!Return, Network!ReturnUnheeded, Network!Call, Network!Raise, Network!Proceed,
   Network!Running, Network!Now

(* What every operation that returns leaves alone.                         *)
NetworkStill ==
  /\ NetworkFields'
  /\ mem'.variant = mem.variant /\ mem'.phase_index = mem.phase_index
  /\ mem'.android_pid = mem.android_pid
  /\ device'.at = device.at /\ device'.queue = device.queue /\ device'.early = device.early
  /\ seen'.pids = seen.pids /\ seen'.online = seen.online

(* What an operation does that returns, and what it has seen.              *)
NetworkReturns(op) ==
  /\ op \notin NetworkSwitch => device'.wifi = device.wifi /\ device'.data = device.data
  /\ IF op = "start-processes" THEN device'.app = 1
     ELSE device'.app = device.app /\ device'.driver = device.driver
  /\ IF op = "release-cap" THEN device'.fixture = "released"
     ELSE device'.fixture = device.fixture /\ mem'.released = mem.released
  /\ mem'.acks = IF op = "ack" THEN mem.acks + 1 ELSE mem.acks
  /\ IF op = "prove-bytes" THEN mem'.proved ELSE mem'.proved = mem.proved
  /\ op = "require-off" => Network!Radios(device) = Network!Off
  /\ op = "prove-again" => ~Network!EarlyRow
  /\ op = "validate" => (Decoder => mem.released)
  /\ op = "loop" => mem.phase_index = Len(Network!Phases) /\ device.driver = "exit0"

(* The next checkpoint is the one expected, of the process that runs.      *)
NetworkTakes ==
  /\ NetworkFields' /\ Head(todo) = "loop" /\ device.queue # <<>>
  /\ mem.phase_index < Len(Network!Phases)
  /\ Head(device.queue).phase = Network!Phases[mem.phase_index + 1]
  /\ Head(device.queue).pid = device.app /\ mem.android_pid \in {0, device.app}
  /\ mem'.phase_index = mem.phase_index + 1 /\ mem'.android_pid = device.app
  /\ mem'.variant = mem.variant /\ mem'.acks = mem.acks
  /\ mem'.proved = mem.proved /\ mem'.released = mem.released
  /\ device'.queue = Tail(device.queue)
  /\ device'.wifi = device.wifi /\ device'.data = device.data /\ device'.app = device.app
  /\ device'.at = device.at /\ device'.driver = device.driver
  /\ device'.fixture = device.fixture /\ device'.early = device.early
  /\ seen'.pids = seen.pids \cup {device.app} /\ seen'.online = seen.online

LEMMA NetworkEffects ==
  ASSUME NetworkFields, NetworkPlaced, mode = "run", Network!Next, errors' = FALSE
  PROVE  \/ /\ mode' = "cleanup" /\ todo = <<>> /\ todo' = Network!CLEANUP
            /\ UNCHANGED <<device, mem, seen>>
         \/ /\ mode' = "run" /\ todo # <<>> /\ NetworkStill /\ NetworkReturns(Head(todo))
            /\ todo' = Tail(todo) \/ todo' = <<>> \o Tail(todo)
         \/ /\ mode' = "run" /\ todo # <<>> /\ NetworkStill /\ NetworkReturns("capture")
            /\ Head(todo) \in {"capture", "confirm-anr"}
            /\ \E op \in {"confirm-anr", "tap-anr"} : todo' = <<op>> \o Tail(todo)
         \/ /\ mode' = "run" /\ todo # <<>> /\ NetworkTakes
            /\ todo' = Network!Handler(Network!Phases[mem.phase_index + 1]) \o todo
         \/ /\ mode' = "run" /\ todo' = todo /\ mem' = mem /\ Network!Environment
            /\ ~Network!Signal
<1> USE DEF Network!Require, Network!ReturnOrFail, Network!Return, Network!Call, Network!Raise,
     Network!Proceed, Network!Running, Network!Now
<1>0. todo # <<>> => Head(todo) \in NetworkOps
  BY NetworkHead
<1>1. CASE Network!Environment
  BY <1>1 DEF Network!Environment, Network!AppCheckpoint, Network!AppRestarts, Network!DriverExits,
     Network!SetupAnr, Network!RadioReturns, Network!FixtureServe, Network!Signal,
     Network!control
<1>2. CASE (Network!EnterFinally(Network!CLEANUP) \/ Network!Report) /\ UNCHANGED <<device, mem, seen>>
  BY <1>2 DEF Network!EnterFinally, Network!Report
<1>3. CASE Network!ObserveCheckpoint
  <2> DEFINE c == Head(device.queue)
  <2>1. /\ todo # <<>> /\ Head(todo) = "loop" /\ mode' = "run" /\ device.queue # <<>>
        /\ mem.phase_index < Len(Network!Phases) /\ c.phase = Network!Phases[mem.phase_index + 1]
        /\ c.pid = device.app /\ mem.android_pid \in {0, c.pid}
        /\ mem' = [mem EXCEPT !.phase_index = @ + 1, !.android_pid = c.pid]
        /\ seen' = [seen EXCEPT !.pids = @ \cup {c.pid}]
        /\ todo' = Network!Handler(c.phase) \o todo
        /\ device' = [device EXCEPT !.queue = Tail(@)]
    BY <1>3 DEF Network!ObserveCheckpoint
  <2> HIDE DEF c
  <2>2. NetworkFields'
    BY <2>1 DEF NetworkFields
  <2>3. NetworkTakes
    BY <2>1, <2>2 DEF NetworkTakes, NetworkFields, c
  <2>4. todo' = Network!Handler(Network!Phases[mem.phase_index + 1]) \o todo
    BY <2>1
  <2>5. QED
    BY <2>1, <2>3, <2>4
<1> USE DEF NetworkFields, NetworkStill, NetworkReturns, NetworkSwitch
<1>4. CASE Network!CaptureInitial \/ Network!Prepare
  BY <1>4 DEF Network!CaptureInitial, Network!Prepare
<1>5. CASE Network!StartProcesses
  <2>1. /\ todo # <<>> /\ Head(todo) = "start-processes" /\ mode' = "run"
        /\ todo' = <<>> \o Tail(todo) /\ UNCHANGED <<mem, seen>>
        /\ \E owned : device' = [device EXCEPT !.owned = owned, !.driver = "running", !.app = 1]
    BY <1>5 DEF Network!StartProcesses
  <2>2. QED
    BY <2>1
<1>6. CASE Network!LoopEnds \/ Network!Validate
  BY <1>6 DEF Network!LoopEnds, Network!Validate, Decoder
<1>7. CASE Network!Capture
  <2>1. /\ todo # <<>> /\ Head(todo) = "capture" /\ mode' = "run" /\ UNCHANGED <<device, mem, seen>>
        /\ todo' = <<>> \o Tail(todo) \/ todo' = <<"confirm-anr">> \o Tail(todo)
    BY <1>7 DEF Network!Capture
  <2>2. QED
    BY <2>1
<1>8. CASE Network!ConfirmAnr
  <2>1. /\ todo # <<>> /\ Head(todo) = "confirm-anr" /\ mode' = "run" /\ UNCHANGED <<device, seen>>
        /\ todo' = <<"tap-anr">> \o Tail(todo)
        /\ \E count : mem' = [mem EXCEPT !.recoveries = count]
    BY <1>8 DEF Network!ConfirmAnr
  <2>2. QED
    BY <2>1
<1>9. CASE Network!TapAnr
  BY <1>9 DEF Network!TapAnr
<1>10. CASE Network!Disable
  <2>1. /\ todo # <<>> /\ Head(todo) = "disable" /\ mode' = "run" /\ todo' = Tail(todo) /\ seen' = seen
        /\ mem' = [mem EXCEPT !.changed = TRUE]
        /\ \E wifi, data : device' = [device EXCEPT !.wifi = wifi, !.data = data]
    BY <1>10 DEF Network!Disable, Network!Apply
  <2>2. QED
    BY <2>1
<1>11. CASE Network!RestoreWifiFirst
  <2>1. /\ todo # <<>> /\ Head(todo) = "restore-wifi-first" /\ mode' = "run" /\ todo' = Tail(todo)
        /\ seen' = seen
        /\ mem' = mem \/ \E raised : mem' = [mem EXCEPT !.unready = raised]
        /\ device' = device \/ \E wifi, data : device' = [device EXCEPT !.wifi = wifi, !.data = data]
    BY <1>11 DEF Network!RestoreWifiFirst, Network!Apply
  <2>2. QED
    BY <2>1
<1>12. CASE Network!Restore
  <2>1. /\ todo # <<>> /\ Head(todo) = "restore" /\ mode' = "run" /\ seen' = seen
        /\ todo' = Tail(todo) \/ todo' = <<>> \o Tail(todo)
        /\ mem' = [mem EXCEPT !.unready = FALSE]
        /\ device' = device \/ \E wifi, data : device' = [device EXCEPT !.wifi = wifi, !.data = data]
    BY <1>12 DEF Network!Restore, Network!Apply
  <2>2. QED
    BY <2>1
<1>13. CASE Network!RequireOff \/ Network!ProveAgain
  BY <1>13 DEF Network!RequireOff, Network!ProveAgain
<1>14. CASE Network!StartRecording \/ Network!FinishRecording
  BY <1>14 DEF Network!StartRecording, Network!FinishRecording, Network!Own, Network!Drop
<1>15. CASE Network!Ack
  <2>1. /\ todo # <<>> /\ Head(todo) = "ack" /\ mode' = "run" /\ seen' = seen
        /\ todo' = <<>> \o Tail(todo) /\ mem' = [mem EXCEPT !.acks = @ + 1]
        /\ \E owned : device' = [device EXCEPT !.owned = owned]
    BY <1>15 DEF Network!Ack, Network!Own
  <2>2. /\ {"variant", "phase_index", "android_pid", "acks", "proved", "released"} \subseteq DOMAIN mem'
        /\ mem'.acks = mem.acks + 1 /\ mem'.acks \in Nat
        /\ mem'.variant = mem.variant /\ mem'.phase_index = mem.phase_index
        /\ mem'.android_pid = mem.android_pid /\ mem'.proved = mem.proved
        /\ mem'.released = mem.released
    BY <2>1
  <2>3. /\ {"wifi", "data", "app", "at", "queue", "driver", "fixture", "early"} \subseteq DOMAIN device'
        /\ device'.wifi = device.wifi /\ device'.data = device.data /\ device'.app = device.app
        /\ device'.at = device.at /\ device'.queue = device.queue /\ device'.driver = device.driver
        /\ device'.fixture = device.fixture /\ device'.early = device.early
    BY <2>1
  <2>4. NetworkStill /\ NetworkReturns("ack")
    BY <2>1, <2>2, <2>3
  <2>5. QED
    BY <2>1, <2>4
<1>16. CASE Network!ProveBytes
  BY <1>16 DEF Network!ProveBytes
<1>17. CASE Network!ReleaseCap
  BY <1>17 DEF Network!ReleaseCap
<1>18. CASE \E op \in Network!Ops : Network!Fails(op)
  BY <1>18 DEF Network!Fails
<1>19. ~ (\/ Network!FinalEvidence \/ Network!StopDriver \/ Network!StopLogcat
          \/ Network!RemoveObserver \/ Network!StopTestApp \/ Network!RemoveAcks
          \/ Network!RemoveEvidence)
  BY <1>0 DEF Network!FinalEvidence, Network!StopDriver, Network!StopLogcat,
     Network!RemoveObserver, Network!StopTestApp, Network!RemoveAcks, Network!RemoveEvidence,
     NetworkOps, NetworkTry
<1>20. QED
  BY <1>1, <1>2, <1>3, <1>4, <1>5, <1>6, <1>7, <1>8, <1>9, <1>10, <1>11, <1>12, <1>13, <1>14, <1>15,
     <1>16, <1>17, <1>18, <1>19 DEF Network!Next, Network!Runner

LEMMA NetworkNow ==
  ASSUME NetworkPlaced, todo # <<>>
  PROVE  /\ Len(todo) \in Nat /\ Len(todo) >= 1
         /\ Head(todo) = "validate" <=> Len(todo) = 1
         /\ Head(todo) = "loop" <=> Len(todo) = 2
         /\ Head(todo) = "ack" <=> mem.phase_index # 0 /\ Len(todo) = 3
         /\ Head(todo) = "start-processes" <=> mem.phase_index = 0 /\ Len(todo) = 3
         /\ Head(todo) = "disable" => mem.phase_index = 3 /\ Len(todo) >= 3
         /\ Head(todo) \in {"restore-wifi-first", "restore"} =>
              mem.phase_index = LastOffline /\ Len(todo) < 9 /\ Len(todo) >= 3
         /\ Head(todo) = "require-off" <=>
              \/ Decoder /\ mem.phase_index = 4 /\ Len(todo) = 5
              \/ mem.phase_index = LastOffline /\ Len(todo) = IF Decoder THEN 11 ELSE 9
         /\ Head(todo) = "prove-bytes" <=> Decoder /\ mem.phase_index = 4 /\ Len(todo) = 4
         /\ Head(todo) = "prove-again" <=> Decoder /\ mem.phase_index = 5 /\ Len(todo) = 10
         /\ Head(todo) = "release-cap" <=> Decoder /\ mem.phase_index = 5 /\ Len(todo) = 9
         /\ mem.phase_index = 4 /\ Decoder => Len(todo) <= 5
         /\ mem.phase_index = LastOffline => Len(todo) <= IF Decoder THEN 12 ELSE 10
<1> DEFINE n == Len(todo)
           op == Head(todo)
           c == NetworkCall(n)
           W == NetworkWhole
<1>1. /\ n \in 1..Len(W) /\ Len(W) \in Nat /\ NetworkWhere(n)
      /\ \/ op = c
         \/ c = "capture" /\ op \in {"confirm-anr", "tap-anr"}
  BY NetworkHead
<1>2. /\ mem.phase_index = 4 /\ Decoder => Len(W) = 5
      /\ mem.phase_index = LastOffline => Len(W) = IF Decoder THEN 12 ELSE 10
  BY NetworkCalls DEF NetworkPlaced
<1> HIDE DEF n, op, c, W
<1>3. /\ mem.phase_index = 4 /\ Decoder => n <= 5
      /\ mem.phase_index = LastOffline => n <= IF Decoder THEN 12 ELSE 10
  <2>1. n \in Nat /\ Len(W) \in Nat /\ n <= Len(W)
    BY <1>1
  <2>2. mem.phase_index = 4 /\ Decoder => n <= 5
    BY <1>2, <2>1
  <2>3. mem.phase_index = LastOffline /\ Decoder => n <= 12
    <3>1. mem.phase_index = LastOffline /\ Decoder => Len(W) = 12
      BY <1>2
    <3>2. QED
      BY <2>1, <3>1
  <2>4. mem.phase_index = LastOffline /\ ~Decoder => n <= 10
    <3>1. mem.phase_index = LastOffline /\ ~Decoder => Len(W) = 10
      BY <1>2
    <3>2. QED
      BY <2>1, <3>1
  <2>5. QED
    BY <2>2, <2>3, <2>4
<1>4. n \in Nat /\ n >= 1
  BY <1>1
<1>5. CASE op = c
  BY <1>1, <1>3, <1>4, <1>5 DEF NetworkWhere, n, op, c
<1>6. CASE c = "capture" /\ op \in {"confirm-anr", "tap-anr"}
  <2>1. /\ n # 1 /\ n # 2 /\ ~(mem.phase_index = 0 /\ n = 3) /\ ~(mem.phase_index # 0 /\ n = 3)
        /\ ~(Decoder /\ mem.phase_index = 4 /\ n = 5)
        /\ ~(mem.phase_index = LastOffline /\ n = IF Decoder THEN 11 ELSE 9)
        /\ ~(Decoder /\ mem.phase_index = 4 /\ n = 4)
        /\ ~(Decoder /\ mem.phase_index = 5 /\ n = 10)
        /\ ~(Decoder /\ mem.phase_index = 5 /\ n = 9)
    BY <1>1, <1>6 DEF NetworkWhere, c
  <2>2. op \notin {"validate", "loop", "ack", "start-processes", "disable", "restore-wifi-first",
                   "restore", "require-off", "prove-bytes", "prove-again", "release-cap"}
    BY <1>6
  <2>3. QED
    BY <1>3, <1>4, <2>1, <2>2 DEF n, op
<1>7. QED
  BY <1>1, <1>5, <1>6

(* An operation that returns.                                              *)
LEMMA NetworkReturnsKeep ==
  ASSUME NetworkSound, todo # <<>>, NetworkStill, NetworkReturns(Head(todo)),
         todo' = Tail(todo) \/ todo' = <<>> \o Tail(todo)
  PROVE  NetworkSound'
<1> DEFINE n == Len(todo)
           m == Len(todo')
           i == mem.phase_index
           op == Head(todo)
<1>0. NetworkFields /\ NetworkPlaced /\ NetworkProcess /\ NetworkQueued
  BY DEF NetworkSound
<1>1. NetworkPlaced' /\ m = n - 1
  BY <1>0, NetworkGoesOn DEF NetworkStill
<1>2. /\ n \in Nat /\ n >= 1
      /\ op = "validate" <=> n = 1
      /\ op = "loop" <=> n = 2
      /\ op = "ack" <=> i # 0 /\ n = 3
      /\ op = "start-processes" <=> i = 0 /\ n = 3
  BY <1>0, NetworkNow
<1>3. /\ Network!Phases' = Network!Phases /\ Decoder' = Decoder /\ LastOffline' = LastOffline
      /\ mem'.phase_index = i /\ mem'.android_pid = mem.android_pid
      /\ device'.at = device.at /\ device'.queue = device.queue /\ device'.early = device.early
      /\ seen'.pids = seen.pids /\ seen'.online = seen.online /\ NetworkFields'
  BY NetworkWholeStays DEF NetworkStill
<1>4. /\ op = "start-processes" => device'.app = 1
      /\ op # "start-processes" => device'.app = device.app /\ device'.driver = device.driver
  BY DEF NetworkReturns
<1>5. /\ op = "ack" => mem'.acks = mem.acks + 1
      /\ op # "ack" => mem'.acks = mem.acks
  BY DEF NetworkReturns
<1>6. op = "loop" => i = Len(Network!Phases) /\ device.driver = "exit0"
  BY DEF NetworkReturns
<1>7. /\ i \in Nat /\ mem.acks \in Nat /\ device.app \in Nat /\ mem.android_pid \in Nat
      /\ i = 0 => mem.android_pid = 0
  BY <1>0, NetworkPhases DEF NetworkFields, NetworkPlaced, NetworkProcess
<1>8. Astray' <=> Astray
  BY <1>2, <1>3, <1>4, <1>7 DEF Astray
<1> HIDE DEF n, m, i, op
<1>9. NetworkProcess'
  <2>1. mem'.android_pid <= device'.app
    BY <1>0, <1>2, <1>3, <1>4, <1>7 DEF NetworkProcess
  <2>2. IF i = 0 /\ m >= 3 THEN device'.queue = <<>> /\ device'.driver = "none"
        ELSE device'.app # 0
    BY <1>0, <1>1, <1>2, <1>3, <1>4 DEF NetworkProcess, n, i
  <2>3. IF i = 0 THEN seen'.pids = {} /\ mem'.android_pid = 0
        ELSE seen'.pids = {mem'.android_pid} /\ mem'.android_pid # 0
    BY <1>0, <1>3 DEF NetworkProcess, i
  <2>4. mem'.acks <= i /\ (i # 0 /\ m >= 3 => mem'.acks < i)
    BY <1>0, <1>1, <1>2, <1>5, <1>7 DEF NetworkProcess, n, i
  <2>5. i # 0 /\ ~Astray' => i < device'.at
    BY <1>0, <1>3, <1>8 DEF NetworkProcess, i
  <2>6. m <= 1 => i = Len(Network!Phases) /\ device'.driver # "running"
    BY <1>0, <1>1, <1>2, <1>4, <1>6 DEF NetworkProcess, n, i
  <2>7. QED
    BY <1>3, <2>1, <2>2, <2>3, <2>4, <2>5, <2>6 DEF NetworkProcess, m, i
<1>10. /\ op = "release-cap" => device'.fixture = "released"
       /\ op # "release-cap" => device'.fixture = device.fixture /\ mem'.released = mem.released
       /\ mem.proved => mem'.proved
       /\ op = "prove-bytes" => mem'.proved
  BY DEF NetworkReturns, op
<1>11. NetworkQueued'
  <2>1. CASE op = "start-processes"
    <3>0. i = 0 /\ n = 3
      BY <1>2, <2>1
    <3>1. mem.phase_index = 0 /\ Len(todo) >= 3
      <4>1. n >= 3
        BY <3>0
      <4>2. QED
        BY <3>0, <4>1 DEF n, i
    <3>2. device.queue = <<>>
      BY <1>0, <3>1 DEF NetworkProcess
    <3>3. device'.queue = <<>>
      BY <1>3, <3>2
    <3>4. /\ device'.queue \in Seq([phase : NetworkNames, pid : Nat, passed : BOOLEAN])
          /\ Len(device'.queue) = 0
      BY <3>3
    <3>5. 1..Len(device'.queue) = {}
      BY <3>4
    <3>6. QED
      BY <3>4, <3>5 DEF NetworkQueued
  <2>2. CASE op # "start-processes"
    BY <1>0, <1>3, <1>4, <1>8, <1>10, <2>2 DEF NetworkQueued
  <2>3. QED
    BY <2>1, <2>2
<1>12. ~Astray' /\ seen'.online => NetworkCaught'
  <2>1. SUFFICES ASSUME ~Astray', seen'.online
                 PROVE  NetworkCaught'
    OBVIOUS
  <2>2. NetworkCaught
    BY <1>3, <1>8, <2>1 DEF NetworkSound
  <2>3. /\ op = "disable" => i = 3 /\ n >= 3
        /\ op \in {"restore-wifi-first", "restore"} => i = LastOffline /\ n < 9 /\ n >= 3
        /\ Decoder /\ i = 4 /\ n = 5 => op = "require-off"
        /\ i = LastOffline /\ n = (IF Decoder THEN 11 ELSE 9) => op = "require-off"
        /\ i = 4 /\ Decoder => n <= 5
    BY <1>0, NetworkNow DEF n, i, op
  <2>4. op # "require-off"
    BY <2>2 DEF NetworkReturns, NetworkCaught, op
  <2>5. LastOffline \in {4, 5} /\ (Decoder => LastOffline = 5) /\ (~Decoder => LastOffline = 4)
    BY DEF LastOffline
  <2> DEFINE t == IF Decoder THEN 11 ELSE 9
  <2>0. /\ t \in {9, 11}
        /\ NetworkCaught =>
             \/ i \in 3..LastOffline - 1 /\ n <= 2
             \/ i = 4 /\ Decoder /\ n >= 5
             \/ i = LastOffline /\ n >= t
    BY DEF NetworkCaught, n, i
  <2> HIDE DEF t
  <2>6. \/ i \in 3..LastOffline - 1 /\ n <= 2
        \/ i = LastOffline /\ n > t
    <3>1. ~(i = LastOffline /\ n = t)
      BY <2>3, <2>4 DEF t
    <3>2. ~(i = 4 /\ Decoder /\ n >= 5)
      BY <1>2, <2>3, <2>4
    <3>3. QED
      BY <1>2, <2>0, <2>2, <3>1, <3>2
  <2>7. op \notin NetworkSwitch
    <3>1. CASE i = LastOffline /\ n > t
      BY <1>2, <2>0, <2>3, <2>5, <3>1 DEF NetworkSwitch
    <3>2. CASE n <= 2
      BY <1>2, <2>3, <3>2 DEF NetworkSwitch
    <3>3. QED
      BY <2>6, <3>1, <3>2
  <2>8. Network!Radios(device') = Network!Radios(device)
    BY <2>7 DEF NetworkReturns, Network!Radios, op
  <2>9. \/ i \in 3..LastOffline - 1 /\ m <= 2
        \/ i = LastOffline /\ m >= t
    BY <1>1, <1>2, <2>0, <2>6
  <2>10. Network!Radios(device') # Network!Off
    BY <2>2, <2>8 DEF NetworkCaught
  <2>11. QED
    BY <1>3, <2>9, <2>10 DEF NetworkCaught, m, i, t, Network!Off
<1>13. Decoder' => NetworkBytes'
  <2>1. SUFFICES ASSUME Decoder
                 PROVE  NetworkBytes'
    BY <1>3
  <2>2. /\ op = "prove-bytes" <=> i = 4 /\ n = 4
        /\ op = "prove-again" <=> i = 5 /\ n = 10
        /\ op = "release-cap" <=> i = 5 /\ n = 9
    BY <1>0, <2>1, NetworkNow DEF n, i, op
  <2>3. NetworkBytes
    BY <2>1 DEF NetworkSound
  <2>4. /\ device'.fixture \in {"below", "reached", "logged", "released", "beyond"}
        /\ device'.early => device'.fixture # "below"
    BY <1>3, <1>10, <2>3 DEF NetworkBytes
  <2>5. i >= 4 /\ ~(i = 4 /\ m >= 4) => mem'.proved
    BY <1>1, <1>2, <1>7, <1>10, <2>2, <2>3 DEF NetworkBytes, n, i
  <2>6. ~Astray' /\ i = 5 /\ m >= 10 => (device'.early => device'.fixture # "reached")
    BY <1>1, <1>2, <1>3, <1>8, <1>10, <2>2, <2>3 DEF NetworkBytes, n, i
  <2>7. ~Astray' /\ i = 5 /\ m = 9 => ~device'.early
    <3>1. SUFFICES ASSUME ~Astray', i = 5, m = 9
                   PROVE  ~device'.early
      OBVIOUS
    <3>2. n = 10
      BY <1>1, <1>2, <3>1
    <3>3. ~Network!EarlyRow
      BY <2>2, <3>1, <3>2 DEF NetworkReturns, op
    <3>4. device.early => device.fixture # "reached"
      BY <1>8, <2>3, <3>1, <3>2 DEF NetworkBytes, n, i
    <3>5. QED
      BY <1>3, <2>3, <3>3, <3>4 DEF NetworkBytes, Network!EarlyRow
  <2>8. ~Astray' /\ mem'.released => ~device'.early /\ device'.fixture \in {"released", "beyond"}
    BY <1>3, <1>8, <1>10, <2>2, <2>3 DEF NetworkBytes, n, i
  <2>9. m = 0 => mem'.released
    <3>1. m = 0 => op = "validate"
      BY <1>1, <1>2
    <3>2. op = "validate" => mem.released
      BY <2>1 DEF NetworkReturns, op
    <3>3. QED
      BY <1>10, <3>1, <3>2
  <2>10. QED
    BY <1>3, <2>4, <2>5, <2>6, <2>7, <2>8, <2>9 DEF NetworkBytes, m, i
<1>14. QED
  BY <1>1, <1>3, <1>9, <1>11, <1>12, <1>13 DEF NetworkSound

(* No phase comes twice.                                                   *)
LEMMA NetworkPhasesDiffer ==
  /\ Len(Network!Phases) = IF Decoder THEN 8 ELSE 7
  /\ \A j, k \in 1..Len(Network!Phases) : Network!Phases[j] = Network!Phases[k] => j = k
  /\ \A j \in 1..Len(Network!Phases) :
       /\ Network!Phases[j] \in NetworkNames
       /\ Network!Phases[j] \in Network!Offline => (j = 4 /\ Decoder) \/ j = LastOffline
       /\ Network!Phases[j] = "offline-confirmed" => j = LastOffline
  /\ Network!Phases[Len(Network!Phases)] = "teardown-complete"
<1> DEFINE p == Network!Phases
<1>1. CASE ~Decoder
  <2>1. \A j \in 1..7 : j = 1 \/ j = 2 \/ j = 3 \/ j = 4 \/ j = 5 \/ j = 6 \/ j = 7
    OBVIOUS
  <2>2. /\ Len(p) = 7 /\ p[1] = "app-ready" /\ p[2] = "players-ready"
        /\ p[3] = "initial-ready" /\ p[4] = "offline-confirmed"
        /\ p[5] = "reconnected-confirmed" /\ p[6] = "recovery-confirmed"
        /\ p[7] = "teardown-complete"
    BY <1>1, NetworkPhaseNumbers
  <2> HIDE DEF p
  <2>3. ASSUME NEW j \in 1..Len(p), NEW k \in 1..Len(p), p[j] = p[k]
        PROVE  j = k
    BY <2>1, <2>2, <2>3
  <2>4. ASSUME NEW j \in 1..Len(p)
        PROVE  /\ p[j] \in NetworkNames
               /\ p[j] \in {"offline-unreachable", "offline-confirmed"} => j = 4
    BY <2>1, <2>2 DEF NetworkNames
  <2>5. QED
    BY <1>1, <2>2, <2>3, <2>4 DEF p, LastOffline, Network!Offline
<1>2. CASE Decoder
  <2>1. \A j \in 1..8 : j = 1 \/ j = 2 \/ j = 3 \/ j = 4 \/ j = 5 \/ j = 6 \/ j = 7 \/ j = 8
    OBVIOUS
  <2>2. /\ Len(p) = 8 /\ p[1] = "app-ready" /\ p[2] = "players-ready"
        /\ p[3] = "initial-ready" /\ p[4] = "offline-unreachable"
        /\ p[5] = "offline-confirmed"
        /\ p[6] = "reconnected-confirmed" /\ p[7] = "recovery-confirmed"
        /\ p[8] = "teardown-complete"
    BY <1>2, NetworkPhaseNumbers
  <2> HIDE DEF p
  <2>3. ASSUME NEW j \in 1..Len(p), NEW k \in 1..Len(p), p[j] = p[k]
        PROVE  j = k
    BY <2>1, <2>2, <2>3
  <2>4. ASSUME NEW j \in 1..Len(p)
        PROVE  /\ p[j] \in NetworkNames
               /\ p[j] \in {"offline-unreachable", "offline-confirmed"} => j = 4 \/ j = 5
               /\ p[j] = "offline-confirmed" => j = 5
    BY <2>1, <2>2 DEF NetworkNames
  <2>5. QED
    BY <1>2, <2>2, <2>3, <2>4 DEF p, LastOffline, Network!Offline
<1>3. QED
  BY <1>1, <1>2

(* What the sound states depend on.                                        *)
LEMMA NetworkAsksKeep ==
  ASSUME NetworkSound, todo # <<>>, NetworkStill, NetworkReturns("capture"),
         Head(todo) \in {"capture", "confirm-anr"},
         NEW op \in {"confirm-anr", "tap-anr"}, todo' = <<op>> \o Tail(todo)
  PROVE  NetworkSound'
<1>0. NetworkFields /\ NetworkPlaced /\ NetworkProcess /\ NetworkQueued
  BY DEF NetworkSound
<1>1. NetworkPlaced' /\ Len(todo') = Len(todo)
  BY <1>0, NetworkAsks DEF NetworkStill
<1>2. /\ Network!Phases' = Network!Phases /\ Decoder' = Decoder /\ LastOffline' = LastOffline
      /\ mem'.phase_index = mem.phase_index /\ mem'.android_pid = mem.android_pid
      /\ device'.at = device.at /\ device'.queue = device.queue /\ device'.early = device.early
      /\ seen'.pids = seen.pids /\ seen'.online = seen.online /\ NetworkFields'
  BY NetworkWholeStays DEF NetworkStill
<1>3. /\ device'.wifi = device.wifi /\ device'.data = device.data
      /\ device'.app = device.app /\ device'.driver = device.driver
      /\ device'.fixture = device.fixture /\ mem'.released = mem.released
      /\ mem'.acks = mem.acks /\ mem'.proved = mem.proved
  BY DEF NetworkReturns, NetworkSwitch
<1>4. Astray' <=> Astray
  BY <1>2, <1>3 DEF Astray
<1>5. NetworkProcess' /\ NetworkQueued'
  <2>1. NetworkProcess'
    BY <1>0, <1>1, <1>2, <1>3, <1>4 DEF NetworkProcess
  <2>2. NetworkQueued'
    BY <1>0, <1>2, <1>3, <1>4 DEF NetworkQueued
  <2>3. QED
    BY <2>1, <2>2
<1>6. NetworkCaught => NetworkCaught'
  BY <1>1, <1>2, <1>3 DEF NetworkCaught, Network!Radios, Network!Off
<1>7. NetworkBytes => NetworkBytes'
  BY <1>1, <1>2, <1>3, <1>4 DEF NetworkBytes
<1>8. QED
  BY <1>1, <1>2, <1>4, <1>5, <1>6, <1>7 DEF NetworkSound

(* The loop takes a checkpoint of the process it knows.                    *)
LEMMA NetworkTakesKeep ==
  ASSUME NetworkSound, todo # <<>>, NetworkTakes,
         todo' = Network!Handler(Network!Phases[mem.phase_index + 1]) \o todo
  PROVE  NetworkSound'
<1> DEFINE i == mem.phase_index
           n == Len(todo)
           m == Len(todo')
           pid == mem.android_pid
           app == device.app
<1>0. NetworkFields /\ NetworkPlaced /\ NetworkProcess /\ NetworkQueued
  BY DEF NetworkSound
<1>1. /\ NetworkPlaced' /\ m = Len(NetworkWhole') /\ n = 2
  BY <1>0, NetworkEnters, NetworkNow DEF NetworkTakes
<1>2. /\ i \in Nat /\ app \in Nat /\ pid \in Nat /\ mem.acks \in Nat /\ device.at \in Nat
      /\ i + 1 \in 1..Len(Network!Phases) /\ Len(Network!Phases) \in Nat
  <2>1. Len(Network!Phases) \in Nat /\ i \in 0..Len(Network!Phases) /\ i < Len(Network!Phases)
    BY <1>0, NetworkPhases DEF NetworkPlaced, NetworkTakes
  <2>2. QED
    BY <1>0, <2>1 DEF NetworkFields
<1>3. /\ NetworkFields' /\ mem'.phase_index = i + 1 /\ mem'.android_pid = app
      /\ mem'.variant = mem.variant /\ mem'.acks = mem.acks
      /\ mem'.proved = mem.proved /\ mem'.released = mem.released
      /\ device'.queue = Tail(device.queue)
      /\ device'.wifi = device.wifi /\ device'.data = device.data /\ device'.app = app
      /\ device'.at = device.at /\ device'.driver = device.driver
      /\ device'.fixture = device.fixture /\ device'.early = device.early
      /\ seen'.pids = seen.pids \cup {app} /\ seen'.online = seen.online
      /\ pid \in {0, app} /\ device.queue # <<>>
      /\ Head(device.queue).phase = Network!Phases[i + 1] /\ Head(device.queue).pid = app
  BY DEF NetworkTakes
<1>4. Network!Phases' = Network!Phases /\ Decoder' = Decoder /\ LastOffline' = LastOffline
  BY <1>3 DEF Network!Phases, Network!PHASES, Decoder, LastOffline
<1>5. ~Astray /\ ~Astray'
  BY <1>2, <1>3 DEF Astray
<1>6. /\ m \in Nat /\ m >= 2
      /\ i = 3 /\ Decoder => m = 5
      /\ i + 1 = LastOffline /\ Decoder => m = 12
      /\ i + 1 = LastOffline /\ ~Decoder => m = 10
  <2> HIDE DEF i, m
  <2>1. mem'.phase_index \in 0..Len(Network!Phases')
    BY <1>2, <1>3, <1>4
  <2>2. /\ NetworkWhole' \in Seq(NetworkOps) /\ Len(NetworkWhole') >= 2
        /\ i + 1 = 4 /\ Decoder => Len(NetworkWhole') = 5
        /\ i + 1 = LastOffline => Len(NetworkWhole') = IF Decoder THEN 12 ELSE 10
    BY <1>3, <1>4, <2>1, NetworkWholeStaysKnown DEF NetworkWholeKnown, NetworkOps, NetworkTry
  <2>3. Len(NetworkWhole') \in Nat
    BY <2>2
  <2>4. QED
    BY <1>1, <2>2, <2>3
<1>7. /\ device.queue \in Seq([phase : NetworkNames, pid : Nat, passed : BOOLEAN])
      /\ 1 \in 1..Len(device.queue)
      /\ device.queue[1].phase = Network!Phases[i + 1] /\ device.queue[1].pid = app
  BY <1>0, <1>3 DEF NetworkQueued
<1>8. i + 1 < device.at
  <2>1. PICK j \in 1..Len(Network!Phases) :
          j < device.at /\ device.queue[1].phase = Network!Phases[j]
    BY <1>0, <1>7 DEF NetworkQueued
  <2>2. j = i + 1
    BY <1>2, <1>7, <2>1, NetworkPhasesDiffer
  <2>3. QED
    BY <2>1, <2>2
<1> HIDE DEF i, n, m, pid, app
<1>9. NetworkProcess'
  <2>1. app # 0
    BY <1>0, <1>1 DEF NetworkProcess, i, n, app
  <2>2. seen'.pids = {app}
    BY <1>0, <1>3 DEF NetworkProcess, i, pid
  <2>3. mem.acks <= i
    BY <1>0 DEF NetworkProcess, i
  <2>4. i + 1 # 0 /\ mem.acks < i + 1 /\ ~(m <= 1) /\ app <= app /\ mem.acks <= i + 1
    BY <1>2, <1>6, <2>3
  <2>5. QED
    BY <1>3, <1>8, <2>1, <2>2, <2>4 DEF NetworkProcess, m
<1>10. NetworkQueued'
  <2> DEFINE q == device.queue
             S == [phase : NetworkNames, pid : Nat, passed : BOOLEAN]
             t == Tail(q)
  <2>1. q \in Seq(S) /\ q # <<>>
    BY <1>3, <1>7
  <2> HIDE DEF S, q
  <2>2. /\ t \in Seq(S) /\ Len(t) = Len(q) - 1 /\ \A k \in 1..Len(t) : t[k] = q[k + 1]
    BY <2>1, HeadTailProperties
  <2> HIDE DEF t
  <2>3. device'.queue = t
    BY <1>3 DEF t, q
  <2>4. ASSUME NEW k \in 1..Len(t)
        PROVE  /\ t[k].pid <= app
               /\ t[k].pid = app =>
                    \E j \in 1..Len(Network!Phases) :
                       j < device.at /\ t[k].phase = Network!Phases[j]
               /\ t[k].pid = app /\ Decoder /\ t[k].phase = "offline-confirmed"
                  => mem.proved /\ (device.early => device.fixture # "reached")
    <3>1. k + 1 \in 1..Len(q) /\ t[k] = q[k + 1]
      <4>1. Len(q) \in Nat
        BY <2>1
      <4>2. QED
        BY <2>2, <4>1
    <3>2. k + 1 \in 1..Len(device.queue) /\ t[k] = device.queue[k + 1]
      BY <3>1 DEF q
    <3> DEFINE l == k + 1
    <3>3. l \in 1..Len(device.queue) /\ t[k] = device.queue[l]
      BY <3>2
    <3> HIDE DEF l
    <3>4. QED
      BY <1>0, <1>5, <3>3 DEF NetworkQueued, app
  <2>5. device'.queue \in Seq([phase : NetworkNames, pid : Nat, passed : BOOLEAN])
    BY <2>2, <2>3 DEF S
  <2>6. QED
    BY <1>3, <1>4, <1>5, <2>3, <2>4, <2>5 DEF NetworkQueued
<1>11. seen'.online => NetworkCaught'
  <2>1. SUFFICES ASSUME seen'.online
                 PROVE  NetworkCaught'
    OBVIOUS
  <2>2. NetworkCaught
    BY <1>3, <1>5, <2>1 DEF NetworkSound
  <2>3. (Decoder => LastOffline = 5) /\ (~Decoder => LastOffline = 4)
    BY DEF LastOffline
  <2> DEFINE t == IF Decoder THEN 11 ELSE 9
  <2>4. t \in {9, 11}
    OBVIOUS
  <2> HIDE DEF t
  <2>5. i \in 3..LastOffline - 1
    BY <1>1, <2>2, <2>4 DEF NetworkCaught, i, n, t
  <2>6. \/ i + 1 = 4 /\ Decoder /\ m >= 5
        \/ i + 1 = LastOffline /\ m >= t
    <3>1. CASE Decoder
      <4>1. i = 3 \/ i = 4
        BY <2>3, <2>5, <3>1
      <4>2. t = 11
        BY <3>1 DEF t
      <4>3. QED
        BY <1>6, <2>3, <3>1, <4>1, <4>2
    <3>2. CASE ~Decoder
      <4>1. i = 3
        BY <2>3, <2>5, <3>2
      <4>2. t = 9
        BY <3>2 DEF t
      <4>3. QED
        BY <1>6, <2>3, <3>2, <4>1, <4>2
    <3>3. QED
      BY <3>1, <3>2
  <2>7. Network!Radios(device') # Network!Off
    BY <1>3, <2>2 DEF NetworkCaught, Network!Radios, Network!Off
  <2>8. QED
    BY <1>3, <1>4, <2>6, <2>7 DEF NetworkCaught, m, t, Network!Off
<1>12. Decoder' => NetworkBytes'
  <2>1. SUFFICES ASSUME Decoder
                 PROVE  NetworkBytes'
    BY <1>4
  <2>2. NetworkBytes
    BY <2>1 DEF NetworkSound
  <2>3. LastOffline = 5
    BY <2>1 DEF LastOffline
  <2>4. i + 1 >= 4 /\ ~(i + 1 = 4 /\ m >= 4) => mem.proved
    <3>1. i >= 4 /\ ~(i = 4 /\ n >= 4) => mem.proved
      BY <2>2 DEF NetworkBytes, i, n
    <3>2. i = 3 => m = 5
      BY <1>6, <2>1
    <3>3. QED
      BY <1>1, <1>2, <3>1, <3>2
  <2>5. i + 1 = 5 => (device.early => device.fixture # "reached") /\ m # 9
    <3>1. SUFFICES ASSUME i + 1 = 5
                   PROVE  (device.early => device.fixture # "reached") /\ m # 9
      OBVIOUS
    <3>2. Network!Phases[5] = "offline-confirmed"
      BY <2>1, NetworkPhaseNumbers
    <3>3. device.queue[1].phase = "offline-confirmed"
      BY <1>7, <3>1, <3>2
    <3>4. device.early => device.fixture # "reached"
      BY <1>0, <1>5, <1>7, <2>1, <3>3 DEF NetworkQueued, app
    <3>5. m = 12
      BY <1>6, <2>1, <2>3, <3>1
    <3>6. QED
      BY <3>4, <3>5
  <2>6. /\ device.fixture \in {"below", "reached", "logged", "released", "beyond"}
        /\ device.early => device.fixture # "below"
        /\ mem.released => ~device.early /\ device.fixture \in {"released", "beyond"}
    BY <1>5, <2>2 DEF NetworkBytes
  <2>7. m # 0
    BY <1>6
  <2>8. QED
    BY <1>3, <2>4, <2>5, <2>6, <2>7 DEF NetworkBytes, m
<1>13. QED
  BY <1>1, <1>3, <1>5, <1>9, <1>10, <1>11, <1>12 DEF NetworkSound

(* A checkpoint that the app reports.                                      *)
LEMMA NetworkReports ==
  ASSUME NetworkSound, mem' = mem, todo' = todo, Network!AppCheckpoint
  PROVE  NetworkSound'
<1> DEFINE i == mem.phase_index
           n == Len(todo)
           at == device.at
           P == Network!Phases
<1>0. NetworkFields /\ NetworkPlaced /\ NetworkProcess /\ NetworkQueued
  BY DEF NetworkSound
<1>1. /\ device.app # 0 /\ device.driver = "running" /\ at <= Len(P) /\ mem.acks >= at - 1
      /\ P[at] = "offline-confirmed" => device.fixture # "reached"
      /\ \E c :
           /\ \/ /\ c = [phase |-> P[at], pid |-> device.app, passed |-> TRUE]
                 /\ device' = [device EXCEPT !.at = at + 1, !.queue = Append(@, c)]
                 /\ seen' = [seen EXCEPT !.online =
                               @ \/ (P[at] \in Network!Offline
                                     /\ Network!Radios(device) # Network!Off)]
              \/ /\ c = [phase |-> "teardown-complete", pid |-> device.app, passed |-> FALSE]
                 /\ device' = [device EXCEPT !.at = 9, !.queue = Append(@, c)]
                 /\ seen' = seen
  BY DEF Network!AppCheckpoint
<1>2. /\ i \in Nat /\ n \in Nat /\ at \in Nat /\ at >= 1 /\ mem.acks \in Nat /\ Len(P) \in Nat
      /\ Len(P) <= 8 /\ at \in 1..Len(P)
  <2>1. i \in Nat /\ n \in Nat /\ Len(P) \in {7, 8}
    BY <1>0, NetworkPhasesDiffer DEF NetworkPlaced
  <2>2. at \in Nat /\ at >= 1 /\ mem.acks \in Nat
    BY <1>0 DEF NetworkFields
  <2>3. Len(P) \in Nat /\ Len(P) <= 8 /\ at <= Len(P)
    <3> DEFINE l == Len(P)
    <3>1. at <= l
      BY <1>1, Zenon
    <3>2. l \in {7, 8}
      BY <2>1
    <3> HIDE DEF l
    <3>3. l \in Nat /\ l <= 8
      BY <3>2
    <3>4. QED
      BY <3>1, <3>3 DEF l
  <2> HIDE DEF P, at
  <2>4. QED
    BY <2>1, <2>2, <2>3
<1>3. /\ NetworkWhole' = NetworkWhole /\ P' = P /\ Decoder' = Decoder /\ LastOffline' = LastOffline
  BY NetworkWholeStays
<1>4. NetworkPlaced'
  <2>1. NetworkCall(Len(todo))' = NetworkCall(Len(todo))
    BY <1>3 DEF NetworkCall
  <2>2. QED
    BY <1>0, <1>3, <2>1 DEF NetworkPlaced, Undoing, Rest
<1>5. PICK c : /\ c.phase \in NetworkNames /\ c \in [phase : NetworkNames, pid : Nat, passed : BOOLEAN]
               /\ c.pid = device.app /\ device'.queue = Append(device.queue, c)
               /\ \/ /\ c.phase = P[at] /\ device'.at = at + 1
                     /\ seen'.online = (seen.online \/ (P[at] \in Network!Offline
                                          /\ Network!Radios(device) # Network!Off))
                  \/ c.phase = "teardown-complete" /\ device'.at = 9 /\ seen'.online = seen.online
  <2>1. P[at] \in NetworkNames
    BY <1>2, NetworkPhasesDiffer
  <2>2. "teardown-complete" \in NetworkNames
    BY DEF NetworkNames
  <2> HIDE DEF P, at
  <2> DEFINE S == [phase : NetworkNames, pid : Nat, passed : BOOLEAN]
             up == [phase |-> P[at], pid |-> device.app, passed |-> TRUE]
             down == [phase |-> "teardown-complete", pid |-> device.app, passed |-> FALSE]
             met == P[at] \in Network!Offline /\ Network!Radios(device) # Network!Off
  <2>3. /\ device.app \in Nat /\ {"at", "queue"} \subseteq DOMAIN device
        /\ "online" \in DOMAIN seen
    BY <1>0 DEF NetworkFields
  <2>4. /\ up \in S /\ up.phase = P[at] /\ up.pid = device.app
        /\ down \in S /\ down.phase = "teardown-complete" /\ down.pid = device.app
    BY <2>1, <2>2, <2>3
  <2>5. PICK c :
          \/ /\ c = up
             /\ device' = [device EXCEPT !.at = at + 1, !.queue = Append(@, c)]
             /\ seen' = [seen EXCEPT !.online = @ \/ met]
          \/ /\ c = down
             /\ device' = [device EXCEPT !.at = 9, !.queue = Append(@, c)]
             /\ seen' = seen
    BY <1>1
  <2> HIDE DEF S, up, down, met
  <2>6. CASE c = up
    <3>1. /\ device' = [device EXCEPT !.at = at + 1, !.queue = Append(@, c)]
          /\ seen' = [seen EXCEPT !.online = @ \/ met]
      <4>1. up # down
        BY DEF up, down
      <4>2. QED
        BY <2>5, <2>6, <4>1
    <3>2. device'.at = at + 1 /\ device'.queue = Append(device.queue, c)
      BY <2>3, <3>1
    <3>3. seen'.online = (seen.online \/ met)
      BY <2>3, <3>1
    <3>4. QED
      BY <2>1, <2>4, <2>6, <3>2, <3>3 DEF S, met
  <2>7. CASE c = down
    <3>1. /\ device' = [device EXCEPT !.at = 9, !.queue = Append(@, c)]
          /\ seen' = seen
      <4>1. up # down
        BY DEF up, down
      <4>2. QED
        BY <2>5, <2>7, <4>1
    <3>2. device'.at = 9 /\ device'.queue = Append(device.queue, c)
      BY <2>3, <3>1
    <3>3. QED
      BY <2>2, <2>4, <2>7, <3>1, <3>2 DEF S
  <2>8. QED
    BY <2>5, <2>6, <2>7
<1>6. /\ NetworkFields' /\ seen'.pids = seen.pids
      /\ device'.wifi = device.wifi /\ device'.data = device.data /\ device'.app = device.app
      /\ device'.driver = device.driver
      /\ device'.fixture = device.fixture /\ device'.early = device.early
  <2> HIDE DEF P
  <2>1. /\ {"wifi", "data", "app", "at", "queue", "driver", "fixture", "early"} \subseteq DOMAIN device'
        /\ {"pids", "online"} \subseteq DOMAIN seen'
        /\ seen'.pids = seen.pids
        /\ device'.wifi = device.wifi /\ device'.data = device.data /\ device'.app = device.app
        /\ device'.driver = device.driver
        /\ device'.fixture = device.fixture /\ device'.early = device.early
    BY <1>0, <1>1 DEF NetworkFields
  <2>2. device'.at \in Nat \ {0}
    BY <1>2, <1>5
  <2>3. QED
    BY <1>0, <2>1, <2>2 DEF NetworkFields
<1>7. Astray' <=> Astray
  BY <1>6 DEF Astray
<1>8. /\ n >= 2 /\ ~(i = 0 /\ n >= 3)
  BY <1>0, <1>1, <1>2 DEF NetworkProcess
<1> HIDE DEF i, n, at, P
<1>9. ~Astray /\ at > 1 => i = at - 1 /\ n <= 2
  <2>1. /\ mem.acks <= i
        /\ i # 0 /\ n >= 3 => mem.acks < i
        /\ i # 0 /\ ~Astray => i < at
    BY <1>0 DEF NetworkProcess, i, n, at
  <2>2. QED
    BY <1>1, <1>2, <2>1
<1>10. NetworkProcess'
  <2>1. i # 0 /\ ~Astray => i < device'.at
    <3>1. i # 0 /\ ~Astray => i < at
      BY <1>0 DEF NetworkProcess, i, at
    <3>2. QED
      BY <1>2, <1>5, <3>1
  <2>2. QED
    BY <1>0, <1>1, <1>3, <1>6, <1>7, <1>8, <2>1 DEF NetworkProcess, i, n, P
<1>11. NetworkQueued'
  <2> DEFINE q == device.queue
             S == [phase : NetworkNames, pid : Nat, passed : BOOLEAN]
             r == Append(q, c)
  <2>1. q \in Seq(S) /\ c \in S
    BY <1>0, <1>5 DEF NetworkQueued
  <2>2. device'.queue = r
    BY <1>5
  <2> HIDE DEF q, S
  <2>3. /\ r \in Seq(S) /\ Len(r) = Len(q) + 1 /\ r[Len(q) + 1] = c
        /\ \A k \in 1..Len(q) : r[k] = q[k]
    BY <2>1, AppendProperties
  <2> HIDE DEF r
  <2>4. ASSUME NEW k \in 1..Len(r)
        PROVE  \/ k \in 1..Len(q) /\ r[k] = q[k]
               \/ r[k] = c
    <3>1. Len(q) \in Nat
      BY <2>1
    <3>2. QED
      BY <2>3, <3>1
  <2>5. \E j \in 1..Len(P) : j < device'.at /\ c.phase = P[j]
    <3>1. CASE c.phase = P[at] /\ device'.at = at + 1
      BY <1>2, <3>1
    <3>2. CASE c.phase = "teardown-complete" /\ device'.at = 9
      <4>1. P[Len(P)] = "teardown-complete" /\ Len(P) < 9 /\ Len(P) \in 1..Len(P)
        BY <1>2, NetworkPhasesDiffer DEF P
      <4>2. QED
        BY <3>2, <4>1
    <3>3. QED
      BY <1>5, <3>1, <3>2
  <2>6. ~Astray /\ Decoder /\ c.phase = "offline-confirmed" =>
          mem.proved /\ (device.early => device.fixture # "reached")
    <3>1. SUFFICES ASSUME ~Astray, Decoder, c.phase = "offline-confirmed"
                   PROVE  mem.proved /\ (device.early => device.fixture # "reached")
      OBVIOUS
    <3>2. P[at] = "offline-confirmed"
      BY <1>5, <3>1
    <3>3. at = 5
      <4>1. LastOffline = 5
        BY <3>1 DEF LastOffline
      <4>2. QED
        BY <1>2, <3>2, <4>1, NetworkPhasesDiffer DEF P
    <3>4. i = 4 /\ ~(n >= 4)
      BY <1>2, <1>9, <3>1, <3>3
    <3>5. mem.proved
      <4>1. NetworkBytes
        BY <3>1 DEF NetworkSound
      <4>2. mem.phase_index >= 4 /\ ~(mem.phase_index = 4 /\ Len(todo) >= 4)
        BY <3>4 DEF i, n
      <4>3. QED
        BY <4>1, <4>2 DEF NetworkBytes
    <3>6. QED
      BY <1>1, <3>2, <3>5
  <2>7. ASSUME NEW k \in 1..Len(q)
        PROVE  /\ q[k].pid <= device.app
               /\ q[k].pid = device.app =>
                    \E j \in 1..Len(P) : j < device'.at /\ q[k].phase = P[j]
               /\ q[k].pid = device.app /\ ~Astray /\ Decoder /\ q[k].phase = "offline-confirmed"
                  => mem.proved /\ (device.early => device.fixture # "reached")
    <3>1. /\ q[k].pid <= device.app
          /\ q[k].pid = device.app =>
               \E j \in 1..Len(P) : j < at /\ q[k].phase = P[j]
          /\ q[k].pid = device.app /\ ~Astray /\ Decoder /\ q[k].phase = "offline-confirmed"
             => mem.proved /\ (device.early => device.fixture # "reached")
      BY <1>0 DEF NetworkQueued, q, at, P
    <3>2. \A j \in 1..Len(P) : j < at => j < device'.at
      BY <1>2, <1>5
    <3>3. QED
      BY <3>1, <3>2
  <2>8. device.app <= device.app
    BY <1>0 DEF NetworkFields
  <2>9. ASSUME NEW k \in 1..Len(r)
        PROVE  /\ r[k].pid <= device.app
               /\ r[k].pid = device.app =>
                    \E j \in 1..Len(P) : j < device'.at /\ r[k].phase = P[j]
               /\ r[k].pid = device.app /\ ~Astray /\ Decoder /\ r[k].phase = "offline-confirmed"
                  => mem.proved /\ (device.early => device.fixture # "reached")
    <3>1. CASE r[k] = c
      BY <1>5, <2>5, <2>6, <2>8, <3>1
    <3>2. CASE k \in 1..Len(q) /\ r[k] = q[k]
      BY <2>7, <3>2
    <3>3. QED
      BY <2>4, <3>1, <3>2
  <2>10. device'.queue \in Seq([phase : NetworkNames, pid : Nat, passed : BOOLEAN])
    BY <2>2, <2>3 DEF S
  <2>11. QED
    BY <1>3, <1>6, <1>7, <2>2, <2>9, <2>10 DEF NetworkQueued, P
<1>12. ~Astray' /\ seen'.online => NetworkCaught'
  <2>1. SUFFICES ASSUME ~Astray, seen'.online
                 PROVE  NetworkCaught'
    BY <1>7
  <2>2. NetworkCaught
    <3>1. CASE seen.online
      BY <2>1, <3>1 DEF NetworkSound
    <3>2. CASE P[at] \in Network!Offline /\ Network!Radios(device) # Network!Off
      <4>1. (at = 4 /\ Decoder) \/ at = LastOffline
        BY <1>2, <3>2, NetworkPhasesDiffer DEF P
      <4>2. (Decoder => LastOffline = 5) /\ (~Decoder => LastOffline = 4)
        BY DEF LastOffline
      <4>3. i \in 3..LastOffline - 1 /\ n <= 2
        BY <1>2, <1>9, <2>1, <4>1, <4>2
      <4>4. QED
        BY <3>2, <4>3 DEF NetworkCaught, i, n
    <3>3. QED
      BY <1>5, <2>1, <3>1, <3>2
  <2>3. QED
    BY <1>3, <1>6, <2>2 DEF NetworkCaught, Network!Radios, Network!Off
<1>13. NetworkBytes => NetworkBytes'
  BY <1>6, <1>7 DEF NetworkBytes
<1>14. QED
  BY <1>3, <1>4, <1>6, <1>10, <1>11, <1>12, <1>13 DEF NetworkSound

(* What else goes on around the runner.                                    *)
LEMMA NetworkHappens ==
  ASSUME NetworkSound, mem' = mem, todo' = todo,
         \/ Network!AppRestarts
         \/ Network!DriverExits
         \/ Network!SetupAnr
         \/ Network!RadioReturns
         \/ Network!FixtureServe
  PROVE  NetworkSound'
<1> DEFINE i == mem.phase_index
           n == Len(todo)
<1>0. NetworkFields /\ NetworkPlaced /\ NetworkProcess /\ NetworkQueued
  BY DEF NetworkSound
<1>1. /\ NetworkWhole' = NetworkWhole /\ Network!Phases' = Network!Phases
      /\ Decoder' = Decoder /\ LastOffline' = LastOffline
  BY NetworkWholeStays
<1>2. NetworkPlaced'
  <2>1. NetworkCall(Len(todo))' = NetworkCall(Len(todo))
    BY <1>1 DEF NetworkCall
  <2>2. QED
    BY <1>0, <1>1, <2>1 DEF NetworkPlaced, Undoing, Rest
<1>3. CASE Network!AppRestarts
  <2>1. /\ device.app = 1 /\ seen' = seen
        /\ device' = [device EXCEPT !.app = 2, !.at = 1]
    BY <1>3 DEF Network!AppRestarts
  <2>2. /\ NetworkFields' /\ device'.app = 2
        /\ device'.wifi = device.wifi /\ device'.data = device.data
        /\ device'.queue = device.queue /\ device'.driver = device.driver
        /\ device'.fixture = device.fixture /\ device'.early = device.early
    BY <1>0, <2>1 DEF NetworkFields
  <2>3. mem.android_pid \in Nat /\ mem.android_pid <= 1
    BY <1>0, <2>1 DEF NetworkFields, NetworkProcess
  <2>4. ~Astray' => mem.android_pid = 0 /\ i = 0 /\ ~Astray
    <3>1. ~Astray' => mem.android_pid = 0
      BY <2>2, <2>3 DEF Astray
    <3>2. mem.android_pid = 0 => i = 0 /\ ~Astray
      BY <1>0 DEF NetworkProcess, Astray
    <3>3. QED
      BY <3>1, <3>2
  <2>5. NetworkProcess'
    <3>1. mem.android_pid <= 2
      BY <2>3
    <3>2. i # 0 => Astray'
      BY <2>4
    <3> HIDE DEF i
    <3>3. QED
      BY <1>0, <1>1, <2>1, <2>2, <3>1, <3>2 DEF NetworkProcess, i
  <2>6. NetworkQueued'
    <3>1. ASSUME NEW k \in 1..Len(device.queue)
          PROVE  device.queue[k].pid <= 2 /\ device.queue[k].pid # 2
      <4>1. device.queue[k].pid \in Nat /\ device.queue[k].pid <= 1
        <5>1. device.queue[k] \in [phase : NetworkNames, pid : Nat, passed : BOOLEAN]
          BY <1>0, ElementOfSeq DEF NetworkQueued
        <5>2. QED
          BY <1>0, <2>1, <5>1 DEF NetworkQueued
      <4>2. QED
        BY <4>1
    <3>2. QED
      BY <1>0, <2>2, <3>1 DEF NetworkQueued
  <2>7. ~Astray' => ~seen'.online
    <3>1. NetworkCaught => i # 0
      <4>1. LastOffline \in {4, 5}
        BY DEF LastOffline
      <4>2. QED
        BY <4>1 DEF NetworkCaught
    <3>2. QED
      BY <2>1, <2>4, <3>1 DEF NetworkSound
  <2>8. Decoder => NetworkBytes'
    <3>1. SUFFICES ASSUME Decoder
                   PROVE  NetworkBytes'
      OBVIOUS
    <3>2. NetworkBytes
      BY <3>1 DEF NetworkSound
    <3>3. ~Astray' => i # 5 /\ ~Astray
      BY <2>4
    <3> HIDE DEF i
    <3>4. QED
      BY <2>2, <3>2, <3>3 DEF NetworkBytes, i
  <2>9. QED
    BY <1>1, <1>2, <2>2, <2>5, <2>6, <2>7, <2>8 DEF NetworkSound
<1>4. CASE Network!DriverExits
  <2>1. /\ device.driver = "running" /\ seen' = seen
        /\ \E code \in {"exit0", "exit1"} : device' = [device EXCEPT !.driver = code]
    BY <1>4 DEF Network!DriverExits
  <2>2. /\ NetworkFields' /\ device'.driver # "running"
        /\ device'.app = device.app /\ device'.at = device.at
        /\ device'.wifi = device.wifi /\ device'.data = device.data
        /\ device'.queue = device.queue
        /\ device'.fixture = device.fixture /\ device'.early = device.early
    BY <1>0, <2>1 DEF NetworkFields
  <2>3. Astray' <=> Astray
    BY <2>2 DEF Astray
  <2>4. NetworkProcess'
    BY <1>0, <1>1, <2>1, <2>2, <2>3 DEF NetworkProcess
  <2>5. NetworkQueued'
    BY <1>0, <1>1, <2>2, <2>3 DEF NetworkQueued
  <2>6. NetworkCaught => NetworkCaught'
    BY <1>1, <2>2 DEF NetworkCaught, Network!Radios, Network!Off
  <2>7. NetworkBytes => NetworkBytes'
    BY <2>2, <2>3 DEF NetworkBytes
  <2>8. QED
    BY <1>1, <1>2, <2>1, <2>2, <2>3, <2>4, <2>5, <2>6, <2>7 DEF NetworkSound
<1>5. CASE Network!SetupAnr
  <2>1. device' = [device EXCEPT !.window = "setup-anr"] /\ seen' = seen
    BY <1>5 DEF Network!SetupAnr
  <2>2. /\ NetworkFields' /\ device'.driver = device.driver
        /\ device'.app = device.app /\ device'.at = device.at
        /\ device'.wifi = device.wifi /\ device'.data = device.data
        /\ device'.queue = device.queue
        /\ device'.fixture = device.fixture /\ device'.early = device.early
    BY <1>0, <2>1 DEF NetworkFields
  <2>3. Astray' <=> Astray
    BY <2>2 DEF Astray
  <2>4. NetworkProcess'
    BY <1>0, <1>1, <2>1, <2>2, <2>3 DEF NetworkProcess
  <2>5. NetworkQueued'
    BY <1>0, <1>1, <2>2, <2>3 DEF NetworkQueued
  <2>6. NetworkCaught => NetworkCaught'
    BY <1>1, <2>2 DEF NetworkCaught, Network!Radios, Network!Off
  <2>7. NetworkBytes => NetworkBytes'
    BY <2>2, <2>3 DEF NetworkBytes
  <2>8. QED
    BY <1>1, <1>2, <2>1, <2>2, <2>3, <2>4, <2>5, <2>6, <2>7 DEF NetworkSound
<1>6. CASE Network!RadioReturns
  <2>1. /\ Network!Radios(device) = Network!Off
        /\ device' = [device EXCEPT !.wifi = TRUE] /\ seen' = seen
    BY <1>6 DEF Network!RadioReturns
  <2>2. /\ NetworkFields' /\ device'.driver = device.driver
        /\ device'.app = device.app /\ device'.at = device.at
        /\ device'.queue = device.queue
        /\ device'.fixture = device.fixture /\ device'.early = device.early
    BY <1>0, <2>1 DEF NetworkFields
  <2>3. Astray' <=> Astray
    BY <2>2 DEF Astray
  <2>4. NetworkProcess'
    BY <1>0, <1>1, <2>1, <2>2, <2>3 DEF NetworkProcess
  <2>5. NetworkQueued'
    BY <1>0, <1>1, <2>2, <2>3 DEF NetworkQueued
  <2>6. ~NetworkCaught
    BY <2>1 DEF NetworkCaught
  <2>7. NetworkBytes => NetworkBytes'
    BY <2>2, <2>3 DEF NetworkBytes
  <2>8. QED
    BY <1>1, <1>2, <2>1, <2>2, <2>3, <2>4, <2>5, <2>6, <2>7 DEF NetworkSound
<1>7. CASE Network!FixtureServe
  <2>1. /\ seen' = seen /\ Decoder
        /\ \/ /\ device.fixture = "below"
              /\ device' = [device EXCEPT !.fixture = "reached", !.early = ~mem.proved]
           \/ device.fixture = "reached" /\ device' = [device EXCEPT !.fixture = "logged"]
           \/ device.fixture = "released" /\ device' = [device EXCEPT !.fixture = "beyond"]
    BY <1>7 DEF Network!FixtureServe, Decoder
  <2>2. /\ NetworkFields' /\ device'.driver = device.driver
        /\ device'.app = device.app /\ device'.at = device.at
        /\ device'.wifi = device.wifi /\ device'.data = device.data
        /\ device'.queue = device.queue
    BY <1>0, <2>1 DEF NetworkFields
  <2>3. \/ /\ device.fixture = "below" /\ device'.fixture = "reached"
           /\ device'.early = ~mem.proved
        \/ /\ device.fixture = "reached" /\ device'.fixture = "logged"
           /\ device'.early = device.early
        \/ /\ device.fixture = "released" /\ device'.fixture = "beyond"
           /\ device'.early = device.early
    BY <1>0, <2>1 DEF NetworkFields
  <2>4. Astray' <=> Astray
    BY <2>2 DEF Astray
  <2>5. NetworkProcess'
    BY <1>0, <1>1, <2>1, <2>2, <2>4 DEF NetworkProcess
  <2>6. mem.proved => (device'.early => device'.fixture # "reached")
    BY <2>3
  <2>7. NetworkQueued'
    BY <1>0, <1>1, <2>2, <2>4, <2>6 DEF NetworkQueued
  <2>8. NetworkCaught => NetworkCaught'
    BY <1>1, <2>2 DEF NetworkCaught, Network!Radios, Network!Off
  <2>9. NetworkBytes'
    <3>1. NetworkBytes
      BY <2>1 DEF NetworkSound
    <3>2. i = 5 => mem.proved
      BY <3>1 DEF NetworkBytes
    <3>3. i = 5 => (device'.early => device'.fixture # "reached") /\ (device'.early => device.early)
      BY <2>3, <3>2
    <3>4. /\ device'.fixture \in {"below", "reached", "logged", "released", "beyond"}
          /\ device'.early => device'.fixture # "below"
      BY <2>3, <3>1 DEF NetworkBytes
    <3>5. ~Astray /\ mem.released => ~device'.early /\ device'.fixture \in {"released", "beyond"}
      BY <2>3, <3>1 DEF NetworkBytes
    <3> HIDE DEF i
    <3>6. QED
      BY <2>4, <3>1, <3>3, <3>4, <3>5 DEF NetworkBytes, i
  <2>10. QED
    BY <1>1, <1>2, <2>1, <2>2, <2>4, <2>5, <2>7, <2>8, <2>9 DEF NetworkSound
<1>8. QED
  BY <1>3, <1>4, <1>5, <1>6, <1>7

LEMMA NetworkPassingRuns ==
  ASSUME NetworkPassing, mode = "run", Network!Next, errors' = FALSE
  PROVE  NetworkPassing'
<1>1. NetworkSound
  BY DEF NetworkPassing
<1>2. NetworkFields /\ NetworkPlaced /\ NetworkProcess
  BY <1>1 DEF NetworkSound
<1>3. SUFFICES \/ mode' = "run" /\ NetworkSound'
               \/ /\ mode' # "run" /\ NetworkFields' /\ mem'.phase_index = Len(Network!Phases')
                  /\ seen'.pids = {mem'.android_pid} /\ device'.driver # "running"
                  /\ \/ /\ ~seen'.online
                        /\ Decoder' => ~device'.early /\ device'.fixture \in {"released", "beyond"}
                     \/ Astray' /\ Len(todo') >= 3
  BY DEF NetworkPassing
<1>4. CASE /\ mode' = "cleanup" /\ todo = <<>> /\ todo' = Network!CLEANUP
           /\ UNCHANGED <<device, mem, seen>>
  <2>1. Len(todo) = 0 /\ Len(todo') >= 3
    <3>1. Len(Network!CLEANUP) = 9
      BY NetworkCleanup
    <3>2. QED
      BY <1>4, <3>1
  <2>2. mem.phase_index = Len(Network!Phases) /\ device.driver # "running"
    BY <1>2, <2>1 DEF NetworkProcess
  <2>3. mem.phase_index \in {7, 8}
    BY <2>2, NetworkPhasesDiffer
  <2>4. seen.pids = {mem.android_pid}
    BY <1>2, <2>3 DEF NetworkProcess
  <2>5. ~NetworkCaught
    <3>1. LastOffline \in {4, 5}
      BY DEF LastOffline
    <3>2. QED
      BY <2>3, <3>1 DEF NetworkCaught
  <2>6. ~Astray => ~seen.online
    BY <1>1, <2>5 DEF NetworkSound
  <2>7. ~Astray /\ Decoder => ~device.early /\ device.fixture \in {"released", "beyond"}
    <3>1. Decoder => NetworkBytes
      BY <1>1 DEF NetworkSound
    <3>2. QED
      BY <2>1, <3>1 DEF NetworkBytes
  <2>8. /\ Network!Phases' = Network!Phases /\ Decoder' = Decoder
    BY <1>4, NetworkWholeStays
  <2>9. NetworkFields' /\ Astray' = Astray
    BY <1>2, <1>4 DEF NetworkFields, Astray
  <2>10. QED
    BY <1>4, <2>1, <2>2, <2>4, <2>6, <2>7, <2>8, <2>9
<1>5. CASE /\ mode' = "run" /\ todo # <<>> /\ NetworkStill /\ NetworkReturns(Head(todo))
           /\ todo' = Tail(todo) \/ todo' = <<>> \o Tail(todo)
  BY <1>1, <1>5, NetworkReturnsKeep
<1>6. CASE /\ mode' = "run" /\ todo # <<>> /\ NetworkStill /\ NetworkReturns("capture")
           /\ Head(todo) \in {"capture", "confirm-anr"}
           /\ \E op \in {"confirm-anr", "tap-anr"} : todo' = <<op>> \o Tail(todo)
  <2>1. PICK op \in {"confirm-anr", "tap-anr"} : todo' = <<op>> \o Tail(todo)
    BY <1>6
  <2>2. NetworkSound'
    BY <1>1, <1>6, <2>1, NetworkAsksKeep
  <2>3. QED
    BY <1>6, <2>2
<1>7. CASE /\ mode' = "run" /\ todo # <<>> /\ NetworkTakes
           /\ todo' = Network!Handler(Network!Phases[mem.phase_index + 1]) \o todo
  BY <1>1, <1>7, NetworkTakesKeep
<1>8. CASE mode' = "run" /\ todo' = todo /\ mem' = mem /\ Network!Environment
  <2>1. CASE Network!AppCheckpoint
    BY <1>1, <1>8, <2>1, NetworkReports
  <2>2. CASE \/ Network!AppRestarts
             \/ Network!DriverExits
             \/ Network!SetupAnr
             \/ Network!RadioReturns
             \/ Network!FixtureServe
    <3>1. NetworkSound'
      BY <1>1, <1>8, <2>2, NetworkHappens
    <3>2. QED
      BY <1>8, <3>1
  <2>3. ~Network!Signal
    BY DEF Network!Signal, Network!Raise
  <2>4. QED
    BY <1>8, <2>1, <2>2, <2>3 DEF Network!Environment
<1>9. QED
  BY <1>2, <1>4, <1>5, <1>6, <1>7, <1>8, NetworkEffects

(* What a step of the clean-up may change that the verdict depends on.     *)
LEMMA NetworkCleansSome ==
  ASSUME NetworkUndone, NetworkFields, device.driver # "running", mode # "run",
         Network!Next, errors' # TRUE
  PROVE  /\ NetworkFields' /\ mem'.variant = mem.variant /\ mem'.phase_index = mem.phase_index
         /\ mem'.android_pid = mem.android_pid /\ seen' = seen
         /\ device'.driver # "running"
         /\ \/ device'.early = device.early /\ device'.fixture = device.fixture
            \/ Network!FixtureServe
         /\ \/ /\ todo = <<>> /\ mode' = "done" /\ todo' = <<>>
               /\ device'.app = device.app
            \/ todo' = todo /\ device'.app = device.app
            \/ todo' = todo /\ device.app = 1 /\ device'.app = 2
            \/ /\ todo # <<>> /\ Head(todo) # "stop-app" /\ device'.app = device.app
               /\ todo' = Tail(todo) \/ todo' = <<>> \o Tail(todo)
            \/ ~Astray
<1> USE DEF NetworkFields
<1>1. CASE Network!Environment
  <2>1. ~Network!AppCheckpoint /\ ~Network!DriverExits /\ ~Network!Signal
    BY DEF Network!AppCheckpoint, Network!DriverExits, Network!Signal, Network!Raise
  <2>2. CASE Network!AppRestarts
    BY <2>2 DEF Network!AppRestarts, Network!control
  <2>3. CASE Network!SetupAnr
    BY <2>3 DEF Network!SetupAnr, Network!control
  <2>4. CASE Network!RadioReturns
    BY <2>4 DEF Network!RadioReturns, Network!control
  <2>5. CASE Network!FixtureServe
    <3>1. /\ UNCHANGED <<todo, mem, seen>>
          /\ \E fixture, early : \/ device' = [device EXCEPT !.fixture = fixture, !.early = early]
                                 \/ device' = [device EXCEPT !.fixture = fixture]
      BY <2>5 DEF Network!FixtureServe, Network!control
    <3>2. QED
      BY <2>5, <3>1
  <2>6. QED
    BY <1>1, <2>1, <2>2, <2>3, <2>4, <2>5 DEF Network!Environment
<1>2. CASE Network!Runner
  <2>1. mode = "cleanup"
    <3>1. mode # "done"
      BY <1>2 DEF Network!Next, Network!Runner, Network!CaptureInitial, Network!Prepare,
     Network!StartProcesses, Network!ObserveCheckpoint, Network!LoopEnds, Network!Validate,
     Network!Capture, Network!ConfirmAnr, Network!TapAnr, Network!FinalEvidence,
     Network!Disable, Network!RestoreWifiFirst, Network!Restore, Network!RequireOff,
     Network!StartRecording, Network!FinishRecording, Network!Ack, Network!ProveBytes,
     Network!ProveAgain, Network!ReleaseCap, Network!StopDriver, Network!StopLogcat,
     Network!RemoveObserver, Network!StopTestApp, Network!RemoveAcks, Network!RemoveEvidence,
     Network!Fails, Network!EnterFinally, Network!Report, Network!Now, Network!Running
    <3>2. QED
      BY <3>1 DEF NetworkUndone
  <2>2. todo # <<>> => Head(todo) \in {"restore", "final-evidence", "finish-recording", "stop-driver",
                                       "stop-logcat", "remove-observer", "stop-app", "remove-acks",
                                       "remove-evidence"}
    BY <2>1, NetworkPlaces DEF NetworkUndone
  <2>3. \/ Network!Restore \/ Network!FinalEvidence \/ Network!FinishRecording
        \/ Network!StopDriver \/ Network!StopLogcat \/ Network!RemoveObserver
        \/ Network!StopTestApp \/ Network!RemoveAcks \/ Network!RemoveEvidence
        \/ Network!Report /\ UNCHANGED <<device, mem, seen>>
    BY <1>2, <2>1, <2>2 DEF Network!Runner,
       Network!CaptureInitial, Network!Prepare, Network!StartProcesses,
       Network!ObserveCheckpoint, Network!LoopEnds, Network!Validate, Network!Capture,
       Network!ConfirmAnr, Network!TapAnr, Network!Disable, Network!RestoreWifiFirst,
       Network!RequireOff, Network!StartRecording, Network!Ack, Network!ProveBytes,
       Network!ProveAgain, Network!ReleaseCap, Network!Fails, Network!Raise,
       Network!Running, Network!Now, Network!EnterFinally
  <2>4. CASE Network!Restore
    <3>1. /\ todo # <<>> /\ Head(todo) = "restore" /\ seen' = seen
          /\ todo' = Tail(todo) \/ todo' = <<>> \o Tail(todo)
          /\ mem' = [mem EXCEPT !.unready = FALSE]
          /\ device' = device \/ \E wifi, data : device' = [device EXCEPT !.wifi = wifi, !.data = data]
      BY <2>4 DEF Network!Restore, Network!Apply, Network!Require, Network!ReturnOrFail,
         Network!Return, Network!Call, Network!Raise, Network!Proceed, Network!Running,
         Network!Now
    <3>2. QED
      BY <3>1
  <2>5. CASE Network!FinalEvidence
    BY <2>5 DEF Network!FinalEvidence, Network!Require, Network!ReturnOrFail, Network!Return,
       Network!Call, Network!Raise, Network!Proceed, Network!Running, Network!Now
  <2>6. CASE Network!FinishRecording
    <3>1. /\ todo # <<>> /\ Head(todo) = "finish-recording" /\ seen' = seen
          /\ todo' = <<>> \o Tail(todo)
          /\ \/ mem' = mem
             \/ \E verified : mem' = [mem EXCEPT !.recording = FALSE, !.verified = verified]
          /\ device' = device \/ \E owned : device' = [device EXCEPT !.owned = owned]
      BY <2>6 DEF Network!FinishRecording, Network!Drop, Network!Require, Network!ReturnOrFail,
         Network!Return, Network!Call, Network!Raise, Network!Proceed, Network!Running,
         Network!Now
    <3>2. QED
      BY <3>1
  <2>7. CASE Network!StopDriver
    <3>1. /\ todo # <<>> /\ Head(todo) = "stop-driver" /\ UNCHANGED <<mem, seen>>
          /\ todo' = <<>> \o Tail(todo)
          /\ \E owned : device' = [device EXCEPT !.owned = owned, !.driver = "none"]
      BY <2>7 DEF Network!StopDriver, Network!Require, Network!ReturnOrFail, Network!Return,
         Network!Call, Network!Raise, Network!Proceed, Network!Running, Network!Now
    <3>2. QED
      BY <3>1
  <2>8. CASE \/ Network!StopLogcat \/ Network!RemoveObserver \/ Network!RemoveAcks
             \/ Network!RemoveEvidence
    <3>1. /\ todo # <<>> /\ Head(todo) # "stop-app" /\ UNCHANGED <<mem, seen>>
          /\ todo' = Tail(todo) \/ todo' = <<>> \o Tail(todo)
          /\ device' = device \/ \E owned : device' = [device EXCEPT !.owned = owned]
      BY <2>8 DEF Network!StopLogcat, Network!RemoveObserver, Network!RemoveAcks,
         Network!RemoveEvidence, Network!Drop, Network!Require, Network!ReturnOrFail,
         Network!Return, Network!ReturnUnheeded, Network!Call, Network!Raise, Network!Proceed,
         Network!Running, Network!Now
    <3>2. QED
      BY <3>1
  <2>9. CASE Network!StopTestApp
    <3>1. /\ UNCHANGED <<mem, seen>>
          /\ mem.android_pid = 0 \/ device.app \in {0, mem.android_pid}
          /\ device' = [device EXCEPT !.app = IF @ = mem.android_pid THEN 0 ELSE @]
      BY <2>9 DEF Network!StopTestApp, Network!Require, Network!ReturnOrFail, Network!Return,
         Network!Call, Network!Raise, Network!Proceed, Network!Running, Network!Now
    <3>2. ~Astray
      BY <3>1 DEF Astray
    <3>3. QED
      BY <3>1, <3>2
  <2>10. CASE Network!Report /\ UNCHANGED <<device, mem, seen>>
    BY <2>10 DEF Network!Report
  <2>11. QED
    BY <2>3, <2>4, <2>5, <2>6, <2>7, <2>8, <2>9, <2>10
<1>3. QED
  BY <1>1, <1>2 DEF Network!Next

LEMMA NetworkPassingCleans ==
  ASSUME NetworkUndone, NetworkPassing, mode # "run", Network!Next
  PROVE  NetworkPassing'
<1>1. mode' # "run" /\ (errors' = errors \/ errors' = TRUE)
  BY DEF Network!Next, Network!Runner, Network!CaptureInitial, Network!Prepare,
     Network!StartProcesses, Network!ObserveCheckpoint, Network!LoopEnds, Network!Validate,
     Network!Capture, Network!ConfirmAnr, Network!TapAnr, Network!FinalEvidence, Network!Disable,
     Network!RestoreWifiFirst, Network!Restore, Network!RequireOff, Network!StartRecording,
     Network!FinishRecording, Network!Ack, Network!ProveBytes, Network!ProveAgain,
     Network!ReleaseCap, Network!StopDriver, Network!StopLogcat, Network!RemoveObserver,
     Network!StopTestApp, Network!RemoveAcks, Network!RemoveEvidence, Network!Fails,
     Network!EnterFinally, Network!Report, Network!Environment, Network!AppCheckpoint,
     Network!AppRestarts, Network!DriverExits, Network!SetupAnr, Network!RadioReturns,
     Network!FixtureServe, Network!Signal, Network!control, Network!Require, Network!ReturnOrFail,
     Network!Return, Network!ReturnUnheeded, Network!Call, Network!Raise, Network!Proceed,
     Network!Running, Network!Now
<1>2. CASE errors' \/ errors
  BY <1>1, <1>2 DEF NetworkPassing
<1>3. CASE ~errors' /\ ~errors
  <2> DEFINE Well == /\ ~seen.online
                     /\ Decoder => ~device.early /\ device.fixture \in {"released", "beyond"}
  <2>0. ~errors
    BY <1>3
  <2>1. /\ NetworkFields /\ mem.phase_index = Len(Network!Phases) /\ seen.pids = {mem.android_pid}
        /\ device.driver # "running"
        /\ \/ Well
           \/ Astray /\ Len(todo) >= 3
    BY <2>0, Zenon DEF NetworkPassing
  <2>2. /\ NetworkFields' /\ mem'.variant = mem.variant /\ mem'.phase_index = mem.phase_index
        /\ mem'.android_pid = mem.android_pid /\ seen' = seen
        /\ device'.driver # "running"
        /\ \/ device'.early = device.early /\ device'.fixture = device.fixture
           \/ Network!FixtureServe
        /\ \/ /\ todo = <<>> /\ mode' = "done" /\ todo' = <<>>
              /\ device'.app = device.app
           \/ todo' = todo /\ device'.app = device.app
           \/ todo' = todo /\ device.app = 1 /\ device'.app = 2
           \/ /\ todo # <<>> /\ Head(todo) # "stop-app" /\ device'.app = device.app
              /\ todo' = Tail(todo) \/ todo' = <<>> \o Tail(todo)
           \/ ~Astray
    BY <1>3, <2>1, NetworkCleansSome
  <2>3. Network!Phases' = Network!Phases /\ Decoder' = Decoder
    BY <2>2, NetworkWholeStays
  <2>4. ASSUME Well
        PROVE  Well'
    <3>1. CASE device'.early = device.early /\ device'.fixture = device.fixture
      BY <2>2, <2>3, <2>4, <3>1
    <3>2. CASE Network!FixtureServe
      <4>1. Decoder /\ device.fixture \in {"released", "beyond"} /\ ~device.early
        BY <2>4, <3>2 DEF Network!FixtureServe, Decoder
      <4>2. device' = [device EXCEPT !.fixture = "beyond"]
        BY <3>2, <4>1 DEF Network!FixtureServe
      <4>3. device'.early = device.early /\ device'.fixture = "beyond"
        BY <2>1, <4>2 DEF NetworkFields
      <4>4. QED
        BY <2>2, <2>4, <4>1, <4>3
    <3>3. QED
      BY <2>2, <3>1, <3>2
  <2>5. ASSUME Astray, Len(todo) >= 3
        PROVE  Astray' /\ Len(todo') >= 3
    <3>1. /\ device.app \in Nat /\ mem.android_pid \in Nat /\ device.app > mem.android_pid
          /\ mem.android_pid # 0
      BY <2>1, <2>5 DEF NetworkFields, Astray
    <3>2. device'.app = device.app
      BY <2>2, <2>5, <3>1
    <3>3. \/ todo' = todo
          \/ /\ todo # <<>> /\ Head(todo) # "stop-app"
             /\ todo' = Tail(todo) \/ todo' = <<>> \o Tail(todo)
      <4>1. Len(<<>>) = 0
        OBVIOUS
      <4>2. todo # <<>>
        BY <2>5, <4>1
      <4>3. QED
        BY <2>2, <2>5, <3>1, <4>2
    <3>4. Len(todo') >= 3
      <4>1. CASE todo' = todo
        BY <2>5, <4>1
      <4>2. CASE /\ todo # <<>> /\ Head(todo) # "stop-app"
                 /\ todo' = Tail(todo) \/ todo' = <<>> \o Tail(todo)
        <5>1. Undoing(Network!CLEANUP)
          BY DEF NetworkUndone
        <5>2. Len(todo) \in 1..9 /\ Len(todo) # 3
          <6>1. \/ Len(todo) = 9
                \/ Len(todo) = 8
                \/ Len(todo) = 7
                \/ Len(todo) = 6
                \/ Len(todo) = 5
                \/ Len(todo) = 4
                \/ Len(todo) = 2
                \/ Len(todo) = 1
            BY <4>2, <5>1, NetworkPlaces, Zenon
          <6>2. QED
            BY <6>1
        <5>3. Len(todo') = Len(todo) - 1
          BY <4>2, <5>1, NetworkCleanup, UndoingNext
        <5>4. QED
          BY <2>5, <5>2, <5>3
      <4>3. QED
        BY <3>3, <4>1, <4>2
    <3>5. QED
      BY <2>2, <3>1, <3>2, <3>4 DEF Astray
  <2>6. QED
    BY <1>1, <2>1, <2>2, <2>3, <2>4, <2>5 DEF NetworkPassing
<1>4. QED
  BY <1>2, <1>3

LEMMA NetworkPassingInit ==
  ASSUME Network!Init
  PROVE  NetworkPassing
<1>1. /\ todo = NetworkProgram /\ mode = "run" /\ errors = FALSE
      /\ mem.phase_index = 0 /\ mem.android_pid = 0 /\ mem.acks = 0 /\ ~mem.proved /\ ~mem.released
      /\ device.app \in {0, 3} /\ device.at = 1 /\ device.queue = <<>> /\ device.driver = "none"
      /\ device.fixture = "below" /\ ~device.early
      /\ seen.pids = {} /\ ~seen.online
  BY DEF Network!Init, Network!Start, NetworkProgram
<1>2. NetworkFields
  BY DEF Network!Init, NetworkFields
<1>3. Len(NetworkProgram) = 5 /\ NetworkProgram \in Seq(NetworkOps)
  BY DEF NetworkProgram, NetworkOps, NetworkTry
<1>4. NetworkPlaced
  <2>1. NetworkWhole = todo
    BY <1>1 DEF NetworkWhole
  <2>2. Undoing(NetworkWhole)
    <3>1. Len(todo) \in 0..Len(todo) /\ todo \in Seq(NetworkOps)
      BY <1>1, <1>3
    <3>2. Rest(todo, Len(todo)) = todo
      BY <3>1 DEF Rest
    <3>3. QED
      BY <2>1, <3>1, <3>2 DEF Undoing
  <2>3. 0 \in 0..Len(Network!Phases)
    BY NetworkPhasesDiffer
  <2>4. QED
    BY <1>1, <1>3, <2>2, <2>3 DEF NetworkPlaced
<1>5. NetworkProcess
  BY <1>1, <1>3 DEF NetworkProcess
<1>6. NetworkQueued
  <2>1. Len(device.queue) = 0
    BY <1>1
  <2>2. 1..Len(device.queue) = {}
    BY <2>1
  <2>3. device.queue \in Seq([phase : NetworkNames, pid : Nat, passed : BOOLEAN])
    BY <1>1
  <2>4. QED
    BY <2>2, <2>3 DEF NetworkQueued
<1>7. NetworkBytes
  BY <1>1, <1>3 DEF NetworkBytes
<1>8. QED
  BY <1>1, <1>2, <1>4, <1>5, <1>6, <1>7 DEF NetworkPassing, NetworkSound

-----------------------------------------------------------------------------
(* The verdict of the relaunch journey: the buttons that were really hit   *)
(* when the first d operations of the program have been done, and what is  *)
(* known of the customer and of the purchase.                              *)
BillingDomains ==
  /\ {"pids", "drive", "ended", "markers", "dialog", "next", "anr", "plus", "customer", "late",
      "result", "report", "owned"} \subseteq DOMAIN device
  /\ {"safe_emulator", "journey", "stage", "completed", "recoveries", "pid", "customer", "passed",
      "evidence"} \subseteq DOMAIN mem
  /\ {"tapped", "taps", "customers", "relaunched"} \subseteq DOMAIN seen
BillingFields == BillingDomains /\ device.markers \in Seq({"cancel", "failure", "success"})

(* A dialog is the next one of the store's, and each was hit once before   *)
(* it.                                                                     *)
BillingHits ==
  /\ \/ /\ device.next = 1 /\ seen.tapped = <<>>
        /\ device.plus = "none" /\ device.dialog \in {"none", "cancel"}
     \/ /\ device.next = 2 /\ seen.tapped = <<"cancel">>
        /\ device.plus = "none" /\ device.dialog \in {"none", "failure"}
     \/ /\ device.next = 3 /\ seen.tapped = <<"cancel", "failure">>
        /\ device.plus = "none" /\ device.dialog \in {"none", "success"}
     \/ /\ device.next = 4 /\ seen.tapped = <<"cancel", "failure", "success">>
        /\ device.plus \in {"active", "expired"} /\ device.dialog = "none"
  /\ device.result.restored = "expired" => device.plus = "expired"

(* The matrix is driven at 3, the relaunch at 11 and the probe at 19.      *)
BillingSoFar(d) ==
  /\ d < 3 => device.drive # "running"
  /\ d <= 3 /\ device.ended => device.next = 4
  /\ d >= 4 => device.next = 4
  /\ d = 3 => mem.journey = "matrix"
  /\ d = 11 => mem.journey = "relaunch"
  /\ d = 19 => mem.journey = "probe"
  /\ d < 4 => seen.customers = {}
  /\ d >= 4 /\ d # 12 => seen.customers = {mem.customer}
  /\ d = 12 => seen.customers = {mem.customer, mem.evidence.customer}
  /\ d >= 12 => seen.relaunched
  /\ d \in 20..22 => mem.evidence.pending \/ device.plus = "expired"
  /\ d >= 23 => device.plus = "expired"
  /\ mem.passed => d >= 24

(* What the operations of a dialog are put before.                         *)
BillingDriving == After(Billing!Program, 3)
BillingAnswering ==
  /\ \/ todo = BillingFinish(BillingDriving)
     \/ todo = BillingTap(BillingDriving)
     \/ todo = BillingLookAgain(BillingDriving)
     \/ todo = BillingLook(BillingDriving)
     \/ todo = BillingStart(BillingDriving)
     \/ todo = BillingRecover(BillingDriving)
  /\ mem.stage \in {"cancel", "failure", "success"}

BillingWorth ==
  /\ seen.tapped = <<"cancel", "failure", "success">> /\ seen.relaunched
  /\ \E customer : seen.customers = {customer}
  /\ device.plus = "expired"

BillingPassing ==
  /\ BillingDomains
  /\ mode = "run" =>
       /\ BillingFields /\ BillingHits
       /\ \/ \E d \in 0..25 : todo = After(Billing!Program, d) /\ BillingSoFar(d)
          \/ BillingAnswering /\ BillingSoFar(3)
  /\ mode # "run" =>
       /\ mem.passed => BillingWorth
       /\ todo = <<>> /\ mem.passed /\ "save-verdict" \notin failed => device.report = "passed"

(* The program, an operation at a time.                                    *)
LEMMA BillingOperations ==
  /\ Len(Billing!Program) = 25
  /\ Billing!Program[1] = "verify" /\ Billing!Program[2] = "save"
  /\ Billing!Program[3] = "matrix" /\ Billing!Program[4] = "drive"
  /\ Billing!Program[5] = "dialogs" /\ Billing!Program[6] = "the-pid"
  /\ Billing!Program[7] = "save" /\ Billing!Program[8] = "stop-app"
  /\ Billing!Program[9] = "gone" /\ Billing!Program[10] = "build"
  /\ Billing!Program[11] = "relaunch" /\ Billing!Program[12] = "drive"
  /\ Billing!Program[13] = "same-customer" /\ Billing!Program[14] = "new-pid"
  /\ Billing!Program[15] = "save" /\ Billing!Program[16] = "stop-app"
  /\ Billing!Program[17] = "build" /\ Billing!Program[18] = "save"
  /\ Billing!Program[19] = "probe" /\ Billing!Program[20] = "drive"
  /\ Billing!Program[21] = "the-pid" /\ Billing!Program[22] = "stop-app"
  /\ Billing!Program[23] = "probed" /\ Billing!Program[24] = "verdict"
  /\ Billing!Program[25] = "save"
<1> DEFINE T == BillingTry \cup {"verify"}
           a == <<"verify", "save", "matrix", "drive", "dialogs", "the-pid", "save", "stop-app", "gone", "build",
                  "relaunch", "drive", "same-customer", "new-pid", "save", "stop-app", "build", "save">>
           b == Billing!Probe
           c == <<"verdict", "save">>
           ab == a \o b
           P == Billing!Program
<1>1. P = ab \o c
  BY DEF Billing!Program
<1>2. a \in Seq(T) /\ b \in Seq(T) /\ c \in Seq(T)
  BY DEF Billing!Probe, BillingTry
<1>3. /\ Len(a) = 18 /\ Len(b) = 5 /\ Len(c) = 2
      /\ a[1] = "verify" /\ a[2] = "save" /\ a[3] = "matrix" /\ a[4] = "drive" /\ a[5] = "dialogs"
      /\ a[6] = "the-pid" /\ a[7] = "save" /\ a[8] = "stop-app" /\ a[9] = "gone" /\ a[10] = "build"
      /\ a[11] = "relaunch" /\ a[12] = "drive" /\ a[13] = "same-customer" /\ a[14] = "new-pid"
      /\ a[15] = "save" /\ a[16] = "stop-app" /\ a[17] = "build" /\ a[18] = "save"
      /\ b[1] = "probe" /\ b[2] = "drive" /\ b[3] = "the-pid" /\ b[4] = "stop-app" /\ b[5] = "probed"
      /\ c[1] = "verdict" /\ c[2] = "save"
  BY DEF Billing!Probe
<1> HIDE DEF T, a, b, c, P
<1>4. /\ ab \in Seq(T) /\ Len(ab) = 23
      /\ \A i \in 1..23 : ab[i] = IF i <= 18 THEN a[i] ELSE b[i - 18]
  <2>1. /\ a \o b \in Seq(T) /\ Len(a \o b) = Len(a) + Len(b)
        /\ \A i \in 1..Len(a) + Len(b) : (a \o b)[i] = IF i <= Len(a) THEN a[i] ELSE b[i - Len(a)]
    BY <1>2, ConcatProperties
  <2>2. Len(a) = 18 /\ Len(b) = 5 /\ Len(a) + Len(b) = 23 /\ ab = a \o b
    BY <1>3
  <2> HIDE DEF ab
  <2>3. QED
    BY <2>1, <2>2
<1> HIDE DEF ab
<1>5. /\ Len(P) = 25
      /\ \A i \in 1..25 : P[i] = IF i <= 23 THEN ab[i] ELSE c[i - 23]
  <2>1. /\ Len(ab \o c) = Len(ab) + Len(c)
        /\ \A i \in 1..Len(ab) + Len(c) : (ab \o c)[i] = IF i <= Len(ab) THEN ab[i] ELSE c[i - Len(ab)]
    BY <1>2, <1>4, ConcatProperties
  <2>2. Len(ab) = 23 /\ Len(c) = 2 /\ Len(ab) + Len(c) = 25
    BY <1>3, <1>4
  <2>3. QED
    BY <1>1, <2>1, <2>2
<1>6. \A i \in 1..18 : P[i] = a[i]
  BY <1>4, <1>5
<1>7. \A i \in 1..5 : P[i + 18] = b[i]
  <2>1. ASSUME NEW i \in 1..5
        PROVE  P[i + 18] = b[i]
    <3>1. i + 18 \in 1..23 /\ i + 18 \in 1..25 /\ ~(i + 18 <= 18) /\ i + 18 <= 23 /\ (i + 18) - 18 = i
      OBVIOUS
    <3>2. QED
      BY <1>4, <1>5, <3>1
  <2>2. QED
    BY <2>1
<1>8. P[24] = c[1] /\ P[25] = c[2]
  <2>1. 24 - 23 = 1 /\ 25 - 23 = 2
    OBVIOUS
  <2>2. QED
    BY <1>5, <2>1
<1>9. P[19] = b[1] /\ P[20] = b[2] /\ P[21] = b[3] /\ P[22] = b[4] /\ P[23] = b[5]
  <2>1. 1 + 18 = 19 /\ 2 + 18 = 20 /\ 3 + 18 = 21 /\ 4 + 18 = 22 /\ 5 + 18 = 23
    OBVIOUS
  <2>2. QED
    BY <1>7, <2>1
<1>10. QED
  BY <1>3, <1>5, <1>6, <1>8, <1>9 DEF P

BillingAll == BillingTry \cup {"verify"}

(* Which operation is where.                                               *)
LEMMA BillingWhere ==
  ASSUME NEW i \in 1..25
  PROVE  /\ Billing!Program[i] = "matrix" <=> i = 3
         /\ Billing!Program[i] = "relaunch" <=> i = 11
         /\ Billing!Program[i] = "probe" <=> i = 19
         /\ Billing!Program[i] = "drive" <=> i \in {4, 12, 20}
         /\ Billing!Program[i] = "same-customer" <=> i = 13
         /\ Billing!Program[i] = "probed" <=> i = 23
         /\ Billing!Program[i] = "verdict" <=> i = 24
         /\ i = 25 => Billing!Program[i] = "save"
         /\ Billing!Program[i] \in BillingAll
<1>1. \/ i = 1
      \/ i = 2
      \/ i = 3
      \/ i = 4
      \/ i = 5
      \/ i = 6
      \/ i = 7
      \/ i = 8
      \/ i = 9
      \/ i = 10
      \/ i = 11
      \/ i = 12
      \/ i = 13
      \/ i = 14
      \/ i = 15
      \/ i = 16
      \/ i = 17
      \/ i = 18
      \/ i = 19
      \/ i = 20
      \/ i = 21
      \/ i = 22
      \/ i = 23
      \/ i = 24
      \/ i = 25
  OBVIOUS
<1>2. QED
  BY <1>1, BillingOperations DEF BillingAll, BillingTry

LEMMA BillingPlace ==
  /\ Billing!Program \in Seq(BillingAll) /\ Len(Billing!Program) = 25
  /\ BillingDriving \in Seq(BillingTry)
  /\ \A rest \in Seq(BillingAll) : <<>> \o rest = rest
<1>1. Billing!Program \in Seq(BillingAll)
  <2>1. /\ Billing!Program # <<>> /\ Head(Billing!Program) \in BillingAll
        /\ Tail(Billing!Program) \in Seq(BillingAll)
    BY BillingProgram DEF BillingAll
  <2> DEFINE a == <<"verify", "save", "matrix", "drive", "dialogs", "the-pid", "save", "stop-app", "gone", "build",
                  "relaunch", "drive", "same-customer", "new-pid", "save", "stop-app", "build", "save">>
             b == Billing!Probe
             c == <<"verdict", "save">>
  <2>2. Billing!Program = (a \o b) \o c
    BY DEF Billing!Program
  <2>3. a \in Seq(BillingAll) /\ b \in Seq(BillingAll) /\ c \in Seq(BillingAll)
    BY DEF BillingAll, BillingTry, Billing!Probe
  <2> HIDE DEF a, b, c
  <2>4. QED
    BY <2>2, <2>3, ConcatProperties
<1>2. After(Billing!Program, 3) \in Seq(BillingTry)
  <2> DEFINE r == Tail(Billing!Program)
             P == Billing!Program
  <2>1. r \in Seq(BillingTry) /\ P # <<>> /\ P \in Seq(BillingAll) /\ Len(P) = 25
    BY <1>1, BillingProgram, BillingOperations
  <2>2. Len(r) = 24 /\ \A i \in 1..24 : r[i] = P[i + 1]
    <3> HIDE DEF P
    <3>1. /\ Len(Tail(P)) = Len(P) - 1
          /\ \A i \in 1..Len(Tail(P)) : Tail(P)[i] = P[i + 1]
      BY <2>1, HeadTailProperties
    <3>2. Len(P) - 1 = 24
      BY <2>1
    <3>3. QED
      BY <3>1, <3>2 DEF P
  <2> HIDE DEF r, P
  <2>3. \A i \in 4..25 : P[i] \in BillingTry
    <3>1. ASSUME NEW i \in 4..25
          PROVE  P[i] \in BillingTry
      <4>1. i - 1 \in 1..Len(r) /\ i - 1 \in 1..24 /\ (i - 1) + 1 = i
        BY <2>2
      <4>2. r[i - 1] \in BillingTry
        BY <2>1, <4>1, ElementOfSeq
      <4>3. QED
        BY <2>2, <4>1, <4>2
    <3>2. QED
      BY <3>1
  <2>4. SubSeq(P, 4, 25) \in Seq(BillingTry)
    BY <2>1, <2>3
  <2>5. QED
    BY <2>1, <2>4 DEF After, P
<1>3. QED
  BY <1>1, <1>2, BillingOperations DEF BillingDriving

(* What is on the screen, what drives the app, and what is remembered.     *)
BillingScreen == <<device.next, device.dialog, device.plus, device.result, seen.tapped>>
BillingDrives == <<device.drive, device.ended>>
BillingMemory ==
  <<mem.journey, mem.customer, mem.passed, mem.evidence, seen.customers, seen.relaunched>>
BillingSame ==
  /\ BillingScreen' = BillingScreen /\ BillingDrives' = BillingDrives /\ BillingMemory' = BillingMemory

BillingPlain ==
  {"verify", "save", "dialogs", "the-pid", "stop-app", "gone", "build", "same-customer", "new-pid",
   "probed", "start-recording", "look", "look-again", "recover", "finish-recording"}

(* An operation that returns and changes nothing of what counts.           *)
BillingPasses ==
  /\ Head(todo) \in BillingPlain /\ BillingSame /\ mem'.stage = mem.stage
  /\ todo' \in {<<>> \o Tail(todo), Tail(todo)}
  /\ Head(todo) = "same-customer" => mem.evidence.customer = mem.customer
  /\ Head(todo) = "probed" => ~mem.evidence.pending

(* One that puts others before the rest.                                   *)
BillingCallsMore ==
  /\ BillingSame
  /\ \/ Head(todo) = "probed" /\ todo' = Billing!Probe \o Tail(todo)
     \/ /\ Head(todo) = "look-again" /\ mem'.stage = mem.stage
        /\ todo' = <<"look", "look-again">> \o Tail(todo)
     \/ /\ Head(todo) = "look" /\ mem'.stage = mem.stage
        /\ todo' = <<"recover", "look">> \o Tail(todo)
     \/ /\ Head(todo) = "look-again" /\ mem'.stage = mem.stage
        /\ todo' = <<"recover", "look", "look-again">> \o Tail(todo)
     \/ /\ Head(todo) = "drive" /\ mem.journey = "matrix"
        /\ mem'.stage \in {"cancel", "failure", "success"}
        /\ todo' = (Billing!PerformSteps \o <<"drive">>) \o Tail(todo)

(* A journey is launched, and ends.                                        *)
BillingLaunches ==
  /\ Head(todo) \in {"matrix", "relaunch", "probe"}
  /\ BillingScreen' = BillingScreen /\ ~device'.ended
  /\ mem'.journey = Head(todo) /\ mem'.customer = mem.customer /\ mem'.passed = mem.passed
  /\ mem'.evidence = mem.evidence /\ seen' = seen
  /\ todo' = <<>> \o Tail(todo)

BillingArrives ==
  /\ Head(todo) = "drive" /\ device.ended /\ Billing!Proves(device.result)
  /\ BillingScreen' = BillingScreen /\ device'.drive = "off" /\ device'.ended = device.ended
  /\ mem'.journey = mem.journey /\ mem'.passed = mem.passed /\ mem'.evidence = device.result
  /\ mem'.customer = IF mem.journey = "matrix" THEN device.result.customer ELSE mem.customer
  /\ seen'.customers = seen.customers \cup {device.result.customer}
  /\ seen'.relaunched = (seen.relaunched \/ mem.journey = "relaunch")
  /\ todo' = <<>> \o Tail(todo)

(* A button is hit, or what is on top of it; the verdict.                  *)
BillingHitsNow ==
  /\ Head(todo) = "tap" /\ todo' = <<>> \o Tail(todo) /\ mem'.stage = mem.stage
  /\ BillingDrives' = BillingDrives /\ BillingMemory' = BillingMemory
  /\ device'.result = device.result
  /\ \/ BillingScreen' = BillingScreen
     \/ /\ device.dialog = mem.stage /\ device'.dialog = "none" /\ device'.next = device.next + 1
        /\ device'.plus = IF mem.stage = "success" THEN "active" ELSE device.plus
        /\ seen'.tapped = Append(seen.tapped, mem.stage)

BillingDecides ==
  /\ Head(todo) = "verdict" /\ todo' = <<>> \o Tail(todo)
  /\ BillingScreen' = BillingScreen /\ BillingDrives' = BillingDrives
  /\ mem'.passed = TRUE /\ mem'.journey = mem.journey /\ mem'.customer = mem.customer
  /\ mem'.evidence = mem.evidence /\ seen' = seen

BillingWorksOn ==
  /\ todo # <<>> /\ BillingFields'
  /\ BillingPasses \/ BillingCallsMore \/ BillingLaunches \/ BillingArrives \/ BillingHitsNow
       \/ BillingDecides

(* What leaves the try block says nothing of a pass.                       *)
BillingLeaves ==
  /\ BillingFields' /\ mem'.passed = mem.passed
  /\ todo = <<>> \/ Head(todo) = "save" => device' = device /\ seen' = seen

LEMMA BillingEffects ==
  ASSUME BillingTaps, BillingFields, mode = "run", Billing!Runner
  PROVE  /\ mode' # "run" => BillingLeaves
         /\ mode' = "run" => BillingWorksOn
<1> DEFINE Goal == /\ mode' # "run" => BillingLeaves
                   /\ mode' = "run" => BillingWorksOn
<1> USE DEF BillingFields, BillingDomains
<1>0. ASSUME todo # <<>>, Head(todo) \in BillingPlain \ {"same-customer", "probed"}, BillingFields', BillingSame,
             mem'.stage = mem.stage, Head(todo) = "save" /\ mode' # "run" => device' = device /\ seen' = seen,
             mode' = "run" => todo' = <<>> \o Tail(todo) \/ todo' = Tail(todo)
      PROVE  Goal
  BY <1>0 DEF BillingLeaves, BillingWorksOn, BillingPasses, BillingSame, BillingMemory, BillingPlain
<1> USE DEF BillingSame, BillingScreen, BillingDrives, BillingMemory
<1> USE DEF Billing!Require, Billing!ReturnOrFail, Billing!Return, Billing!Call, Billing!Raise,
        Billing!Running, Billing!Now, Billing!Unchanged
<1>1. CASE \/ Billing!Save \/ Billing!ForceStop("stop-app") \/ Billing!StartRecording
           \/ Billing!FinishRecording
  <2>1. /\ todo # <<>> /\ Head(todo) \in BillingPlain \ {"same-customer", "probed"}
        /\ mem' = mem /\ seen' = seen
        /\ \/ device' = device \/ \E report : device' = [device EXCEPT !.report = report]
           \/ \E pids : device' = [device EXCEPT !.pids = pids]
           \/ \E owned : device' = [device EXCEPT !.owned = owned]
        /\ Head(todo) = "save" /\ mode' # "run" => device' = device
        /\ mode' = "run" => todo' = <<>> \o Tail(todo)
    <3>1. CASE Billing!Save
      BY <3>1, Zenon DEF Billing!Save, BillingPlain
    <3>2. CASE Billing!ForceStop("stop-app")
      BY <3>2 DEF Billing!ForceStop, BillingPlain
    <3>3. CASE Billing!StartRecording
      BY <3>3 DEF Billing!StartRecording, BillingPlain
    <3>4. CASE Billing!FinishRecording
      BY <3>4 DEF Billing!FinishRecording, BillingPlain, Billing!Drop
    <3>5. QED
      BY <1>1, <3>1, <3>2, <3>3, <3>4
  <2>2. BillingFields' /\ BillingSame
    BY <2>1
  <2>3. QED
    BY <1>0, <2>1, <2>2
<1>2. CASE \/ Billing!Verify \/ Billing!ThePid("the-pid", TRUE)
           \/ Billing!ThePid("new-pid", device.pids # mem.pid)
  <2>1. /\ todo # <<>> /\ Head(todo) \in {"verify", "the-pid", "new-pid"}
        /\ device' = device /\ seen' = seen
        /\ \/ mem' = [mem EXCEPT !.safe_emulator = TRUE]
           \/ \E pid : mem' = [mem EXCEPT !.pid = pid]
        /\ mode' = "run" => todo' = <<>> \o Tail(todo)
    BY <1>2 DEF Billing!Verify, Billing!ThePid
  <2>2. BillingFields' /\ BillingSame /\ mem'.stage = mem.stage
    BY <2>1
  <2>3. QED
    BY <1>0, <2>1, <2>2 DEF BillingPlain
<1>3. CASE \/ Billing!Check("dialogs", mem.completed = Billing!STAGES)
           \/ Billing!Check("gone", device.pids = {}) \/ Billing!Check("build", Billing!InTime)
           \/ Billing!Look
  <2>1. /\ todo # <<>> /\ Head(todo) \in {"dialogs", "gone", "build", "look", "look-again"}
        /\ UNCHANGED <<device, mem, seen>>
        /\ mode' = "run" => todo' = <<>> \o Tail(todo)
    BY <1>3 DEF Billing!Check, Billing!Look, Billing!Looking
  <2>2. QED
    BY <1>0, <2>1 DEF BillingPlain
<1>4. CASE Billing!Close
  <2>1. /\ todo # <<>> /\ Head(todo) = "recover" /\ mode' = "run"
        /\ todo' = <<>> \o Tail(todo) \/ todo' = Tail(todo)
        /\ device' = device \/ device' = [device EXCEPT !.anr = FALSE]
        /\ seen' = seen \/ seen' = [seen EXCEPT !.taps = @ + 1]
        /\ mem' = mem \/ mem' = [mem EXCEPT !.recoveries = @ + 1]
    BY <1>4 DEF Billing!Close
  <2>2. BillingFields' /\ BillingSame /\ mem'.stage = mem.stage
    BY <2>1
  <2>3. QED
    BY <1>0, <2>1, <2>2 DEF BillingPlain
<1>5. CASE \E journey \in {"matrix", "relaunch", "probe"} : Billing!Launch(journey)
  <2>1. PICK journey \in {"matrix", "relaunch", "probe"} : Billing!Launch(journey)
    BY <1>5
  <2>2. /\ todo # <<>> /\ Head(todo) = journey /\ seen' = seen
        /\ mem' = [mem EXCEPT !.journey = journey]
        /\ \/ mode' # "run" /\ device' = device
           \/ /\ mode' = "run" /\ todo' = <<>> \o Tail(todo)
              /\ \E pid : device' = [device EXCEPT !.pids = {pid}, !.drive = "running",
                                                   !.markers = <<>>, !.ended = FALSE]
    BY <2>1 DEF Billing!Launch
  <2>3. /\ DOMAIN mem' = DOMAIN mem /\ mem'.passed = mem.passed
        /\ mem'.journey = journey /\ mem'.customer = mem.customer /\ mem'.evidence = mem.evidence
    BY <2>2
  <2>4. /\ DOMAIN device' = DOMAIN device
        /\ device'.markers = device.markers \/ device'.markers = <<>>
        /\ mode' = "run" => BillingScreen' = BillingScreen /\ ~device'.ended
    BY <2>2
  <2>5. BillingFields'
    <3>1. seen' = seen
      BY <2>2
    <3>2. <<>> \in Seq({"cancel", "failure", "success"})
      OBVIOUS
    <3>3. device'.markers \in Seq({"cancel", "failure", "success"})
      BY <2>4, <3>2
    <3>4. QED
      BY <2>3, <2>4, <3>1, <3>3
  <2>6. mode' # "run" => BillingLeaves
    BY <2>2, <2>3, <2>5 DEF BillingLeaves
  <2>7. mode' = "run" => BillingLaunches
    BY <2>1, <2>2, <2>3, <2>4 DEF BillingLaunches
  <2>8. QED
    BY <2>2, <2>5, <2>6, <2>7 DEF BillingWorksOn
<1>6. CASE Billing!Perform
  <2>1. /\ todo # <<>> /\ Head(todo) = "drive" /\ seen' = seen
        /\ mem' = [mem EXCEPT !.stage = Head(device.markers)]
        /\ device' = [device EXCEPT !.markers = Tail(@)]
        /\ \/ mode' # "run"
           \/ /\ mode' = "run" /\ mem.journey = "matrix"
              /\ todo' = (Billing!PerformSteps \o <<"drive">>) \o Tail(todo)
    BY <1>6 DEF Billing!Perform, Billing!Marker
  <2>2. device.markers # <<>>
    BY <1>6 DEF Billing!Perform, Billing!Marker
  <2>3. mem'.stage \in {"cancel", "failure", "success"} /\ device'.markers \in Seq({"cancel", "failure", "success"})
    BY <2>1, <2>2
  <2>4. BillingFields' /\ BillingSame
    BY <2>1, <2>3
  <2>5. QED
    BY <2>1, <2>3, <2>4 DEF BillingLeaves, BillingWorksOn, BillingCallsMore
<1>7. CASE Billing!DriveEnds
  <2>1. /\ todo # <<>> /\ Head(todo) = "drive" /\ device.ended
        /\ device' = [device EXCEPT !.drive = "off"]
        /\ mem' = [mem EXCEPT !.evidence = device.result,
                              !.customer = IF mem.journey = "matrix" THEN device.result.customer ELSE @]
        /\ seen' = [seen EXCEPT !.customers = @ \cup {device.result.customer},
                                !.relaunched = @ \/ mem.journey = "relaunch"]
        /\ \/ mode' # "run"
           \/ /\ mode' = "run" /\ Billing!Proves(device.result) /\ todo' = <<>> \o Tail(todo)
    BY <1>7 DEF Billing!DriveEnds
  <2>2. /\ BillingFields' /\ BillingScreen' = BillingScreen /\ device'.drive = "off"
        /\ device'.ended = device.ended
        /\ mem'.journey = mem.journey /\ mem'.passed = mem.passed /\ mem'.evidence = device.result
        /\ mem'.customer = IF mem.journey = "matrix" THEN device.result.customer ELSE mem.customer
        /\ seen'.customers = seen.customers \cup {device.result.customer}
        /\ seen'.relaunched = (seen.relaunched \/ mem.journey = "relaunch")
    BY <2>1
  <2>3. mode' = "run" => BillingArrives
    BY <2>1, <2>2 DEF BillingArrives
  <2>4. QED
    BY <2>1, <2>2, <2>3 DEF BillingLeaves, BillingWorksOn
<1>8. CASE Billing!DriveFails \/ Billing!LookTimesOut
  <2>1. /\ todo # <<>> /\ Head(todo) # "save" /\ mode' # "run" /\ UNCHANGED <<device, mem, seen>>
    BY <1>8 DEF Billing!DriveFails, Billing!LookTimesOut, Billing!Looking
  <2>2. QED
    BY <2>1 DEF BillingLeaves
<1>9. CASE Billing!Probed
  <2>1. /\ todo # <<>> /\ Head(todo) = "probed" /\ UNCHANGED <<device, mem, seen>>
        /\ \/ mode' # "run"
           \/ mode' = "run" /\ mem.evidence.pending /\ todo' = Billing!Probe \o Tail(todo)
           \/ mode' = "run" /\ ~mem.evidence.pending /\ todo' = <<>> \o Tail(todo)
    BY <1>9 DEF Billing!Probed
  <2>2. QED
    BY <2>1 DEF BillingLeaves, BillingWorksOn, BillingCallsMore, BillingPasses, BillingPlain
<1>10. CASE Billing!Verdict
  <2>1. /\ todo # <<>> /\ Head(todo) = "verdict" /\ mode' = "run" /\ todo' = <<>> \o Tail(todo)
        /\ mem' = [mem EXCEPT !.passed = TRUE] /\ device' = device /\ seen' = seen
    BY <1>10 DEF Billing!Verdict
  <2>2. BillingFields' /\ BillingDecides
    BY <2>1 DEF BillingDecides
  <2>3. QED
    BY <2>1, <2>2 DEF BillingWorksOn
<1>11. CASE Billing!Check("same-customer", mem.evidence.customer = mem.customer)
  <2>1. /\ todo # <<>> /\ Head(todo) = "same-customer" /\ UNCHANGED <<device, mem, seen>>
        /\ mode' = "run" => todo' = <<>> \o Tail(todo) /\ mem.evidence.customer = mem.customer
    BY <1>11 DEF Billing!Check
  <2>2. QED
    BY <2>1 DEF BillingLeaves, BillingWorksOn, BillingPasses, BillingPlain
<1>12. CASE \E op \in {"verify", "matrix", "build", "relaunch", "probe", "the-pid"} : Billing!Fails(op)
  <2>1. todo # <<>> /\ mode' # "run" /\ UNCHANGED <<device, mem, seen>>
    BY <1>12 DEF Billing!Fails
  <2>2. QED
    BY <2>1 DEF BillingLeaves
<1>13. CASE Billing!LookFails
  <2>1. /\ todo # <<>> /\ Head(todo) = "look-again" /\ mode' = "run" /\ UNCHANGED <<device, mem, seen>>
        /\ todo' = <<"look", "look-again">> \o Tail(todo)
    BY <1>13 DEF Billing!LookFails
  <2>2. QED
    BY <2>1 DEF BillingWorksOn, BillingCallsMore
<1>14. CASE Billing!Recover
  <2>1. /\ todo # <<>> /\ mode' = "run" /\ UNCHANGED <<device, mem, seen>>
        /\ Head(todo) \in {"look", "look-again"}
        /\ Head(todo) = "look" => todo' = <<"recover", "look">> \o Tail(todo)
        /\ Head(todo) # "look" => todo' = <<"recover", "look", "look-again">> \o Tail(todo)
    BY <1>14 DEF Billing!Recover, Billing!Looking
  <2>2. QED
    BY <2>1 DEF BillingWorksOn, BillingCallsMore
<1>15. CASE Billing!Tap
  <2>1. /\ todo # <<>> /\ Head(todo) = "tap"
        /\ mem' = [mem EXCEPT !.completed = Append(@, mem.stage)]
        /\ mode' = "run" => todo' = <<>> \o Tail(todo)
        /\ \/ UNCHANGED <<device, seen>>
           \/ /\ device.dialog = mem.stage
              /\ device' = [device EXCEPT !.dialog = "none", !.next = @ + 1,
                                          !.plus = IF mem.stage = "success" THEN "active" ELSE @]
              /\ seen' = [seen EXCEPT !.tapped = Append(@, mem.stage)]
    BY <1>15 DEF Billing!Tap, Billing!Looked
  <2>2. PICK completed : mem' = [mem EXCEPT !.completed = completed]
    BY <2>1
  <2>3. /\ mem'.stage = mem.stage /\ mem'.journey = mem.journey /\ mem'.customer = mem.customer
        /\ mem'.passed = mem.passed /\ mem'.evidence = mem.evidence /\ DOMAIN mem' = DOMAIN mem
    BY <2>2
  <2>4. CASE UNCHANGED <<device, seen>>
    BY <2>1, <2>3, <2>4 DEF BillingLeaves, BillingWorksOn, BillingHitsNow
  <2>5. CASE /\ device.dialog = mem.stage
             /\ device' = [device EXCEPT !.dialog = "none", !.next = @ + 1,
                                         !.plus = IF mem.stage = "success" THEN "active" ELSE @]
             /\ seen' = [seen EXCEPT !.tapped = Append(@, mem.stage)]
    <3>1. PICK tapped : tapped = Append(seen.tapped, mem.stage)
      OBVIOUS
    <3>2. seen' = [seen EXCEPT !.tapped = tapped]
      BY <2>5, <3>1, Zenon
    <3>3. /\ seen'.tapped = tapped /\ seen'.customers = seen.customers
          /\ seen'.relaunched = seen.relaunched /\ DOMAIN seen' = DOMAIN seen
      BY <3>2
    <3>4. /\ DOMAIN device' = DOMAIN device /\ device'.dialog = "none" /\ device'.next = device.next + 1
          /\ device'.plus = (IF mem.stage = "success" THEN "active" ELSE device.plus)
          /\ device'.result = device.result /\ device'.drive = device.drive /\ device'.ended = device.ended
          /\ device'.markers = device.markers
      BY <2>5
    <3>5. BillingFields'
      BY <2>3, <3>3, <3>4
    <3>6. BillingHitsNow \/ mode' # "run"
      BY <2>1, <2>3, <2>5, <3>1, <3>3, <3>4 DEF BillingHitsNow
    <3>7. QED
      BY <2>1, <2>3, <3>5, <3>6 DEF BillingLeaves, BillingWorksOn
  <2>6. QED
    BY <2>1, <2>4, <2>5
<1>16. CASE (Billing!EnterFinally(Billing!CLEANUP) \/ Billing!Report) /\ Billing!Unchanged
  BY <1>16, BillingOnlyTries DEF Billing!EnterFinally, BillingLeaves
<1>17. QED
  BY <1>1, <1>2, <1>3, <1>4, <1>5, <1>6, <1>7, <1>8, <1>9, <1>10, <1>11, <1>12, <1>13, <1>14,
     <1>15, <1>16, BillingOnlyTries DEF Billing!Runner

(* The store shows its next dialog, a journey ends, the purchase expires.  *)
BillingWorld ==
  /\ BillingFields'
  /\ \/ BillingScreen' = BillingScreen /\ BillingDrives' = BillingDrives
     \/ /\ device.drive = "running" /\ ~device.ended /\ mem.journey = "matrix"
        /\ device.next \in 1..3 /\ device.dialog = "none" /\ device'.dialog = Billing!STAGES[device.next]
        /\ <<device'.next, device'.plus, device'.result>> = <<device.next, device.plus, device.result>>
        /\ BillingDrives' = BillingDrives
     \/ /\ device.drive = "running" /\ device.dialog = "none"
        /\ mem.journey = "matrix" => ~(device.next <= 3)
        /\ <<device'.next, device'.dialog, device'.plus>> = <<device.next, device.dialog, device.plus>>
        /\ device'.result.restored = "expired" =>
             device.plus = "expired" \/ device.result.restored = "expired"
     \/ /\ device.plus = "active" /\ device'.plus = "expired" /\ BillingDrives' = BillingDrives
        /\ <<device'.next, device'.dialog, device'.result>> = <<device.next, device.dialog, device.result>>

LEMMA BillingWorldGoes ==
  ASSUME BillingFields, device.next \in 1..4, Billing!Environment
  PROVE  BillingWorld /\ UNCHANGED <<todo, mode, failed, mem, seen>>
<1> USE DEF Billing!Goes, Billing!control, BillingScreen, BillingDrives
<1>0. ASSUME DOMAIN device' = DOMAIN device, UNCHANGED <<mem, seen>>,
             device'.markers \in Seq({"cancel", "failure", "success"})
      PROVE  BillingFields'
  BY <1>0 DEF BillingFields, BillingDomains
<1>1. CASE Billing!StoreDialog
  <2>1. /\ UNCHANGED <<todo, mode, failed, mem, seen>> /\ mem.journey = "matrix"
        /\ device.drive = "running" /\ ~device.ended /\ device.next \in 1..3 /\ device.dialog = "none"
        /\ device' = [device EXCEPT !.dialog = Billing!STAGES[device.next],
                                    !.markers = Append(@, Billing!STAGES[device.next])]
    BY <1>1 DEF Billing!StoreDialog, Billing!Driving, Billing!STAGES
  <2>2. PICK stage : stage = Billing!STAGES[device.next]
    OBVIOUS
  <2>3. stage \in {"cancel", "failure", "success"}
    BY <2>1, <2>2 DEF Billing!STAGES
  <2>4. PICK markers : markers = Append(device.markers, stage)
    OBVIOUS
  <2>5. markers \in Seq({"cancel", "failure", "success"})
    BY <2>3, <2>4 DEF BillingFields, BillingDomains
  <2>6. device' = [device EXCEPT !.dialog = stage, !.markers = markers]
    BY <2>1, <2>2, <2>4, Zenon
  <2>7. /\ DOMAIN device' = DOMAIN device /\ device'.dialog = stage /\ device'.markers = markers
        /\ <<device'.next, device'.plus, device'.result>> = <<device.next, device.plus, device.result>>
        /\ BillingDrives' = BillingDrives
    BY <2>6 DEF BillingFields, BillingDomains
  <2>8. QED
    BY <1>0, <2>1, <2>2, <2>5, <2>7 DEF BillingWorld
<1>2. CASE Billing!JourneyEnds
  <2>1. /\ UNCHANGED <<todo, mode, failed, mem, seen>>
        /\ device.drive = "running" /\ device.dialog = "none"
        /\ mem.journey = "matrix" => ~(device.next <= 3)
        /\ \/ \E result : /\ device' = [device EXCEPT !.drive = "ok", !.ended = TRUE, !.result = result]
                          /\ result.restored = "expired" => device.plus = "expired"
           \/ device' = [device EXCEPT !.drive = "bad", !.ended = TRUE]
    <3>1. Billing!Result(device.plus).restored = device.plus /\ Billing!Result("active").restored = "active"
      BY DEF Billing!Result
    <3>2. /\ UNCHANGED <<todo, mode, failed, mem, seen>>
          /\ device.drive = "running" /\ device.dialog = "none"
          /\ mem.journey = "matrix" => ~(device.next <= 3)
      BY <1>2 DEF Billing!JourneyEnds, Billing!Driving, Billing!STAGES
    <3>3. \/ device' = [device EXCEPT !.drive = "ok", !.ended = TRUE, !.result = Billing!Result(device.plus)]
          \/ device' = [device EXCEPT !.drive = "ok", !.ended = TRUE, !.result = Billing!Result("active")]
          \/ device' = [device EXCEPT !.drive = "bad", !.ended = TRUE]
      BY <1>2, Zenon DEF Billing!JourneyEnds
    <3>4. QED
      BY <3>1, <3>2, <3>3
  <2>2. /\ DOMAIN device' = DOMAIN device /\ device'.markers = device.markers
        /\ <<device'.next, device'.dialog, device'.plus>> = <<device.next, device.dialog, device.plus>>
        /\ device'.result.restored = "expired" =>
             device.plus = "expired" \/ device.result.restored = "expired"
    BY <2>1 DEF BillingFields, BillingDomains
  <2>3. BillingFields'
    BY <1>0, <2>1, <2>2 DEF BillingFields, BillingDomains
  <2>4. QED
    BY <2>1, <2>2, <2>3 DEF BillingWorld
<1>3. CASE Billing!Expire
  <2>1. /\ UNCHANGED <<todo, mode, failed, mem, seen>> /\ device.plus = "active"
        /\ device' = [device EXCEPT !.plus = "expired"]
    BY <1>3 DEF Billing!Expire
  <2>2. QED
    BY <1>0, <2>1 DEF BillingWorld, BillingFields, BillingDomains
<1>4. CASE Billing!SystemAnr \/ Billing!AppMisbehaves \/ Billing!TimePasses
  <2>1. /\ UNCHANGED <<todo, mode, failed, mem, seen>>
        /\ \/ \E anr : device' = [device EXCEPT !.anr = anr]
           \/ \E pids : device' = [device EXCEPT !.pids = pids]
           \/ device' = [device EXCEPT !.customer = 2]
           \/ device' = [device EXCEPT !.late = TRUE]
    BY <1>4 DEF Billing!SystemAnr, Billing!AppMisbehaves, Billing!TimePasses
  <2>2. QED
    BY <1>0, <2>1 DEF BillingWorld, BillingFields, BillingDomains
<1>5. QED
  BY <1>1, <1>2, <1>3, <1>4 DEF Billing!Environment

(* What is known stays known, whatever the world does.                     *)
LEMMA BillingStays ==
  ASSUME NEW d \in 0..25, BillingHits, BillingSoFar(d), BillingWorld, UNCHANGED <<mem, seen>>
  PROVE  BillingHits' /\ BillingSoFar(d)'
<1> USE DEF BillingScreen, BillingDrives
<1>0. device.next \in 1..4
  BY DEF BillingHits
<1>1. CASE BillingScreen' = BillingScreen /\ BillingDrives' = BillingDrives
  BY <1>1 DEF BillingHits, BillingSoFar
<1>2. CASE /\ device.drive = "running" /\ ~device.ended /\ mem.journey = "matrix"
           /\ device.next \in 1..3 /\ device.dialog = "none" /\ device'.dialog = Billing!STAGES[device.next]
           /\ <<device'.next, device'.plus, device'.result>> = <<device.next, device.plus, device.result>>
           /\ BillingDrives' = BillingDrives
  <2>1. /\ device.next = 1 => device'.dialog = "cancel"
        /\ device.next = 2 => device'.dialog = "failure"
        /\ device.next = 3 => device'.dialog = "success"
        /\ device.next # 4
    BY <1>2 DEF Billing!STAGES
  <2>2. BillingHits'
    BY <1>2, <2>1 DEF BillingHits
  <2>3. BillingSoFar(d)'
    BY <1>2 DEF BillingSoFar
  <2>4. QED
    BY <2>2, <2>3
<1>3. CASE /\ device.drive = "running" /\ device.dialog = "none"
           /\ mem.journey = "matrix" => ~(device.next <= 3)
           /\ <<device'.next, device'.dialog, device'.plus>> = <<device.next, device.dialog, device.plus>>
           /\ device'.result.restored = "expired" =>
                device.plus = "expired" \/ device.result.restored = "expired"
  <2>1. BillingHits'
    BY <1>3 DEF BillingHits
  <2>2. d >= 3 /\ (d = 3 => device.next = 4)
    BY <1>0, <1>3 DEF BillingSoFar
  <2>3. ~(d < 3) /\ device'.next = 4
    BY <1>3, <2>2 DEF BillingSoFar
  <2>4. BillingSoFar(d)'
    BY <1>3, <2>3 DEF BillingSoFar
  <2>5. QED
    BY <2>1, <2>4
<1>4. CASE /\ device.plus = "active" /\ device'.plus = "expired" /\ BillingDrives' = BillingDrives
           /\ <<device'.next, device'.dialog, device'.result>> = <<device.next, device.dialog, device.result>>
  BY <1>4 DEF BillingHits, BillingSoFar
<1>5. QED
  BY <1>1, <1>2, <1>3, <1>4 DEF BillingWorld

(* An operation of the program returns: one more has been done.            *)
LEMMA BillingGoesOn ==
  ASSUME NEW d \in 0..24, todo # <<>>, Head(todo) = Billing!Program[d + 1],
         BillingFields, BillingHits, BillingSoFar(d),
         BillingPasses \/ BillingLaunches \/ BillingArrives \/ BillingDecides
  PROVE  BillingHits' /\ BillingSoFar(d + 1)'
<1> DEFINE op == Head(todo)
           e == d + 1
<1>0. e \in 1..25 /\ d \in 0..25
  OBVIOUS
<1>1. /\ op = "matrix" <=> e = 3
      /\ op = "relaunch" <=> e = 11
      /\ op = "probe" <=> e = 19
      /\ op = "drive" <=> e \in {4, 12, 20}
      /\ op = "same-customer" <=> e = 13
      /\ op = "probed" <=> e = 23
      /\ op = "verdict" <=> e = 24
  BY <1>0, BillingWhere
<1>2. /\ op = "matrix" <=> d = 2
      /\ op = "relaunch" <=> d = 10
      /\ op = "probe" <=> d = 18
      /\ op = "drive" <=> d = 3 \/ d = 11 \/ d = 19
      /\ op = "same-customer" <=> d = 12
      /\ op = "probed" <=> d = 22
      /\ op = "verdict" <=> d = 23
  BY <1>1
<1> HIDE DEF op, e
<1>3. BillingHits'
  <2>1. BillingScreen' = BillingScreen
    BY DEF BillingPasses, BillingSame, BillingLaunches, BillingArrives, BillingDecides
  <2>2. QED
    BY <2>1 DEF BillingHits, BillingScreen
<1>4. CASE BillingPasses
  <2>1. d \notin {2, 3, 10, 11, 18, 19, 23}
    BY <1>2, <1>4 DEF BillingPasses, BillingPlain, op
  <2>2. /\ d = 12 => mem.evidence.customer = mem.customer
        /\ d = 22 => ~mem.evidence.pending
    BY <1>2, <1>4 DEF BillingPasses, op
  <2>3. BillingSame
    BY <1>4 DEF BillingPasses
  <2>4. QED
    BY <1>3, <2>1, <2>2, <2>3 DEF BillingSoFar, BillingSame, BillingScreen, BillingDrives,
       BillingMemory
<1>5. CASE BillingLaunches
  <2>1. \/ d = 2 /\ mem'.journey = "matrix"
        \/ d = 10 /\ mem'.journey = "relaunch"
        \/ d = 18 /\ mem'.journey = "probe"
    BY <1>2, <1>5 DEF BillingLaunches, op
  <2>2. /\ BillingScreen' = BillingScreen /\ ~device'.ended
        /\ mem'.customer = mem.customer /\ mem'.passed = mem.passed
        /\ mem'.evidence = mem.evidence /\ seen' = seen
    BY <1>5 DEF BillingLaunches
  <2>3. QED
    BY <1>3, <2>1, <2>2 DEF BillingSoFar, BillingScreen
<1>6. CASE BillingArrives
  <2>1. d = 3 \/ d = 11 \/ d = 19
    BY <1>2, <1>6 DEF BillingArrives, op
  <2>2. /\ BillingScreen' = BillingScreen /\ device'.ended = device.ended /\ device.ended
        /\ mem'.passed = mem.passed /\ mem'.evidence = device.result
        /\ mem'.customer = IF mem.journey = "matrix" THEN device.result.customer ELSE mem.customer
        /\ seen'.customers = seen.customers \cup {device.result.customer}
        /\ seen'.relaunched = (seen.relaunched \/ mem.journey = "relaunch")
        /\ mem.journey = "probe" => /\ device.result.customer = mem.customer
                                    /\ device.result.pending \/ device.result.restored = "expired"
    BY <1>6 DEF BillingArrives, Billing!Proves
  <2>3. CASE d = 3
    BY <1>3, <2>2, <2>3 DEF BillingSoFar, BillingScreen
  <2>4. CASE d = 11
    <3>1. /\ device.next = 4 /\ seen.customers = {mem.customer} /\ mem.journey = "relaunch"
          /\ ~mem.passed
      BY <2>4 DEF BillingSoFar
    <3>2. /\ mem'.customer = mem.customer /\ seen'.customers = {mem'.customer, mem'.evidence.customer}
      BY <2>2, <3>1
    <3>3. device'.next = 4 /\ seen'.relaunched /\ ~mem'.passed
      BY <2>2, <3>1 DEF BillingScreen
    <3>4. QED
      BY <1>3, <2>4, <3>2, <3>3 DEF BillingSoFar
  <2>5. CASE d = 19
    <3>1. /\ device.next = 4 /\ seen.customers = {mem.customer} /\ seen.relaunched /\ mem.journey = "probe"
          /\ ~mem.passed
      BY <2>5 DEF BillingSoFar
    <3>2. device.result.restored = "expired" => device.plus = "expired"
      BY DEF BillingHits
    <3>3. /\ device'.next = 4 /\ seen'.customers = {mem'.customer} /\ seen'.relaunched /\ ~mem'.passed
          /\ mem'.evidence.pending \/ device'.plus = "expired"
      BY <2>2, <3>1, <3>2 DEF BillingScreen
    <3>4. QED
      BY <1>3, <2>5, <3>3 DEF BillingSoFar
  <2>6. QED
    BY <2>1, <2>3, <2>4, <2>5
<1>7. CASE BillingDecides
  <2>1. d = 23
    BY <1>2, <1>7 DEF BillingDecides, op
  <2>2. QED
    BY <1>3, <1>7, <2>1 DEF BillingDecides, BillingSoFar, BillingScreen, BillingDrives
<1>8. QED
  BY <1>4, <1>5, <1>6, <1>7

(* The probe again, before what follows it; the dialog before the drive.   *)
LEMMA BillingLoops ==
  /\ Billing!Probe \o After(Billing!Program, 23) = After(Billing!Program, 18)
  /\ (Billing!PerformSteps \o <<"drive">>) \o After(Billing!Program, 4) = BillingStart(BillingDriving)
<1> DEFINE P == Billing!Program
           S == BillingAll
           b == Billing!Probe
           r == After(P, 23)
           whole == After(P, 18)
<1>1. P \in Seq(S) /\ Len(P) = 25
  BY BillingPlace
<1>2. /\ b \in Seq(S) /\ Len(b) = 5
      /\ b[1] = P[19] /\ b[2] = P[20] /\ b[3] = P[21] /\ b[4] = P[22] /\ b[5] = P[23]
  BY BillingOperations DEF Billing!Probe, BillingAll, BillingTry
<1>3. P[4] = "drive"
  BY BillingOperations
<1> HIDE DEF P, S, b
<1>4. /\ r \in Seq(S) /\ Len(r) = 2 /\ \A i \in 1..2 : r[i] = P[i + 23]
      /\ whole \in Seq(S) /\ Len(whole) = 7 /\ \A i \in 1..7 : whole[i] = P[i + 18]
  <2>1. 23 \in 0..Len(P) /\ 18 \in 0..Len(P) /\ Len(P) - 23 = 2 /\ Len(P) - 18 = 7
    BY <1>1
  <2>2. r \in Seq(S) /\ Len(r) = 2 /\ whole \in Seq(S) /\ Len(whole) = 7
    BY <1>1, <2>1, AfterIsSeq
  <2>3. \A i \in 1..2 : r[i] = P[i + 23]
    <3>1. ASSUME NEW i \in 1..2
          PROVE  SubSeq(P, 24, 25)[i] = P[i + 23]
      BY <1>1
    <3>2. QED
      BY <1>1, <3>1 DEF After
  <2>4. \A i \in 1..7 : whole[i] = P[i + 18]
    <3>1. ASSUME NEW i \in 1..7
          PROVE  SubSeq(P, 19, 25)[i] = P[i + 18]
      BY <1>1
    <3>2. QED
      BY <1>1, <3>1 DEF After
  <2>5. QED
    BY <2>2, <2>3, <2>4
<1> HIDE DEF r, whole
<1>5. /\ b \o r \in Seq(S) /\ Len(b \o r) = 7
      /\ \A i \in 1..7 : (b \o r)[i] = IF i <= 5 THEN b[i] ELSE r[i - 5]
  <2>1. /\ b \o r \in Seq(S) /\ Len(b \o r) = Len(b) + Len(r)
        /\ \A i \in 1..Len(b) + Len(r) : (b \o r)[i] = IF i <= Len(b) THEN b[i] ELSE r[i - Len(b)]
    BY <1>2, <1>4, ConcatProperties
  <2>2. Len(b) = 5 /\ Len(r) = 2 /\ Len(b) + Len(r) = 7
    BY <1>2, <1>4
  <2>3. QED
    BY <2>1, <2>2
<1>6. ASSUME NEW i \in 1..7
      PROVE  (b \o r)[i] = whole[i]
  <2>1. CASE i <= 5
    <3>1. \/ i = 1
          \/ i = 2
          \/ i = 3
          \/ i = 4
          \/ i = 5
      BY <2>1
    <3>2. b[i] = P[i + 18]
      BY <1>2, <3>1
    <3>3. QED
      BY <1>4, <1>5, <2>1, <3>2
  <2>2. CASE ~(i <= 5)
    <3>1. i - 5 \in 1..2 /\ (i - 5) + 23 = i + 18
      BY <2>2
    <3>2. r[i - 5] = P[i + 18]
      BY <1>4, <3>1
    <3>3. QED
      BY <1>4, <1>5, <2>2, <3>2
  <2>3. QED
    BY <2>1, <2>2
<1>7. b \o r = whole
  BY <1>4, <1>5, <1>6, SeqEqual
<1>8. <<"drive">> \o After(P, 4) = After(P, 3)
  <2>1. 3 \in 0..Len(P) /\ 3 # Len(P) /\ 3 + 1 = 4
    BY <1>1
  <2>2. <<P[3 + 1]>> \o After(P, 3 + 1) = After(P, 3)
    BY <1>1, <2>1, AfterPush
  <2>3. QED
    BY <1>3, <2>1, <2>2
<1>9. (Billing!PerformSteps \o <<"drive">>) \o After(P, 4) = Billing!PerformSteps \o After(P, 3)
  <2> DEFINE T == S \cup {"start-recording", "look", "look-again", "tap", "finish-recording", "drive"}
             steps == Billing!PerformSteps
             one == <<"drive">>
             rest == After(P, 4)
  <2>1. steps \in Seq(T) /\ one \in Seq(T)
    BY DEF Billing!PerformSteps
  <2>2. 4 \in 0..Len(P)
    BY <1>1
  <2>3. rest \in Seq(S)
    BY <1>1, <2>2, AfterIsSeq
  <2>4. rest \in Seq(T)
    BY <2>3
  <2>5. one \o rest = After(P, 3)
    BY <1>8
  <2> HIDE DEF T, steps, one, rest
  <2>6. (steps \o one) \o rest = steps \o (one \o rest)
    BY <2>1, <2>4, ConcatAssociative
  <2>7. QED
    BY <2>5, <2>6 DEF steps, one, rest
<1>10. Billing!PerformSteps \o After(P, 3) = BillingStart(BillingDriving)
  BY BillingPlace, BillingCalls DEF BillingDriving, P
<1>11. QED
  BY <1>7, <1>9, <1>10 DEF P, b, r, whole

(* A button of the store that is hit is the next one.                      *)
LEMMA BillingButtons ==
  ASSUME BillingHits, BillingSoFar(3), BillingHitsNow, mem.stage \in {"cancel", "failure", "success"}
  PROVE  BillingHits' /\ BillingSoFar(3)'
<1> USE DEF BillingScreen
<1>1. BillingDrives' = BillingDrives /\ BillingMemory' = BillingMemory /\ device'.result = device.result
  BY DEF BillingHitsNow
<1>2. CASE BillingScreen' = BillingScreen
  BY <1>1, <1>2 DEF BillingHits, BillingSoFar, BillingDrives, BillingMemory
<1>3. CASE /\ device.dialog = mem.stage /\ device'.dialog = "none" /\ device'.next = device.next + 1
           /\ device'.plus = IF mem.stage = "success" THEN "active" ELSE device.plus
           /\ seen'.tapped = Append(seen.tapped, mem.stage)
  <2>1. /\ device.result.restored = "expired" => device.plus = "expired"
        /\ device.dialog # "none"
    BY <1>3 DEF BillingHits
  <2>2. \/ /\ device.next = 1 /\ seen.tapped = <<>> /\ device.plus = "none" /\ mem.stage = "cancel"
        \/ /\ device.next = 2 /\ seen.tapped = <<"cancel">> /\ device.plus = "none"
           /\ mem.stage = "failure"
        \/ /\ device.next = 3 /\ seen.tapped = <<"cancel", "failure">> /\ device.plus = "none"
           /\ mem.stage = "success"
    BY <1>3, <2>1 DEF BillingHits
  <2>3. BillingHits'
    <3>0. /\ Append(<<>>, "cancel") = <<"cancel">>
          /\ Append(<<"cancel">>, "failure") = <<"cancel", "failure">>
          /\ Append(<<"cancel", "failure">>, "success") = <<"cancel", "failure", "success">>
      <4>1. Append(<<>>, "cancel") = <<"cancel">>
        OBVIOUS
      <4>2. Append(<<"cancel">>, "failure") = <<"cancel">> \o <<"failure">>
        <5> DEFINE T == {"cancel", "failure"}
                   one == <<"cancel">>
        <5>1. one \in Seq(T) /\ "failure" \in T
          OBVIOUS
        <5> HIDE DEF T, one
        <5>2. Append(one, "failure") = one \o <<"failure">>
          BY <5>1, AppendIsConcat
        <5>3. QED
          BY <5>2 DEF one
      <4>3. Append(<<"cancel", "failure">>, "success") = <<"cancel", "failure">> \o <<"success">>
        <5> DEFINE T == {"cancel", "failure", "success"}
                   two == <<"cancel", "failure">>
        <5>1. two \in Seq(T) /\ "success" \in T
          OBVIOUS
        <5> HIDE DEF T, two
        <5>2. Append(two, "success") = two \o <<"success">>
          BY <5>1, AppendIsConcat
        <5>3. QED
          BY <5>2 DEF two
      <4>4. QED
        BY <4>1, <4>2, <4>3, OneAndOne, TwoAndOne
    <3>1. device'.result.restored # "expired"
      BY <1>1, <2>1, <2>2
    <3>2. CASE device.next = 1
      <4>1. seen'.tapped = <<"cancel">>
        <5>1. seen'.tapped = Append(seen.tapped, mem.stage)
          BY <1>3
        <5>2. seen.tapped = <<>> /\ mem.stage = "cancel"
          BY <2>2, <3>2
        <5>3. QED
          BY <3>0, <5>1, <5>2
      <4>2. QED
        BY <1>3, <2>2, <3>1, <3>2, <4>1 DEF BillingHits
    <3>3. CASE device.next = 2
      <4>1. seen'.tapped = <<"cancel", "failure">>
        <5>1. seen'.tapped = Append(seen.tapped, mem.stage)
          BY <1>3
        <5>2. seen.tapped = <<"cancel">> /\ mem.stage = "failure"
          BY <2>2, <3>3
        <5>3. QED
          BY <3>0, <5>1, <5>2
      <4>2. QED
        BY <1>3, <2>2, <3>1, <3>3, <4>1 DEF BillingHits
    <3>4. CASE device.next = 3
      <4>1. seen'.tapped = <<"cancel", "failure", "success">>
        <5>1. seen'.tapped = Append(seen.tapped, mem.stage)
          BY <1>3
        <5>2. seen.tapped = <<"cancel", "failure">> /\ mem.stage = "success"
          BY <2>2, <3>4
        <5>3. QED
          BY <3>0, <5>1, <5>2
      <4>2. QED
        BY <1>3, <2>2, <3>1, <3>4, <4>1 DEF BillingHits
    <3>5. QED
      BY <2>2, <3>2, <3>3, <3>4
  <2>4. ~device.ended
    BY <2>2 DEF BillingSoFar
  <2>5. BillingSoFar(3)'
    BY <1>1, <2>4 DEF BillingSoFar, BillingDrives, BillingMemory
  <2>6. QED
    BY <2>3, <2>5
<1>4. QED
  BY <1>2, <1>3 DEF BillingHitsNow

(* The operations of a dialog, one after another.                          *)
LEMMA BillingGoesOnAnswering ==
  ASSUME BillingHits, BillingSoFar(3), BillingAnswering, BillingWorksOn
  PROVE  /\ BillingHits' /\ BillingSoFar(3)'
         /\ \/ todo' = BillingDriving
            \/ mem'.stage \in {"cancel", "failure", "success"} /\
               \/ todo' = BillingFinish(BillingDriving)
               \/ todo' = BillingTap(BillingDriving)
               \/ todo' = BillingLookAgain(BillingDriving)
               \/ todo' = BillingLook(BillingDriving)
               \/ todo' = BillingRecover(BillingDriving)
<1> DEFINE r == BillingDriving
<1>1. r \in Seq(BillingTry) /\ mem.stage \in {"cancel", "failure", "success"}
  BY BillingPlace DEF BillingAnswering
<1> HIDE DEF r
<1>2. \/ Head(todo) = "finish-recording" /\ Tail(todo) = r
      \/ Head(todo) = "tap" /\ Tail(todo) = BillingFinish(r)
      \/ Head(todo) = "look-again" /\ Tail(todo) = BillingTap(r)
      \/ Head(todo) = "look" /\ Tail(todo) = BillingLookAgain(r)
      \/ Head(todo) = "start-recording" /\ Tail(todo) = BillingLook(r)
      \/ Head(todo) = "recover" /\ Tail(todo) = BillingLook(r)
  BY <1>1, BillingRestParts DEF BillingAnswering, r
<1>3. /\ <<>> \o r = r /\ <<>> \o BillingFinish(r) = BillingFinish(r)
      /\ <<>> \o BillingTap(r) = BillingTap(r) /\ <<>> \o BillingLookAgain(r) = BillingLookAgain(r)
      /\ <<>> \o BillingLook(r) = BillingLook(r)
      /\ <<"look", "look-again">> \o BillingTap(r) = BillingLook(r)
      /\ <<"recover", "look">> \o BillingLookAgain(r) = BillingRecover(r)
      /\ <<"recover", "look", "look-again">> \o BillingTap(r) = BillingRecover(r)
  BY <1>1, BillingAreSequences, BillingCalls
<1>4. BillingSame => BillingHits' /\ BillingSoFar(3)'
  BY DEF BillingHits, BillingSoFar, BillingSame, BillingScreen, BillingDrives, BillingMemory
<1>5. CASE BillingPasses
  <2>1. BillingSame /\ mem'.stage = mem.stage /\ (todo' = Tail(todo) \/ todo' = <<>> \o Tail(todo))
        /\ Head(todo) \in BillingPlain
    BY <1>5 DEF BillingPasses
  <2>2. Head(todo) # "tap"
    BY <2>1 DEF BillingPlain
  <2>3. \/ todo' = r
        \/ todo' = BillingTap(r)
        \/ todo' = BillingLookAgain(r)
        \/ todo' = BillingLook(r)
    BY <1>2, <1>3, <2>1, <2>2
  <2>4. QED
    BY <1>1, <1>4, <2>1, <2>3 DEF r
<1>6. CASE BillingCallsMore
  <2>1. /\ BillingSame
        /\ \/ /\ Head(todo) = "look-again" /\ mem'.stage = mem.stage
              /\ todo' = <<"look", "look-again">> \o Tail(todo)
           \/ /\ Head(todo) = "look" /\ mem'.stage = mem.stage
              /\ todo' = <<"recover", "look">> \o Tail(todo)
           \/ /\ Head(todo) = "look-again" /\ mem'.stage = mem.stage
              /\ todo' = <<"recover", "look", "look-again">> \o Tail(todo)
    BY <1>2, <1>6 DEF BillingCallsMore
  <2>2. (todo' = BillingLook(r) \/ todo' = BillingRecover(r)) /\ mem'.stage = mem.stage
    BY <1>2, <1>3, <2>1
  <2>3. QED
    BY <1>1, <1>4, <2>1, <2>2 DEF r
<1>7. CASE BillingHitsNow
  <2>1. BillingHits' /\ BillingSoFar(3)'
    BY <1>1, <1>7, BillingButtons
  <2>2. todo' = BillingFinish(r) /\ mem'.stage = mem.stage
    BY <1>2, <1>3, <1>7 DEF BillingHitsNow
  <2>3. QED
    BY <1>1, <2>1, <2>2 DEF r
<1>8. ~BillingLaunches /\ ~BillingArrives /\ ~BillingDecides
  BY <1>2 DEF BillingLaunches, BillingArrives, BillingDecides
<1>9. QED
  BY <1>5, <1>6, <1>7, <1>8 DEF BillingWorksOn

LEMMA BillingPassingRuns ==
  ASSUME BillingTaps, BillingPassing, mode = "run", Billing!Next
  PROVE  BillingPassing'
<1> DEFINE P == Billing!Program
<1>1. /\ BillingFields /\ BillingHits
      /\ \/ \E d \in 0..25 : todo = After(P, d) /\ BillingSoFar(d)
         \/ BillingAnswering /\ BillingSoFar(3)
  BY DEF BillingPassing
<1>2. /\ P \in Seq(BillingAll) /\ Len(P) = 25
      /\ \A rest \in Seq(BillingAll) : <<>> \o rest = rest
  BY BillingPlace
<1>3. BillingDriving' = BillingDriving /\ \A d \in 0..25 : After(P, d)' = After(P, d)
  BY DEF BillingDriving, After, Billing!Program, Billing!Probe
<1>4. ASSUME mode' = "run", BillingFields', BillingHits',
             \/ \E d \in 0..25 : todo' = After(P, d) /\ BillingSoFar(d)'
             \/ BillingAnswering' /\ BillingSoFar(3)'
      PROVE  BillingPassing'
  BY <1>3, <1>4 DEF BillingPassing, BillingFields
<1>5. ASSUME mode' # "run", BillingLeaves, Billing!Runner,
             mem.passed => BillingWorth /\ (todo = <<>> \/ Head(todo) = "save")
      PROVE  BillingPassing'
  <2>1. BillingFields' /\ mem'.passed = mem.passed
    BY <1>5 DEF BillingLeaves
  <2>2. todo' # <<>>
    <3>1. Len(todo') >= 4
      BY <1>5, BillingWorks
    <3>2. Len(<<>>) = 0
      OBVIOUS
    <3>3. QED
      BY <3>1, <3>2
  <2>3. mem'.passed => BillingWorth'
    BY <1>5, <2>1 DEF BillingLeaves, BillingWorth
  <2>4. QED
    BY <1>5, <2>1, <2>2, <2>3 DEF BillingPassing, BillingFields
<1>6. CASE Billing!Environment
  <2>1. BillingWorld /\ UNCHANGED <<todo, mode, failed, mem, seen>> /\ BillingFields'
    <3>1. device.next \in 1..4
      BY <1>1 DEF BillingHits
    <3>2. QED
      BY <1>1, <1>6, <3>1, BillingWorldGoes DEF BillingWorld
  <2>2. CASE \E d \in 0..25 : todo = After(P, d) /\ BillingSoFar(d)
    <3>1. PICK d \in 0..25 : todo = After(P, d) /\ BillingSoFar(d)
      BY <2>2
    <3>2. BillingHits' /\ BillingSoFar(d)'
      BY <1>1, <2>1, <3>1, BillingStays
    <3>3. QED
      BY <1>4, <2>1, <3>1, <3>2
  <2>3. CASE BillingAnswering /\ BillingSoFar(3)
    <3>1. BillingHits' /\ BillingSoFar(3)'
      BY <1>1, <2>1, <2>3, BillingStays
    <3>2. BillingAnswering'
      BY <1>3, <2>1, <2>3 DEF BillingAnswering, BillingFinish, BillingTap, BillingLookAgain,
         BillingLook, BillingStart, BillingRecover
    <3>3. QED
      BY <1>4, <2>1, <3>1, <3>2
  <2>4. QED
    BY <1>1, <2>2, <2>3
<1>7. CASE Billing!Runner
  <2>0. /\ mode' # "run" => BillingLeaves
        /\ mode' = "run" => BillingWorksOn
    BY <1>1, <1>7, BillingEffects
  <2>1. CASE \E d \in 0..25 : todo = After(P, d) /\ BillingSoFar(d)
    <3>1. PICK d \in 0..25 : todo = After(P, d) /\ BillingSoFar(d)
      BY <2>1
    <3>2. todo = <<>> => d = 25
      BY <1>2, <3>1, ProgramEnds
    <3>3. ASSUME todo # <<>>
          PROVE  /\ d \in 0..24 /\ d + 1 \in 0..25 /\ Head(todo) = P[d + 1]
                 /\ Tail(todo) = After(P, d + 1) /\ <<>> \o Tail(todo) = Tail(todo)
      <4> HIDE DEF P
      <4>1. /\ d + 1 \in 1..Len(P) /\ Head(todo) = P[d + 1]
            /\ Tail(todo) = After(P, d + 1) /\ <<>> \o Tail(todo) = Tail(todo)
        BY <1>2, <3>1, <3>3, ProgramHead
      <4>2. d \in 0..24 /\ d + 1 \in 0..25
        BY <1>2, <4>1
      <4>3. QED
        BY <4>1, <4>2
    <3>4. CASE mode' # "run"
      <4>1. mem.passed => BillingWorth
        <5>1. mem.passed => /\ device.next = 4 /\ seen.customers = {mem.customer}
                            /\ seen.relaunched /\ device.plus = "expired"
          BY <3>1 DEF BillingSoFar
        <5>2. device.next = 4 => seen.tapped = <<"cancel", "failure", "success">>
          BY <1>1 DEF BillingHits
        <5>3. QED
          BY <5>1, <5>2 DEF BillingWorth
      <4>2. mem.passed => todo = <<>> \/ Head(todo) = "save"
        <5>1. mem.passed => d >= 24
          BY <3>1 DEF BillingSoFar
        <5>2. mem.passed /\ todo # <<>> => d + 1 = 25
          BY <3>3, <5>1
        <5>3. P[25] = "save"
          BY BillingOperations
        <5>4. QED
          BY <3>3, <5>2, <5>3
      <4>3. QED
        BY <1>5, <1>7, <2>0, <3>4, <4>1, <4>2
    <3>5. CASE mode' = "run"
      <4>1. BillingWorksOn /\ todo # <<>> /\ BillingFields'
        BY <2>0, <3>5 DEF BillingWorksOn
      <4>2. /\ d \in 0..24 /\ d + 1 \in 0..25 /\ Head(todo) = P[d + 1]
            /\ Tail(todo) = After(P, d + 1) /\ <<>> \o Tail(todo) = Tail(todo)
        BY <3>3, <4>1
      <4>3. /\ P[d + 1] = "drive" <=> d + 1 \in {4, 12, 20}
            /\ P[d + 1] = "probed" <=> d + 1 = 23
            /\ P[d + 1] \in BillingAll
        <5>1. d + 1 \in 1..25
          BY <4>2
        <5>2. QED
          BY <5>1, BillingWhere
      <4>4. CASE BillingPasses \/ BillingLaunches \/ BillingArrives \/ BillingDecides
        <5>1. BillingHits' /\ BillingSoFar(d + 1)'
          BY <1>1, <3>1, <4>1, <4>2, <4>4, BillingGoesOn
        <5>2. todo' = After(P, d + 1)
          BY <4>2, <4>4 DEF BillingPasses, BillingLaunches, BillingArrives, BillingDecides
        <5>3. QED
          BY <1>4, <3>5, <4>1, <4>2, <5>1, <5>2
      <4>5. CASE BillingCallsMore
        <5>1. BillingSame
          BY <4>5 DEF BillingCallsMore
        <5>2. BillingHits'
          BY <1>1, <5>1 DEF BillingHits, BillingSame, BillingScreen
        <5>3. Head(todo) \notin {"look", "look-again"}
          BY <4>2, <4>3 DEF BillingAll, BillingTry
        <5>4. CASE Head(todo) = "probed" /\ todo' = Billing!Probe \o Tail(todo)
          <6>1. d = 22 /\ d + 1 = 23
            BY <4>2, <4>3, <5>4
          <6>2. todo' = After(P, 18)
            BY <4>2, <5>4, <6>1, BillingLoops
          <6>3. BillingSoFar(18)'
            BY <3>1, <5>1, <6>1 DEF BillingSoFar, BillingSame, BillingScreen, BillingDrives,
               BillingMemory
          <6>4. QED
            BY <1>4, <3>5, <4>1, <5>2, <6>2, <6>3
        <5>5. CASE /\ Head(todo) = "drive" /\ mem.journey = "matrix"
                   /\ mem'.stage \in {"cancel", "failure", "success"}
                   /\ todo' = (Billing!PerformSteps \o <<"drive">>) \o Tail(todo)
          <6>1. d = 3 \/ d = 11 \/ d = 19
            BY <4>2, <4>3, <5>5
          <6>2. d = 3
            BY <3>1, <5>5, <6>1 DEF BillingSoFar
          <6>3. todo' = BillingStart(BillingDriving)
            <7>1. d + 1 = 4
              BY <6>2
            <7>2. Tail(todo) = After(P, 4)
              BY <4>2, <7>1
            <7>3. QED
              BY <5>5, <7>2, BillingLoops
          <6>4. BillingSoFar(3)'
            BY <3>1, <5>1, <6>2 DEF BillingSoFar, BillingSame, BillingScreen, BillingDrives,
               BillingMemory
          <6>5. BillingAnswering'
            BY <1>3, <5>5, <6>3 DEF BillingAnswering, BillingFinish, BillingTap, BillingLookAgain,
               BillingLook, BillingStart, BillingRecover
          <6>6. QED
            BY <1>4, <3>5, <4>1, <5>2, <6>4, <6>5
        <5>6. QED
          BY <4>5, <5>3, <5>4, <5>5 DEF BillingCallsMore
      <4>6. ~BillingHitsNow
        BY <4>2, <4>3 DEF BillingHitsNow, BillingAll, BillingTry
      <4>7. QED
        BY <4>1, <4>4, <4>5, <4>6 DEF BillingWorksOn
    <3>6. QED
      BY <3>4, <3>5
  <2>2. CASE BillingAnswering /\ BillingSoFar(3)
    <3>1. CASE mode' # "run"
      <4>1. ~mem.passed
        BY <2>2 DEF BillingSoFar
      <4>2. QED
        BY <1>5, <1>7, <2>0, <3>1, <4>1
    <3>2. CASE mode' = "run"
      <4>1. BillingWorksOn /\ BillingFields'
        BY <2>0, <3>2 DEF BillingWorksOn
      <4>2. /\ BillingHits' /\ BillingSoFar(3)'
            /\ \/ todo' = BillingDriving
               \/ mem'.stage \in {"cancel", "failure", "success"} /\
                  \/ todo' = BillingFinish(BillingDriving)
                  \/ todo' = BillingTap(BillingDriving)
                  \/ todo' = BillingLookAgain(BillingDriving)
                  \/ todo' = BillingLook(BillingDriving)
                  \/ todo' = BillingRecover(BillingDriving)
        BY <1>1, <2>2, <4>1, BillingGoesOnAnswering
      <4>3. todo' = After(P, 3) \/ BillingAnswering'
        BY <1>3, <4>2 DEF BillingDriving, BillingAnswering, BillingFinish, BillingTap,
           BillingLookAgain, BillingLook, BillingStart, BillingRecover
      <4>4. QED
        BY <1>4, <3>2, <4>1, <4>2, <4>3
    <3>3. QED
      BY <3>1, <3>2
  <2>3. QED
    BY <1>1, <2>1, <2>2
<1>8. QED
  BY <1>6, <1>7 DEF Billing!Next

LEMMA BillingPassingCleans ==
  ASSUME BillingTaps, BillingPassing, mode # "run", Billing!Next
  PROVE  BillingPassing'
<1>1. /\ BillingDomains /\ (mem.passed => BillingWorth)
      /\ todo = <<>> /\ mem.passed /\ "save-verdict" \notin failed => device.report = "passed"
  BY DEF BillingPassing
<1>2. ASSUME DOMAIN device' = DOMAIN device, DOMAIN mem' = DOMAIN mem, seen' = seen, mode' # "run",
             device'.plus = device.plus, mem'.passed => mem.passed,
             todo' = <<>> /\ mem'.passed /\ "save-verdict" \notin failed' => device'.report = "passed"
      PROVE  BillingPassing'
  BY <1>1, <1>2 DEF BillingPassing, BillingDomains, BillingWorth
<1>3. CASE Billing!Environment
  <2>1. Billing!StoreDialog \/ Billing!JourneyEnds
    BY <1>3 DEF Billing!Environment, Billing!Expire, Billing!SystemAnr, Billing!AppMisbehaves,
       Billing!TimePasses, Billing!Running
  <2>2. UNCHANGED <<todo, mode, failed, mem, seen>>
    BY <2>1 DEF Billing!StoreDialog, Billing!JourneyEnds, Billing!Goes, Billing!control
  <2>3. DOMAIN device' = DOMAIN device /\ device'.plus = device.plus /\ device'.report = device.report
    <3>1. CASE Billing!StoreDialog
      <4>1. \E stage, markers : device' = [device EXCEPT !.dialog = stage, !.markers = markers]
        BY <3>1, Zenon DEF Billing!StoreDialog
      <4>2. QED
        BY <1>1, <4>1 DEF BillingDomains
    <3>2. CASE Billing!JourneyEnds
      <4>1. \/ \E result : device' = [device EXCEPT !.drive = "ok", !.ended = TRUE, !.result = result]
            \/ device' = [device EXCEPT !.drive = "bad", !.ended = TRUE]
        BY <3>2, Zenon DEF Billing!JourneyEnds
      <4>2. QED
        BY <1>1, <4>1 DEF BillingDomains
    <3>3. QED
      BY <2>1, <3>1, <3>2
  <2>4. QED
    BY <1>1, <1>2, <2>2, <2>3
<1>4. CASE Billing!Runner
  <2>1. mode = "cleanup"
    BY <1>4, BillingDone DEF BillingTaps
  <2>2. \/ /\ mode' = "done" /\ todo = <<>> /\ todo' = <<>>
           /\ UNCHANGED <<device, mem, failed>>
        \/ /\ mode' = "cleanup" /\ todo # <<>>
           /\ \/ Billing!FinishRecording \/ Billing!StopDrive \/ Billing!StopAgain
              \/ Billing!RemoveRemote \/ Billing!SaveVerdict
           /\ failed \subseteq failed' /\ Len(todo') = Len(todo) - 1
    BY <1>4, <2>1, BillingCleaningControl
  <2>3. seen' = seen
    <3>1. CASE mode' = "done"
      BY <1>4, <2>1, <3>1 DEF Billing!Runner,
         Billing!Verify, Billing!Save, Billing!Launch, Billing!Perform, Billing!DriveEnds,
         Billing!DriveFails, Billing!Probed, Billing!Verdict, Billing!Check, Billing!Fails,
         Billing!ThePid, Billing!ForceStop, Billing!StartRecording, Billing!Look, Billing!LookFails,
         Billing!Recover, Billing!Close, Billing!LookTimesOut, Billing!Tap, Billing!FinishRecording,
         Billing!StopDrive, Billing!StopAgain, Billing!RemoveRemote, Billing!SaveVerdict,
         Billing!EnterFinally, Billing!Report, Billing!Unchanged, Billing!Looking, Billing!Marker,
         Billing!Now, Billing!Running, Billing!Require, Billing!ReturnOrFail, Billing!Return,
         Billing!Call, Billing!Raise
    <3>2. CASE mode' # "done"
      BY <2>2, <3>2 DEF Billing!FinishRecording, Billing!StopDrive, Billing!StopAgain,
         Billing!RemoveRemote, Billing!SaveVerdict
    <3>3. QED
      BY <3>1, <3>2
  <2>4. CASE mode' = "done"
    BY <1>1, <1>2, <2>2, <2>3, <2>4
  <2>5. CASE mode' # "done"
    <3>1. /\ mode' = "cleanup" /\ todo # <<>> /\ Len(todo') = Len(todo) - 1
          /\ \/ Billing!FinishRecording \/ Billing!StopDrive \/ Billing!StopAgain
             \/ Billing!RemoveRemote \/ Billing!SaveVerdict
      BY <2>2, <2>5
    <3>2. Head(todo) # "save-verdict" => todo' # <<>>
      <4>1. Head(todo) # "save-verdict" => Len(todo) >= 2 /\ Len(todo) \in 1..5
        BY <3>1, BillingPlaces DEF BillingTaps
      <4>2. Head(todo) # "save-verdict" => Len(todo') # 0
        BY <3>1, <4>1
      <4>3. QED
        BY <4>2
    <3>3. CASE Billing!SaveVerdict
      <4>1. /\ mem' = mem
            /\ \/ device' = [device EXCEPT !.report = IF mem.passed THEN "passed" ELSE "failed"]
               \/ device' = device /\ "save-verdict" \in failed'
        BY <3>3 DEF Billing!SaveVerdict, Billing!Raise, Billing!Now
      <4>2. /\ DOMAIN device' = DOMAIN device /\ device'.plus = device.plus
            /\ mem.passed /\ "save-verdict" \notin failed' => device'.report = "passed"
        BY <1>1, <4>1 DEF BillingDomains
      <4>3. QED
        BY <1>2, <2>3, <3>1, <4>1, <4>2
    <3>4. CASE Billing!FinishRecording \/ Billing!StopDrive \/ Billing!StopAgain \/ Billing!RemoveRemote
      <4>1. /\ Head(todo) # "save-verdict"
            /\ \/ device' = device
               \/ \E owned : device' = [device EXCEPT !.owned = owned]
               \/ device' = [device EXCEPT !.drive = "off", !.dialog = "none"]
               \/ \E pids : device' = [device EXCEPT !.pids = pids]
            /\ mem' = mem \/ mem' = [mem EXCEPT !.passed = FALSE]
        BY <3>4 DEF Billing!FinishRecording, Billing!StopDrive, Billing!StopAgain,
           Billing!RemoveRemote, Billing!Drop, Billing!Now
      <4>2. /\ DOMAIN device' = DOMAIN device /\ device'.plus = device.plus
            /\ DOMAIN mem' = DOMAIN mem /\ (mem'.passed => mem.passed)
        BY <1>1, <4>1 DEF BillingDomains
      <4>3. QED
        BY <1>2, <2>3, <3>1, <3>2, <4>1, <4>2
    <3>5. QED
      BY <3>1, <3>3, <3>4
  <2>6. QED
    BY <2>4, <2>5
<1>5. QED
  BY <1>3, <1>4 DEF Billing!Next

LEMMA BillingPassingInit ==
  ASSUME Billing!Init
  PROVE  BillingPassing
<1>1. todo = Billing!Program /\ mode = "run"
  BY DEF Billing!Init, Billing!Start
<1>2. BillingFields /\ BillingHits
  <2>1. <<>> \in Seq({"cancel", "failure", "success"})
    OBVIOUS
  <2>2. QED
    BY <2>1 DEF Billing!Init, BillingFields, BillingDomains, BillingHits
<1>3. BillingSoFar(0)
  BY DEF Billing!Init, BillingSoFar
<1>4. After(Billing!Program, 0) = Billing!Program /\ 0 \in 0..25
  BY BillingPlace, AfterNone
<1>5. QED
  BY <1>1, <1>2, <1>3, <1>4 DEF BillingPassing, BillingFields

LEMMA BillingPassingEarned ==
  ASSUME BillingTaps, BillingPassing, Billing!Succeeds
  PROVE  Billing!Earned
<1>1. mode = "done" /\ todo = <<>> /\ mem.passed /\ "save-verdict" \notin failed
  BY DEF Billing!Succeeds, Billing!Done, BillingTaps
<1>2. BillingWorth /\ device.report = "passed"
  BY <1>1 DEF BillingPassing
<1>3. PICK customer : seen.customers = {customer}
  BY <1>2 DEF BillingWorth
<1>4. Cardinality(seen.customers) = 1
  BY <1>3, FS_Singleton
<1>5. Billing!Cardinality(seen.customers) = Cardinality(seen.customers)
  BY DEF Billing!Cardinality, Cardinality
<1>6. QED
  BY <1>2, <1>4, <1>5 DEF BillingWorth, Billing!Earned, Billing!STAGES

-----------------------------------------------------------------------------
(* The verdicts of all the tools.                                          *)

(* Only a signal ends the clean-up before everything in it was called.     *)
NetworkEnds == mode = "done" => todo = <<>> \/ errors

(* What each of them knows until it has come to its verdict, and what has  *)
(* been seen by then if none of its operations raised.                     *)
ToolPassing ==
  /\ tool = "network" => NetworkPassing /\ NetworkEnds
  /\ tool = "recording" => RecordingPassing
  /\ tool = "installation" => InstallationPassing
  /\ tool = "observer" => ObserverPassing
  /\ tool = "lifecycle" => LifecyclePassing
  /\ tool = "fullscreen" => FullscreenPassing
  /\ tool = "together focus" => TogetherPassing
  /\ tool = "interruption" => InterruptionPassing
  /\ tool = "billing" => BillingPassing

LEMMA NetworkEndsStep ==
  ASSUME NetworkEnds, Network!Next
  PROVE  NetworkEnds'
<1>1. CASE Network!Report
  BY <1>1 DEF NetworkEnds, Network!Report
<1>2. CASE Network!Signal
  BY <1>2 DEF NetworkEnds, Network!Signal, Network!Raise
<1>3. CASE Network!Environment /\ ~Network!Signal
  <2>1. UNCHANGED <<todo, mode, errors>>
    BY <1>3 DEF Network!Environment, Network!AppCheckpoint, Network!AppRestarts,
       Network!DriverExits, Network!SetupAnr, Network!RadioReturns, Network!FixtureServe,
       Network!control
  <2>2. QED
    BY <2>1 DEF NetworkEnds
<1>4. CASE Network!Runner /\ ~Network!Report
  <2>1. mode' # "done"
    BY <1>4 DEF Network!Runner, Network!CaptureInitial, Network!Prepare,
       Network!StartProcesses, Network!ObserveCheckpoint, Network!LoopEnds, Network!Validate,
       Network!Capture, Network!ConfirmAnr, Network!TapAnr, Network!FinalEvidence,
       Network!Disable, Network!RestoreWifiFirst, Network!Restore, Network!RequireOff,
       Network!StartRecording, Network!FinishRecording, Network!Ack, Network!ProveBytes,
       Network!ProveAgain, Network!ReleaseCap, Network!StopDriver, Network!StopLogcat,
       Network!RemoveObserver, Network!StopTestApp, Network!RemoveAcks,
       Network!RemoveEvidence, Network!Fails, Network!EnterFinally, Network!Require,
       Network!ReturnOrFail, Network!Return, Network!ReturnUnheeded, Network!Call,
       Network!Raise, Network!Proceed, Network!Running, Network!Now
  <2>2. QED
    BY <2>1 DEF NetworkEnds
<1>5. QED
  BY <1>1, <1>2, <1>3, <1>4 DEF Network!Next

(* An operation that raised ends the program without a pass; one that did  *)
(* not takes it one step further.                                          *)
LEMMA NetworkPassingStep ==
  ASSUME NetworkUndone, NetworkPassing, Network!Next
  PROVE  NetworkPassing'
<1>1. CASE mode # "run"
  BY <1>1, NetworkPassingCleans
<1>2. CASE mode = "run" /\ errors' = FALSE
  BY <1>2, NetworkPassingRuns
<1>3. CASE mode = "run" /\ errors' # FALSE
  <2>1. errors = FALSE
    BY <1>3 DEF NetworkPassing
  <2>2. mode' # "run" /\ errors' = TRUE
    BY <1>3, <2>1, NetworkRaises
  <2>3. QED
    BY <2>2 DEF NetworkPassing
<1>4. QED
  BY <1>1, <1>2, <1>3

LEMMA RecordingPassingStep ==
  ASSUME RecordingUndone, RecordingPassing, Recording!Next
  PROVE  RecordingPassing'
<1>1. CASE mode # "run"
  BY <1>1, RecordingPassingCleans
<1>2. CASE mode = "run" /\ errors' = FALSE
  BY <1>2, RecordingPassingRuns
<1>3. CASE mode = "run" /\ errors' # FALSE
  <2>1. errors = FALSE
    BY <1>3 DEF RecordingPassing
  <2>2. mode' # "run" /\ errors' = TRUE
    BY <1>3, <2>1, RecordingRaises
  <2>3. QED
    BY <2>2 DEF RecordingPassing
<1>4. QED
  BY <1>1, <1>2, <1>3

LEMMA InstallationPassingStep ==
  ASSUME InstallationTaps, InstallationPassing, Installation!Next
  PROVE  InstallationPassing'
<1>1. CASE mode # "run"
  BY <1>1, InstallationPassingCleans
<1>2. CASE mode = "run" /\ errors' = FALSE
  BY <1>2, InstallationPassingRuns
<1>3. CASE mode = "run" /\ errors' # FALSE
  <2>1. errors = FALSE
    BY <1>3 DEF InstallationPassing
  <2>2. mode' # "run" /\ errors' = TRUE
    BY <1>3, <2>1, InstallationRaises
  <2>3. QED
    BY <2>2 DEF InstallationPassing
<1>4. QED
  BY <1>1, <1>2, <1>3

LEMMA ObserverPassingStep ==
  ASSUME ObserverKnows, ObserverUndone, ObserverPassing, Observer!Next
  PROVE  ObserverPassing'
<1>1. CASE mode # "run"
  BY <1>1, ObserverPassingCleans
<1>2. CASE mode = "run" /\ errors' = FALSE
  BY <1>2, ObserverPassingRuns
<1>3. CASE mode = "run" /\ errors' # FALSE
  <2>1. errors = FALSE
    BY <1>3 DEF ObserverPassing
  <2>2. mode' # "run" /\ errors' = TRUE
    BY <1>3, <2>1, ObserverRaises
  <2>3. QED
    BY <2>2 DEF ObserverPassing
<1>4. QED
  BY <1>1, <1>2, <1>3

LEMMA LifecyclePassingStep ==
  ASSUME LifecycleTaps, LifecyclePassing, Lifecycle!Next
  PROVE  LifecyclePassing'
<1>1. CASE mode # "run"
  BY <1>1, LifecyclePassingCleans
<1>2. CASE mode = "run" /\ errors' = FALSE
  BY <1>2, LifecyclePassingRuns
<1>3. CASE mode = "run" /\ errors' # FALSE
  <2>1. errors = FALSE
    BY <1>3 DEF LifecyclePassing
  <2>2. mode' # "run" /\ errors' = TRUE
    BY <1>3, <2>1, LifecycleRaises
  <2>3. QED
    BY <2>2 DEF LifecyclePassing
<1>4. QED
  BY <1>1, <1>2, <1>3

LEMMA FullscreenPassingStep ==
  ASSUME FullscreenUndone, FullscreenPassing, Fullscreen!Next
  PROVE  FullscreenPassing'
<1>1. CASE mode # "run"
  BY <1>1, FullscreenPassingCleans
<1>2. CASE mode = "run" /\ errors' = FALSE
  BY <1>2, FullscreenPassingRuns
<1>3. CASE mode = "run" /\ errors' # FALSE
  <2>1. errors = FALSE
    BY <1>3 DEF FullscreenPassing
  <2>2. mode' # "run" /\ errors' = TRUE
    BY <1>3, <2>1, FullscreenRaises
  <2>3. QED
    BY <2>2 DEF FullscreenPassing
<1>4. QED
  BY <1>1, <1>2, <1>3

LEMMA TogetherPassingStep ==
  ASSUME TogetherUndone, TogetherPassing, TogetherFocus!Next
  PROVE  TogetherPassing'
<1>1. CASE TogetherFocus!Handler \/ TogetherFocus!Environment
  BY <1>1, TogetherBeside
<1>2. CASE mode = "run" /\ TogetherFocus!Runner
  BY <1>2, TogetherPassingRuns
<1>3. CASE mode # "run" /\ TogetherFocus!Runner
  BY <1>3, TogetherPassingCleans
<1>4. QED
  BY <1>1, <1>2, <1>3 DEF TogetherFocus!Next

LEMMA InterruptionPassingStep ==
  ASSUME InterruptionUndone, InterruptionPassing, Interruption!Next
  PROVE  InterruptionPassing'
<1>1. CASE mode # "run"
  BY <1>1, InterruptionPassingCleans
<1>2. CASE mode = "run" /\ errors' = FALSE
  BY <1>2, InterruptionPassingRuns
<1>3. CASE mode = "run" /\ errors' # FALSE
  <2>1. errors = FALSE
    BY <1>3 DEF InterruptionPassing
  <2>2. mode' # "run" /\ errors' = TRUE
    BY <1>3, <2>1, InterruptionRaises
  <2>3. QED
    BY <2>2 DEF InterruptionPassing
<1>4. QED
  BY <1>1, <1>2, <1>3

LEMMA BillingPassingStep ==
  ASSUME BillingTaps, BillingPassing, Billing!Next
  PROVE  BillingPassing'
BY BillingPassingRuns, BillingPassingCleans

LEMMA ToolPassingInit ==
  ASSUME ToolInit
  PROVE  ToolPassing
<1>1. CASE tool = "network" /\ Network!Init
  <2>1. mode = "run"
    BY <1>1 DEF Network!Init, Network!Start
  <2>2. QED
    BY <1>1, <2>1, NetworkPassingInit DEF ToolPassing, NetworkEnds
<1>2. CASE tool = "recording" /\ Recording!Init
  BY <1>2, RecordingPassingInit DEF ToolPassing
<1>3. CASE tool = "installation" /\ Installation!Init
  BY <1>3, InstallationPassingInit DEF ToolPassing
<1>4. CASE tool = "observer" /\ Observer!Init
  BY <1>4, ObserverPassingInit DEF ToolPassing
<1>5. CASE tool = "lifecycle" /\ Lifecycle!Init
  BY <1>5, LifecyclePassingInit DEF ToolPassing
<1>6. CASE tool = "fullscreen" /\ Fullscreen!Init
  BY <1>6, FullscreenPassingInit DEF ToolPassing
<1>7. CASE tool = "together focus" /\ TogetherFocus!Init
  BY <1>7, TogetherPassingInit DEF ToolPassing
<1>8. CASE tool = "interruption" /\ Interruption!Init
  BY <1>8, InterruptionPassingInit DEF ToolPassing
<1>9. CASE tool = "billing" /\ Billing!Init
  BY <1>9, BillingPassingInit DEF ToolPassing
<1>10. QED
  BY <1>1, <1>2, <1>3, <1>4, <1>5, <1>6, <1>7, <1>8, <1>9 DEF ToolInit

LEMMA ToolPassingStep ==
  ASSUME ToolInvariant, ToolPassing, ToolNext
  PROVE  ToolPassing'
<1>1. tool' = tool
  BY DEF ToolNext
<1>2. CASE tool = "network" /\ Network!Next
  BY <1>1, <1>2, NetworkPassingStep, NetworkEndsStep DEF ToolInvariant, ToolPassing
<1>3. CASE tool = "recording" /\ Recording!Next
  BY <1>1, <1>3, RecordingPassingStep DEF ToolInvariant, ToolPassing
<1>4. CASE tool = "installation" /\ Installation!Next
  BY <1>1, <1>4, InstallationPassingStep DEF ToolInvariant, ToolPassing
<1>5. CASE tool = "observer" /\ Observer!Next
  BY <1>1, <1>5, ObserverPassingStep DEF ToolInvariant, ToolPassing
<1>6. CASE tool = "lifecycle" /\ Lifecycle!Next
  BY <1>1, <1>6, LifecyclePassingStep DEF ToolInvariant, ToolPassing
<1>7. CASE tool = "fullscreen" /\ Fullscreen!Next
  BY <1>1, <1>7, FullscreenPassingStep DEF ToolInvariant, ToolPassing
<1>8. CASE tool = "together focus" /\ TogetherFocus!Next
  BY <1>1, <1>8, TogetherPassingStep DEF ToolInvariant, ToolPassing
<1>9. CASE tool = "interruption" /\ Interruption!Next
  BY <1>1, <1>9, InterruptionPassingStep DEF ToolInvariant, ToolPassing
<1>10. CASE tool = "billing" /\ Billing!Next
  BY <1>1, <1>10, BillingPassingStep DEF ToolInvariant, ToolPassing
<1>11. QED
  BY <1>2, <1>3, <1>4, <1>5, <1>6, <1>7, <1>8, <1>9, <1>10 DEF ToolNext

(* What nobody touches stays as it is.                                     *)
LEMMA NetworkPassingStutters ==
  ASSUME NetworkPassing, UNCHANGED vars
  PROVE  NetworkPassing'
<1>1. UNCHANGED <<todo, mode, errors, device, mem, seen>>
  BY DEF vars
<1>2. (Network!Phases)' = Network!Phases /\ NetworkWhole' = NetworkWhole
  BY <1>1 DEF NetworkWhole, Network!Phases, Network!Handler
<1>3. /\ NetworkFields <=> NetworkFields'
      /\ Astray <=> Astray'
      /\ Decoder <=> Decoder'
      /\ LastOffline = LastOffline'
  BY <1>1 DEF NetworkFields, Astray, Decoder, LastOffline
<1>4. NetworkPlaced => NetworkPlaced'
  BY <1>1, <1>2 DEF NetworkPlaced, NetworkCall, Undoing, Rest
<1>5. NetworkProcess => NetworkProcess'
  BY <1>1, <1>2, <1>3 DEF NetworkProcess
<1>6. NetworkQueued => NetworkQueued'
  BY <1>1, <1>2, <1>3 DEF NetworkQueued
<1>7. NetworkCaught => NetworkCaught'
  BY <1>1, <1>3 DEF NetworkCaught, Network!Radios
<1>8. NetworkBytes => NetworkBytes'
  BY <1>1, <1>3 DEF NetworkBytes
<1>9. NetworkSound => NetworkSound'
  BY <1>1, <1>3, <1>4, <1>5, <1>6, <1>7, <1>8 DEF NetworkSound
<1>10. QED
  BY <1>1, <1>2, <1>3, <1>9 DEF NetworkPassing

LEMMA InstallationPassingStutters ==
  ASSUME InstallationPassing, UNCHANGED vars
  PROVE  InstallationPassing'
<1>1. UNCHANGED <<todo, mode, errors, device, mem, seen>>
  BY DEF vars
<1>2. /\ InstallationFields => InstallationFields'
      /\ InstallationProcesses => InstallationProcesses'
      /\ Installation!Earned => (Installation!Earned)'
  BY <1>1 DEF InstallationFields, InstallationProcesses, Installation!Earned
<1>3. \A d \in 0..12 : InstallationSoFar(d) => InstallationSoFar(d)'
  BY <1>1 DEF InstallationSoFar
<1>4. QED
  BY <1>1, <1>2, <1>3 DEF InstallationPassing

LEMMA LifecyclePassingStutters ==
  ASSUME LifecyclePassing, UNCHANGED vars
  PROVE  LifecyclePassing'
<1>1. UNCHANGED <<todo, mode, errors, device, mem, seen>>
  BY DEF vars
<1>2. /\ LifecycleFields => LifecycleFields'
      /\ Lifecycle!Earned => (Lifecycle!Earned)'
  BY <1>1 DEF LifecycleFields, Lifecycle!Earned
<1>3. \A d \in 0..45 : LifecycleSoFar(d) => LifecycleSoFar(d)'
  BY <1>1 DEF LifecycleSoFar, LifecycleProcesses, LifecyclePlayed
<1>4. QED
  BY <1>1, <1>2, <1>3 DEF LifecyclePassing

LEMMA FullscreenPassingStutters ==
  ASSUME FullscreenPassing, UNCHANGED vars
  PROVE  FullscreenPassing'
<1>1. UNCHANGED <<todo, mode, errors, device, mem, seen>>
  BY DEF vars
<1>2. /\ FullscreenFields => FullscreenFields'
      /\ Fullscreen!Earned => (Fullscreen!Earned)'
  BY <1>1 DEF FullscreenFields, Fullscreen!Earned
<1>3. \A d \in 0..46 : FullscreenSoFar(d) => FullscreenSoFar(d)'
  BY <1>1 DEF FullscreenSoFar
<1>4. QED
  BY <1>1, <1>2, <1>3 DEF FullscreenPassing

LEMMA InterruptionPassingStutters ==
  ASSUME InterruptionPassing, UNCHANGED vars
  PROVE  InterruptionPassing'
<1>1. UNCHANGED <<todo, mode, errors, device, mem, seen>>
  BY DEF vars
<1>2. /\ InterruptionFields => InterruptionFields'
      /\ Interruption!Earned => (Interruption!Earned)'
  BY <1>1 DEF InterruptionFields, Interruption!Earned
<1>3. \A d \in 0..54 : InterruptionSoFar(d) => InterruptionSoFar(d)'
  BY <1>1 DEF InterruptionSoFar
<1>4. QED
  BY <1>1, <1>2, <1>3 DEF InterruptionPassing

LEMMA BillingPassingStutters ==
  ASSUME BillingPassing, UNCHANGED vars
  PROVE  BillingPassing'
<1>1. UNCHANGED <<todo, mode, failed, device, mem, seen>>
  BY DEF vars
<1>2. /\ BillingDomains => BillingDomains'
      /\ BillingFields => BillingFields'
      /\ BillingHits => BillingHits'
      /\ BillingAnswering => BillingAnswering'
      /\ BillingWorth => BillingWorth'
  BY <1>1 DEF BillingDomains, BillingFields, BillingHits, BillingAnswering, BillingWorth
<1>3. \A d \in 0..25 : BillingSoFar(d) => BillingSoFar(d)'
  BY <1>1 DEF BillingSoFar
<1>4. CASE mode = "run"
  <2>1. CASE BillingAnswering /\ BillingSoFar(3)
    BY <1>1, <1>2, <1>3, <1>4, <2>1 DEF BillingPassing
  <2>2. ASSUME NEW d \in 0..25, todo = After(Billing!Program, d), BillingSoFar(d)
        PROVE  BillingPassing'
    BY <1>1, <1>2, <1>3, <1>4, <2>2 DEF BillingPassing
  <2>3. QED
    BY <1>4, <2>1, <2>2 DEF BillingPassing
<1>5. CASE mode # "run"
  BY <1>1, <1>2, <1>5 DEF BillingPassing
<1>6. QED
  BY <1>4, <1>5

LEMMA ToolPassingStutters ==
  ASSUME ToolPassing, UNCHANGED <<vars, tool>>
  PROVE  ToolPassing'
<1>1. /\ todo' = todo /\ mode' = mode /\ failed' = failed /\ errors' = errors
      /\ device' = device /\ mem' = mem /\ seen' = seen /\ tool' = tool
  BY DEF vars
<1>2. /\ NetworkPassing => NetworkPassing'
      /\ NetworkEnds => NetworkEnds'
  BY <1>1, NetworkPassingStutters DEF NetworkEnds
<1>3. RecordingPassing => RecordingPassing'
  BY <1>1 DEF RecordingPassing, RecordingFields, RecordingClocks, RecordingOps,
     RecordingBegins, RecordingStops, After, Recording!Earned
<1>4. InstallationPassing => InstallationPassing'
  BY InstallationPassingStutters
<1>5. ObserverPassing => ObserverPassing'
  BY <1>1 DEF ObserverPassing, ObserverFields, ObserverClocks, ObserverSoFar, ObserverTrees,
     Observer!Earned
<1>6. LifecyclePassing => LifecyclePassing'
  BY LifecyclePassingStutters
<1>7. FullscreenPassing => FullscreenPassing'
  BY FullscreenPassingStutters
<1>8. TogetherPassing => TogetherPassing'
  BY <1>1 DEF TogetherPassing, TogetherTypes, TogetherStages, TogetherAt, TogetherWithin,
     TogetherCounts, TogetherSoFar, After
<1>9. InterruptionPassing => InterruptionPassing'
  BY InterruptionPassingStutters
<1>10. BillingPassing => BillingPassing'
  BY BillingPassingStutters
<1>11. QED
  BY <1>1, <1>2, <1>3, <1>4, <1>5, <1>6, <1>7, <1>8, <1>9, <1>10 DEF ToolPassing

LEMMA NetworkPassingEarned ==
  ASSUME NetworkEnds, NetworkPassing, Passed
  PROVE  Network!Earned
<1>1. todo = <<>> /\ mode # "run" /\ ~errors
  BY DEF NetworkEnds, Passed, Done
<1>2. Len(todo) = 0
  BY <1>1
<1>3. QED
  BY <1>1, <1>2 DEF NetworkPassing, Network!Earned, Decoder

LEMMA ToolInvariantStep ==
  ASSUME ToolInvariant, ToolPassing, ToolNext
  PROVE  ToolInvariant'
<1>1. tool' = tool
  BY DEF ToolNext
<1>2. CASE tool = "network" /\ Network!Next
  BY <1>1, <1>2, NetworkUndoneStep DEF ToolInvariant
<1>3. CASE tool = "recording" /\ Recording!Next
  BY <1>1, <1>3, RecordingUndoneStep DEF ToolInvariant
<1>4. CASE tool = "installation" /\ Installation!Next
  BY <1>1, <1>4, InstallationTapsStep, InstallationUndoneStep, InstallationAuthorizedStep
     DEF ToolInvariant
<1>5. CASE tool = "observer" /\ Observer!Next
  BY <1>1, <1>5, ObserverUndoneStep DEF ToolInvariant
<1>6. CASE tool = "lifecycle" /\ Lifecycle!Next
  <2>1. mode = "run" => LifecycleAdmits
    BY <1>6, LifecyclePassingAdmits DEF ToolPassing
  <2>2. QED
    BY <1>1, <1>6, <2>1, LifecycleTapsStep, LifecycleUndoneStep DEF ToolInvariant
<1>7. CASE tool = "fullscreen" /\ Fullscreen!Next
  <2>1. mode = "run" => FullscreenAdmits
    BY <1>7, FullscreenPassingAdmits DEF ToolPassing
  <2>2. QED
    BY <1>1, <1>7, <2>1, FullscreenTapsStep, FullscreenUndoneStep DEF ToolInvariant
<1>8. CASE tool = "together focus" /\ TogetherFocus!Next
  BY <1>1, <1>8, TogetherUndoneStep DEF ToolInvariant
<1>9. CASE tool = "interruption" /\ Interruption!Next
  <2>1. mode = "run" => InterruptionAdmits
    BY <1>9, InterruptionPassingAdmits DEF ToolPassing
  <2>2. QED
    BY <1>1, <1>9, <2>1, InterruptionUndoneStep DEF ToolInvariant
<1>10. CASE tool = "billing" /\ Billing!Next
  BY <1>1, <1>10, BillingTapsStep, BillingUndoneStep DEF ToolInvariant
<1>11. QED
  BY <1>2, <1>3, <1>4, <1>5, <1>6, <1>7, <1>8, <1>9, <1>10 DEF ToolNext

(* The two hold together: that the app is started on an admitted device    *)
(* is known from what a pass has seen, and that nothing else was touched   *)
(* from what is to be undone.                                              *)
LEMMA ToolInvariantHolds == ToolsSpec => [](ToolInvariant /\ ToolPassing)
<1>1. ToolInit => ToolInvariant /\ ToolPassing
  BY ToolInvariantInit, ToolPassingInit
<1>2. ToolInvariant /\ ToolPassing /\ [ToolNext]_<<vars, tool>> => (ToolInvariant /\ ToolPassing)'
  BY ToolInvariantStep, ToolInvariantStutters, ToolPassingStep, ToolPassingStutters
<1>3. QED
  BY <1>1, <1>2, PTL DEF ToolsSpec

(* A dialog of the system is tapped away no more often than the tool       *)
(* allows itself over the whole run, for any such bound: what is found     *)
(* before a tap was found in time, and what is counted after it counts     *)
(* every tap but those that raised (TapsAreBounded).                       *)
THEOREM TapsStayBounded == ToolsSpec => []TapsAreBounded
<1>1. ToolInvariant => TapsAreBounded
  <2> SUFFICES ASSUME ToolInvariant
               PROVE  TapsAreBounded
    OBVIOUS
  <2>1. tool = "installation" => seen.taps <= 1
    BY DEF ToolInvariant, InstallationTaps
  <2>2. tool = "fullscreen" => seen.taps <= 1
    BY DEF ToolInvariant, FullscreenTaps
  <2>3. tool = "lifecycle" => seen.taps <= MAX_PREPARATION_ANR_RECOVERIES
    BY DEF ToolInvariant, LifecycleTaps
  <2>4. tool = "billing" => seen.taps <= MAX_SYSTEM_ANR_RECOVERIES + faults
    <3> SUFFICES ASSUME tool = "billing"
                 PROVE  seen.taps <= MAX_SYSTEM_ANR_RECOVERIES + faults
      OBVIOUS
    <3>1. /\ seen.taps \in Nat /\ mem.recoveries \in Nat /\ faults \in Nat
          /\ seen.taps <= mem.recoveries + faults /\ mem.recoveries <= MAX_SYSTEM_ANR_RECOVERIES
      BY DEF ToolInvariant, BillingTaps
    <3>2. QED
      BY <3>1, SystemAssumption
  <2>5. QED
    BY <2>1, <2>2, <2>3, <2>4 DEF TapsAreBounded
<1>2. QED
  BY <1>1, ToolInvariantHolds, PTL

(* A capture of the screen that overran its time ends the caller's wait,   *)
(* whatever the timeouts are and however the reader thread and the helper  *)
(* interleave with it (ExpiredCaptureEndsRun).                             *)
THEOREM ExpiredCapturesEnd == ToolsSpec => []ExpiredCaptureEndsRun
<1>1. ToolInvariant => ExpiredCaptureEndsRun
  <2> SUFFICES ASSUME ToolInvariant, tool = "observer", seen.expired, ~seen.masked, Running
               PROVE  Now("stop-helper") \/ Now("pid-again")
    BY DEF ExpiredCaptureEndsRun
  <2>1. mode = "run" /\ todo # <<>> /\ Head(todo) \in {"stop-helper", "pid-again"}
    BY DEF ToolInvariant, ObserverEnds, Running
  <2>2. QED
    BY <2>1 DEF Now
<1>2. QED
  BY <1>1, ToolInvariantHolds, PTL

(* Wherever a run of any of the tools was interrupted, what it changed on  *)
(* the device or left running is undone at its end, or one of the          *)
(* operations answerable for it was called and failed, whether the tool    *)
(* heeds that or not; of the network tool alone, a signal may also have    *)
(* ended the clean-up before it was called (DeviceIsRestored).             *)
THEOREM DevicesAreRestored == ToolsSpec => []DeviceIsRestored
<1>1. ToolInvariant => DeviceIsRestored
  <2> SUFFICES ASSUME ToolInvariant, Done
               PROVE  DeviceIsRestored
    BY DEF DeviceIsRestored
  <2>1. CASE tool = "network"
    BY <2>1, NetworkRestored DEF ToolInvariant, DeviceIsRestored
  <2>2. CASE tool = "recording"
    BY <2>2, RecordingRestored DEF ToolInvariant, DeviceIsRestored
  <2>3. CASE tool = "installation"
    BY <2>3, InstallationRestored DEF ToolInvariant, DeviceIsRestored
  <2>4. CASE tool = "observer"
    BY <2>4, ObserverRestored DEF ToolInvariant, DeviceIsRestored
  <2>5. CASE tool = "lifecycle"
    BY <2>5, LifecycleRestored DEF ToolInvariant, DeviceIsRestored
  <2>6. CASE tool = "fullscreen"
    BY <2>6, FullscreenRestored DEF ToolInvariant, DeviceIsRestored
  <2>7. CASE tool = "together focus"
    BY <2>7, TogetherRestored DEF ToolInvariant, DeviceIsRestored
  <2>8. CASE tool = "interruption"
    BY <2>8, InterruptionRestored DEF ToolInvariant, DeviceIsRestored
  <2>9. CASE tool = "billing"
    BY <2>9, BillingRestored DEF ToolInvariant, DeviceIsRestored
  <2>10. QED
    BY <2>1, <2>2, <2>3, <2>4, <2>5, <2>6, <2>7, <2>8, <2>9 DEF ToolInvariant
<1>2. QED
  BY <1>1, ToolInvariantHolds, PTL

(* A run of any of the tools that reports a pass has seen what a pass      *)
(* stands for, for any bounds and timeouts and whatever the app, the       *)
(* device, the helper and the tool's other threads did between two of its  *)
(* operations (PassIsEarned).                                              *)
THEOREM PassesAreEarned == ToolsSpec => []PassIsEarned
<1>1. ToolInvariant /\ ToolPassing => PassIsEarned
  <2> SUFFICES ASSUME ToolInvariant, ToolPassing
               PROVE  PassIsEarned
    OBVIOUS
  <2>1. tool = "network" /\ Passed => Network!Earned
    BY NetworkPassingEarned DEF ToolPassing
  <2>2. tool = "recording" /\ Passed => Recording!Earned
    BY DEF ToolPassing, RecordingPassing, Passed, Done
  <2>3. tool = "installation" /\ Passed => Installation!Earned
    BY DEF ToolPassing, InstallationPassing, Passed, Done
  <2>4. tool = "observer" /\ Passed => Observer!Earned
    BY DEF ToolPassing, ObserverPassing, Passed, Done
  <2>5. tool = "lifecycle" /\ Passed => Lifecycle!Earned
    BY DEF ToolPassing, LifecyclePassing, Passed, Done
  <2>6. tool = "fullscreen" /\ Passed => Fullscreen!Earned
    BY DEF ToolPassing, FullscreenPassing, Passed, Done
  <2>7. tool = "together focus" /\ Passed => TogetherFocus!Earned
    BY TogetherPassingEarned DEF ToolPassing, Passed, Done
  <2>8. tool = "interruption" /\ Passed => Interruption!Earned
    BY DEF ToolPassing, InterruptionPassing, Passed, Done
  <2>9. tool = "billing" /\ Billing!Succeeds => Billing!Earned
    BY BillingPassingEarned DEF ToolInvariant, ToolPassing
  <2>10. tool \in {"network", "recording", "installation", "observer", "lifecycle", "fullscreen",
                   "together focus", "interruption", "billing"}
    BY DEF ToolInvariant
  <2>11. QED
    BY <2>1, <2>2, <2>3, <2>4, <2>5, <2>6, <2>7, <2>8, <2>9, <2>10 DEF PassIsEarned
<1>2. QED
  BY <1>1, ToolInvariantHolds, PTL

=============================================================================
