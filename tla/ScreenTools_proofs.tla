-------------------------- MODULE ScreenTools_proofs --------------------------
(***************************************************************************)
(* Proofs about the tools that watch the screen and the playback, for any  *)
(* bounds and timeouts.                                                    *)
(***************************************************************************)
EXTENDS ScreenTools, ToolRun_proofs

-----------------------------------------------------------------------------
(* The full-screen runner.                                                 *)

FullscreenTaps ==
  /\ seen.taps \in Nat /\ seen.taps <= 1
  /\ "taps" \in DOMAIN seen /\ "confirmed" \in DOMAIN mem
  /\ seen.taps > 0 => mem.confirmed

FullscreenTry ==
  Fullscreen!Phases \cup
  {"owned-avd", "prepare", "logcat", "load-fixture", "evidence", "app-pid", "record-play",
   "record-back", "stop-recording", "pause", "tap-pause", "pid", "enter", "stop-observer",
   "idle", "disconnected", "center-tap", "revealed", "back", "all-recorded"}

FullscreenThings == {"logcat", "observer", "recorder", "files", "directory"}

(* What is not yet undone is undone by an operation still to come, or by   *)
(* one that failed; the app runs only when it may be stopped.              *)
FullscreenUndone ==
  /\ "owned" \in DOMAIN device /\ "app" \in DOMAIN device /\ "authorized" \in DOMAIN mem
  /\ device.owned \subseteq FullscreenThings
  /\ mode \in {"run", "cleanup", "done"}
  /\ mode = "run" => todo \in Seq(FullscreenTry) /\ "directory" \notin device.owned
  /\ mode # "run" =>
       /\ Undoing(Fullscreen!CLEANUP)
       /\ "logcat" \in device.owned => Len(todo) >= 6 \/ "stop-logcat" \in failed
       /\ "recorder" \in device.owned =>
            Len(todo) >= 4 \/ {"owned-again", "stop-recording"} \cap failed # {}
       /\ "observer" \in device.owned =>
            Len(todo) >= 3 \/ {"owned-again", "remove-observer"} \cap failed # {}
       /\ device.app # 0 => \/ Len(todo) >= 2 /\ mem.authorized
                            \/ {"owned-again", "force-stop"} \cap failed # {}
       /\ "files" \in device.owned =>
            Len(todo) >= 1 \/ {"owned-again", "force-stop", "remove-files"} \cap failed # {}
       /\ "directory" \in device.owned => "prepare" \in failed
  /\ mode = "done" => todo = <<>>

(* The app is not there when the preparation begins, and it is started     *)
(* when it has succeeded.                                                  *)
FullscreenAdmits ==
  /\ todo # <<>> /\ Head(todo) = "prepare" => device.app = 0
  /\ todo # <<>> /\ Head(todo) = "load-fixture" => mem.authorized
  /\ device.app # 0 => mem.authorized

LEMMA FullscreenCleanup ==
  /\ Fullscreen!CLEANUP \in Seq({"stop-logcat", "owned-again", "stop-recording",
                                  "remove-observer", "force-stop", "remove-files"})
  /\ Len(Fullscreen!CLEANUP) = 6
  /\ Fullscreen!CLEANUP[1] = "stop-logcat" /\ Fullscreen!CLEANUP[2] = "owned-again"
  /\ Fullscreen!CLEANUP[3] = "stop-recording" /\ Fullscreen!CLEANUP[4] = "remove-observer"
  /\ Fullscreen!CLEANUP[5] = "force-stop" /\ Fullscreen!CLEANUP[6] = "remove-files"
BY DEF Fullscreen!CLEANUP

LEMMA FullscreenTapsStep ==
  ASSUME FullscreenTaps, Fullscreen!Next
  PROVE  FullscreenTaps'
<1>1. CASE Fullscreen!AcknowledgeTip
  BY <1>1 DEF Fullscreen!AcknowledgeTip, FullscreenTaps, Fullscreen!Unchanged
<1>2. ASSUME ~Fullscreen!AcknowledgeTip
      PROVE  /\ seen'.taps = seen.taps /\ "taps" \in DOMAIN seen'
             /\ mem'.confirmed = mem.confirmed /\ "confirmed" \in DOMAIN mem'
  BY <1>2 DEF FullscreenTaps, Fullscreen!Next, Fullscreen!Runner, Fullscreen!Check,
     Fullscreen!Prepare, Fullscreen!StartLogcat, Fullscreen!WaitFails, Fullscreen!Sample,
     Fullscreen!Evidence, Fullscreen!Disconnected, Fullscreen!LoadFixture, Fullscreen!AppPid, Fullscreen!CheckPid,
     Fullscreen!Record, Fullscreen!StopRecording, Fullscreen!Pause, Fullscreen!Revealed,
     Fullscreen!Tap, Fullscreen!CenterTap, Fullscreen!Enter, Fullscreen!Back,
     Fullscreen!StopObserver, Fullscreen!Idle, Fullscreen!AllRecorded,
     Fullscreen!StopLogcat, Fullscreen!OwnedAgain, Fullscreen!RemoveObserver,
     Fullscreen!ForceStop, Fullscreen!RemoveFiles, Fullscreen!Fails, Fullscreen!Unchanged, Fullscreen!HideControls,
     Fullscreen!AppRestarts, Fullscreen!Surprise
<1>3. QED
  BY <1>1, <1>2 DEF FullscreenTaps

LEMMA CallKeeps ==
  ASSUME NEW S, NEW ops \in Seq(S), todo \in Seq(S), todo # <<>>
  PROVE  ops \o Tail(todo) \in Seq(S) /\ Head(todo) \in S
OBVIOUS

FullscreenCalls == {<<>>, <<"center-tap", "revealed">>, <<"tap-pause">>}

(* While the try block runs, what raises or ends it starts the clean-up    *)
(* from its first operation.                                               *)
LEMMA FullscreenRunning ==
  ASSUME FullscreenUndone, Fullscreen!Next, mode = "run", FullscreenAdmits
  PROVE  /\ \/ mode' = "run" /\ todo' \in Seq(FullscreenTry) /\ "directory" \notin device'.owned
            \/ /\ mode' = "cleanup" /\ todo' = Fullscreen!CLEANUP
               /\ "directory" \in device'.owned => "prepare" \in failed'
         /\ device'.app # 0 => mem'.authorized
         /\ device'.owned \subseteq FullscreenThings
         /\ "owned" \in DOMAIN device' /\ "app" \in DOMAIN device'
         /\ "authorized" \in DOMAIN mem'
<1>1. todo \in Seq(FullscreenTry) /\ (todo # <<>> => Head(todo) \in FullscreenTry)
  BY CallKeeps DEF FullscreenUndone
<1>2. /\ ~Fullscreen!OwnedAgain /\ ~Fullscreen!StopLogcat /\ ~Fullscreen!RemoveObserver
      /\ ~Fullscreen!ForceStop /\ ~Fullscreen!RemoveFiles
  BY <1>1 DEF Fullscreen!OwnedAgain, Fullscreen!StopLogcat, Fullscreen!RemoveObserver,
     Fullscreen!ForceStop, Fullscreen!RemoveFiles, Fullscreen!Now, FullscreenTry, Fullscreen!Phases,
     Fullscreen!FullPhases, Fullscreen!PlayingPhases
<1>3. ASSUME ~Fullscreen!Prepare
      PROVE  /\ device'.owned \subseteq device.owned \cup {"logcat", "recorder"}
             /\ device'.app # 0 => mem'.authorized
             /\ "owned" \in DOMAIN device' /\ "app" \in DOMAIN device'
             /\ "authorized" \in DOMAIN mem'
  <2>1. /\ "owned" \in DOMAIN device' /\ "app" \in DOMAIN device' /\ "authorized" \in DOMAIN mem'
        /\ mem'.authorized = mem.authorized
    BY <1>2, <1>3 DEF FullscreenUndone, FullscreenAdmits, Fullscreen!Now, Fullscreen!Next, Fullscreen!Runner, Fullscreen!Check,
       Fullscreen!StartLogcat, Fullscreen!WaitFails, Fullscreen!Sample,
       Fullscreen!Evidence, Fullscreen!Disconnected, Fullscreen!LoadFixture, Fullscreen!AppPid,
       Fullscreen!CheckPid, Fullscreen!Record, Fullscreen!StopRecording, Fullscreen!Pause,
       Fullscreen!Revealed, Fullscreen!Tap, Fullscreen!CenterTap, Fullscreen!Enter, Fullscreen!Back,
       Fullscreen!StopObserver, Fullscreen!Idle, Fullscreen!AllRecorded,
       Fullscreen!Fails, Fullscreen!Unchanged, Fullscreen!HideControls,
       Fullscreen!AppRestarts, Fullscreen!Surprise, Fullscreen!AcknowledgeTip,
       Fullscreen!Tapped, Fullscreen!Own, Fullscreen!Drop
  <2>2. device'.owned \subseteq device.owned \cup {"logcat", "recorder"}
    BY <1>2, <1>3 DEF FullscreenUndone, FullscreenAdmits, Fullscreen!Now, Fullscreen!Next, Fullscreen!Runner, Fullscreen!Check,
       Fullscreen!StartLogcat, Fullscreen!WaitFails, Fullscreen!Sample,
       Fullscreen!Evidence, Fullscreen!Disconnected, Fullscreen!LoadFixture, Fullscreen!AppPid,
       Fullscreen!CheckPid, Fullscreen!Record, Fullscreen!StopRecording, Fullscreen!Pause,
       Fullscreen!Revealed, Fullscreen!Tap, Fullscreen!CenterTap, Fullscreen!Enter, Fullscreen!Back,
       Fullscreen!StopObserver, Fullscreen!Idle, Fullscreen!AllRecorded,
       Fullscreen!Fails, Fullscreen!Unchanged, Fullscreen!HideControls,
       Fullscreen!AppRestarts, Fullscreen!Surprise, Fullscreen!AcknowledgeTip,
       Fullscreen!Tapped, Fullscreen!Own, Fullscreen!Drop
  <2>3. \/ device'.app = device.app \/ device.app # 0
        \/ todo # <<>> /\ Head(todo) = "load-fixture"
    <3>1. CASE Fullscreen!LoadFixture
      BY <3>1 DEF Fullscreen!LoadFixture, Fullscreen!Now
    <3>2. CASE Fullscreen!AppRestarts \/ Fullscreen!Surprise
      BY <3>2 DEF Fullscreen!AppRestarts, Fullscreen!Surprise
    <3>3. CASE ~Fullscreen!LoadFixture /\ ~Fullscreen!AppRestarts /\ ~Fullscreen!Surprise
      BY <1>2, <1>3, <3>3 DEF FullscreenUndone, Fullscreen!Next, Fullscreen!Runner, Fullscreen!Check,
         Fullscreen!StartLogcat, Fullscreen!WaitFails, Fullscreen!Sample,
         Fullscreen!Evidence, Fullscreen!Disconnected, Fullscreen!AppPid,
         Fullscreen!CheckPid, Fullscreen!Record, Fullscreen!StopRecording, Fullscreen!Pause,
         Fullscreen!Revealed, Fullscreen!Tap, Fullscreen!CenterTap, Fullscreen!Enter, Fullscreen!Back,
         Fullscreen!StopObserver, Fullscreen!Idle, Fullscreen!AllRecorded,
         Fullscreen!Fails, Fullscreen!Unchanged, Fullscreen!HideControls, Fullscreen!AcknowledgeTip,
         Fullscreen!Tapped, Fullscreen!Own, Fullscreen!Drop
    <3>4. QED
      BY <3>1, <3>2, <3>3
  <2>4. QED
    BY <2>1, <2>2, <2>3 DEF FullscreenAdmits
<1>7. ASSUME Fullscreen!Prepare
      PROVE  /\ device'.owned \subseteq {"files", "observer", "directory"}
             /\ mode' = "run" => "directory" \notin device'.owned
             /\ mode' # "run" => "prepare" \in failed'
             /\ device'.app = 0
             /\ "owned" \in DOMAIN device' /\ "app" \in DOMAIN device'
             /\ "authorized" \in DOMAIN mem'
  BY <1>7 DEF FullscreenUndone, FullscreenAdmits, Fullscreen!Prepare, Fullscreen!Now,
     Fullscreen!Return, Fullscreen!Call, Fullscreen!Raise
<1>4. \/ mode' = "run" /\ todo' = todo
      \/ mode' = "run" /\ todo # <<>> /\ \E ops \in FullscreenCalls : todo' = ops \o Tail(todo)
      \/ mode' = "cleanup" /\ todo' = Fullscreen!CLEANUP
  BY <1>2 DEF FullscreenCalls, Fullscreen!Next, Fullscreen!Runner, Fullscreen!Check,
     Fullscreen!Prepare, Fullscreen!StartLogcat, Fullscreen!WaitFails, Fullscreen!Sample,
     Fullscreen!Evidence, Fullscreen!Disconnected, Fullscreen!LoadFixture, Fullscreen!AppPid, Fullscreen!CheckPid,
     Fullscreen!Record, Fullscreen!StopRecording, Fullscreen!Pause, Fullscreen!Revealed,
     Fullscreen!Tap, Fullscreen!CenterTap, Fullscreen!Enter, Fullscreen!Back,
     Fullscreen!StopObserver, Fullscreen!Idle, Fullscreen!AllRecorded,
     Fullscreen!StopLogcat, Fullscreen!RemoveObserver,
     Fullscreen!ForceStop, Fullscreen!RemoveFiles, Fullscreen!Fails, Fullscreen!Unchanged, Fullscreen!HideControls,
     Fullscreen!AppRestarts, Fullscreen!Surprise, Fullscreen!AcknowledgeTip, Fullscreen!Require,
     Fullscreen!Return, Fullscreen!Raise, Fullscreen!Call,
     Fullscreen!ReturnOrFail, Fullscreen!EnterFinally, Fullscreen!Report,
     Fullscreen!Running, Fullscreen!control, Fullscreen!Now, Fullscreen!Waiting
<1>5. FullscreenCalls \subseteq Seq(FullscreenTry)
  BY DEF FullscreenCalls, FullscreenTry
<1>6. device.owned \subseteq FullscreenThings /\ "directory" \notin device.owned
  BY DEF FullscreenUndone
<1>8. /\ device'.owned \subseteq FullscreenThings
      /\ mode' = "run" => "directory" \notin device'.owned
      /\ "directory" \in device'.owned => "prepare" \in failed'
  BY <1>3, <1>4, <1>6, <1>7 DEF FullscreenThings
<1>9. /\ device'.app # 0 => mem'.authorized
      /\ "owned" \in DOMAIN device' /\ "app" \in DOMAIN device' /\ "authorized" \in DOMAIN mem'
  BY <1>3, <1>7
<1>10. QED
  BY <1>1, <1>4, <1>5, <1>8, <1>9, CallKeeps

LEMMA FullscreenCleaning ==
  ASSUME FullscreenUndone, Fullscreen!Next, mode = "cleanup"
  PROVE  FullscreenUndone'
<1> DEFINE n == Len(todo)
           new == Len(todo')
<1>1. /\ todo = <<>> => n = 0
      /\ todo # <<>> => n \in 1..6 /\ Head(todo) = Fullscreen!CLEANUP[6 - n + 1]
  BY FullscreenCleanup, UndoingParts DEF FullscreenUndone
<1> HIDE DEF n
<1>2. todo # <<>> =>
        \/ n = 6 /\ Head(todo) = "stop-logcat"
        \/ n = 5 /\ Head(todo) = "owned-again"
        \/ n = 4 /\ Head(todo) = "stop-recording"
        \/ n = 3 /\ Head(todo) = "remove-observer"
        \/ n = 2 /\ Head(todo) = "force-stop"
        \/ n = 1 /\ Head(todo) = "remove-files"
  <2>1. n \in 1..6 => n = 1 \/ n = 2 \/ n = 3 \/ n = 4 \/ n = 5 \/ n = 6
    OBVIOUS
  <2>2. /\ 6 - 1 + 1 = 6 /\ 6 - 2 + 1 = 5 /\ 6 - 3 + 1 = 4
        /\ 6 - 4 + 1 = 3 /\ 6 - 5 + 1 = 2 /\ 6 - 6 + 1 = 1
    OBVIOUS
  <2>3. QED
    BY <1>1, <2>1, <2>2, FullscreenCleanup
<1>3. \/ Fullscreen!StopLogcat \/ Fullscreen!OwnedAgain \/ Fullscreen!StopRecording
      \/ Fullscreen!RemoveObserver \/ Fullscreen!ForceStop \/ Fullscreen!RemoveFiles
      \/ Fullscreen!Report /\ Fullscreen!Unchanged
  BY <1>2 DEF Fullscreen!Next, Fullscreen!Runner, Fullscreen!Check,
     Fullscreen!Prepare, Fullscreen!StartLogcat, Fullscreen!WaitFails, Fullscreen!Sample,
     Fullscreen!Evidence, Fullscreen!Disconnected, Fullscreen!LoadFixture, Fullscreen!AppPid, Fullscreen!CheckPid,
     Fullscreen!Record, Fullscreen!Pause, Fullscreen!Revealed,
     Fullscreen!Tap, Fullscreen!CenterTap, Fullscreen!Enter, Fullscreen!Back,
     Fullscreen!StopObserver, Fullscreen!Idle, Fullscreen!AllRecorded,
     Fullscreen!Fails, Fullscreen!HideControls, Fullscreen!EnterFinally,
     Fullscreen!AppRestarts, Fullscreen!Surprise, Fullscreen!AcknowledgeTip,
     Fullscreen!Running, Fullscreen!Now, Fullscreen!Waiting
<1>4. CASE Fullscreen!Report /\ Fullscreen!Unchanged
  BY <1>4 DEF Fullscreen!Report, Fullscreen!Unchanged, FullscreenUndone, Undoing, Rest
<1>5. /\ Undoing(Fullscreen!CLEANUP) /\ n = Len(todo) /\ new = Len(todo')
      /\ "owned" \in DOMAIN device /\ "app" \in DOMAIN device /\ "authorized" \in DOMAIN mem
      /\ device.owned \subseteq FullscreenThings
  BY DEF FullscreenUndone, n
<1> HIDE DEF n, new
<1> USE <1>2, <1>5 DEF Fullscreen!StopLogcat, Fullscreen!OwnedAgain,
        Fullscreen!StopRecording, Fullscreen!RemoveObserver, Fullscreen!ForceStop,
        Fullscreen!RemoveFiles, Fullscreen!Now, Fullscreen!Return, Fullscreen!Call, Fullscreen!Raise,
        Fullscreen!ReturnUnheeded,
        Fullscreen!RaiseOut, Fullscreen!Running, Fullscreen!Drop, Fullscreen!Unchanged
<1>6. CASE todo # <<>>
  <2>0. ~Fullscreen!Report
    BY <1>6 DEF Fullscreen!Report
  <2> USE <2>0
  <2> DEFINE over == /\ todo' = <<>>
                     /\ \/ n = 5 /\ "owned-again" \in failed'
                        \/ n = 2 /\ "force-stop" \in failed'
  <2>1. todo' = Tail(todo) \/ todo' = <<>> \o Tail(todo) \/ over
    BY <1>3, <1>6
  <2>2. Undoing(Fullscreen!CLEANUP)'
    BY <1>6, <2>1, FullscreenCleanup, UndoingNext, UndoingOver
  <2>3. \/ new = n - 1
        \/ new = 0 /\ n = 5 /\ "owned-again" \in failed'
        \/ new = 0 /\ n = 2 /\ "force-stop" \in failed'
    BY <1>6, <2>1, FullscreenCleanup, UndoingNext, UndoingOver
  <2>4. mode' = "cleanup" /\ failed \subseteq failed'
    BY <1>3, <1>6
  <2> DEFINE Effects ==
        /\ "owned" \in DOMAIN device' /\ "app" \in DOMAIN device' /\ "authorized" \in DOMAIN mem'
        /\ device'.owned \subseteq device.owned /\ (n # 1 => mem'.authorized = mem.authorized)
        /\ n = 6 => "logcat" \notin device'.owned \/ "stop-logcat" \in failed'
        /\ n = 4 => "recorder" \notin device'.owned \/ "stop-recording" \in failed'
        /\ n = 3 => "observer" \notin device'.owned \/ "remove-observer" \in failed'
        /\ device'.app = device.app \/ device'.app = 0
        /\ n = 2 => (mem.authorized => device'.app = 0 \/ "force-stop" \in failed')
        /\ n = 1 => "files" \notin device'.owned \/ "remove-files" \in failed'
  <2>5. Effects
    <3> DEFINE Dropped(thing, op) ==
          \/ device' = [device EXCEPT !.owned = @ \ {thing}]
          \/ device' = device /\ op \in failed'
    <3>0. ASSUME NEW thing, NEW op, Dropped(thing, op)
          PROVE  /\ "owned" \in DOMAIN device' /\ "app" \in DOMAIN device'
                 /\ device'.owned \subseteq device.owned /\ device'.app = device.app
                 /\ thing \notin device'.owned \/ op \in failed'
      BY <3>0
    <3>1. CASE Fullscreen!StopLogcat
      <4>1. n = 6 /\ mem' = mem /\ Dropped("logcat", "stop-logcat")
        BY <3>1
      <4> HIDE DEF Dropped
      <4>2. QED
        BY <3>0, <4>1
    <3>2. CASE Fullscreen!OwnedAgain
      <4>1. n = 5 /\ device' = device /\ mem' = mem
        BY <3>2
      <4>2. QED
        BY <4>1
    <3>3. CASE Fullscreen!StopRecording
      <4>1. /\ n = 4 /\ Dropped("recorder", "stop-recording")
            /\ mem' = [mem EXCEPT !.recording = FALSE]
        BY <3>3
      <4>2. mem'.authorized = mem.authorized /\ "authorized" \in DOMAIN mem'
        BY <4>1
      <4> HIDE DEF Dropped
      <4>3. QED
        BY <3>0, <4>1, <4>2
    <3>4. CASE Fullscreen!RemoveObserver
      <4>1. n = 3 /\ mem' = mem /\ Dropped("observer", "remove-observer")
        BY <3>4
      <4> HIDE DEF Dropped
      <4>2. QED
        BY <3>0, <4>1
    <3>5. CASE Fullscreen!ForceStop
      <4>1. /\ n = 2 /\ mem' = mem
            /\ \/ ~mem.authorized /\ device' = device
               \/ device' = [device EXCEPT !.app = 0]
               \/ device' = device /\ "force-stop" \in failed'
        BY <3>5
      <4>2. /\ mem.authorized => device'.app = 0 \/ "force-stop" \in failed'
            /\ device'.app = device.app \/ device'.app = 0
        BY <4>1
      <4>3. /\ device'.owned = device.owned
            /\ "owned" \in DOMAIN device' /\ "app" \in DOMAIN device'
        BY <4>1
      <4>4. QED
        BY <4>1, <4>2, <4>3
    <3>6. CASE Fullscreen!RemoveFiles
      <4>1. /\ n = 1 /\ Dropped("files", "remove-files")
            /\ mem' = mem \/ mem' = [mem EXCEPT !.authorized = FALSE]
        BY <3>6
      <4>2. "authorized" \in DOMAIN mem'
        BY <4>1
      <4> HIDE DEF Dropped
      <4>3. QED
        BY <3>0, <4>1, <4>2
    <3>7. QED
      BY <1>3, <3>1, <3>2, <3>3, <3>4, <3>5, <3>6
  <2>7. n \in 1..6 /\ mode # "run" /\ FullscreenUndone
    BY <1>1, <1>6
  <2> HIDE DEF Effects
  <2>8. /\ "logcat" \in device'.owned => new >= 6 \/ "stop-logcat" \in failed'
        /\ "recorder" \in device'.owned =>
             new >= 4 \/ {"owned-again", "stop-recording"} \cap failed' # {}
        /\ "observer" \in device'.owned =>
             new >= 3 \/ {"owned-again", "remove-observer"} \cap failed' # {}
    BY <2>3, <2>4, <2>5, <2>7 DEF FullscreenUndone, Effects
  <2>9. /\ device'.app # 0 => \/ new >= 2 /\ mem'.authorized
                              \/ {"owned-again", "force-stop"} \cap failed' # {}
        /\ "files" \in device'.owned =>
             new >= 1 \/ {"owned-again", "force-stop", "remove-files"} \cap failed' # {}
        /\ "directory" \in device'.owned => "prepare" \in failed'
    BY <2>3, <2>4, <2>5, <2>7 DEF FullscreenUndone, Effects
  <2>10. QED
    BY <1>5, <2>2, <2>4, <2>5, <2>8, <2>9 DEF FullscreenUndone, Effects
<1>7. CASE todo = <<>>
  BY <1>3, <1>4, <1>7
<1>8. QED
  BY <1>6, <1>7

LEMMA FullscreenInit ==
  ASSUME Fullscreen!Init
  PROVE  FullscreenTaps /\ FullscreenUndone
<1>1. Fullscreen!Program \in Seq(FullscreenTry)
  BY DEF Fullscreen!Program, FullscreenTry, Fullscreen!Phases, Fullscreen!FullPhases,
         Fullscreen!PlayingPhases
<1>2. QED
  BY <1>1 DEF Fullscreen!Init, Fullscreen!Start, FullscreenTaps, FullscreenUndone

LEMMA FullscreenUndoneStep ==
  ASSUME FullscreenUndone, Fullscreen!Next, mode = "run" => FullscreenAdmits
  PROVE  FullscreenUndone'
<1>1. CASE mode = "run"
  <2>1. CASE mode' = "run" /\ todo' \in Seq(FullscreenTry)
    BY <1>1, <2>1, FullscreenRunning DEF FullscreenUndone
  <2>2. CASE mode' = "cleanup" /\ todo' = Fullscreen!CLEANUP
    <3>1. Undoing(Fullscreen!CLEANUP)' /\ Len(todo') = 6
      BY <2>2, FullscreenCleanup, UndoingStarts
    <3>2. QED
      BY <1>1, <2>2, <3>1, FullscreenRunning DEF FullscreenUndone
  <2>3. QED
    BY <1>1, <2>1, <2>2, FullscreenRunning
<1>2. CASE mode = "cleanup"
  BY <1>2, FullscreenCleaning
<1>3. CASE mode = "done"
  BY <1>3 DEF Fullscreen!Next, Fullscreen!Runner, Fullscreen!Check,
     Fullscreen!Prepare, Fullscreen!StartLogcat, Fullscreen!WaitFails, Fullscreen!Sample,
     Fullscreen!Evidence, Fullscreen!Disconnected, Fullscreen!LoadFixture, Fullscreen!AppPid, Fullscreen!CheckPid,
     Fullscreen!Record, Fullscreen!StopRecording, Fullscreen!Pause, Fullscreen!Revealed,
     Fullscreen!Tap, Fullscreen!CenterTap, Fullscreen!Enter, Fullscreen!Back,
     Fullscreen!StopObserver, Fullscreen!Idle, Fullscreen!AllRecorded,
     Fullscreen!StopLogcat, Fullscreen!OwnedAgain, Fullscreen!RemoveObserver,
     Fullscreen!ForceStop, Fullscreen!RemoveFiles, Fullscreen!Fails, Fullscreen!HideControls, Fullscreen!AcknowledgeTip,
     Fullscreen!AppRestarts, Fullscreen!Surprise, Fullscreen!EnterFinally, Fullscreen!Report,
     Fullscreen!Running, Fullscreen!Now, Fullscreen!Waiting
<1>4. QED
  BY <1>1, <1>2, <1>3 DEF FullscreenUndone

LEMMA FullscreenRestored ==
  ASSUME FullscreenUndone, Done
  PROVE  Fullscreen!Restored
<1>1. mode = "done" /\ Len(todo) = 0
  BY DEF Done, FullscreenUndone
<1>2. /\ "logcat" \in device.owned => {"stop-logcat"} \cap failed # {}
      /\ "observer" \in device.owned => {"owned-again", "remove-observer"} \cap failed # {}
      /\ "recorder" \in device.owned => {"owned-again", "stop-recording"} \cap failed # {}
      /\ "files" \in device.owned =>
           {"owned-again", "force-stop", "remove-files"} \cap failed # {}
      /\ "directory" \in device.owned => {"prepare"} \cap failed # {}
      /\ device.app # 0 => {"owned-again", "force-stop"} \cap failed # {}
      /\ device.owned \subseteq FullscreenThings
  BY <1>1 DEF FullscreenUndone
<1>3. QED
  BY <1>2 DEF Fullscreen!Restored, Fullscreen!Cleaner, FullscreenThings

-----------------------------------------------------------------------------
(* The Together focus runner.                                              *)

TogetherTry == {"prepare", "helper", "observer", "app", "serve", "drive", "journey"}

TogetherUndone ==
  /\ "owned" \in DOMAIN device /\ "owns" \in DOMAIN mem
  /\ device.owned \subseteq {"helper", "observer", "drive"}
  /\ mode = "run" \/ todo # <<>> => device.owned \cap {"helper", "observer"} \subseteq mem.owns
  /\ mode \in {"run", "cleanup", "done"}
  /\ mode = "run" => todo \in Seq(TogetherTry)
  /\ mode # "run" =>
       /\ Undoing(TogetherFocus!CLEANUP)
       /\ "drive" \in device.owned => Len(todo) >= 6 \/ "stop-drive" \in failed
       /\ "helper" \in device.owned =>
            Len(todo) >= 2 \/ {"stop-drive", "avd-again", "remove-helper"} \cap failed # {}
       /\ "observer" \in device.owned =>
            Len(todo) >= 1 \/ {"stop-drive", "avd-again", "remove-observer"} \cap failed # {}
  /\ mode = "done" => todo = <<>>

LEMMA TogetherCleanup ==
  /\ TogetherFocus!CLEANUP \in Seq({"stop-drive", "close-server", "avd-again", "stop-helper",
                                     "remove-helper", "remove-observer"})
  /\ Len(TogetherFocus!CLEANUP) = 6
  /\ TogetherFocus!CLEANUP[1] = "stop-drive" /\ TogetherFocus!CLEANUP[2] = "close-server"
  /\ TogetherFocus!CLEANUP[3] = "avd-again" /\ TogetherFocus!CLEANUP[4] = "stop-helper"
  /\ TogetherFocus!CLEANUP[5] = "remove-helper" /\ TogetherFocus!CLEANUP[6] = "remove-observer"
BY DEF TogetherFocus!CLEANUP

LEMMA TogetherInit ==
  ASSUME TogetherFocus!Init
  PROVE  TogetherUndone
<1>1. TogetherFocus!Program \in Seq(TogetherTry)
  BY DEF TogetherFocus!Program, TogetherTry
<1>2. QED
  BY <1>1 DEF TogetherFocus!Init, TogetherFocus!Start, TogetherUndone

(* The handler thread, the journey and the app bring nothing into being    *)
(* that the tool has to undo.                                              *)
LEMMA TogetherOthers ==
  ASSUME TogetherUndone, TogetherFocus!Handler \/ TogetherFocus!Environment
  PROVE  TogetherUndone'
<1>1. /\ UNCHANGED <<todo, mode, errors, failed>>
      /\ "owned" \in DOMAIN device' /\ device'.owned \subseteq device.owned
      /\ "owns" \in DOMAIN mem' /\ mem'.owns = mem.owns
  BY DEF TogetherUndone, TogetherFocus!Handler, TogetherFocus!Environment,
     TogetherFocus!Accept, TogetherFocus!StageFails, TogetherFocus!Foreground,
     TogetherFocus!Warm, TogetherFocus!EarlyAcquire, TogetherFocus!Acquire,
     TogetherFocus!Release, TogetherFocus!Paused, TogetherFocus!Needs, TogetherFocus!Complete,
     TogetherFocus!EndStage, TogetherFocus!EndHelper, TogetherFocus!Latch,
     TogetherFocus!Advanced, TogetherFocus!Goes, TogetherFocus!control, TogetherFocus!Post,
     TogetherFocus!Reply, TogetherFocus!GiveUp, TogetherFocus!JourneyEnds,
     TogetherFocus!AppPauses, TogetherFocus!AppMisbehaves
<1>2. QED
  BY <1>1 DEF TogetherUndone, Undoing, Rest

LEMMA TogetherRunning ==
  ASSUME TogetherUndone, TogetherFocus!Runner, mode = "run"
  PROVE  /\ \/ mode' = "run" /\ todo' \in Seq(TogetherTry)
            \/ mode' = "cleanup" /\ todo' = TogetherFocus!CLEANUP
         /\ "owned" \in DOMAIN device' /\ "owns" \in DOMAIN mem'
         /\ device'.owned \subseteq {"helper", "observer", "drive"}
         /\ device'.owned \cap {"helper", "observer"} \subseteq mem'.owns
<1>1. todo \in Seq(TogetherTry) /\ (todo # <<>> => Head(todo) \in TogetherTry)
  BY CallKeeps DEF TogetherUndone
<1>2. \/ TogetherFocus!Prepare \/ TogetherFocus!Install("helper")
      \/ TogetherFocus!Install("observer") \/ TogetherFocus!InstallApp
      \/ TogetherFocus!Serve \/ TogetherFocus!Drive \/ TogetherFocus!Journey
      \/ TogetherFocus!EnterFinally(TogetherFocus!CLEANUP) /\ UNCHANGED <<device, mem, seen>>
  BY <1>1 DEF TogetherTry, TogetherFocus!Runner, TogetherFocus!StopDrive,
     TogetherFocus!CloseServer, TogetherFocus!AvdAgain, TogetherFocus!StopHelper,
     TogetherFocus!Uninstall, TogetherFocus!Report, TogetherFocus!Now
<1>3. /\ "owned" \in DOMAIN device' /\ "owns" \in DOMAIN mem'
      /\ device'.owned \subseteq {"helper", "observer", "drive"}
      /\ device'.owned \cap {"helper", "observer"} \subseteq mem'.owns
  BY <1>2 DEF TogetherUndone, TogetherFocus!Prepare, TogetherFocus!Install,
     TogetherFocus!InstallApp, TogetherFocus!Serve, TogetherFocus!Drive, TogetherFocus!Journey
<1>4. \/ mode' = "run" /\ todo # <<>> /\ todo' = <<>> \o Tail(todo)
      \/ mode' = "cleanup" /\ todo' = TogetherFocus!CLEANUP
  BY <1>2 DEF TogetherFocus!Prepare, TogetherFocus!Install,
     TogetherFocus!InstallApp, TogetherFocus!Serve, TogetherFocus!Drive, TogetherFocus!Journey,
     TogetherFocus!EnterFinally, TogetherFocus!Require, TogetherFocus!ReturnOrFail,
     TogetherFocus!Return, TogetherFocus!Call, TogetherFocus!Raise, TogetherFocus!Running,
     TogetherFocus!Now
<1>5. <<>> \in Seq(TogetherTry)
  OBVIOUS
<1>6. QED
  BY <1>1, <1>3, <1>4, <1>5, CallKeeps

LEMMA TogetherCleaning ==
  ASSUME TogetherUndone, TogetherFocus!Runner, mode = "cleanup"
  PROVE  TogetherUndone'
<1> DEFINE n == Len(todo)
           new == Len(todo')
<1>1. /\ todo = <<>> => n = 0
      /\ todo # <<>> => n \in 1..6 /\ Head(todo) = TogetherFocus!CLEANUP[6 - n + 1]
  BY TogetherCleanup, UndoingParts DEF TogetherUndone
<1>2. /\ Undoing(TogetherFocus!CLEANUP) /\ n = Len(todo) /\ new = Len(todo')
      /\ "owned" \in DOMAIN device /\ "owns" \in DOMAIN mem
      /\ device.owned \subseteq {"helper", "observer", "drive"}
      /\ todo # <<>> => device.owned \cap {"helper", "observer"} \subseteq mem.owns
  BY DEF TogetherUndone, n
<1> HIDE DEF n, new
<1>3. todo # <<>> =>
        \/ n = 6 /\ Head(todo) = "stop-drive"
        \/ n = 5 /\ Head(todo) = "close-server"
        \/ n = 4 /\ Head(todo) = "avd-again"
        \/ n = 3 /\ Head(todo) = "stop-helper"
        \/ n = 2 /\ Head(todo) = "remove-helper"
        \/ n = 1 /\ Head(todo) = "remove-observer"
  <2>1. n \in 1..6 => n = 1 \/ n = 2 \/ n = 3 \/ n = 4 \/ n = 5 \/ n = 6
    OBVIOUS
  <2>2. /\ 6 - 1 + 1 = 6 /\ 6 - 2 + 1 = 5 /\ 6 - 3 + 1 = 4 /\ 6 - 4 + 1 = 3
        /\ 6 - 5 + 1 = 2 /\ 6 - 6 + 1 = 1
    OBVIOUS
  <2>3. QED
    BY <1>1, <2>1, <2>2, TogetherCleanup
<1>4. \/ TogetherFocus!StopDrive \/ TogetherFocus!CloseServer \/ TogetherFocus!AvdAgain
      \/ TogetherFocus!StopHelper \/ TogetherFocus!Uninstall("remove-helper", "helper")
      \/ TogetherFocus!Uninstall("remove-observer", "observer")
      \/ TogetherFocus!Report /\ UNCHANGED <<device, mem, seen>>
  BY <1>3 DEF TogetherFocus!Runner, TogetherFocus!Prepare, TogetherFocus!Install,
     TogetherFocus!InstallApp, TogetherFocus!Serve, TogetherFocus!Drive, TogetherFocus!Journey,
     TogetherFocus!EnterFinally, TogetherFocus!Running, TogetherFocus!Now
<1>5. CASE TogetherFocus!Report /\ UNCHANGED <<device, mem, seen>>
  BY <1>5 DEF TogetherFocus!Report, TogetherUndone, Undoing, Rest
<1>6. CASE todo # <<>>
  <2>1. /\ \/ todo' = Tail(todo)
           \/ todo' = <<>> \o Tail(todo)
           \/ todo' = <<>> /\ n = 4 /\ "avd-again" \in failed'
           \/ todo' = <<>> /\ n = 6 /\ "stop-drive" \in failed'
        /\ mode' = "cleanup" /\ failed \subseteq failed'
    <3>1. CASE TogetherFocus!AvdAgain
      <4>1. n = 4 /\ Head(todo) = "avd-again"
        BY <1>3, <3>1 DEF TogetherFocus!AvdAgain, TogetherFocus!Now
      <4>2. TogetherFocus!Return \/ TogetherFocus!RaiseOut
        BY <3>1 DEF TogetherFocus!AvdAgain
      <4>3. QED
        BY <4>1, <4>2 DEF TogetherFocus!Return, TogetherFocus!Call, TogetherFocus!RaiseOut
    <3>2. CASE TogetherFocus!StopDrive
      <4>1. n = 6 /\ Head(todo) = "stop-drive"
        BY <1>3, <3>2 DEF TogetherFocus!StopDrive, TogetherFocus!Now
      <4>2. TogetherFocus!Return \/ TogetherFocus!RaiseOut
        BY <3>2 DEF TogetherFocus!StopDrive
      <4>3. QED
        BY <4>1, <4>2 DEF TogetherFocus!Return, TogetherFocus!Call, TogetherFocus!RaiseOut
    <3>3. CASE ~TogetherFocus!AvdAgain /\ ~TogetherFocus!StopDrive
      <4>1. \/ TogetherFocus!Return \/ TogetherFocus!Raise(TogetherFocus!CLEANUP)
            \/ TogetherFocus!ReturnUnheeded
        BY <1>4, <1>6, <3>3 DEF TogetherFocus!CloseServer,
           TogetherFocus!StopHelper, TogetherFocus!Uninstall, TogetherFocus!Report
      <4>2. QED
        BY <4>1 DEF TogetherFocus!Return, TogetherFocus!Call, TogetherFocus!Raise,
           TogetherFocus!ReturnUnheeded, TogetherFocus!Running
    <3>4. QED
      BY <3>1, <3>2, <3>3
  <2>2. Undoing(TogetherFocus!CLEANUP)'
    BY <1>2, <1>6, <2>1, TogetherCleanup, UndoingNext, UndoingOver
  <2>3. \/ new = n - 1
        \/ new = 0 /\ n = 4 /\ "avd-again" \in failed'
        \/ new = 0 /\ n = 6 /\ "stop-drive" \in failed'
    BY <1>2, <1>6, <2>1, TogetherCleanup, UndoingNext, UndoingOver
  <2> DEFINE Effects ==
        /\ "owned" \in DOMAIN device' /\ "owns" \in DOMAIN mem'
        /\ device'.owned \subseteq device.owned
        /\ n > 1 => device'.owned \cap {"helper", "observer"} \subseteq mem'.owns
        /\ n = 6 => "drive" \notin device'.owned \/ "stop-drive" \in failed'
        /\ n = 2 => "helper" \notin device'.owned \/ "remove-helper" \in failed'
        /\ n = 1 => "observer" \notin device'.owned \/ "remove-observer" \in failed'
  <2>4. Effects
    <3>1. CASE TogetherFocus!StopDrive
      <4>1. n = 6 /\ mem' = mem
        BY <1>3, <3>1 DEF TogetherFocus!StopDrive, TogetherFocus!Now
      <4>2. \/ device' = [device EXCEPT !.drive = IF @ = "running" THEN "bad" ELSE @,
                                        !.owned = @ \ {"drive"}]
            \/ device' = device /\ "stop-drive" \in failed'
        BY <1>3, <1>6, <3>1, <4>1 DEF TogetherFocus!StopDrive, TogetherFocus!RaiseOut
      <4>3. /\ "owned" \in DOMAIN device'
            /\ \/ device'.owned = device.owned \ {"drive"}
               \/ device'.owned = device.owned /\ "stop-drive" \in failed'
        BY <1>2, <4>2
      <4>4. QED
        BY <1>2, <1>6, <4>1, <4>3
    <3>2. CASE TogetherFocus!CloseServer
      <4>1. n = 5 /\ device' = device /\ mem' = [mem EXCEPT !.server = "closed"]
        BY <1>3, <3>2 DEF TogetherFocus!CloseServer, TogetherFocus!Now
      <4>2. "owns" \in DOMAIN mem' /\ mem'.owns = mem.owns
        BY <1>2, <4>1
      <4>3. QED
        BY <1>2, <1>6, <4>1, <4>2
    <3>3. CASE TogetherFocus!AvdAgain
      <4>1. n = 4 /\ device' = device /\ mem' = mem
        BY <1>3, <3>3 DEF TogetherFocus!AvdAgain, TogetherFocus!Now
      <4>2. QED
        BY <1>2, <1>6, <4>1
    <3>4. CASE TogetherFocus!StopHelper
      <4>1. n = 3 /\ mem' = mem /\ (device' = device \/ device' = TogetherFocus!EndHelper)
        BY <1>3, <3>4 DEF TogetherFocus!StopHelper, TogetherFocus!Now
      <4>2. "owned" \in DOMAIN device' /\ device'.owned = device.owned
        BY <1>2, <4>1 DEF TogetherFocus!EndHelper
      <4>3. QED
        BY <1>2, <1>6, <4>1, <4>2
    <3>5. CASE TogetherFocus!Uninstall("remove-helper", "helper")
      <4>1. /\ n = 2
            /\ \/ /\ device' = [device EXCEPT !.owned = @ \ {"helper"}, !.helper = "none",
                                   !.focus = IF @ = "helper" THEN "none" ELSE @]
                  /\ mem' = [mem EXCEPT !.owns = @ \ {"helper"}]
               \/ "helper" \notin mem.owns /\ device' = device /\ mem' = mem
               \/ "remove-helper" \in failed' /\ device' = device /\ mem' = mem
        BY <1>3, <3>5 DEF TogetherFocus!Uninstall, TogetherFocus!Now, TogetherFocus!Raise
      <4>2. "owned" \in DOMAIN device' /\ "owns" \in DOMAIN mem'
        BY <1>2, <4>1
      <4>3. \/ device'.owned = device.owned \ {"helper"} /\ mem'.owns = mem.owns \ {"helper"}
            \/ /\ device'.owned = device.owned /\ mem'.owns = mem.owns
               /\ "helper" \notin mem.owns \/ "remove-helper" \in failed'
        BY <1>2, <4>1
      <4>4. QED
        BY <1>2, <1>6, <4>1, <4>2, <4>3
    <3>6. CASE TogetherFocus!Uninstall("remove-observer", "observer")
      <4>1. /\ n = 1
            /\ \/ /\ device' = [device EXCEPT !.owned = @ \ {"observer"}, !.helper = @,
                                   !.focus = @]
                  /\ mem' = [mem EXCEPT !.owns = @ \ {"observer"}]
               \/ "observer" \notin mem.owns /\ device' = device /\ mem' = mem
               \/ "remove-observer" \in failed' /\ device' = device /\ mem' = mem
               \/ /\ "remove-observer" \in failed' /\ device' = device
                  /\ mem' = [mem EXCEPT !.owns = @ \ {"observer"}]
        BY <1>3, <3>6 DEF TogetherFocus!Uninstall, TogetherFocus!Now, TogetherFocus!Raise,
           TogetherFocus!ReturnUnheeded
      <4>2. "owned" \in DOMAIN device' /\ "owns" \in DOMAIN mem'
        BY <1>2, <4>1
      <4>3. \/ device'.owned = device.owned \ {"observer"} /\ mem'.owns = mem.owns \ {"observer"}
            \/ /\ device'.owned = device.owned
               /\ "observer" \notin mem.owns \/ "remove-observer" \in failed'
        BY <1>2, <4>1
      <4>4. QED
        BY <1>2, <1>6, <4>1, <4>2, <4>3
    <3>7. QED
      BY <1>4, <1>6, <3>1, <3>2, <3>3, <3>4, <3>5, <3>6 DEF TogetherFocus!Report
  <2>5. n \in 1..6
    BY <1>1, <1>6
  <2>6. /\ "drive" \in device.owned => n >= 6 \/ "stop-drive" \in failed
        /\ "helper" \in device.owned =>
             n >= 2 \/ {"stop-drive", "avd-again", "remove-helper"} \cap failed # {}
        /\ "observer" \in device.owned =>
             n >= 1 \/ {"stop-drive", "avd-again", "remove-observer"} \cap failed # {}
    BY DEF TogetherUndone, n
  <2>7. "drive" \in device'.owned => "stop-drive" \in failed'
    BY <2>1, <2>4, <2>5, <2>6
  <2>8. "helper" \in device'.owned =>
          new >= 2 \/ {"stop-drive", "avd-again", "remove-helper"} \cap failed' # {}
    BY <2>1, <2>3, <2>4, <2>5, <2>6
  <2>9. "observer" \in device'.owned =>
          new >= 1 \/ {"stop-drive", "avd-again", "remove-observer"} \cap failed' # {}
    BY <2>1, <2>3, <2>4, <2>5, <2>6
  <2>10. todo' # <<>> => device'.owned \cap {"helper", "observer"} \subseteq mem'.owns
    <3>1. CASE n = 1
      <4>1. new = 0 /\ Undoing(TogetherFocus!CLEANUP)'
        BY <2>2, <2>3, <3>1
      <4>2. todo' = <<>>
        BY <4>1, TogetherCleanup, RestEnds DEF Undoing, Rest, new
      <4>3. QED
        BY <4>2
    <3>2. QED
      BY <2>4, <2>5, <3>1
  <2>11. QED
    BY <1>2, <2>1, <2>2, <2>4, <2>7, <2>8, <2>9, <2>10 DEF TogetherUndone, new
<1>7. CASE todo = <<>>
  BY <1>4, <1>5, <1>7 DEF TogetherFocus!StopDrive, TogetherFocus!CloseServer,
     TogetherFocus!AvdAgain, TogetherFocus!StopHelper, TogetherFocus!Uninstall,
     TogetherFocus!Now
<1>8. QED
  BY <1>6, <1>7

LEMMA TogetherUndoneStep ==
  ASSUME TogetherUndone, TogetherFocus!Next
  PROVE  TogetherUndone'
<1>1. CASE TogetherFocus!Runner /\ mode = "run"
  <2>1. CASE mode' = "run" /\ todo' \in Seq(TogetherTry)
    BY <1>1, <2>1, TogetherRunning DEF TogetherUndone
  <2>2. CASE mode' = "cleanup" /\ todo' = TogetherFocus!CLEANUP
    <3>1. Undoing(TogetherFocus!CLEANUP)' /\ Len(todo') = 6
      BY <2>2, TogetherCleanup, UndoingStarts
    <3>2. QED
      BY <1>1, <2>2, <3>1, TogetherRunning DEF TogetherUndone
  <2>3. QED
    BY <1>1, <2>1, <2>2, TogetherRunning
<1>2. CASE TogetherFocus!Runner /\ mode = "cleanup"
  BY <1>2, TogetherCleaning
<1>3. ~(TogetherFocus!Runner /\ mode = "done")
  BY DEF TogetherFocus!Runner, TogetherFocus!Prepare, TogetherFocus!Install,
     TogetherFocus!InstallApp, TogetherFocus!Serve, TogetherFocus!Drive, TogetherFocus!Journey,
     TogetherFocus!StopDrive, TogetherFocus!CloseServer, TogetherFocus!AvdAgain,
     TogetherFocus!StopHelper, TogetherFocus!Uninstall, TogetherFocus!EnterFinally,
     TogetherFocus!Report, TogetherFocus!Running, TogetherFocus!Now
<1>4. QED
  BY <1>1, <1>2, <1>3, TogetherOthers DEF TogetherUndone, TogetherFocus!Next

LEMMA TogetherRestored ==
  ASSUME TogetherUndone, Done
  PROVE  TogetherFocus!Restored
<1>1. mode = "done" /\ Len(todo) = 0
  BY DEF Done, TogetherUndone
<1>2. /\ "drive" \in device.owned => {"stop-drive"} \cap failed # {}
      /\ "helper" \in device.owned =>
           {"stop-drive", "avd-again", "remove-helper"} \cap failed # {}
      /\ "observer" \in device.owned =>
           {"stop-drive", "avd-again", "remove-observer"} \cap failed # {}
      /\ device.owned \subseteq {"helper", "observer", "drive"}
  BY <1>1 DEF TogetherUndone
<1>3. QED
  BY <1>2 DEF TogetherFocus!Restored, TogetherFocus!Cleaner

-----------------------------------------------------------------------------
(* The interruption runner.                                                *)

InterruptionTry ==
  Interruption!SamplePhases \cup
  {"owned-avd", "prepare", "helper", "start-recording", "load-fixture", "tap-play", "app-pid",
   "foreground", "app-focus", "finish-recording", "acquire", "prompt", "held", "release",
   "no-focus", "new-nonce"}

InterruptionAll == Interruption!Program \o Interruption!RunTransient

InterruptionThings == {"helper", "recorder", "observer", "files", "directory"}

(* The helper is owned before it is told to take the focus.                *)
InterruptionUndone ==
  /\ {"owned", "focus", "app"} \subseteq DOMAIN device
  /\ {"owns_helper", "authorized", "recording"} \subseteq DOMAIN mem
  /\ device.owned \subseteq InterruptionThings
  /\ "helper" \in device.owned => mem.owns_helper
  /\ device.focus = "helper" => mem.owns_helper
  /\ "recorder" \in device.owned => mem.recording \/ "finish-recording" \in failed
  /\ mode \in {"run", "cleanup", "done"}
  /\ mode = "run" =>
       \/ todo \in {InterruptionAll, Tail(InterruptionAll), Tail(Tail(InterruptionAll))}
       \/ mem.owns_helper /\ todo \in Seq(InterruptionTry)
  /\ mode = "run" => "directory" \notin device.owned
  /\ mode # "run" =>
       /\ Undoing(Interruption!CLEANUP)
       /\ "helper" \in device.owned \/ device.focus = "helper" =>
            Len(todo) >= 5 \/ {"owned-again", "remove-helper"} \cap failed # {}
       /\ "recorder" \in device.owned =>
            Len(todo) >= 4 \/ {"owned-again", "finish-recording"} \cap failed # {}
       /\ "observer" \in device.owned =>
            Len(todo) >= 3 \/ {"owned-again", "remove-observer"} \cap failed # {}
       /\ "files" \in device.owned =>
            Len(todo) >= 1 \/ {"owned-again", "remove-files", "force-stop"} \cap failed # {}
       /\ device.app # 0 => \/ Len(todo) >= 2 /\ mem.authorized
                            \/ {"owned-again", "force-stop"} \cap failed # {}
       /\ "directory" \in device.owned => "prepare" \in failed
  /\ mode = "done" => todo = <<>>

(* The app is not there when the preparation begins, and it is started     *)
(* when it has succeeded.                                                  *)
InterruptionAdmits ==
  /\ todo # <<>> /\ Head(todo) = "prepare" => device.app = 0
  /\ todo # <<>> /\ Head(todo) = "load-fixture" => mem.authorized
  /\ device.app # 0 => mem.authorized

LEMMA InterruptionCleanup ==
  /\ Interruption!CLEANUP \in Seq({"owned-again", "release-again", "remove-helper",
                                   "finish-recording", "remove-observer",
                                   "force-stop", "remove-files"})
  /\ Len(Interruption!CLEANUP) = 7
  /\ Interruption!CLEANUP[1] = "owned-again"
  /\ Interruption!CLEANUP[2] = "release-again"
  /\ Interruption!CLEANUP[3] = "remove-helper"
  /\ Interruption!CLEANUP[4] = "finish-recording"
  /\ Interruption!CLEANUP[5] = "remove-observer"
  /\ Interruption!CLEANUP[6] = "force-stop"
  /\ Interruption!CLEANUP[7] = "remove-files"
BY DEF Interruption!CLEANUP

LEMMA InterruptionPlaces ==
  ASSUME Undoing(Interruption!CLEANUP)
  PROVE  /\ todo = <<>> => Len(todo) = 0
         /\ todo # <<>> => Len(todo) \in 1..7
         /\ todo # <<>> =>
              \/ Len(todo) = 7 /\ Head(todo) = "owned-again"
              \/ Len(todo) = 6 /\ Head(todo) = "release-again"
              \/ Len(todo) = 5 /\ Head(todo) = "remove-helper"
              \/ Len(todo) = 4 /\ Head(todo) = "finish-recording"
              \/ Len(todo) = 3 /\ Head(todo) = "remove-observer"
              \/ Len(todo) = 2 /\ Head(todo) = "force-stop"
              \/ Len(todo) = 1 /\ Head(todo) = "remove-files"
<1> DEFINE n == Len(todo)
<1>0. todo = <<>> => n = 0
  OBVIOUS
<1>1. todo # <<>> => n \in 1..7 /\ Head(todo) = Interruption!CLEANUP[7 - n + 1]
  BY InterruptionCleanup, UndoingParts
<1>2. todo # <<>> =>
        \/ n = 7
        \/ n = 6
        \/ n = 5
        \/ n = 4
        \/ n = 3
        \/ n = 2
        \/ n = 1
  BY <1>1
<1>3. /\ 7 - 1 + 1 = 7
      /\ 7 - 2 + 1 = 6
      /\ 7 - 3 + 1 = 5
      /\ 7 - 4 + 1 = 4
      /\ 7 - 5 + 1 = 3
      /\ 7 - 6 + 1 = 2
      /\ 7 - 7 + 1 = 1
  OBVIOUS
<1> HIDE DEF n
<1>4. todo # <<>> =>
        \/ n = 7 /\ Head(todo) = "owned-again"
        \/ n = 6 /\ Head(todo) = "release-again"
        \/ n = 5 /\ Head(todo) = "remove-helper"
        \/ n = 4 /\ Head(todo) = "finish-recording"
        \/ n = 3 /\ Head(todo) = "remove-observer"
        \/ n = 2 /\ Head(todo) = "force-stop"
        \/ n = 1 /\ Head(todo) = "remove-files"
  BY <1>1, <1>2, <1>3, InterruptionCleanup
<1>5. QED
  BY <1>0, <1>1, <1>4 DEF n

LEMMA InterruptionBegins ==
  /\ InterruptionAll \in Seq(InterruptionTry) /\ InterruptionAll # <<>>
  /\ Head(InterruptionAll) = "owned-avd"
  /\ Tail(InterruptionAll) \in Seq(InterruptionTry) /\ Tail(InterruptionAll) # <<>>
  /\ Head(Tail(InterruptionAll)) = "prepare"
  /\ Tail(Tail(InterruptionAll)) \in Seq(InterruptionTry) /\ Tail(Tail(InterruptionAll)) # <<>>
  /\ Head(Tail(Tail(InterruptionAll))) = "helper"
<1> DEFINE p == Interruption!Program
           t == Interruption!RunTransient
<1>1. p \in Seq(InterruptionTry)
  BY DEF Interruption!Program, InterruptionTry, Interruption!SamplePhases,
     Interruption!PlayingPhases, Interruption!AdvancedPhases, Interruption!PausedPhases,
     Interruption!StablePhases
<1>2. t \in Seq(InterruptionTry)
  BY DEF Interruption!RunTransient, InterruptionTry, Interruption!SamplePhases,
     Interruption!PlayingPhases, Interruption!AdvancedPhases, Interruption!PausedPhases,
     Interruption!StablePhases
<1>3. p[1] = "owned-avd" /\ p[2] = "prepare" /\ p[3] = "helper" /\ Len(p) = 34
  BY DEF Interruption!Program
<1> HIDE DEF p, t
<1>4. InterruptionAll = p \o t
  BY DEF InterruptionAll, p, t
<1>5. /\ InterruptionAll \in Seq(InterruptionTry)
      /\ Len(InterruptionAll) = Len(p) + Len(t) /\ Len(t) \in Nat
  BY <1>1, <1>2, <1>4
<1>6. \A i \in 1..(Len(p) + Len(t)) :
         InterruptionAll[i] = IF i <= Len(p) THEN p[i] ELSE t[i - Len(p)]
  BY <1>1, <1>2, <1>4, ConcatProperties
<1>7. /\ InterruptionAll[1] = "owned-avd" /\ InterruptionAll[2] = "prepare"
      /\ InterruptionAll[3] = "helper" /\ Len(InterruptionAll) >= 34
  BY <1>3, <1>5, <1>6
<1> HIDE DEF InterruptionAll
<1> DEFINE a == InterruptionAll
           b == Tail(a)
<1>8. a # <<>> /\ Head(a) = "owned-avd"
  BY <1>5, <1>7, FirstIsHead
<1>9. b \in Seq(InterruptionTry) /\ b[1] = a[2] /\ b[2] = a[3] /\ Len(b) >= 33
  BY <1>5, <1>7
<1> HIDE DEF b
<1>10. b # <<>> /\ Head(b) = "prepare"
  BY <1>7, <1>9, FirstIsHead
<1>11. Tail(b) \in Seq(InterruptionTry) /\ Tail(b)[1] = b[2] /\ Len(Tail(b)) >= 32
  BY <1>9
<1>12. Tail(b) # <<>> /\ Head(Tail(b)) = "helper"
  BY <1>7, <1>9, <1>11, FirstIsHead
<1>13. QED
  BY <1>5, <1>8, <1>9, <1>10, <1>11, <1>12 DEF b

LEMMA InterruptionInit ==
  ASSUME Interruption!Init
  PROVE  InterruptionUndone
BY DEF Interruption!Init, Interruption!Start, InterruptionUndone, InterruptionAll

LEMMA InterruptionRunning ==
  ASSUME InterruptionUndone, Interruption!Next, mode = "run", InterruptionAdmits
  PROVE  /\ \/ /\ mode' = "run"
               /\ \/ todo' \in {InterruptionAll, Tail(InterruptionAll), Tail(Tail(InterruptionAll))}
                  \/ mem'.owns_helper /\ todo' \in Seq(InterruptionTry)
            \/ mode' = "cleanup" /\ todo' = Interruption!CLEANUP
         /\ mode' = "run" => "directory" \notin device'.owned
         /\ "directory" \in device'.owned => "prepare" \in failed'
         /\ device'.app # 0 => mem'.authorized
         /\ {"owned", "focus", "app"} \subseteq DOMAIN device'
         /\ {"owns_helper", "authorized", "recording"} \subseteq DOMAIN mem'
         /\ device'.owned \subseteq InterruptionThings
         /\ "helper" \in device'.owned => mem'.owns_helper
         /\ device'.focus = "helper" => mem'.owns_helper
         /\ "recorder" \in device'.owned => mem'.recording \/ "finish-recording" \in failed'
<1>1. /\ todo \in Seq(InterruptionTry) /\ (todo # <<>> => Head(todo) \in InterruptionTry)
      /\ todo # <<>> /\ Head(todo) = "acquire" => mem.owns_helper
  BY InterruptionBegins, CallKeeps DEF InterruptionUndone
<1>2. ~Interruption!OwnedAgain /\ ~Interruption!ReleaseAgain /\ ~Interruption!RemoveHelper
      /\ ~Interruption!RemoveObserver /\ ~Interruption!ForceStop /\ ~Interruption!RemoveFiles
      /\ ~Interruption!Report
  BY <1>1 DEF Interruption!OwnedAgain, Interruption!ReleaseAgain, Interruption!RemoveHelper,
     Interruption!RemoveObserver, Interruption!ForceStop, Interruption!RemoveFiles,
     Interruption!Report, Interruption!Now, InterruptionTry, Interruption!SamplePhases,
     Interruption!PlayingPhases, Interruption!AdvancedPhases, Interruption!PausedPhases,
     Interruption!StablePhases
<1>3. /\ {"owned", "focus", "app"} \subseteq DOMAIN device'
      /\ {"owns_helper", "authorized", "recording"} \subseteq DOMAIN mem'
      /\ device'.owned \subseteq InterruptionThings
      /\ "helper" \in device'.owned => mem'.owns_helper
      /\ mem.owns_helper => mem'.owns_helper
  <2>1. {"owned", "focus", "app"} \subseteq DOMAIN device'
    BY <1>2 DEF InterruptionUndone, Interruption!Next, Interruption!Runner,
       Interruption!Check, Interruption!Fails, Interruption!Focus, Interruption!Prompt,
       Interruption!Foreground, Interruption!Prepare, Interruption!InstallHelper,
       Interruption!StartRecording, Interruption!FinishRecording,
       Interruption!LoadFixture, Interruption!TapPlay, Interruption!WaitFails,
       Interruption!Sample, Interruption!AppPid, Interruption!Acquire,
       Interruption!Release, Interruption!NewNonce, Interruption!AppFollowsFocus,
       Interruption!Play, Interruption!TimePasses, Interruption!Misbehave,
       Interruption!Acquired, Interruption!Released, Interruption!Own, Interruption!Drop,
       Interruption!Unchanged
  <2>2. {"owns_helper", "authorized", "recording"} \subseteq DOMAIN mem'
    BY <1>2 DEF InterruptionUndone, Interruption!Next, Interruption!Runner,
       Interruption!Check, Interruption!Fails, Interruption!Focus, Interruption!Prompt,
       Interruption!Foreground, Interruption!Prepare, Interruption!InstallHelper,
       Interruption!StartRecording, Interruption!FinishRecording,
       Interruption!LoadFixture, Interruption!TapPlay, Interruption!WaitFails,
       Interruption!Sample, Interruption!AppPid, Interruption!Acquire,
       Interruption!Release, Interruption!NewNonce, Interruption!AppFollowsFocus,
       Interruption!Play, Interruption!TimePasses, Interruption!Misbehave,
       Interruption!Acquired, Interruption!Released, Interruption!Own, Interruption!Drop,
       Interruption!Unchanged
  <2>3. device'.owned \subseteq InterruptionThings
    BY <1>2 DEF InterruptionUndone, InterruptionThings, Interruption!Next, Interruption!Runner,
       Interruption!Check, Interruption!Fails, Interruption!Focus, Interruption!Prompt,
       Interruption!Foreground, Interruption!Prepare, Interruption!InstallHelper,
       Interruption!StartRecording, Interruption!FinishRecording,
       Interruption!LoadFixture, Interruption!TapPlay, Interruption!WaitFails,
       Interruption!Sample, Interruption!AppPid, Interruption!Acquire,
       Interruption!Release, Interruption!NewNonce, Interruption!AppFollowsFocus,
       Interruption!Play, Interruption!TimePasses, Interruption!Misbehave,
       Interruption!Acquired, Interruption!Released, Interruption!Own, Interruption!Drop,
       Interruption!Unchanged
  <2>6. "helper" \in device'.owned => "helper" \in device.owned \/ mem'.owns_helper
    <3>1. CASE Interruption!InstallHelper
      BY <3>1 DEF InterruptionUndone, Interruption!InstallHelper
    <3>2. CASE ~Interruption!InstallHelper
      <4>1. CASE Interruption!Prepare
        BY <4>1 DEF InterruptionUndone, Interruption!Prepare
      <4>2. CASE ~Interruption!Prepare
        <5>1. device'.owned \in {device.owned, device.owned \cup {"recorder"},
                                device.owned \ {"recorder"}}
          BY <1>2, <3>2, <4>2 DEF InterruptionUndone, Interruption!Next, Interruption!Runner,
             Interruption!Check, Interruption!Fails, Interruption!Focus, Interruption!Prompt,
             Interruption!Foreground, Interruption!InstallHelper,
             Interruption!StartRecording, Interruption!FinishRecording,
             Interruption!LoadFixture, Interruption!TapPlay, Interruption!WaitFails,
             Interruption!Sample, Interruption!AppPid, Interruption!Acquire,
             Interruption!Release, Interruption!NewNonce, Interruption!AppFollowsFocus,
             Interruption!Play, Interruption!TimePasses, Interruption!Misbehave,
             Interruption!Acquired, Interruption!Released, Interruption!Own, Interruption!Drop,
             Interruption!Unchanged
        <5>2. QED
          BY <5>1
      <4>3. QED
        BY <4>1, <4>2
    <3>3. QED
      BY <3>1, <3>2
  <2>4. mem.owns_helper => mem'.owns_helper
    BY <1>2 DEF InterruptionUndone, Interruption!Next, Interruption!Runner,
       Interruption!Check, Interruption!Fails, Interruption!Focus, Interruption!Prompt,
       Interruption!Foreground, Interruption!Prepare, Interruption!InstallHelper,
       Interruption!StartRecording, Interruption!FinishRecording,
       Interruption!LoadFixture, Interruption!TapPlay, Interruption!WaitFails,
       Interruption!Sample, Interruption!AppPid, Interruption!Acquire,
       Interruption!Release, Interruption!NewNonce, Interruption!AppFollowsFocus,
       Interruption!Play, Interruption!TimePasses, Interruption!Misbehave,
       Interruption!Acquired, Interruption!Released, Interruption!Own, Interruption!Drop,
       Interruption!Unchanged
  <2>5. QED
    BY <2>1, <2>2, <2>3, <2>4, <2>6 DEF InterruptionUndone
<1>4. device'.focus = "helper" => mem'.owns_helper
  <2>1. CASE Interruption!Acquire
    BY <1>1, <1>3, <2>1 DEF Interruption!Acquire, Interruption!Now
  <2>2. CASE ~Interruption!Acquire
    <3>1. device'.focus \in {device.focus, "app", "none"}
      BY <1>2, <2>2 DEF InterruptionUndone, Interruption!Next, Interruption!Runner,
         Interruption!Check, Interruption!Fails, Interruption!Focus,
         Interruption!Prompt, Interruption!Foreground, Interruption!Prepare,
         Interruption!InstallHelper, Interruption!StartRecording,
         Interruption!FinishRecording, Interruption!LoadFixture,
         Interruption!TapPlay, Interruption!WaitFails, Interruption!Sample,
         Interruption!AppPid, Interruption!Acquire, Interruption!Release,
         Interruption!NewNonce, Interruption!AppFollowsFocus, Interruption!Play,
         Interruption!TimePasses, Interruption!Misbehave,
         Interruption!Acquired, Interruption!Released, Interruption!Own, Interruption!Drop,
         Interruption!Unchanged
    <3>2. QED
      BY <1>3, <3>1 DEF InterruptionUndone
  <2>3. QED
    BY <2>1, <2>2
<1>5. "recorder" \in device'.owned => mem'.recording \/ "finish-recording" \in failed'
  <2>1. CASE Interruption!FinishRecording
    <3>1. \/ device' = [device EXCEPT !.owned = @ \ {"recorder"}]
          \/ "finish-recording" \in failed'
      BY <2>1 DEF Interruption!FinishRecording, Interruption!Drop, Interruption!Raise,
         Interruption!Now
    <3>2. QED
      BY <3>1 DEF InterruptionUndone
  <2>2. CASE ~Interruption!FinishRecording
    <3>1. "recorder" \in device'.owned => "recorder" \in device.owned \/ mem'.recording
      <4>1. CASE Interruption!StartRecording
        BY <4>1 DEF InterruptionUndone, Interruption!StartRecording
      <4>2. CASE ~Interruption!StartRecording
        <5>1. CASE Interruption!Prepare
          BY <5>1 DEF InterruptionUndone, Interruption!Prepare
        <5>2. CASE ~Interruption!Prepare
          <6>1. device'.owned \in {device.owned, device.owned \cup {"helper"}}
            BY <1>2, <2>2, <4>2, <5>2 DEF InterruptionUndone, Interruption!Next, Interruption!Runner,
               Interruption!Check, Interruption!Fails, Interruption!Focus, Interruption!Prompt,
               Interruption!Foreground, Interruption!InstallHelper,
               Interruption!StartRecording, Interruption!FinishRecording,
               Interruption!LoadFixture, Interruption!TapPlay, Interruption!WaitFails,
               Interruption!Sample, Interruption!AppPid, Interruption!Acquire,
               Interruption!Release, Interruption!NewNonce, Interruption!AppFollowsFocus,
               Interruption!Play, Interruption!TimePasses, Interruption!Misbehave,
               Interruption!Acquired, Interruption!Released, Interruption!Own, Interruption!Drop,
               Interruption!Unchanged
          <6>2. QED
            BY <6>1
        <5>3. QED
          BY <5>1, <5>2
      <4>3. QED
        BY <4>1, <4>2
    <3>4. mem.recording => mem'.recording
      BY <1>2, <2>2 DEF InterruptionUndone, Interruption!Next, Interruption!Runner,
         Interruption!Check, Interruption!Fails, Interruption!Focus,
         Interruption!Prompt, Interruption!Foreground, Interruption!Prepare,
         Interruption!InstallHelper, Interruption!StartRecording,
         Interruption!FinishRecording, Interruption!LoadFixture,
         Interruption!TapPlay, Interruption!WaitFails, Interruption!Sample,
         Interruption!AppPid, Interruption!Acquire, Interruption!Release,
         Interruption!NewNonce, Interruption!AppFollowsFocus, Interruption!Play,
         Interruption!TimePasses, Interruption!Misbehave,
         Interruption!Acquired, Interruption!Released, Interruption!Own, Interruption!Drop,
         Interruption!Unchanged
    <3>2. failed \subseteq failed'
      BY <1>2, <2>2 DEF Interruption!Next, Interruption!Runner,
         Interruption!Check, Interruption!Fails, Interruption!Focus,
         Interruption!Prompt, Interruption!Foreground, Interruption!Prepare,
         Interruption!InstallHelper, Interruption!StartRecording,
         Interruption!FinishRecording, Interruption!LoadFixture,
         Interruption!TapPlay, Interruption!WaitFails, Interruption!Sample,
         Interruption!AppPid, Interruption!Acquire, Interruption!Release,
         Interruption!NewNonce, Interruption!AppFollowsFocus, Interruption!Play,
         Interruption!TimePasses, Interruption!Misbehave,
         Interruption!Require, Interruption!ReturnOrFail, Interruption!Return,
         Interruption!Call, Interruption!Raise, Interruption!EnterFinally,
         Interruption!control
    <3>3. QED
      BY <3>1, <3>2, <3>4 DEF InterruptionUndone
  <2>3. QED
    BY <2>1, <2>2
<1>6. \/ mode' = "run" /\ todo' = todo
      \/ mode' = "run" /\ todo # <<>> /\ todo' = <<>> \o Tail(todo)
         /\ (Head(todo) = "helper" => mem'.owns_helper)
      \/ mode' = "cleanup" /\ todo' = Interruption!CLEANUP
  BY <1>2 DEF InterruptionUndone, Interruption!Next, Interruption!Runner,
     Interruption!Check, Interruption!Fails, Interruption!Focus, Interruption!Prompt,
     Interruption!Foreground, Interruption!Prepare, Interruption!InstallHelper,
     Interruption!StartRecording, Interruption!FinishRecording,
     Interruption!LoadFixture, Interruption!TapPlay, Interruption!WaitFails,
     Interruption!Sample, Interruption!AppPid, Interruption!Acquire,
     Interruption!Release, Interruption!NewNonce, Interruption!AppFollowsFocus,
     Interruption!Play, Interruption!TimePasses, Interruption!Misbehave,
     Interruption!Require, Interruption!ReturnOrFail, Interruption!Return,
     Interruption!Call, Interruption!Raise, Interruption!EnterFinally,
     Interruption!control, Interruption!Running, Interruption!Now, Interruption!Waiting,
     Interruption!SamplePhases,
     Interruption!PlayingPhases, Interruption!AdvancedPhases, Interruption!PausedPhases,
     Interruption!StablePhases
<1>7. <<>> \in Seq(InterruptionTry)
  OBVIOUS
<1>8. \/ /\ mode' = "run"
         /\ \/ todo' \in {InterruptionAll, Tail(InterruptionAll), Tail(Tail(InterruptionAll))}
            \/ mem'.owns_helper /\ todo' \in Seq(InterruptionTry)
      \/ mode' = "cleanup" /\ todo' = Interruption!CLEANUP
  <2>1. CASE mode' = "run" /\ todo' = todo
    BY <1>3, <2>1 DEF InterruptionUndone
  <2>2. CASE mode' = "run" /\ todo # <<>> /\ todo' = <<>> \o Tail(todo)
             /\ (Head(todo) = "helper" => mem'.owns_helper)
    <3>1. todo' \in Seq(InterruptionTry) /\ todo' = Tail(todo)
      BY <1>1, <1>7, <2>2, CallKeeps
    <3>2. QED
      BY <1>3, <2>2, <3>1, InterruptionBegins DEF InterruptionUndone
  <2>3. QED
    BY <1>6, <2>1, <2>2
<1>9. /\ mode' = "run" => "directory" \notin device'.owned
      /\ "directory" \in device'.owned => "prepare" \in failed'
  <2>1. CASE Interruption!Prepare
    BY <2>1 DEF InterruptionUndone, Interruption!Prepare, Interruption!Now, Interruption!Raise,
       Interruption!Return, Interruption!Call
  <2>2. CASE ~Interruption!Prepare
    <3>1. device'.owned \in {device.owned, device.owned \cup {"helper"},
                            device.owned \cup {"recorder"}, device.owned \ {"recorder"}}
      BY <1>2, <2>2 DEF InterruptionUndone, Interruption!Next, Interruption!Runner,
         Interruption!Check, Interruption!Fails, Interruption!Focus, Interruption!Prompt,
         Interruption!Foreground, Interruption!InstallHelper,
         Interruption!StartRecording, Interruption!FinishRecording,
         Interruption!LoadFixture, Interruption!TapPlay, Interruption!WaitFails,
         Interruption!Sample, Interruption!AppPid, Interruption!Acquire,
         Interruption!Release, Interruption!NewNonce, Interruption!AppFollowsFocus,
         Interruption!Play, Interruption!TimePasses, Interruption!Misbehave,
         Interruption!Acquired, Interruption!Released, Interruption!Own, Interruption!Drop,
         Interruption!Unchanged
    <3>2. QED
      BY <3>1 DEF InterruptionUndone
  <2>3. QED
    BY <2>1, <2>2
<1>10. device'.app # 0 => mem'.authorized
  <2>1. CASE Interruption!Prepare
    <3>1. device.app = 0 /\ device'.app = device.app
      BY <2>1 DEF InterruptionAdmits, InterruptionUndone, Interruption!Prepare, Interruption!Now
    <3>2. QED
      BY <3>1
  <2>2. CASE Interruption!LoadFixture
    BY <2>2 DEF InterruptionAdmits, InterruptionUndone, Interruption!LoadFixture, Interruption!Now
  <2>3. CASE Interruption!Misbehave
    BY <2>3 DEF InterruptionAdmits, Interruption!Misbehave
  <2>4. CASE ~Interruption!Prepare /\ ~Interruption!LoadFixture /\ ~Interruption!Misbehave
    <3>1. device'.app = device.app
      BY <1>2, <2>4 DEF InterruptionUndone, Interruption!Next, Interruption!Runner,
         Interruption!Check, Interruption!Fails, Interruption!Focus, Interruption!Prompt,
         Interruption!Foreground, Interruption!InstallHelper,
         Interruption!StartRecording, Interruption!FinishRecording,
         Interruption!LoadFixture, Interruption!TapPlay, Interruption!WaitFails,
         Interruption!Sample, Interruption!AppPid, Interruption!Acquire,
         Interruption!Release, Interruption!NewNonce, Interruption!AppFollowsFocus,
         Interruption!Play, Interruption!TimePasses, Interruption!Misbehave,
         Interruption!Acquired, Interruption!Released, Interruption!Own, Interruption!Drop,
         Interruption!Unchanged
    <3>2. mem'.authorized = mem.authorized
      BY <1>2, <2>4 DEF InterruptionUndone, Interruption!Next, Interruption!Runner,
         Interruption!Check, Interruption!Fails, Interruption!Focus, Interruption!Prompt,
         Interruption!Foreground, Interruption!InstallHelper,
         Interruption!StartRecording, Interruption!FinishRecording,
         Interruption!LoadFixture, Interruption!TapPlay, Interruption!WaitFails,
         Interruption!Sample, Interruption!AppPid, Interruption!Acquire,
         Interruption!Release, Interruption!NewNonce, Interruption!AppFollowsFocus,
         Interruption!Play, Interruption!TimePasses, Interruption!Misbehave,
         Interruption!Acquired, Interruption!Released, Interruption!Own, Interruption!Drop,
         Interruption!Unchanged
    <3>3. QED
      BY <3>1, <3>2 DEF InterruptionAdmits
  <2>5. QED
    BY <2>1, <2>2, <2>3, <2>4
<1>11. QED
  BY <1>3, <1>4, <1>5, <1>8, <1>9, <1>10

LEMMA InterruptionCleaning ==
  ASSUME InterruptionUndone, Interruption!Next, mode = "cleanup"
  PROVE  InterruptionUndone'
<1> DEFINE n == Len(todo)
           new == Len(todo')
<1>1. Undoing(Interruption!CLEANUP)
  BY DEF InterruptionUndone
<1>2. /\ todo = <<>> => n = 0
      /\ todo # <<>> => n \in 1..7
      /\ todo # <<>> =>
           \/ n = 7 /\ Head(todo) = "owned-again"
           \/ n = 6 /\ Head(todo) = "release-again"
           \/ n = 5 /\ Head(todo) = "remove-helper"
           \/ n = 4 /\ Head(todo) = "finish-recording"
           \/ n = 3 /\ Head(todo) = "remove-observer"
           \/ n = 2 /\ Head(todo) = "force-stop"
           \/ n = 1 /\ Head(todo) = "remove-files"
  BY <1>1, InterruptionPlaces
<1>3. /\ n = Len(todo) /\ new = Len(todo')
      /\ {"owned", "focus", "app"} \subseteq DOMAIN device
      /\ {"owns_helper", "authorized", "recording"} \subseteq DOMAIN mem
      /\ device.owned \subseteq InterruptionThings
      /\ "helper" \in device.owned => mem.owns_helper
      /\ device.focus = "helper" => mem.owns_helper
      /\ "recorder" \in device.owned => mem.recording \/ "finish-recording" \in failed
      /\ "helper" \in device.owned \/ device.focus = "helper" =>
           n >= 5 \/ {"owned-again", "remove-helper"} \cap failed # {}
      /\ "recorder" \in device.owned =>
           n >= 4 \/ {"owned-again", "finish-recording"} \cap failed # {}
      /\ "observer" \in device.owned =>
           n >= 3 \/ {"owned-again", "remove-observer"} \cap failed # {}
      /\ "files" \in device.owned =>
           n >= 1 \/ {"owned-again", "remove-files", "force-stop"} \cap failed # {}
      /\ device.app # 0 => \/ n >= 2 /\ mem.authorized
                           \/ {"owned-again", "force-stop"} \cap failed # {}
      /\ "directory" \in device.owned => "prepare" \in failed
  BY DEF InterruptionUndone
<1> HIDE DEF n, new
<1>4. \/ Interruption!OwnedAgain \/ Interruption!ReleaseAgain \/ Interruption!RemoveHelper
      \/ Interruption!FinishRecording \/ Interruption!RemoveObserver
      \/ Interruption!ForceStop \/ Interruption!RemoveFiles
      \/ Interruption!Report /\ UNCHANGED <<device, mem, seen>>
  BY <1>2 DEF Interruption!Next, Interruption!Runner,
     Interruption!Check, Interruption!Fails, Interruption!Focus, Interruption!Prompt,
     Interruption!Foreground, Interruption!Prepare, Interruption!InstallHelper,
     Interruption!StartRecording, Interruption!LoadFixture, Interruption!TapPlay,
     Interruption!WaitFails, Interruption!Sample, Interruption!AppPid,
     Interruption!Acquire, Interruption!Release, Interruption!NewNonce,
     Interruption!AppFollowsFocus, Interruption!Play, Interruption!TimePasses,
     Interruption!Misbehave,
     Interruption!Running, Interruption!Now, Interruption!Waiting, Interruption!EnterFinally,
     Interruption!Unchanged
<1>5. CASE Interruption!Report /\ UNCHANGED <<device, mem, seen>>
  BY <1>5 DEF Interruption!Report, InterruptionUndone, Undoing, Rest
<1>6. CASE todo # <<>>
  <2>1. /\ \/ todo' = Tail(todo)
           \/ todo' = <<>> \o Tail(todo)
           \/ todo' = <<>> /\ {"owned-again", "force-stop"} \cap failed' # {} /\ n \in {2, 7}
              /\ (n = 7 => "owned-again" \in failed')
        /\ mode' = "cleanup" /\ failed \subseteq failed'
    <3>1. CASE Interruption!OwnedAgain
      <4>1. n = 7 /\ Head(todo) = "owned-again"
        BY <1>2, <3>1 DEF Interruption!OwnedAgain, Interruption!Now
      <4>2. Interruption!Return \/ Interruption!RaiseOut
        BY <3>1 DEF Interruption!OwnedAgain
      <4>3. QED
        BY <4>1, <4>2 DEF Interruption!Return, Interruption!Call, Interruption!RaiseOut
    <3>2. CASE Interruption!ForceStop
      <4>1. n = 2 /\ Head(todo) = "force-stop"
        BY <1>2, <3>2 DEF Interruption!ForceStop, Interruption!Now
      <4>2. Interruption!Return \/ Interruption!ReturnUnheeded \/ Interruption!RaiseOut
        BY <3>2 DEF Interruption!ForceStop
      <4>3. QED
        BY <4>1, <4>2 DEF Interruption!Return, Interruption!Call, Interruption!RaiseOut,
           Interruption!ReturnUnheeded
    <3>3. CASE ~Interruption!OwnedAgain /\ ~Interruption!ForceStop
      <4>1. \/ Interruption!Return \/ Interruption!Raise(Interruption!CLEANUP)
            \/ Interruption!ReturnUnheeded
        BY <1>4, <1>6, <3>3 DEF Interruption!ReleaseAgain, Interruption!RemoveHelper,
           Interruption!FinishRecording, Interruption!RemoveObserver,
           Interruption!RemoveFiles, Interruption!Report
      <4>2. QED
        BY <4>1 DEF Interruption!Return, Interruption!Call, Interruption!Raise,
           Interruption!ReturnUnheeded, Interruption!Running
    <3>4. QED
      BY <3>1, <3>2, <3>3
  <2>2. Undoing(Interruption!CLEANUP)'
    BY <1>1, <1>6, <2>1, InterruptionCleanup, UndoingNext, UndoingOver
  <2>3. \/ new = n - 1
        \/ new = 0 /\ n = 7 /\ "owned-again" \in failed'
        \/ new = 0 /\ n = 2 /\ {"owned-again", "force-stop"} \cap failed' # {}
    BY <1>1, <1>3, <1>6, <2>1, InterruptionCleanup, UndoingNext, UndoingOver
  <2> DEFINE Effects ==
        /\ {"owned", "focus", "app"} \subseteq DOMAIN device'
        /\ {"owns_helper", "authorized", "recording"} \subseteq DOMAIN mem'
        /\ device'.owned \subseteq device.owned
        /\ device'.focus = "helper" => device.focus = "helper"
        /\ "helper" \in device'.owned \/ device'.focus = "helper" => mem'.owns_helper
        /\ "recorder" \in device'.owned => mem'.recording \/ "finish-recording" \in failed'
        /\ n = 5 => \/ "helper" \notin device'.owned /\ device'.focus # "helper"
                    \/ "remove-helper" \in failed'
        /\ n = 4 => "recorder" \notin device'.owned \/ "finish-recording" \in failed'
        /\ n = 3 => "observer" \notin device'.owned \/ "remove-observer" \in failed'
        /\ n = 1 => "files" \notin device'.owned \/ "remove-files" \in failed'
        /\ device'.app = device.app \/ device'.app = 0
        /\ n > 2 => mem'.authorized = mem.authorized
        /\ n = 2 /\ mem.authorized => device'.app = 0 \/ "force-stop" \in failed'
  <2>4. Effects
    <3>1. CASE Interruption!OwnedAgain
      <4>1. n = 7 /\ device' = device /\ mem' = mem
        BY <1>2, <3>1 DEF Interruption!OwnedAgain, Interruption!Now, Interruption!Unchanged
      <4>2. QED
        BY <1>3, <2>1, <4>1
    <3>2. CASE Interruption!ReleaseAgain
      <4>1. n = 6 /\ mem' = mem /\ (device' = device \/ device' = Interruption!Released)
        BY <1>2, <3>2 DEF Interruption!ReleaseAgain, Interruption!Now
      <4>2. /\ {"owned", "focus", "app"} \subseteq DOMAIN device'
            /\ device'.owned = device.owned /\ device'.app = device.app
        BY <1>3, <4>1 DEF Interruption!Released
      <4>3. device'.focus = "helper" => device.focus = "helper"
        BY <1>3, <4>1 DEF Interruption!Released
      <4>4. QED
        BY <1>3, <2>1, <4>1, <4>2, <4>3
    <3>3. CASE Interruption!RemoveHelper
      <4>1. /\ n = 5
            /\ \/ /\ device' = [Interruption!Released EXCEPT !.owned = @ \ {"helper"}]
                  /\ mem' = [mem EXCEPT !.owns_helper = FALSE]
               \/ ~mem.owns_helper /\ device' = device /\ mem' = mem
               \/ "remove-helper" \in failed' /\ device' = device /\ mem' = mem
        BY <1>2, <3>3 DEF Interruption!RemoveHelper, Interruption!Now, Interruption!Raise
      <4>2. /\ {"owned", "focus", "app"} \subseteq DOMAIN device'
            /\ {"owns_helper", "authorized", "recording"} \subseteq DOMAIN mem'
            /\ device'.app = device.app /\ mem'.authorized = mem.authorized
            /\ mem'.recording = mem.recording
        BY <1>3, <4>1 DEF Interruption!Released
      <4>3. ASSUME device' = [Interruption!Released EXCEPT !.owned = @ \ {"helper"}]
            PROVE  device'.owned = device.owned \ {"helper"} /\ device'.focus # "helper"
        <5> DEFINE r == Interruption!Released
        <5>1. r.owned = device.owned /\ {"owned", "focus"} \subseteq DOMAIN r
          BY <1>3 DEF Interruption!Released
        <5>2. r.focus # "helper"
          BY <1>3 DEF Interruption!Released
        <5> HIDE DEF r
        <5>3. device' = [r EXCEPT !.owned = @ \ {"helper"}]
          BY <4>3 DEF r
        <5>4. QED
          BY <5>1, <5>2, <5>3
      <4>4. QED
        BY <1>3, <2>1, <4>1, <4>2, <4>3
    <3>4. CASE Interruption!FinishRecording
      <4>1. /\ n = 4
            /\ \/ device' = [device EXCEPT !.owned = @ \ {"recorder"}]
               \/ device' = device /\ "finish-recording" \in failed'
            /\ mem' = [mem EXCEPT !.recording = FALSE]
        BY <1>2, <3>4 DEF Interruption!FinishRecording, Interruption!Now, Interruption!Raise,
           Interruption!Drop
      <4>2. /\ {"owned", "focus", "app"} \subseteq DOMAIN device'
            /\ {"owns_helper", "authorized", "recording"} \subseteq DOMAIN mem'
            /\ device'.app = device.app /\ mem'.authorized = mem.authorized
            /\ mem'.owns_helper = mem.owns_helper /\ device'.focus = device.focus
        BY <1>3, <4>1
      <4>3. \/ device'.owned = device.owned \ {"recorder"}
            \/ device'.owned = device.owned /\ "finish-recording" \in failed'
        BY <1>3, <4>1
      <4>4. QED
        BY <1>3, <2>1, <4>1, <4>2, <4>3
    <3>5. CASE Interruption!RemoveObserver
      <4>1. /\ n = 3 /\ mem' = mem
            /\ \/ device' = [device EXCEPT !.owned = @ \ {"observer"}]
               \/ device' = device /\ "remove-observer" \in failed'
        BY <1>2, <3>5 DEF Interruption!RemoveObserver, Interruption!Now, Interruption!Raise,
           Interruption!ReturnUnheeded, Interruption!Drop
      <4>2. /\ {"owned", "focus", "app"} \subseteq DOMAIN device'
            /\ device'.app = device.app /\ device'.focus = device.focus
        BY <1>3, <4>1
      <4>3. \/ device'.owned = device.owned \ {"observer"}
            \/ device'.owned = device.owned /\ "remove-observer" \in failed'
        BY <1>3, <4>1
      <4>4. QED
        BY <1>3, <2>1, <4>1, <4>2, <4>3
    <3>6. CASE Interruption!ForceStop
      <4>1. /\ n = 2 /\ mem' = mem
            /\ \/ ~mem.authorized /\ device' = device
               \/ device' = [device EXCEPT !.app = 0, !.playing = FALSE]
               \/ device' = device /\ "force-stop" \in failed'
        BY <1>2, <3>6 DEF Interruption!ForceStop, Interruption!Now, Interruption!RaiseOut,
           Interruption!ReturnUnheeded
      <4>2. /\ {"owned", "focus", "app"} \subseteq DOMAIN device'
            /\ device'.owned = device.owned /\ device'.focus = device.focus
        BY <1>3, <4>1
      <4>3. /\ mem.authorized => device'.app = 0 \/ "force-stop" \in failed'
            /\ device'.app = device.app \/ device'.app = 0
        BY <1>3, <4>1
      <4>4. QED
        BY <1>3, <2>1, <4>1, <4>2, <4>3
    <3>7. CASE Interruption!RemoveFiles
      <4>1. /\ n = 1
            /\ mem' = [mem EXCEPT !.authorized = FALSE] \/ mem' = mem
            /\ \/ device' = [device EXCEPT !.owned = @ \ {"files"}]
               \/ device' = device /\ "remove-files" \in failed'
        BY <1>2, <3>7 DEF Interruption!RemoveFiles, Interruption!Now, Interruption!Raise,
           Interruption!ReturnUnheeded, Interruption!Drop
      <4>2. /\ {"owned", "focus", "app"} \subseteq DOMAIN device'
            /\ {"owns_helper", "authorized", "recording"} \subseteq DOMAIN mem'
            /\ device'.app = device.app /\ device'.focus = device.focus
            /\ mem'.owns_helper = mem.owns_helper /\ mem'.recording = mem.recording
        BY <1>3, <4>1
      <4>3. \/ device'.owned = device.owned \ {"files"}
            \/ device'.owned = device.owned /\ "remove-files" \in failed'
        BY <1>3, <4>1
      <4>4. QED
        BY <1>3, <2>1, <4>1, <4>2, <4>3
    <3>8. QED
      BY <1>4, <1>6, <3>1, <3>2, <3>3, <3>4, <3>5, <3>6, <3>7 DEF Interruption!Report
  <2>5. n \in 1..7
    BY <1>2, <1>6
  <2>6. "helper" \in device'.owned \/ device'.focus = "helper" =>
          new >= 5 \/ {"owned-again", "remove-helper"} \cap failed' # {}
    BY <1>3, <2>1, <2>3, <2>4, <2>5
  <2>7. "recorder" \in device'.owned =>
          new >= 4 \/ {"owned-again", "finish-recording"} \cap failed' # {}
    BY <1>3, <2>1, <2>3, <2>4, <2>5
  <2>8. "observer" \in device'.owned =>
          new >= 3 \/ {"owned-again", "remove-observer"} \cap failed' # {}
    BY <1>3, <2>1, <2>3, <2>4, <2>5
  <2>9. "files" \in device'.owned =>
          new >= 1 \/ {"owned-again", "remove-files", "force-stop"} \cap failed' # {}
    BY <1>3, <2>1, <2>3, <2>4, <2>5
  <2>10. device'.app # 0 => \/ new >= 2 /\ mem'.authorized
                            \/ {"owned-again", "force-stop"} \cap failed' # {}
    <3>1. device'.app # 0 => \/ n >= 2 /\ mem.authorized
                             \/ {"owned-again", "force-stop"} \cap failed' # {}
      BY <1>3, <2>1, <2>4
    <3>2. CASE n > 2 /\ new = n - 1
      BY <2>4, <2>5, <3>1, <3>2
    <3>3. CASE n = 2
      BY <2>4, <3>1, <3>3
    <3>4. CASE n = 1
      BY <3>1, <3>4
    <3>5. CASE "owned-again" \in failed'
      BY <3>5
    <3>6. n = 1 \/ n = 2 \/ n > 2
      BY <2>5
    <3>7. QED
      BY <2>3, <3>2, <3>3, <3>4, <3>5, <3>6
  <2>11. "directory" \in device'.owned => "prepare" \in failed'
    BY <1>3, <2>1, <2>4
  <2>12. QED
    BY <1>3, <2>1, <2>2, <2>4, <2>6, <2>7, <2>8, <2>9, <2>10, <2>11 DEF InterruptionUndone, new
<1>7. CASE todo = <<>>
  BY <1>4, <1>5, <1>7 DEF Interruption!OwnedAgain, Interruption!ReleaseAgain,
     Interruption!RemoveHelper, Interruption!FinishRecording, Interruption!RemoveObserver,
     Interruption!ForceStop, Interruption!RemoveFiles, Interruption!Now
<1>8. QED
  BY <1>6, <1>7

LEMMA InterruptionUndoneStep ==
  ASSUME InterruptionUndone, Interruption!Next, mode = "run" => InterruptionAdmits
  PROVE  InterruptionUndone'
<1>1. CASE mode = "run"
  <2>1. CASE mode' = "run"
    BY <1>1, <2>1, InterruptionRunning DEF InterruptionUndone
  <2>2. CASE mode' = "cleanup" /\ todo' = Interruption!CLEANUP
    <3>1. Undoing(Interruption!CLEANUP)' /\ Len(todo') = 7
      BY <2>2, InterruptionCleanup, UndoingStarts
    <3>2. QED
      BY <1>1, <2>2, <3>1, InterruptionRunning DEF InterruptionUndone
  <2>3. QED
    BY <1>1, <2>1, <2>2, InterruptionRunning
<1>2. CASE mode = "cleanup"
  BY <1>2, InterruptionCleaning
<1>3. CASE mode = "done"
  BY <1>3 DEF Interruption!Next, Interruption!Runner,
     Interruption!Check, Interruption!Fails, Interruption!Focus, Interruption!Prompt,
     Interruption!Foreground, Interruption!Prepare, Interruption!InstallHelper,
     Interruption!StartRecording, Interruption!FinishRecording,
     Interruption!LoadFixture, Interruption!TapPlay, Interruption!WaitFails,
     Interruption!Sample, Interruption!AppPid, Interruption!Acquire,
     Interruption!Release, Interruption!NewNonce, Interruption!AppFollowsFocus,
     Interruption!Play, Interruption!TimePasses, Interruption!Misbehave,
     Interruption!OwnedAgain, Interruption!ReleaseAgain, Interruption!RemoveHelper,
     Interruption!RemoveObserver, Interruption!ForceStop, Interruption!RemoveFiles,
     Interruption!Running, Interruption!Now, Interruption!Waiting, Interruption!EnterFinally,
     Interruption!Report
<1>4. QED
  BY <1>1, <1>2, <1>3 DEF InterruptionUndone

LEMMA InterruptionRestored ==
  ASSUME InterruptionUndone, Done
  PROVE  Interruption!Restored
<1>1. mode = "done" /\ Len(todo) = 0
  BY DEF Done, InterruptionUndone
<1>2. /\ "helper" \in device.owned \/ device.focus = "helper" =>
           {"owned-again", "remove-helper"} \cap failed # {}
      /\ "recorder" \in device.owned => {"owned-again", "finish-recording"} \cap failed # {}
      /\ "observer" \in device.owned => {"owned-again", "remove-observer"} \cap failed # {}
      /\ "files" \in device.owned =>
           {"owned-again", "remove-files", "force-stop"} \cap failed # {}
      /\ "directory" \in device.owned => {"prepare"} \cap failed # {}
      /\ device.app # 0 => {"owned-again", "force-stop"} \cap failed # {}
      /\ device.owned \subseteq InterruptionThings
  BY <1>1 DEF InterruptionUndone
<1>3. QED
  BY <1>2 DEF Interruption!Restored, Interruption!Cleaner, InterruptionThings

-----------------------------------------------------------------------------
(* The lifecycle runner.                                                   *)

LifecycleTry ==
  Lifecycle!SamplePhases \cup Lifecycle!Verdicts \cup
  {"prepare", "start-recording", "share", "review", "open", "tap-play", "finish-recording",
   "before-home-pid", "home", "launch-main", "tap-pause", "force-stop-app", "history",
   "new-pid", "tap-card", "tap-continue"}

(* A dialog that was found is tapped next, and was found in time.          *)
LifecycleTaps ==
  /\ "taps" \in DOMAIN seen /\ "recoveries" \in DOMAIN mem
  /\ seen.taps = mem.recoveries /\ mem.recoveries \in Nat
  /\ mem.recoveries <= MAX_PREPARATION_ANR_RECOVERIES
  /\ mode = "run" =>
       \/ todo \in Seq(LifecycleTry)
       \/ /\ todo \in {<<"recover">> \o rest : rest \in Seq(LifecycleTry)}
          /\ mem.recoveries < MAX_PREPARATION_ANR_RECOVERIES
  /\ mode \in {"run", "cleanup", "done"}
  /\ mode = "done" => todo = <<>>
  /\ mode # "run" => Undoing(Lifecycle!CLEANUP)

LifecycleThings == {"recorder", "observer", "files", "directory"}

LifecycleUndone ==
  /\ {"owned", "app"} \subseteq DOMAIN device
  /\ {"cleanup_authorized", "recording"} \subseteq DOMAIN mem
  /\ device.owned \subseteq LifecycleThings
  /\ "recorder" \in device.owned => mem.recording \/ "finish-recording" \in failed
  /\ mode = "run" => "directory" \notin device.owned
  /\ mode # "run" =>
       /\ "recorder" \in device.owned => Len(todo) >= 4 \/ "finish-recording" \in failed
       /\ "observer" \in device.owned => Len(todo) >= 3 \/ "remove-observer" \in failed
       /\ "files" \in device.owned =>
            Len(todo) >= 1 \/ {"remove-files", "force-stop"} \cap failed # {}
       /\ device.app # 0 => \/ Len(todo) >= 2 /\ mem.cleanup_authorized
                            \/ "force-stop" \in failed
       /\ "directory" \in device.owned => "prepare" \in failed

(* The app is not there when the preparation begins, and it is started     *)
(* when it has succeeded.                                                  *)
LifecycleAdmits ==
  /\ todo # <<>> /\ Head(todo) = "prepare" => device.app = 0
  /\ todo # <<>> /\ Head(todo) \in {"share", "launch-main"} => mem.cleanup_authorized
  /\ device.app # 0 => mem.cleanup_authorized

LEMMA LifecycleCleanup ==
  /\ Lifecycle!CLEANUP \in Seq({"finish-recording", "remove-observer",
                                "force-stop", "remove-files"})
  /\ Len(Lifecycle!CLEANUP) = 4
  /\ Lifecycle!CLEANUP[1] = "finish-recording"
  /\ Lifecycle!CLEANUP[2] = "remove-observer"
  /\ Lifecycle!CLEANUP[3] = "force-stop"
  /\ Lifecycle!CLEANUP[4] = "remove-files"
BY DEF Lifecycle!CLEANUP

LEMMA LifecyclePlaces ==
  ASSUME Undoing(Lifecycle!CLEANUP)
  PROVE  /\ todo = <<>> => Len(todo) = 0
         /\ todo # <<>> => Len(todo) \in 1..4
         /\ todo # <<>> =>
              \/ Len(todo) = 4 /\ Head(todo) = "finish-recording"
              \/ Len(todo) = 3 /\ Head(todo) = "remove-observer"
              \/ Len(todo) = 2 /\ Head(todo) = "force-stop"
              \/ Len(todo) = 1 /\ Head(todo) = "remove-files"
<1> DEFINE n == Len(todo)
<1>0. todo = <<>> => n = 0
  OBVIOUS
<1>1. todo # <<>> => n \in 1..4 /\ Head(todo) = Lifecycle!CLEANUP[4 - n + 1]
  BY LifecycleCleanup, UndoingParts
<1>2. todo # <<>> =>
        \/ n = 4
        \/ n = 3
        \/ n = 2
        \/ n = 1
  BY <1>1
<1>3. /\ 4 - 1 + 1 = 4
      /\ 4 - 2 + 1 = 3
      /\ 4 - 3 + 1 = 2
      /\ 4 - 4 + 1 = 1
  OBVIOUS
<1> HIDE DEF n
<1>4. todo # <<>> =>
        \/ n = 4 /\ Head(todo) = "finish-recording"
        \/ n = 3 /\ Head(todo) = "remove-observer"
        \/ n = 2 /\ Head(todo) = "force-stop"
        \/ n = 1 /\ Head(todo) = "remove-files"
  BY <1>1, <1>2, <1>3, LifecycleCleanup
<1>5. QED
  BY <1>0, <1>1, <1>4 DEF n

LEMMA LifecycleInit ==
  ASSUME Lifecycle!Init
  PROVE  LifecycleTaps /\ LifecycleUndone
<1>1. Lifecycle!Program \in Seq(LifecycleTry)
  BY DEF Lifecycle!Program, LifecycleTry, Lifecycle!SamplePhases, Lifecycle!PlayingPhases,
     Lifecycle!PausedPhases, Lifecycle!Verdicts
<1>2. LifecycleUndone
  BY DEF Lifecycle!Init, Lifecycle!Start, LifecycleUndone
<1>3. LifecycleTaps
  BY <1>1, PreparationAssumption DEF Lifecycle!Init, Lifecycle!Start, LifecycleTaps
<1>4. QED
  BY <1>2, <1>3

(* The operation that runs in the try block is one of it.                  *)
LEMMA LifecycleHead ==
  ASSUME LifecycleTaps, mode = "run", todo # <<>>
  PROVE  /\ Tail(todo) \in Seq(LifecycleTry)
         /\ \/ Head(todo) \in LifecycleTry
            \/ Head(todo) = "recover" /\ mem.recoveries < MAX_PREPARATION_ANR_RECOVERIES
<1>1. CASE todo \in Seq(LifecycleTry)
  BY <1>1
<1>2. CASE /\ todo \in {<<"recover">> \o rest : rest \in Seq(LifecycleTry)}
           /\ mem.recoveries < MAX_PREPARATION_ANR_RECOVERIES
  <2>1. PICK rest \in Seq(LifecycleTry) : todo = <<"recover">> \o rest
    BY <1>2
  <2>2. Head(todo) = "recover" /\ Tail(todo) = rest
    BY <2>1, PushOne
  <2>3. QED
    BY <1>2, <2>2
<1>3. QED
  BY <1>1, <1>2 DEF LifecycleTaps

LEMMA LifecycleOnlyTries ==
  ASSUME LifecycleTaps, Lifecycle!Next, mode = "run"
  PROVE  ~Lifecycle!RemoveObserver /\ ~Lifecycle!ForceStop /\ ~Lifecycle!RemoveFiles
         /\ ~Lifecycle!Report /\ ~Now("force-stop")
BY LifecycleHead DEF Lifecycle!RemoveObserver, Lifecycle!ForceStop, Lifecycle!RemoveFiles,
   Lifecycle!Report, Lifecycle!Now, Now, LifecycleTry, Lifecycle!SamplePhases,
   Lifecycle!PlayingPhases, Lifecycle!PausedPhases, Lifecycle!Verdicts

LEMMA LifecycleControl ==
  ASSUME LifecycleTaps, Lifecycle!Next, mode = "run"
  PROVE  \/ mode' = "run" /\ todo' = todo
         \/ /\ mode' = "run" /\ todo # <<>>
            /\ \/ todo' = <<>> \o Tail(todo)
               \/ todo' = <<"tap-continue", "review">> \o Tail(todo)
         \/ /\ mode' = "run" /\ todo # <<>> /\ todo' = <<"recover", "review">> \o Tail(todo)
            /\ mem.recoveries < MAX_PREPARATION_ANR_RECOVERIES /\ mem' = mem
         \/ mode' = "cleanup" /\ todo' = Lifecycle!CLEANUP
BY LifecycleOnlyTries DEF Lifecycle!Next, Lifecycle!Runner, Now,
   Lifecycle!Check, Lifecycle!Prepare, Lifecycle!StartRecording,
   Lifecycle!FinishRecording, Lifecycle!Launch, Lifecycle!Tap, Lifecycle!WaitFails,
   Lifecycle!Sample, Lifecycle!Review, Lifecycle!TapContinue, Lifecycle!Recover,
   Lifecycle!History, Lifecycle!BeforeHomePid, Lifecycle!GoHome,
   Lifecycle!ForceStopApp, Lifecycle!NewPid, Lifecycle!ObservationTimesOut,
   Lifecycle!Signal, Lifecycle!Play, Lifecycle!PauseAndSave, Lifecycle!Misbehave,
   Lifecycle!Anr,
   Lifecycle!Unchanged,
   Lifecycle!Require, Lifecycle!ReturnOrFail, Lifecycle!Return, Lifecycle!Call,
   Lifecycle!Raise, Lifecycle!RaiseOut, Lifecycle!EnterFinally, Lifecycle!control,
   Lifecycle!Running, Lifecycle!Now, Lifecycle!Waiting

LEMMA LifecycleCleaningControl ==
  ASSUME LifecycleTaps, Lifecycle!Next, mode = "cleanup"
  PROVE  \/ /\ mode' = "done" /\ todo = <<>> /\ todo' = <<>>
            /\ UNCHANGED <<device, mem, seen, failed>>
         \/ /\ mode' = "cleanup" /\ todo # <<>> /\ Undoing(Lifecycle!CLEANUP)'
            /\ \/ Lifecycle!FinishRecording \/ Lifecycle!RemoveObserver
               \/ Lifecycle!ForceStop \/ Lifecycle!RemoveFiles \/ Lifecycle!Signal
            /\ failed \subseteq failed'
            /\ \/ Len(todo') = Len(todo) - 1
               \/ Len(todo') = 0 /\ Len(todo) = 2 /\ "force-stop" \in failed'
<1> DEFINE n == Len(todo)
           new == Len(todo')
<1>1. Undoing(Lifecycle!CLEANUP)
  BY DEF LifecycleTaps
<1>2. todo # <<>> =>
           \/ n = 4 /\ Head(todo) = "finish-recording"
           \/ n = 3 /\ Head(todo) = "remove-observer"
           \/ n = 2 /\ Head(todo) = "force-stop"
           \/ n = 1 /\ Head(todo) = "remove-files"
  BY <1>1, LifecyclePlaces
<1> HIDE DEF n, new
<1>3. \/ Lifecycle!FinishRecording \/ Lifecycle!RemoveObserver
      \/ Lifecycle!ForceStop \/ Lifecycle!RemoveFiles \/ Lifecycle!Signal
      \/ Lifecycle!Report /\ UNCHANGED <<device, mem, seen>>
  BY <1>2 DEF Lifecycle!Next, Lifecycle!Runner,
     Lifecycle!Check, Lifecycle!Prepare, Lifecycle!StartRecording, Lifecycle!Launch,
     Lifecycle!Tap, Lifecycle!WaitFails, Lifecycle!Sample, Lifecycle!Review,
     Lifecycle!TapContinue, Lifecycle!Recover, Lifecycle!History,
     Lifecycle!BeforeHomePid, Lifecycle!GoHome, Lifecycle!ForceStopApp,
     Lifecycle!NewPid, Lifecycle!ObservationTimesOut, Lifecycle!Play,
     Lifecycle!PauseAndSave, Lifecycle!Misbehave, Lifecycle!Anr,
     Lifecycle!Running, Lifecycle!Now, Lifecycle!Waiting, Lifecycle!EnterFinally,
     Lifecycle!Unchanged, Lifecycle!Verdicts
<1>4. CASE Lifecycle!Report /\ UNCHANGED <<device, mem, seen>>
  BY <1>4 DEF Lifecycle!Report
<1>5. CASE ~(Lifecycle!Report /\ UNCHANGED <<device, mem, seen>>)
  <2>1. todo # <<>>
    BY <1>3, <1>5 DEF Lifecycle!FinishRecording, Lifecycle!RemoveObserver,
       Lifecycle!ForceStop, Lifecycle!RemoveFiles, Lifecycle!Signal, Lifecycle!Now
  <2>2. \/ Lifecycle!Return \/ Lifecycle!ReturnUnheeded
        \/ Lifecycle!Raise(Lifecycle!CLEANUP)
        \/ Lifecycle!RaiseOut /\ Head(todo) = "force-stop"
    BY <1>3, <1>5 DEF Lifecycle!FinishRecording, Lifecycle!RemoveObserver,
       Lifecycle!ForceStop, Lifecycle!RemoveFiles, Lifecycle!Signal, Lifecycle!Now
  <2>3. /\ \/ todo' = Tail(todo)
           \/ todo' = <<>> \o Tail(todo)
           \/ todo' = <<>> /\ n = 2 /\ "force-stop" \in failed'
        /\ mode' = "cleanup" /\ failed \subseteq failed'
    <3>1. CASE Lifecycle!Return \/ Lifecycle!ReturnUnheeded
      BY <3>1 DEF Lifecycle!Return, Lifecycle!Call, Lifecycle!ReturnUnheeded
    <3>2. CASE Lifecycle!Raise(Lifecycle!CLEANUP)
      BY <3>2 DEF Lifecycle!Raise, Lifecycle!Running
    <3>3. CASE Lifecycle!RaiseOut /\ Head(todo) = "force-stop"
      <4>1. n = 2
        BY <1>2, <2>1, <3>3
      <4>2. QED
        BY <3>3, <4>1 DEF Lifecycle!RaiseOut
    <3>4. QED
      BY <2>2, <3>1, <3>2, <3>3
  <2>4. Undoing(Lifecycle!CLEANUP)'
    BY <1>1, <2>1, <2>3, LifecycleCleanup, UndoingNext, UndoingOver
  <2>5. \/ new = n - 1
        \/ new = 0 /\ n = 2 /\ "force-stop" \in failed'
    BY <1>1, <2>1, <2>3, LifecycleCleanup, UndoingNext, UndoingOver DEF n, new
  <2>6. QED
    BY <1>3, <1>5, <2>1, <2>3, <2>4, <2>5 DEF n, new
<1>6. QED
  BY <1>3, <1>4, <1>5

LEMMA LifecycleDone ==
  ASSUME Lifecycle!Next
  PROVE  mode # "done"
BY DEF Lifecycle!Next, Lifecycle!Runner,
   Lifecycle!Check, Lifecycle!Prepare, Lifecycle!StartRecording,
   Lifecycle!FinishRecording, Lifecycle!Launch, Lifecycle!Tap, Lifecycle!WaitFails,
   Lifecycle!Sample, Lifecycle!Review, Lifecycle!TapContinue, Lifecycle!Recover,
   Lifecycle!History, Lifecycle!BeforeHomePid, Lifecycle!GoHome,
   Lifecycle!ForceStopApp, Lifecycle!NewPid, Lifecycle!ObservationTimesOut,
   Lifecycle!Signal, Lifecycle!Play, Lifecycle!PauseAndSave, Lifecycle!Misbehave,
   Lifecycle!Anr, Lifecycle!RemoveObserver, Lifecycle!ForceStop, Lifecycle!RemoveFiles,
   Lifecycle!Running, Lifecycle!Now, Lifecycle!Waiting, Lifecycle!EnterFinally,
   Lifecycle!Report

LEMMA LifecycleTapsStep ==
  ASSUME LifecycleTaps, Lifecycle!Next
  PROVE  LifecycleTaps'
<1>1. /\ "taps" \in DOMAIN seen' /\ "recoveries" \in DOMAIN mem'
      /\ \/ seen'.taps = seen.taps /\ mem'.recoveries = mem.recoveries
         \/ /\ Lifecycle!Recover /\ seen'.taps = seen.taps + 1
            /\ mem'.recoveries = mem.recoveries + 1
  <2>1. CASE Lifecycle!Recover
    BY <2>1 DEF LifecycleTaps, Lifecycle!Recover, Lifecycle!Unchanged
  <2>2. CASE ~Lifecycle!Recover
    BY <2>2 DEF LifecycleTaps, Lifecycle!Next, Lifecycle!Runner,
       Lifecycle!Check, Lifecycle!Prepare, Lifecycle!StartRecording,
       Lifecycle!FinishRecording, Lifecycle!Launch, Lifecycle!Tap,
       Lifecycle!WaitFails, Lifecycle!Sample, Lifecycle!Review,
       Lifecycle!TapContinue, Lifecycle!History, Lifecycle!BeforeHomePid,
       Lifecycle!GoHome, Lifecycle!ForceStopApp, Lifecycle!NewPid,
       Lifecycle!ObservationTimesOut, Lifecycle!Signal, Lifecycle!Play,
       Lifecycle!PauseAndSave, Lifecycle!Misbehave, Lifecycle!Anr,
       Lifecycle!RemoveObserver, Lifecycle!ForceStop, Lifecycle!RemoveFiles,
       Lifecycle!Unchanged
  <2>3. QED
    BY <2>1, <2>2
<1>2. Lifecycle!Recover => mode = "run" /\ todo # <<>> /\ Head(todo) = "recover"
  <2>1. mode = "cleanup" => todo = <<>> \/ Head(todo) # "recover"
    BY LifecyclePlaces DEF LifecycleTaps
  <2>2. QED
    BY <2>1 DEF Lifecycle!Recover, Lifecycle!Now, LifecycleTaps
<1>3. Lifecycle!Recover => mem.recoveries < MAX_PREPARATION_ANR_RECOVERIES
  BY <1>2, LifecycleHead DEF LifecycleTry, Lifecycle!SamplePhases,
   Lifecycle!PlayingPhases, Lifecycle!PausedPhases, Lifecycle!Verdicts
<1>4. /\ seen'.taps = mem'.recoveries /\ mem'.recoveries \in Nat
      /\ mem'.recoveries <= MAX_PREPARATION_ANR_RECOVERIES
  BY <1>1, <1>3, PreparationAssumption DEF LifecycleTaps
<1>5. CASE mode = "run"
  <2>1. CASE mode' = "cleanup" /\ todo' = Lifecycle!CLEANUP
    <3>1. Undoing(Lifecycle!CLEANUP)'
      BY <2>1, LifecycleCleanup, UndoingStarts
    <3>2. QED
      BY <1>1, <1>4, <2>1, <3>1 DEF LifecycleTaps
  <2>2. ASSUME mode' = "run",
               \/ todo' \in Seq(LifecycleTry)
               \/ /\ todo' \in {<<"recover">> \o rest : rest \in Seq(LifecycleTry)}
                  /\ mem'.recoveries < MAX_PREPARATION_ANR_RECOVERIES
        PROVE  LifecycleTaps'
    BY <1>1, <1>4, <2>2 DEF LifecycleTaps
  <2>3. CASE mode' = "run" /\ todo' = todo
    <3>1. ~Lifecycle!Recover
      <4>1. ASSUME Lifecycle!Recover
            PROVE  todo' = <<>> \o Tail(todo)
        BY <2>3, <4>1 DEF Lifecycle!Recover, Lifecycle!Return, Lifecycle!Call, Lifecycle!Raise
      <4>2. ASSUME Lifecycle!Recover
            PROVE  Len(todo') = Len(todo) - 1 /\ Len(todo) \in Nat
        <5>1. todo # <<>> /\ todo \in Seq(LifecycleTry \cup {"recover"})
          <6>1. CASE todo \in {<<"recover">> \o rest : rest \in Seq(LifecycleTry)}
            BY <1>2, <4>2, <6>1, PushOne
          <6>2. QED
            BY <1>2, <1>5, <4>2, <6>1 DEF LifecycleTaps
        <5>2. QED
          BY <4>1, <4>2, <5>1, CallKeeps
      <4>3. QED
        BY <2>3, <4>2
    <3>2. QED
      BY <1>1, <1>5, <2>2, <2>3, <3>1 DEF LifecycleTaps
  <2>4. ASSUME mode' = "run", todo # <<>>,
               \/ todo' = <<>> \o Tail(todo)
               \/ todo' = <<"tap-continue", "review">> \o Tail(todo)
        PROVE  LifecycleTaps'
    <3>1. Tail(todo) \in Seq(LifecycleTry)
      BY <1>5, <2>4, LifecycleHead
    <3>2. <<>> \in Seq(LifecycleTry) /\ <<"tap-continue", "review">> \in Seq(LifecycleTry)
      BY DEF LifecycleTry
    <3>3. todo' \in Seq(LifecycleTry)
      BY <2>4, <3>1, <3>2, ConcatProperties
    <3>4. QED
      BY <2>2, <2>4, <3>3
  <2>5. ASSUME mode' = "run", todo # <<>>, todo' = <<"recover", "review">> \o Tail(todo),
               mem.recoveries < MAX_PREPARATION_ANR_RECOVERIES, mem' = mem
        PROVE  LifecycleTaps'
    <3>1. Tail(todo) \in Seq(LifecycleTry)
      BY <1>5, <2>5, LifecycleHead
    <3>2. "review" \in LifecycleTry
      BY DEF LifecycleTry
    <3>3. todo' = <<"recover">> \o (<<"review">> \o Tail(todo))
      BY <2>5, <3>1, PushTwo
    <3>4. <<"review">> \o Tail(todo) \in Seq(LifecycleTry)
      BY <3>1, <3>2
    <3>5. QED
      BY <2>2, <2>5, <3>3, <3>4
  <2>6. QED
    BY <1>5, <2>1, <2>3, <2>4, <2>5, LifecycleControl
<1>6. CASE mode = "cleanup"
  BY <1>1, <1>4, <1>6, LifecycleCleaningControl, UndoingOver, LifecycleCleanup DEF LifecycleTaps
<1>7. QED
  BY <1>5, <1>6, LifecycleDone DEF LifecycleTaps

LEMMA LifecycleRunning ==
  ASSUME LifecycleTaps, LifecycleUndone, Lifecycle!Next, mode = "run", LifecycleAdmits
  PROVE  /\ {"owned", "app"} \subseteq DOMAIN device'
         /\ {"cleanup_authorized", "recording"} \subseteq DOMAIN mem'
         /\ device'.owned \subseteq LifecycleThings
         /\ "recorder" \in device'.owned => mem'.recording \/ "finish-recording" \in failed'
         /\ mode' = "run" => "directory" \notin device'.owned
         /\ "directory" \in device'.owned => "prepare" \in failed'
         /\ device'.app # 0 => mem'.cleanup_authorized
<1>1. {"owned", "app"} \subseteq DOMAIN device'
  BY LifecycleOnlyTries DEF LifecycleUndone, Lifecycle!Next, Lifecycle!Runner,
     Lifecycle!Check, Lifecycle!Prepare, Lifecycle!StartRecording,
     Lifecycle!FinishRecording, Lifecycle!Launch, Lifecycle!Tap, Lifecycle!WaitFails,
     Lifecycle!Sample, Lifecycle!Review, Lifecycle!TapContinue, Lifecycle!Recover,
     Lifecycle!History, Lifecycle!BeforeHomePid, Lifecycle!GoHome,
     Lifecycle!ForceStopApp, Lifecycle!NewPid, Lifecycle!ObservationTimesOut,
     Lifecycle!Signal, Lifecycle!Play, Lifecycle!PauseAndSave, Lifecycle!Misbehave,
     Lifecycle!Anr,
     Lifecycle!Launched, Lifecycle!Own, Lifecycle!Drop, Lifecycle!Unchanged
<1>2. {"cleanup_authorized", "recording"} \subseteq DOMAIN mem'
  BY LifecycleOnlyTries DEF LifecycleUndone, Lifecycle!Next, Lifecycle!Runner,
     Lifecycle!Check, Lifecycle!Prepare, Lifecycle!StartRecording,
     Lifecycle!FinishRecording, Lifecycle!Launch, Lifecycle!Tap, Lifecycle!WaitFails,
     Lifecycle!Sample, Lifecycle!Review, Lifecycle!TapContinue, Lifecycle!Recover,
     Lifecycle!History, Lifecycle!BeforeHomePid, Lifecycle!GoHome,
     Lifecycle!ForceStopApp, Lifecycle!NewPid, Lifecycle!ObservationTimesOut,
     Lifecycle!Signal, Lifecycle!Play, Lifecycle!PauseAndSave, Lifecycle!Misbehave,
     Lifecycle!Anr,
     Lifecycle!Unchanged
<1>3. CASE Lifecycle!Prepare
  <2>1. /\ device.app = 0 /\ device'.app = device.app /\ device'.owned \subseteq LifecycleThings
        /\ "recorder" \notin device'.owned
    BY <1>3 DEF LifecycleAdmits, LifecycleUndone, LifecycleThings, Lifecycle!Prepare, Lifecycle!Now
  <2>2. /\ mode' = "run" => "directory" \notin device'.owned
        /\ "directory" \in device'.owned => "prepare" \in failed'
    BY <1>3 DEF LifecycleUndone, Lifecycle!Prepare, Lifecycle!Now, Lifecycle!Raise,
       Lifecycle!Return, Lifecycle!Call
  <2>3. QED
    BY <1>1, <1>2, <2>1, <2>2
<1> DEFINE Otherwise == ~Lifecycle!Prepare
<1>5. ASSUME Otherwise
      PROVE  device'.owned \in {device.owned, device.owned \cup {"recorder"},
                                device.owned \ {"recorder"}}
  BY <1>5, LifecycleOnlyTries DEF LifecycleUndone, Lifecycle!Next, Lifecycle!Runner,
     Lifecycle!Check, Lifecycle!StartRecording,
     Lifecycle!FinishRecording, Lifecycle!Launch, Lifecycle!Tap, Lifecycle!WaitFails,
     Lifecycle!Sample, Lifecycle!Review, Lifecycle!TapContinue, Lifecycle!Recover,
     Lifecycle!History, Lifecycle!BeforeHomePid, Lifecycle!GoHome,
     Lifecycle!ForceStopApp, Lifecycle!NewPid, Lifecycle!ObservationTimesOut,
     Lifecycle!Signal, Lifecycle!Play, Lifecycle!PauseAndSave, Lifecycle!Misbehave,
     Lifecycle!Anr,
     Lifecycle!Launched, Lifecycle!Own, Lifecycle!Drop, Lifecycle!Unchanged
<1>6. ASSUME Otherwise
      PROVE  device'.app # 0 => mem'.cleanup_authorized
  <2>1. CASE Lifecycle!Launch("share", "onboarding") \/ Lifecycle!Launch("launch-main", "home")
    <3>1. todo # <<>> /\ Head(todo) \in {"share", "launch-main"} /\ mem' = mem
      BY <2>1 DEF Lifecycle!Launch, Lifecycle!Now
    <3>2. QED
      BY <3>1 DEF LifecycleAdmits
  <2>2. CASE Lifecycle!Misbehave
    BY <2>2 DEF LifecycleAdmits, LifecycleUndone, Lifecycle!Misbehave
  <2>3. CASE Lifecycle!ForceStopApp
    BY <2>3 DEF LifecycleUndone, Lifecycle!ForceStopApp
  <2>4. CASE /\ ~Lifecycle!Launch("share", "onboarding") /\ ~Lifecycle!Launch("launch-main", "home")
             /\ ~Lifecycle!Misbehave /\ ~Lifecycle!ForceStopApp
    <3>1. device'.app = device.app
      BY <1>6, <2>4, LifecycleOnlyTries DEF LifecycleUndone, Lifecycle!Next, Lifecycle!Runner,
         Lifecycle!Check, Lifecycle!StartRecording, Lifecycle!FinishRecording, Lifecycle!Tap,
         Lifecycle!WaitFails, Lifecycle!Sample, Lifecycle!Review,
         Lifecycle!TapContinue, Lifecycle!Recover, Lifecycle!History,
         Lifecycle!BeforeHomePid, Lifecycle!GoHome, Lifecycle!NewPid,
         Lifecycle!ObservationTimesOut, Lifecycle!Signal, Lifecycle!Play,
         Lifecycle!PauseAndSave, Lifecycle!Anr,
         Lifecycle!Own, Lifecycle!Drop, Lifecycle!Unchanged
    <3>2. mem'.cleanup_authorized = mem.cleanup_authorized
      BY <1>6, <2>4, LifecycleOnlyTries DEF LifecycleUndone, Lifecycle!Next, Lifecycle!Runner,
         Lifecycle!Check, Lifecycle!StartRecording, Lifecycle!FinishRecording, Lifecycle!Tap,
         Lifecycle!WaitFails, Lifecycle!Sample, Lifecycle!Review,
         Lifecycle!TapContinue, Lifecycle!Recover, Lifecycle!History,
         Lifecycle!BeforeHomePid, Lifecycle!GoHome, Lifecycle!NewPid,
         Lifecycle!ObservationTimesOut, Lifecycle!Signal, Lifecycle!Play,
         Lifecycle!PauseAndSave, Lifecycle!Anr, Lifecycle!Unchanged
    <3>3. QED
      BY <3>1, <3>2 DEF LifecycleAdmits
  <2>5. QED
    BY <2>1, <2>2, <2>3, <2>4
<1>4. ASSUME Otherwise
      PROVE  "recorder" \in device'.owned => mem'.recording \/ "finish-recording" \in failed'
  <2>1. CASE Lifecycle!FinishRecording
    <3>1. \/ device' = [device EXCEPT !.owned = @ \ {"recorder"}]
          \/ "finish-recording" \in failed'
      BY <2>1 DEF Lifecycle!FinishRecording, Lifecycle!Drop, Lifecycle!Raise, Lifecycle!Now
    <3>2. QED
      BY <3>1 DEF LifecycleUndone
  <2>2. CASE Lifecycle!StartRecording
    BY <2>2 DEF Lifecycle!StartRecording, LifecycleUndone
  <2>3. CASE Lifecycle!Signal
    <3>1. /\ device' = device /\ failed' = failed \cup {Head(todo)}
          /\ mem' = [mem EXCEPT !.recording = @ /\ ~Lifecycle!Now("finish-recording")]
      BY <2>3, LifecycleOnlyTries DEF Lifecycle!Signal, Lifecycle!Raise, Lifecycle!RaiseOut
    <3>2. CASE Lifecycle!Now("finish-recording")
      BY <3>1, <3>2 DEF Lifecycle!Now
    <3>3. CASE ~Lifecycle!Now("finish-recording")
      <4>1. mem.recording => mem'.recording
        BY <3>1, <3>3 DEF LifecycleUndone
      <4>2. QED
        BY <3>1, <4>1 DEF LifecycleUndone
    <3>4. QED
      BY <3>2, <3>3
  <2>4. CASE ~Lifecycle!FinishRecording /\ ~Lifecycle!StartRecording /\ ~Lifecycle!Signal
    <3>1. device'.owned = device.owned
      BY <1>4, <2>4, LifecycleOnlyTries DEF LifecycleUndone, Lifecycle!Next, Lifecycle!Runner,
         Lifecycle!Check, Lifecycle!Launch, Lifecycle!Tap,
         Lifecycle!WaitFails, Lifecycle!Sample, Lifecycle!Review,
         Lifecycle!TapContinue, Lifecycle!Recover, Lifecycle!History,
         Lifecycle!BeforeHomePid, Lifecycle!GoHome, Lifecycle!ForceStopApp,
         Lifecycle!NewPid, Lifecycle!ObservationTimesOut, Lifecycle!Play,
         Lifecycle!PauseAndSave, Lifecycle!Misbehave, Lifecycle!Anr,
         Lifecycle!Launched, Lifecycle!Own, Lifecycle!Drop, Lifecycle!Unchanged
    <3>2. mem'.recording = mem.recording
      BY <2>4, LifecycleOnlyTries DEF LifecycleUndone, Lifecycle!Next, Lifecycle!Runner,
         Lifecycle!Check, Lifecycle!Prepare, Lifecycle!Launch, Lifecycle!Tap,
         Lifecycle!WaitFails, Lifecycle!Sample, Lifecycle!Review,
         Lifecycle!TapContinue, Lifecycle!Recover, Lifecycle!History,
         Lifecycle!BeforeHomePid, Lifecycle!GoHome, Lifecycle!ForceStopApp,
         Lifecycle!NewPid, Lifecycle!ObservationTimesOut, Lifecycle!Play,
         Lifecycle!PauseAndSave, Lifecycle!Misbehave, Lifecycle!Anr,
         Lifecycle!Unchanged
    <3>3. failed \subseteq failed'
      BY <2>4, LifecycleOnlyTries DEF Lifecycle!Next, Lifecycle!Runner,
         Lifecycle!Check, Lifecycle!Prepare, Lifecycle!Launch, Lifecycle!Tap,
         Lifecycle!WaitFails, Lifecycle!Sample, Lifecycle!Review,
         Lifecycle!TapContinue, Lifecycle!Recover, Lifecycle!History,
         Lifecycle!BeforeHomePid, Lifecycle!GoHome, Lifecycle!ForceStopApp,
         Lifecycle!NewPid, Lifecycle!ObservationTimesOut, Lifecycle!Play,
         Lifecycle!PauseAndSave, Lifecycle!Misbehave, Lifecycle!Anr,
         Lifecycle!Require, Lifecycle!ReturnOrFail, Lifecycle!Return, Lifecycle!Call,
         Lifecycle!Raise, Lifecycle!RaiseOut, Lifecycle!EnterFinally,
         Lifecycle!control, Lifecycle!Unchanged
    <3>4. QED
      BY <3>1, <3>2, <3>3 DEF LifecycleUndone
  <2>5. QED
    BY <2>1, <2>2, <2>3, <2>4
<1>7. QED
  BY <1>1, <1>2, <1>3, <1>4, <1>5, <1>6 DEF LifecycleUndone, LifecycleThings

LEMMA LifecycleCleaning ==
  ASSUME LifecycleTaps, LifecycleUndone, Lifecycle!Next, mode = "cleanup"
  PROVE  LifecycleUndone'
<1> DEFINE n == Len(todo)
           new == Len(todo')
<1>1. /\ n = Len(todo) /\ new = Len(todo')
      /\ {"owned", "app"} \subseteq DOMAIN device
      /\ {"cleanup_authorized", "recording"} \subseteq DOMAIN mem
      /\ device.owned \subseteq LifecycleThings
      /\ "recorder" \in device.owned => mem.recording \/ "finish-recording" \in failed
      /\ "recorder" \in device.owned => n >= 4 \/ "finish-recording" \in failed
      /\ "observer" \in device.owned => n >= 3 \/ "remove-observer" \in failed
      /\ "files" \in device.owned =>
           n >= 1 \/ {"remove-files", "force-stop"} \cap failed # {}
      /\ device.app # 0 => \/ n >= 2 /\ mem.cleanup_authorized
                           \/ "force-stop" \in failed
      /\ "directory" \in device.owned => "prepare" \in failed
  BY DEF LifecycleUndone
<1>2. /\ todo # <<>> => n \in 1..4
      /\ todo # <<>> =>
           \/ n = 4 /\ Head(todo) = "finish-recording"
           \/ n = 3 /\ Head(todo) = "remove-observer"
           \/ n = 2 /\ Head(todo) = "force-stop"
           \/ n = 1 /\ Head(todo) = "remove-files"
  BY LifecyclePlaces DEF LifecycleTaps
<1>3. CASE /\ mode' = "done" /\ todo = <<>> /\ todo' = <<>>
           /\ UNCHANGED <<device, mem, seen, failed>>
  BY <1>3 DEF LifecycleUndone
<1>4. CASE /\ mode' = "cleanup" /\ todo # <<>>
           /\ \/ Lifecycle!FinishRecording \/ Lifecycle!RemoveObserver
              \/ Lifecycle!ForceStop \/ Lifecycle!RemoveFiles \/ Lifecycle!Signal
           /\ failed \subseteq failed'
           /\ \/ new = n - 1
              \/ new = 0 /\ n = 2 /\ "force-stop" \in failed'
  <2> HIDE DEF n, new
  <2> DEFINE Effects ==
        /\ {"owned", "app"} \subseteq DOMAIN device'
        /\ {"cleanup_authorized", "recording"} \subseteq DOMAIN mem'
        /\ device'.owned \subseteq device.owned
        /\ "recorder" \in device'.owned => mem'.recording \/ "finish-recording" \in failed'
        /\ n = 4 => "recorder" \notin device'.owned \/ "finish-recording" \in failed'
        /\ n = 3 => "observer" \notin device'.owned \/ "remove-observer" \in failed'
        /\ n = 1 => "files" \notin device'.owned \/ "remove-files" \in failed'
        /\ device'.app = device.app \/ device'.app = 0
        /\ n > 2 => mem'.cleanup_authorized = mem.cleanup_authorized
        /\ n = 2 /\ mem.cleanup_authorized => device'.app = 0 \/ "force-stop" \in failed'
  <2>1. Effects
    <3>1. CASE Lifecycle!FinishRecording
      <4>1. /\ n = 4
            /\ \/ device' = [device EXCEPT !.owned = @ \ {"recorder"}]
               \/ device' = device /\ "finish-recording" \in failed'
            /\ mem' = [mem EXCEPT !.recording = FALSE,
                                  !.samples = IF Lifecycle!Running THEN @ ELSE Lifecycle!NoSamples]
        BY <1>2, <3>1 DEF Lifecycle!FinishRecording, Lifecycle!Now, Lifecycle!Raise,
           Lifecycle!Drop
      <4>2. /\ {"owned", "app"} \subseteq DOMAIN device' /\ device'.app = device.app
            /\ {"cleanup_authorized", "recording"} \subseteq DOMAIN mem'
            /\ mem'.cleanup_authorized = mem.cleanup_authorized
        BY <1>1, <4>1
      <4>3. \/ device'.owned = device.owned \ {"recorder"}
            \/ device'.owned = device.owned /\ "finish-recording" \in failed'
        BY <1>1, <4>1
      <4>4. QED
        BY <1>1, <4>1, <4>2, <4>3
    <3>2. CASE Lifecycle!RemoveObserver
      <4>1. /\ n = 3 /\ mem' = mem
            /\ \/ device' = [device EXCEPT !.owned = @ \ {"observer"}]
               \/ device' = device /\ "remove-observer" \in failed'
        BY <1>2, <3>2 DEF Lifecycle!RemoveObserver, Lifecycle!Now, Lifecycle!Raise,
           Lifecycle!ReturnUnheeded, Lifecycle!Drop
      <4>2. {"owned", "app"} \subseteq DOMAIN device' /\ device'.app = device.app
        BY <1>1, <4>1
      <4>3. \/ device'.owned = device.owned \ {"observer"}
            \/ device'.owned = device.owned /\ "remove-observer" \in failed'
        BY <1>1, <4>1
      <4>4. QED
        BY <1>1, <1>4, <4>1, <4>2, <4>3
    <3>3. CASE Lifecycle!ForceStop
      <4>1. /\ n = 2 /\ mem' = mem
            /\ \/ device' = [device EXCEPT !.app = 0, !.playing = FALSE]
               \/ ~mem.cleanup_authorized /\ device' = device
               \/ device' = device /\ "force-stop" \in failed'
        BY <1>2, <3>3 DEF Lifecycle!ForceStop, Lifecycle!Now, Lifecycle!RaiseOut,
           Lifecycle!ReturnUnheeded
      <4>2. {"owned", "app"} \subseteq DOMAIN device' /\ device'.owned = device.owned
        BY <1>1, <4>1
      <4>3. /\ mem.cleanup_authorized => device'.app = 0 \/ "force-stop" \in failed'
            /\ device'.app = device.app \/ device'.app = 0
        BY <1>1, <4>1
      <4>4. QED
        BY <1>1, <1>4, <4>1, <4>2, <4>3
    <3>4. CASE Lifecycle!RemoveFiles
      <4>1. /\ n = 1
            /\ mem' = [mem EXCEPT !.cleanup_authorized = FALSE] \/ mem' = mem
            /\ \/ device' = [device EXCEPT !.owned = @ \ {"files"}]
               \/ device' = device /\ "remove-files" \in failed'
        BY <1>2, <3>4 DEF Lifecycle!RemoveFiles, Lifecycle!Now, Lifecycle!Raise,
           Lifecycle!ReturnUnheeded, Lifecycle!Drop
      <4>2. /\ {"owned", "app"} \subseteq DOMAIN device'
            /\ {"cleanup_authorized", "recording"} \subseteq DOMAIN mem'
            /\ device'.app = device.app /\ mem'.recording = mem.recording
        BY <1>1, <4>1
      <4>3. \/ device'.owned = device.owned \ {"files"}
            \/ device'.owned = device.owned /\ "remove-files" \in failed'
        BY <1>1, <4>1
      <4>4. QED
        BY <1>1, <1>4, <4>1, <4>2, <4>3
    <3>5. CASE Lifecycle!Signal
      <4>1. /\ device' = device /\ failed' = failed \cup {Head(todo)}
            /\ mem' = [mem EXCEPT !.recording = @ /\ ~Lifecycle!Now("finish-recording")]
        BY <3>5 DEF Lifecycle!Signal, Lifecycle!Raise, Lifecycle!RaiseOut
      <4>2. /\ {"cleanup_authorized", "recording"} \subseteq DOMAIN mem'
            /\ mem'.cleanup_authorized = mem.cleanup_authorized
            /\ mem'.recording = (mem.recording /\ ~Lifecycle!Now("finish-recording"))
        BY <1>1, <4>1
      <4>3. Lifecycle!Now("finish-recording") => "finish-recording" \in failed'
        BY <4>1 DEF Lifecycle!Now
      <4>4. /\ n = 4 => "finish-recording" \in failed'
            /\ n = 3 => "remove-observer" \in failed'
            /\ n = 2 => "force-stop" \in failed'
            /\ n = 1 => "remove-files" \in failed'
        BY <1>2, <1>4, <4>1
      <4>5. QED
        BY <1>1, <1>4, <4>1, <4>2, <4>3, <4>4
    <3>6. QED
      BY <1>4, <3>1, <3>2, <3>3, <3>4, <3>5
  <2>2. n \in 1..4
    BY <1>2, <1>4
  <2>3. "recorder" \in device'.owned => new >= 4 \/ "finish-recording" \in failed'
    BY <1>1, <1>4, <2>1, <2>2
  <2>4. "observer" \in device'.owned => new >= 3 \/ "remove-observer" \in failed'
    BY <1>1, <1>4, <2>1, <2>2
  <2>5. "files" \in device'.owned =>
          new >= 1 \/ {"remove-files", "force-stop"} \cap failed' # {}
    BY <1>1, <1>4, <2>1, <2>2
  <2>6. device'.app # 0 => \/ new >= 2 /\ mem'.cleanup_authorized
                           \/ "force-stop" \in failed'
    <3>1. device'.app # 0 => \/ n >= 2 /\ mem.cleanup_authorized
                             \/ "force-stop" \in failed'
      BY <1>1, <1>4, <2>1
    <3>2. CASE n > 2 /\ new = n - 1
      BY <2>1, <2>2, <3>1, <3>2
    <3>3. CASE n = 2
      BY <2>1, <3>1, <3>3
    <3>4. CASE n = 1
      BY <3>1, <3>4
    <3>5. n = 1 \/ n = 2 \/ n > 2
      BY <2>2
    <3>6. QED
      BY <1>4, <3>2, <3>3, <3>4, <3>5
  <2>7. "directory" \in device'.owned => "prepare" \in failed'
    BY <1>1, <1>4, <2>1
  <2>8. QED
    BY <1>1, <1>4, <2>1, <2>3, <2>4, <2>5, <2>6, <2>7 DEF LifecycleUndone, new
<1>5. QED
  BY <1>3, <1>4, LifecycleCleaningControl

LEMMA LifecycleUndoneStep ==
  ASSUME LifecycleTaps, LifecycleUndone, Lifecycle!Next, mode = "run" => LifecycleAdmits
  PROVE  LifecycleUndone'
<1>1. CASE mode = "run"
  <2>1. CASE mode' = "run"
    BY <1>1, <2>1, LifecycleRunning DEF LifecycleUndone
  <2>2. CASE mode' = "cleanup" /\ todo' = Lifecycle!CLEANUP
    <3>1. Len(todo') = 4
      BY <2>2, LifecycleCleanup
    <3>2. QED
      BY <1>1, <2>2, <3>1, LifecycleRunning DEF LifecycleUndone
  <2>3. QED
    BY <1>1, <2>1, <2>2, LifecycleControl
<1>2. CASE mode = "cleanup"
  BY <1>2, LifecycleCleaning
<1>3. QED
  BY <1>1, <1>2, LifecycleDone DEF LifecycleTaps

LEMMA LifecycleRestored ==
  ASSUME LifecycleTaps, LifecycleUndone, Done
  PROVE  Lifecycle!Restored
<1>1. mode = "done" /\ Len(todo) = 0
  BY DEF Done, LifecycleTaps
<1>2. /\ "recorder" \in device.owned => "finish-recording" \in failed
      /\ "observer" \in device.owned => "remove-observer" \in failed
      /\ "files" \in device.owned => {"remove-files", "force-stop"} \cap failed # {}
      /\ device.app # 0 => "force-stop" \in failed
      /\ "directory" \in device.owned => "prepare" \in failed
      /\ device.owned \subseteq LifecycleThings
  BY <1>1 DEF LifecycleUndone
<1>3. QED
  BY <1>2 DEF Lifecycle!Restored, Lifecycle!Cleaner, LifecycleThings

-----------------------------------------------------------------------------
(* The recording that the runners share.                                   *)

(* The operations of s are of S, but for the last one, which is x.         *)
EndsIn(s, S, x) ==
  /\ s \in Seq(S \cup {x}) /\ Len(s) > 0 /\ s[Len(s)] = x
  /\ \A i \in 1..(Len(s) - 1) : s[i] \in S

LEMMA EndsInParts ==
  ASSUME NEW S, NEW x, NEW s, x \notin S, EndsIn(s, S, x)
  PROVE  /\ s # <<>> /\ <<>> \o Tail(s) = Tail(s)
         /\ \/ Head(s) = x /\ Tail(s) = <<>>
            \/ Head(s) \in S /\ EndsIn(Tail(s), S, x)
<1> DEFINE T == S \cup {x}
<1>1. s \in Seq(T) /\ Len(s) \in Nat /\ Len(s) > 0
  BY DEF EndsIn
<1> HIDE DEF T
<1>2. /\ s # <<>> /\ Head(s) = s[1] /\ Tail(s) \in Seq(T) /\ Len(Tail(s)) = Len(s) - 1
      /\ \A i \in 1..(Len(s) - 1) : Tail(s)[i] = s[i + 1]
  BY <1>1, HeadTailProperties
<1>3. <<>> \o Tail(s) = Tail(s)
  BY <1>2
<1>4. CASE Len(s) = 1
  <2>1. Head(s) = x
    BY <1>2, <1>4 DEF EndsIn
  <2>2. Tail(s) = <<>>
    <3> DEFINE t == Tail(s)
    <3>1. t \in Seq(T) /\ Len(t) = 0
      BY <1>2, <1>4
    <3> HIDE DEF t
    <3>2. t = <<>>
      BY <3>1
    <3>3. QED
      BY <3>2 DEF t
  <2>3. QED
    BY <1>2, <1>3, <2>1, <2>2
<1>5. CASE Len(s) > 1
  <2>1. Len(s) - 1 \in 1..(Len(s) - 1) /\ (Len(s) - 1) + 1 = Len(s)
    BY <1>1, <1>5
  <2>2. Tail(s)[Len(Tail(s))] = x
    BY <1>2, <2>1 DEF EndsIn
  <2>3. \A i \in 1..(Len(Tail(s)) - 1) : Tail(s)[i] \in S
    <3>1. SUFFICES ASSUME NEW i \in 1..(Len(Tail(s)) - 1)
                   PROVE  Tail(s)[i] \in S
      OBVIOUS
    <3>2. i \in 1..(Len(s) - 1) /\ i + 1 \in 1..(Len(s) - 1)
      BY <1>1, <1>2
    <3>3. QED
      BY <1>2, <3>2 DEF EndsIn
  <2>4. Head(s) \in S
    BY <1>1, <1>2, <1>5 DEF EndsIn
  <2>5. QED
    BY <1>1, <1>2, <1>3, <1>5, <2>2, <2>3, <2>4 DEF EndsIn, T
<1>6. Len(s) = 1 \/ Len(s) > 1
  <2> DEFINE l == Len(s)
  <2>1. l \in Nat /\ l > 0
    BY <1>1
  <2> HIDE DEF l
  <2>2. l = 1 \/ l > 1
    BY <2>1
  <2>3. QED
    BY <2>2 DEF l
<1>7. QED
  BY <1>4, <1>5, <1>6

LEMMA EndsInMade ==
  ASSUME NEW S, NEW x, NEW front \in Seq(S)
  PROVE  EndsIn(front \o <<x>>, S, x)
<1> DEFINE T == S \cup {x}
           s == front \o <<x>>
<1>1. front \in Seq(T) /\ <<x>> \in Seq(T) /\ Len(<<x>>) = 1 /\ <<x>>[1] = x
      /\ Len(front) \in Nat
  OBVIOUS
<1> DEFINE last == <<x>>
<1> HIDE DEF T, last
<1>2. /\ front \o last \in Seq(T) /\ Len(front \o last) = Len(front) + 1
      /\ \A i \in 1..(Len(front) + 1) :
           (front \o last)[i] = IF i <= Len(front) THEN front[i] ELSE last[i - Len(front)]
  BY <1>1, ConcatProperties DEF last
<1>3. (front \o last)[Len(front) + 1] = x
  <2>1. (Len(front) + 1) - Len(front) = 1 /\ ~(Len(front) + 1 <= Len(front))
        /\ Len(front) + 1 \in 1..(Len(front) + 1)
    BY <1>1
  <2>2. QED
    BY <1>1, <1>2, <2>1 DEF last
<1>4. \A i \in 1..Len(front) : (front \o last)[i] \in S
  BY <1>1, <1>2, ElementOfSeq
<1>5. QED
  BY <1>1, <1>2, <1>3, <1>4 DEF EndsIn, T, last

RecordingStarts == {"launch", "identify", "action", "ready", "observe"}

(* The clean-up is still to come; it was not needed; it is under way or    *)
(* over; it is called a second time.                                       *)
RecordingBefore ==
  /\ ~mem.finished /\ EndsIn(todo, RecordingStarts, "finish")
  /\ \/ mode = "run"
     \/ mode = "cleanup" /\ todo = <<"finish">>
RecordingNever ==
  ~mem.finished /\ ~mem.process /\ todo = <<>>
RecordingStopping ==
  /\ mem.finished /\ Undoing(Recording!FINISH)
  /\ "adb" \in device.owned => Len(todo) >= 1
  /\ "recorder" \in device.owned => Len(todo) >= 4 \/ "stop" \in failed
  /\ mode = "done" => todo = <<>>
RecordingAgain ==
  /\ mem.finished /\ todo = <<"finish">> /\ mode = "cleanup"
  /\ "adb" \notin device.owned
  /\ "recorder" \in device.owned => "stop" \in failed

RecordingUndone ==
  /\ {"owned", "recorder", "now"} \subseteq DOMAIN device
  /\ {"process", "finished"} \subseteq DOMAIN mem
  /\ device.owned \subseteq {"recorder", "adb"}
  /\ mode \in {"run", "cleanup", "done"}
  /\ ~mem.process => device.owned = {}
  /\ RecordingBefore \/ RecordingNever \/ RecordingStopping \/ RecordingAgain

LEMMA RecordingCleanup ==
  /\ Recording!FINISH \in Seq({"post-roll", "stop", "pull", "validate", "close"})
  /\ Len(Recording!FINISH) = 5
  /\ Recording!FINISH[1] = "post-roll"
  /\ Recording!FINISH[2] = "stop"
  /\ Recording!FINISH[3] = "pull"
  /\ Recording!FINISH[4] = "validate"
  /\ Recording!FINISH[5] = "close"
BY DEF Recording!FINISH

LEMMA RecordingPlaces ==
  ASSUME Undoing(Recording!FINISH)
  PROVE  /\ todo = <<>> => Len(todo) = 0
         /\ todo # <<>> => Len(todo) \in 1..5
         /\ todo # <<>> =>
              \/ Len(todo) = 5 /\ Head(todo) = "post-roll"
              \/ Len(todo) = 4 /\ Head(todo) = "stop"
              \/ Len(todo) = 3 /\ Head(todo) = "pull"
              \/ Len(todo) = 2 /\ Head(todo) = "validate"
              \/ Len(todo) = 1 /\ Head(todo) = "close"
<1> DEFINE n == Len(todo)
<1>0. todo = <<>> => n = 0
  OBVIOUS
<1>1. todo # <<>> => n \in 1..5 /\ Head(todo) = Recording!FINISH[5 - n + 1]
  BY RecordingCleanup, UndoingParts
<1>2. todo # <<>> =>
        \/ n = 5
        \/ n = 4
        \/ n = 3
        \/ n = 2
        \/ n = 1
  BY <1>1
<1>3. /\ 5 - 1 + 1 = 5
      /\ 5 - 2 + 1 = 4
      /\ 5 - 3 + 1 = 3
      /\ 5 - 4 + 1 = 2
      /\ 5 - 5 + 1 = 1
  OBVIOUS
<1> HIDE DEF n
<1>4. todo # <<>> =>
        \/ n = 5 /\ Head(todo) = "post-roll"
        \/ n = 4 /\ Head(todo) = "stop"
        \/ n = 3 /\ Head(todo) = "pull"
        \/ n = 2 /\ Head(todo) = "validate"
        \/ n = 1 /\ Head(todo) = "close"
  BY <1>1, <1>2, <1>3, RecordingCleanup
<1>5. QED
  BY <1>0, <1>1, <1>4 DEF n

LEMMA RecordingInit ==
  ASSUME Recording!Init
  PROVE  RecordingUndone
<1>1. PICK kind \in Kinds, require, foreign \in BOOLEAN :
        /\ Recording!Start(Recording!Program(kind))
        /\ device = [now |-> 1, recorder |-> "off", began |-> 0, first |-> 0, last |-> 0,
                     foreign |-> foreign, owned |-> {}]
        /\ mem = [kind |-> kind, require |-> require, process |-> FALSE, pid |-> FALSE,
                  launched |-> 0, status |-> "not-started", action |-> "none", trigger |-> 0,
                  ready |-> 0, observed |-> 0, required |-> 0, postRollFailed |-> FALSE,
                  stopped |-> 0, exitedEarly |-> FALSE, pulled |-> "none", finished |-> FALSE]
  BY DEF Recording!Init
<1> DEFINE S == RecordingStarts
           a == <<"launch", "identify">>
           b == IF kind = "live" THEN <<>> ELSE <<"action">>
           c == IF kind = "finite" THEN <<>> ELSE <<"ready">>
           d == IF kind = "live" THEN <<>> ELSE <<"observe">>
<1>2. a \in Seq(S) /\ b \in Seq(S) /\ c \in Seq(S) /\ d \in Seq(S)
  <2>1. /\ <<>> \in Seq(S)
        /\ <<"launch", "identify">> \in Seq(S)
        /\ <<"action">> \in Seq(S)
        /\ <<"ready">> \in Seq(S)
        /\ <<"observe">> \in Seq(S)
    BY DEF RecordingStarts
  <2> HIDE DEF S
  <2>2. QED
    BY <2>1
<1>3. todo = ((a \o b) \o c) \o d \o <<"finish">>
  BY <1>1 DEF Recording!Start, Recording!Program, Recording!CLEANUP
<1> HIDE DEF S, a, b, c, d
<1>4. ((a \o b) \o c) \o d \in Seq(S)
  BY <1>2, ConcatProperties
<1>5. EndsIn(todo, S, "finish")
  BY <1>3, <1>4, EndsInMade
<1>6. mode = "run" /\ ~mem.finished /\ ~mem.process /\ device.owned = {}
  BY <1>1 DEF Recording!Start
<1>7. /\ {"owned", "recorder", "now"} \subseteq DOMAIN device
      /\ {"process", "finished"} \subseteq DOMAIN mem
  BY <1>1
<1>8. RecordingBefore
  <2>1. S = RecordingStarts
    BY DEF S
  <2>2. EndsIn(todo, RecordingStarts, "finish")
    BY <1>5, <2>1
  <2>3. mode = "run" /\ ~mem.finished
    BY <1>6
  <2>4. QED
    BY <2>2, <2>3 DEF RecordingBefore
<1>9. QED
  BY <1>6, <1>7, <1>8 DEF RecordingUndone

(* What every step keeps.                                                  *)
LEMMA RecordingKeeps ==
  ASSUME RecordingUndone, Recording!Next
  PROVE  /\ {"owned", "recorder", "now"} \subseteq DOMAIN device'
         /\ {"process", "finished"} \subseteq DOMAIN mem'
         /\ device'.owned \subseteq {"recorder", "adb"}
         /\ ~mem'.process => device'.owned = {}
         /\ mem.process => mem'.process
         /\ ~Recording!Launch => device'.owned \subseteq device.owned
         /\ ~Recording!Launch => (mem'.process = mem.process)
         /\ failed \subseteq failed'
         /\ ~Recording!Finish => mem'.finished = mem.finished
<1>1. /\ {"owned", "recorder", "now"} \subseteq DOMAIN device'
      /\ {"process", "finished"} \subseteq DOMAIN mem'
  BY DEF RecordingUndone, Recording!Next, Recording!Runner,
     Recording!Launch, Recording!Identify, Recording!StartupAction,
     Recording!MediaReady, Recording!ObserveStartup, Recording!Finish,
     Recording!PostRollStart, Recording!PostRollEnd, Recording!Stop, Recording!Pull,
     Recording!Validate, Recording!Close, Recording!RaiseInStart, Recording!Tick,
     Recording!RecorderExits
<1>2. ~Recording!Launch => device'.owned \subseteq device.owned
  BY DEF RecordingUndone, Recording!Next, Recording!Runner,
     Recording!Identify, Recording!StartupAction, Recording!MediaReady,
     Recording!ObserveStartup, Recording!Finish, Recording!PostRollStart,
     Recording!PostRollEnd, Recording!Stop, Recording!Pull, Recording!Validate,
     Recording!Close, Recording!Tick, Recording!RecorderExits
<1>3. ~Recording!Launch => (mem'.process = mem.process)
  BY DEF RecordingUndone, Recording!Next, Recording!Runner,
     Recording!Identify, Recording!StartupAction, Recording!MediaReady,
     Recording!ObserveStartup, Recording!Finish, Recording!PostRollStart,
     Recording!PostRollEnd, Recording!Stop, Recording!Pull, Recording!Validate,
     Recording!Close, Recording!RaiseInStart, Recording!Tick, Recording!RecorderExits
<1>4. Recording!Launch => \/ device' = device /\ mem' = [mem EXCEPT !.status = "failed"]
                          \/ mem'.process /\ device'.owned = {"recorder", "adb"}
  BY DEF RecordingUndone, Recording!Launch, Recording!RaiseInStart
<1>5. failed \subseteq failed'
  BY DEF Recording!Next, Recording!Runner, Recording!control,
     Recording!Launch, Recording!Identify, Recording!StartupAction,
     Recording!MediaReady, Recording!ObserveStartup, Recording!Finish,
     Recording!PostRollStart, Recording!PostRollEnd, Recording!Stop, Recording!Pull,
     Recording!Validate, Recording!Close, Recording!RaiseInStart,
     Recording!RaiseInFinish, Recording!Raise, Recording!Return, Recording!Call,
     Recording!EnterFinally, Recording!Report, Recording!Tick, Recording!RecorderExits
<1>6. ~Recording!Finish => mem'.finished = mem.finished
  BY DEF RecordingUndone, Recording!Next, Recording!Runner,
     Recording!Launch, Recording!Identify, Recording!StartupAction,
     Recording!MediaReady, Recording!ObserveStartup, Recording!PostRollStart,
     Recording!PostRollEnd, Recording!Stop, Recording!Pull, Recording!Validate,
     Recording!Close, Recording!RaiseInStart, Recording!Tick, Recording!RecorderExits
<1>7. QED
  BY <1>1, <1>2, <1>3, <1>4, <1>5, <1>6 DEF RecordingUndone

LEMMA RecordingBeforeStep ==
  ASSUME RecordingUndone, RecordingBefore, Recording!Next
  PROVE  /\ RecordingBefore' \/ RecordingNever' \/ RecordingStopping'
         /\ mode' \in {"run", "cleanup", "done"}
<1>1. /\ todo # <<>> /\ <<>> \o Tail(todo) = Tail(todo)
      /\ \/ Head(todo) = "finish" /\ Tail(todo) = <<>>
         \/ Head(todo) \in RecordingStarts /\ EndsIn(Tail(todo), RecordingStarts, "finish")
  BY EndsInParts DEF RecordingBefore, RecordingStarts
<1>2. mode = "run" \/ Head(todo) = "finish"
  BY DEF RecordingBefore
<1>3. EndsIn(<<"finish">>, RecordingStarts, "finish")
  BY DEF EndsIn, RecordingStarts
<1>4. CASE Recording!Finish
  <2>1. /\ Head(todo) = "finish" /\ Tail(todo) = <<>> /\ mode' = mode
    BY <1>1, <1>4 DEF Recording!Finish, Recording!Now, RecordingStarts, Recording!Call,
       Recording!Return
  <2>2. mem' = [mem EXCEPT !.finished = @ \/ mem.process]
    BY <1>4 DEF Recording!Finish
  <2>3. CASE ~mem.process
    <3>1. todo' = <<>>
      BY <1>1, <1>4, <2>1, <2>3 DEF Recording!Finish, Recording!Call, Recording!Return
    <3>2. QED
      BY <2>1, <2>2, <2>3, <3>1 DEF RecordingNever, RecordingUndone, RecordingBefore
  <2>4. CASE mem.process
    <3>1. todo' = Recording!FINISH \o <<>>
      BY <1>4, <2>1, <2>4 DEF Recording!Finish, Recording!Call, RecordingBefore
    <3>2. todo' = Recording!FINISH
      BY <3>1, RecordingCleanup
    <3>3. Undoing(Recording!FINISH)' /\ Len(todo') = 5
      BY <3>2, RecordingCleanup, UndoingStarts
    <3>4. mode' # "done"
      BY <2>1 DEF RecordingBefore
    <3>5. mem'.finished
      BY <2>2, <2>4 DEF RecordingUndone
    <3>6. mode' \in {"run", "cleanup", "done"}
      BY <2>1 DEF RecordingUndone
    <3>7. QED
      BY <2>1, <3>3, <3>4, <3>5, <3>6 DEF RecordingStopping
  <2>5. QED
    BY <2>3, <2>4
<1>5. CASE ~Recording!Finish
  <2>1. \/ mode' = mode /\ todo' = todo
        \/ mode' = mode /\ Head(todo) \in RecordingStarts /\ todo' = Tail(todo)
        \/ mode' = "cleanup" /\ todo' = <<"finish">>
    <3>1. ~Recording!PostRollStart /\ ~Recording!PostRollEnd /\ ~Recording!Stop
          /\ ~Recording!Pull /\ ~Recording!Validate /\ ~Recording!Close
      BY <1>1 DEF Recording!PostRollStart, Recording!PostRollEnd, Recording!Stop,
         Recording!Pull, Recording!Validate, Recording!Close, Recording!Now, RecordingStarts
    <3>2. ~Recording!EnterFinally(Recording!CLEANUP) /\ ~Recording!Report
      BY <1>1 DEF Recording!EnterFinally, Recording!Report
    <3>3. CASE Recording!Tick \/ Recording!RecorderExits
      BY <3>3 DEF Recording!Tick, Recording!RecorderExits, Recording!control
    <3>4. CASE \/ Recording!Launch \/ Recording!Identify \/ Recording!StartupAction
               \/ Recording!MediaReady \/ Recording!ObserveStartup
      <4>1. Head(todo) \in RecordingStarts /\ mode = "run"
        BY <1>2, <3>4 DEF Recording!Launch, Recording!Identify, Recording!StartupAction,
           Recording!MediaReady, Recording!ObserveStartup, Recording!Now, RecordingStarts
      <4>2. \/ Recording!Return
            \/ Recording!Raise(Recording!CLEANUP)
        BY <3>4 DEF Recording!Launch, Recording!Identify, Recording!StartupAction,
           Recording!MediaReady, Recording!ObserveStartup, Recording!RaiseInStart
      <4>3. QED
        BY <1>1, <4>1, <4>2 DEF Recording!Return, Recording!Call, Recording!Raise,
           Recording!Running, Recording!CLEANUP
    <3>5. QED
      BY <1>5, <3>1, <3>2, <3>3, <3>4 DEF Recording!Next, Recording!Runner
  <2>2. ~mem'.finished
    BY <1>5, RecordingKeeps DEF RecordingBefore
  <2>3. CASE mode' = mode /\ todo' = todo
    BY <2>2, <2>3 DEF RecordingBefore, RecordingUndone
  <2>4. CASE mode' = mode /\ Head(todo) \in RecordingStarts /\ todo' = Tail(todo)
    <3>1. mode = "run"
      BY <1>2, <2>4 DEF RecordingStarts
    <3>2. EndsIn(todo', RecordingStarts, "finish")
      BY <1>1, <2>4 DEF RecordingStarts
    <3>3. QED
      BY <2>2, <2>4, <3>1, <3>2 DEF RecordingBefore
  <2>5. CASE mode' = "cleanup" /\ todo' = <<"finish">>
    BY <1>3, <2>2, <2>5 DEF RecordingBefore
  <2>6. QED
    BY <2>1, <2>3, <2>4, <2>5
<1>6. QED
  BY <1>4, <1>5

LEMMA RecordingNeverStep ==
  ASSUME RecordingUndone, RecordingNever, Recording!Next
  PROVE  /\ RecordingBefore' \/ RecordingNever'
         /\ mode' \in {"run", "cleanup", "done"}
<1>1. ~Recording!Finish /\ ~Recording!Launch
  BY DEF RecordingNever, Recording!Finish, Recording!Launch, Recording!Now
<1>2. ~mem'.finished /\ ~mem'.process
  BY <1>1, RecordingKeeps DEF RecordingNever
<1>3. EndsIn(<<"finish">>, RecordingStarts, "finish")
  BY DEF EndsIn, RecordingStarts
<1>4. \/ mode' = "cleanup" /\ todo' = <<"finish">>
      \/ mode' = mode /\ todo' = todo
      \/ mode' = "done" /\ todo' = todo
  BY <1>1 DEF RecordingNever, Recording!Next, Recording!Runner, Recording!control,
     Recording!Launch, Recording!Identify, Recording!StartupAction,
     Recording!MediaReady, Recording!ObserveStartup, Recording!PostRollStart,
     Recording!PostRollEnd, Recording!Stop, Recording!Pull, Recording!Validate,
     Recording!Close, Recording!EnterFinally, Recording!Report, Recording!Now,
     Recording!CLEANUP, Recording!Tick, Recording!RecorderExits
<1>5. QED
  BY <1>2, <1>3, <1>4 DEF RecordingBefore, RecordingNever, RecordingUndone

LEMMA RecordingAgainStep ==
  ASSUME RecordingUndone, RecordingAgain, Recording!Next
  PROVE  /\ RecordingAgain' \/ RecordingStopping'
         /\ mode' \in {"run", "cleanup", "done"}
<1>1. todo # <<>> /\ Head(todo) = "finish" /\ <<>> \o Tail(todo) = <<>>
  BY DEF RecordingAgain
<1>2. ~Recording!Launch
  BY <1>1 DEF Recording!Launch, Recording!Now
<1>3. CASE Recording!Finish
  <2>1. todo' = <<>> /\ mode' = mode /\ mem'.finished
    BY <1>1, <1>3 DEF Recording!Finish, Recording!Return, Recording!Call, RecordingAgain,
       RecordingUndone
  <2>2. Undoing(Recording!FINISH)' /\ Len(todo') = 0
    BY <2>1, RecordingCleanup, UndoingOver
  <2>3. QED
    BY <1>2, <2>1, <2>2, RecordingKeeps DEF RecordingAgain, RecordingStopping, RecordingUndone
<1>4. CASE ~Recording!Finish
  <2>1. mode' = mode /\ todo' = todo
    BY <1>1, <1>4 DEF RecordingAgain, Recording!Next, Recording!Runner, Recording!control,
       Recording!Launch, Recording!Identify, Recording!StartupAction,
       Recording!MediaReady, Recording!ObserveStartup, Recording!PostRollStart,
       Recording!PostRollEnd, Recording!Stop, Recording!Pull, Recording!Validate,
       Recording!Close, Recording!EnterFinally, Recording!Report, Recording!Now,
       Recording!Tick, Recording!RecorderExits
  <2>2. QED
    BY <1>2, <1>4, <2>1, RecordingKeeps DEF RecordingAgain, RecordingUndone
<1>5. QED
  BY <1>3, <1>4

LEMMA RecordingStoppingStep ==
  ASSUME RecordingUndone, RecordingStopping, Recording!Next
  PROVE  /\ RecordingStopping' \/ RecordingAgain'
         /\ mode' \in {"run", "cleanup", "done"}
<1> DEFINE n == Len(todo)
           new == Len(todo')
<1>1. /\ todo = <<>> => n = 0
      /\ todo # <<>> => n \in 1..5
      /\ todo # <<>> =>
           \/ n = 5 /\ Head(todo) = "post-roll"
           \/ n = 4 /\ Head(todo) = "stop"
           \/ n = 3 /\ Head(todo) = "pull"
           \/ n = 2 /\ Head(todo) = "validate"
           \/ n = 1 /\ Head(todo) = "close"
  BY RecordingPlaces DEF RecordingStopping
<1>2. ~Recording!Finish /\ ~Recording!Launch
  BY <1>1 DEF Recording!Finish, Recording!Launch, Recording!Now
<1>3. /\ mem'.finished /\ device'.owned \subseteq device.owned /\ failed \subseteq failed'
  BY <1>2, RecordingKeeps DEF RecordingStopping
<1>4. CASE Recording!Tick \/ Recording!RecorderExits \/ Recording!PostRollStart
  <2>1. \/ mode' = mode /\ todo' = todo
        \/ /\ Recording!PostRollStart /\ todo' = <<>> \o Tail(todo)
           /\ mode' = mode /\ todo # <<>>
    BY <1>4 DEF Recording!Tick, Recording!RecorderExits, Recording!PostRollStart,
       Recording!Return, Recording!Call, Recording!control, Recording!Now
  <2>2. CASE mode' = mode /\ todo' = todo
    BY <1>3, <2>2 DEF RecordingStopping, Undoing, Rest, RecordingUndone
  <2>3. CASE Recording!PostRollStart /\ todo' = <<>> \o Tail(todo) /\ mode' = mode /\ todo # <<>>
    <3>1. Undoing(Recording!FINISH)' /\ new = n - 1
      BY <2>3, RecordingCleanup, UndoingNext DEF RecordingStopping
    <3>2. n = 5 /\ mode # "done"
      BY <1>1, <2>3 DEF Recording!PostRollStart, Recording!Now
    <3>3. Len(todo') = 4
      BY <3>1, <3>2
    <3>4. mode' # "done" /\ mode' \in {"run", "cleanup", "done"}
      BY <2>3, <3>2 DEF RecordingUndone
    <3>5. QED
      BY <1>3, <3>1, <3>3, <3>4 DEF RecordingStopping
  <2>4. QED
    BY <2>1, <2>2, <2>3
<1>5. CASE Recording!EnterFinally(Recording!CLEANUP)
  <2>1. todo = <<>> /\ todo' = <<"finish">> /\ mode' = "cleanup"
    BY <1>5 DEF Recording!EnterFinally, Recording!CLEANUP
  <2>2. QED
    BY <1>1, <1>3, <2>1 DEF RecordingStopping, RecordingAgain
<1>6. CASE Recording!Report
  <2>1. todo = <<>> /\ todo' = <<>> /\ mode' = "done"
    BY <1>6 DEF Recording!Report
  <2>2. Undoing(Recording!FINISH)' /\ new = 0
    BY <2>1, RecordingCleanup, UndoingOver
  <2>3. QED
    BY <1>1, <1>3, <2>1, <2>2 DEF RecordingStopping
<1>7. CASE Recording!PostRollEnd \/ Recording!Stop \/ Recording!Pull \/ Recording!Validate
           \/ Recording!Close
  <2>1. /\ todo # <<>> /\ mode # "done"
        /\ \/ mode' = mode /\ (todo' = <<>> \o Tail(todo) \/ todo' = Tail(todo))
           \/ mode' = "cleanup" /\ todo' = <<"close">> /\ ~Recording!PostRollEnd
              /\ ~Recording!Close /\ failed' = failed \cup {Head(todo)}
    BY <1>7 DEF Recording!PostRollEnd, Recording!Stop, Recording!Pull, Recording!Validate,
       Recording!Close, Recording!Return, Recording!Call, Recording!RaiseInFinish, Recording!Now
  <2>2. /\ Undoing(Recording!FINISH)'
        /\ \/ new = n - 1
           \/ new = 1 /\ n \in 2..4 /\ Head(todo) \in failed'
    <3>1. CASE todo' = <<>> \o Tail(todo) \/ todo' = Tail(todo)
      BY <2>1, <3>1, RecordingCleanup, UndoingNext DEF RecordingStopping
    <3>2. CASE /\ todo' = <<"close">> /\ failed' = failed \cup {Head(todo)}
               /\ ~Recording!PostRollEnd /\ ~Recording!Close
      <4>1. Len(<<"close">>) = 1 /\ <<"close">> = Rest(Recording!FINISH, 1)
        BY DEF Rest, Recording!FINISH
      <4>2. n \in 2..4
        BY <1>1, <1>7, <2>1, <3>2 DEF Recording!Stop, Recording!Pull, Recording!Validate,
           Recording!Now
      <4>3. QED
        BY <3>2, <4>1, <4>2, RecordingCleanup DEF Undoing, Rest
    <3>3. QED
      BY <2>1, <3>1, <3>2
  <2>3. n = 4 => "recorder" \notin device'.owned \/ "stop" \in failed'
    <3>1. SUFFICES ASSUME n = 4
                   PROVE  "recorder" \notin device'.owned \/ "stop" \in failed'
      OBVIOUS
    <3>2. Head(todo) = "stop" /\ Recording!Stop
      BY <1>1, <1>7, <2>1, <3>1 DEF Recording!PostRollEnd, Recording!Pull, Recording!Validate,
         Recording!Close, Recording!Now
    <3>3. \/ device' = [device EXCEPT !.recorder = "exited", !.owned = @ \ {"recorder", "adb"}]
          \/ "stop" \in failed'
      BY <3>2 DEF Recording!Stop, Recording!RaiseInFinish
    <3>4. QED
      BY <3>3 DEF RecordingUndone
  <2>4. n = 1 => "adb" \notin device'.owned
    <3>1. SUFFICES ASSUME n = 1
                   PROVE  "adb" \notin device'.owned
      OBVIOUS
    <3>2. Recording!Close
      BY <1>1, <1>7, <2>1, <3>1 DEF Recording!PostRollEnd, Recording!Pull, Recording!Validate,
         Recording!Stop, Recording!Now
    <3>3. QED
      BY <3>2 DEF Recording!Close, RecordingUndone
  <2>5. n \in 1..5
    BY <1>1, <2>1
  <2>9. "recorder" \in device.owned => n >= 4 \/ "stop" \in failed
    BY DEF RecordingStopping
  <2> HIDE DEF n, new
  <2>6. "adb" \in device'.owned => new >= 1
    BY <1>3, <2>2, <2>4, <2>5
  <2>7. "recorder" \in device'.owned => new >= 4 \/ "stop" \in failed'
    BY <1>3, <2>2, <2>3, <2>5, <2>9
  <2>8. QED
    BY <1>3, <2>1, <2>2, <2>6, <2>7 DEF RecordingStopping, RecordingUndone, new
<1>8. QED
  BY <1>2, <1>4, <1>5, <1>6, <1>7, <1>1 DEF Recording!Next, Recording!Runner, Recording!Identify,
     Recording!StartupAction, Recording!MediaReady, Recording!ObserveStartup, Recording!Now

LEMMA RecordingUndoneStep ==
  ASSUME RecordingUndone, Recording!Next
  PROVE  RecordingUndone'
BY RecordingKeeps, RecordingBeforeStep, RecordingNeverStep, RecordingStoppingStep,
   RecordingAgainStep DEF RecordingUndone

LEMMA RecordingRestored ==
  ASSUME RecordingUndone, Done
  PROVE  Recording!Restored
<1>1. mode = "done"
  BY DEF Done
<1>2. CASE RecordingNever
  BY <1>2 DEF RecordingUndone, RecordingNever, Recording!Restored
<1>3. CASE RecordingStopping
  <2>1. Len(todo) = 0
    BY <1>1, <1>3 DEF RecordingStopping
  <2>2. /\ device.owned \subseteq {"recorder", "adb"} /\ "adb" \notin device.owned
        /\ "recorder" \in device.owned => "stop" \in failed
    BY <1>3, <2>1 DEF RecordingStopping, RecordingUndone
  <2>3. QED
    BY <2>2 DEF Recording!Restored, Recording!Cleaner
<1>4. QED
  BY <1>1, <1>2, <1>3 DEF RecordingUndone, RecordingBefore, RecordingAgain

-----------------------------------------------------------------------------
(* The observer of the user interface.                                     *)

LEMMA TwoAndOne ==
  ASSUME NEW x, NEW y, NEW e
  PROVE  <<x, y>> \o <<e>> = <<x, y, e>>
<1> DEFINE T == {x, y, e}
           a == <<x, y>>
           b == <<e>>
           c == <<x, y, e>>
<1>1. /\ a \in Seq(T) /\ Len(a) = 2 /\ a[1] = x /\ a[2] = y
      /\ b \in Seq(T) /\ Len(b) = 1 /\ b[1] = e /\ b[3 - 2] = e
      /\ c \in Seq(T) /\ Len(c) = 3 /\ c[1] = x /\ c[2] = y /\ c[3] = e
  OBVIOUS
<1> HIDE DEF T, a, b, c
<1>2. /\ a \o b \in Seq(T) /\ Len(a \o b) = Len(a) + Len(b)
      /\ \A i \in 1..Len(a) + Len(b) : (a \o b)[i] = IF i <= Len(a) THEN a[i] ELSE b[i - Len(a)]
  BY <1>1, ConcatProperties
<1>3. /\ Len(a \o b) = 3
      /\ (a \o b)[1] = x /\ (a \o b)[2] = y /\ (a \o b)[3] = e
  BY <1>1, <1>2
<1>4. a \o b = c
  BY <1>1, <1>2, <1>3, SeqEqual
<1>5. QED
  BY <1>4 DEF a, b, c

LEMMA ThreeAndOne ==
  ASSUME NEW x, NEW y, NEW z, NEW e
  PROVE  <<x, y, z>> \o <<e>> = <<x, y, z, e>>
<1> DEFINE T == {x, y, z, e}
           a == <<x, y, z>>
           b == <<e>>
           c == <<x, y, z, e>>
<1>1. /\ a \in Seq(T) /\ Len(a) = 3 /\ a[1] = x /\ a[2] = y /\ a[3] = z
      /\ b \in Seq(T) /\ Len(b) = 1 /\ b[1] = e /\ b[4 - 3] = e
      /\ c \in Seq(T) /\ Len(c) = 4 /\ c[1] = x /\ c[2] = y /\ c[3] = z /\ c[4] = e
  OBVIOUS
<1> HIDE DEF T, a, b, c
<1>2. /\ a \o b \in Seq(T) /\ Len(a \o b) = Len(a) + Len(b)
      /\ \A i \in 1..Len(a) + Len(b) : (a \o b)[i] = IF i <= Len(a) THEN a[i] ELSE b[i - Len(a)]
  BY <1>1, ConcatProperties
<1>3. /\ Len(a \o b) = 4
      /\ (a \o b)[1] = x /\ (a \o b)[2] = y /\ (a \o b)[3] = z /\ (a \o b)[4] = e
  BY <1>1, <1>2
<1>4. a \o b = c
  BY <1>1, <1>2, <1>3, SeqEqual
<1>5. QED
  BY <1>4 DEF a, b, c

LEMMA LastOnly ==
  ASSUME NEW S, NEW s \in Seq(S), Len(s) > 0
  PROVE  SubSeq(s, Len(s), Len(s)) = <<s[Len(s)]>>
<1> DEFINE n == Len(s)
<1>1. n \in Nat /\ n > 0 /\ \A i \in 1..n : s[i] \in S
  BY ElementOfSeq
<1> DEFINE r == SubSeq(s, n, n)
           e == <<s[n]>>
<1>2. e \in Seq(S) /\ Len(e) = 1 /\ e[1] = s[n]
  BY <1>1
<1> HIDE DEF e
<1>3. /\ r \in Seq(S) /\ Len(r) = 1
      /\ r[1] = s[n]
  BY <1>1, SubSeqProperties
<1> HIDE DEF r
<1>4. r = e
  BY <1>2, <1>3, SeqEqual
<1>5. QED
  BY <1>4 DEF r, e

ObserverTodos ==
  {<<"install", "observe", "end">>,
   <<"observe", "end">>,
   <<"collect", "close", "judge", "end">>,
   <<"close", "judge", "end">>,
   <<"judge", "end">>,
   <<"stop-helper", "pid-again", "end">>,
   <<"pid-again", "end">>,
   <<"window", "pid-after", "response", "end">>,
   <<"pid-after", "response", "end">>,
   <<"response", "end">>,
   <<"end">>,
   <<>>}

ObserverOps ==
  {"install", "observe", "end", "collect", "close", "judge", "stop-helper", "pid-again",
   "window", "pid-after", "response"}

LEMMA ObserverPlaces ==
  ASSUME todo \in ObserverTodos
  PROVE  /\ todo # <<>> =>
              /\ SubSeq(todo, Len(todo), Len(todo)) = <<"end">>
              /\ Head(todo) \in ObserverOps
              /\ <<>> \o Tail(todo) = Tail(todo)
         /\ Head(todo) = "install" /\ todo # <<>> => Tail(todo) = <<"observe", "end">>
         /\ Head(todo) = "observe" /\ todo # <<>> => Tail(todo) = <<"end">>
         /\ Head(todo) = "collect" /\ todo # <<>> => Tail(todo) = <<"close", "judge", "end">>
         /\ Head(todo) = "close" /\ todo # <<>> => Tail(todo) = <<"judge", "end">>
         /\ Head(todo) = "judge" /\ todo # <<>> => Tail(todo) = <<"end">>
         /\ Head(todo) = "stop-helper" /\ todo # <<>> => Tail(todo) = <<"pid-again", "end">>
         /\ Head(todo) = "pid-again" /\ todo # <<>> => Tail(todo) = <<"end">>
         /\ Head(todo) = "window" /\ todo # <<>> => Tail(todo) = <<"pid-after", "response", "end">>
         /\ Head(todo) = "pid-after" /\ todo # <<>> => Tail(todo) = <<"response", "end">>
         /\ Head(todo) = "response" /\ todo # <<>> => Tail(todo) = <<"end">>
         /\ Head(todo) = "end" /\ todo # <<>> => Tail(todo) = <<>>
<1>1. CASE todo = <<"install", "observe", "end">>
  <2>1. /\ todo \in Seq(ObserverOps) /\ Len(todo) = 3 /\ todo[3] = "end" /\ todo # <<>>
    BY <1>1 DEF ObserverOps
  <2>2. Head(todo) = "install" /\ Tail(todo) = <<"observe", "end">>
    BY <1>1
  <2>6. Len(todo) > 0
    BY <2>1
  <2>7. SubSeq(todo, Len(todo), Len(todo)) = <<todo[Len(todo)]>>
    BY <2>1, <2>6, LastOnly
  <2>3. SubSeq(todo, Len(todo), Len(todo)) = <<"end">>
    BY <2>1, <2>7
  <2>4. <<>> \o Tail(todo) = Tail(todo)
    BY <2>1
  <2>5. QED
    BY <2>2, <2>3, <2>4 DEF ObserverOps
<1>2. CASE todo = <<"observe", "end">>
  <2>1. /\ todo \in Seq(ObserverOps) /\ Len(todo) = 2 /\ todo[2] = "end" /\ todo # <<>>
    BY <1>2 DEF ObserverOps
  <2>2. Head(todo) = "observe" /\ Tail(todo) = <<"end">>
    BY <1>2
  <2>6. Len(todo) > 0
    BY <2>1
  <2>7. SubSeq(todo, Len(todo), Len(todo)) = <<todo[Len(todo)]>>
    BY <2>1, <2>6, LastOnly
  <2>3. SubSeq(todo, Len(todo), Len(todo)) = <<"end">>
    BY <2>1, <2>7
  <2>4. <<>> \o Tail(todo) = Tail(todo)
    BY <2>1
  <2>5. QED
    BY <2>2, <2>3, <2>4 DEF ObserverOps
<1>3. CASE todo = <<"collect", "close", "judge", "end">>
  <2>1. /\ todo \in Seq(ObserverOps) /\ Len(todo) = 4 /\ todo[4] = "end" /\ todo # <<>>
    BY <1>3 DEF ObserverOps
  <2>2. Head(todo) = "collect" /\ Tail(todo) = <<"close", "judge", "end">>
    BY <1>3
  <2>6. Len(todo) > 0
    BY <2>1
  <2>7. SubSeq(todo, Len(todo), Len(todo)) = <<todo[Len(todo)]>>
    BY <2>1, <2>6, LastOnly
  <2>3. SubSeq(todo, Len(todo), Len(todo)) = <<"end">>
    BY <2>1, <2>7
  <2>4. <<>> \o Tail(todo) = Tail(todo)
    BY <2>1
  <2>5. QED
    BY <2>2, <2>3, <2>4 DEF ObserverOps
<1>4. CASE todo = <<"close", "judge", "end">>
  <2>1. /\ todo \in Seq(ObserverOps) /\ Len(todo) = 3 /\ todo[3] = "end" /\ todo # <<>>
    BY <1>4 DEF ObserverOps
  <2>2. Head(todo) = "close" /\ Tail(todo) = <<"judge", "end">>
    BY <1>4
  <2>6. Len(todo) > 0
    BY <2>1
  <2>7. SubSeq(todo, Len(todo), Len(todo)) = <<todo[Len(todo)]>>
    BY <2>1, <2>6, LastOnly
  <2>3. SubSeq(todo, Len(todo), Len(todo)) = <<"end">>
    BY <2>1, <2>7
  <2>4. <<>> \o Tail(todo) = Tail(todo)
    BY <2>1
  <2>5. QED
    BY <2>2, <2>3, <2>4 DEF ObserverOps
<1>5. CASE todo = <<"judge", "end">>
  <2>1. /\ todo \in Seq(ObserverOps) /\ Len(todo) = 2 /\ todo[2] = "end" /\ todo # <<>>
    BY <1>5 DEF ObserverOps
  <2>2. Head(todo) = "judge" /\ Tail(todo) = <<"end">>
    BY <1>5
  <2>6. Len(todo) > 0
    BY <2>1
  <2>7. SubSeq(todo, Len(todo), Len(todo)) = <<todo[Len(todo)]>>
    BY <2>1, <2>6, LastOnly
  <2>3. SubSeq(todo, Len(todo), Len(todo)) = <<"end">>
    BY <2>1, <2>7
  <2>4. <<>> \o Tail(todo) = Tail(todo)
    BY <2>1
  <2>5. QED
    BY <2>2, <2>3, <2>4 DEF ObserverOps
<1>6. CASE todo = <<"stop-helper", "pid-again", "end">>
  <2>1. /\ todo \in Seq(ObserverOps) /\ Len(todo) = 3 /\ todo[3] = "end" /\ todo # <<>>
    BY <1>6 DEF ObserverOps
  <2>2. Head(todo) = "stop-helper" /\ Tail(todo) = <<"pid-again", "end">>
    BY <1>6
  <2>6. Len(todo) > 0
    BY <2>1
  <2>7. SubSeq(todo, Len(todo), Len(todo)) = <<todo[Len(todo)]>>
    BY <2>1, <2>6, LastOnly
  <2>3. SubSeq(todo, Len(todo), Len(todo)) = <<"end">>
    BY <2>1, <2>7
  <2>4. <<>> \o Tail(todo) = Tail(todo)
    BY <2>1
  <2>5. QED
    BY <2>2, <2>3, <2>4 DEF ObserverOps
<1>7. CASE todo = <<"pid-again", "end">>
  <2>1. /\ todo \in Seq(ObserverOps) /\ Len(todo) = 2 /\ todo[2] = "end" /\ todo # <<>>
    BY <1>7 DEF ObserverOps
  <2>2. Head(todo) = "pid-again" /\ Tail(todo) = <<"end">>
    BY <1>7
  <2>6. Len(todo) > 0
    BY <2>1
  <2>7. SubSeq(todo, Len(todo), Len(todo)) = <<todo[Len(todo)]>>
    BY <2>1, <2>6, LastOnly
  <2>3. SubSeq(todo, Len(todo), Len(todo)) = <<"end">>
    BY <2>1, <2>7
  <2>4. <<>> \o Tail(todo) = Tail(todo)
    BY <2>1
  <2>5. QED
    BY <2>2, <2>3, <2>4 DEF ObserverOps
<1>8. CASE todo = <<"window", "pid-after", "response", "end">>
  <2>1. /\ todo \in Seq(ObserverOps) /\ Len(todo) = 4 /\ todo[4] = "end" /\ todo # <<>>
    BY <1>8 DEF ObserverOps
  <2>2. Head(todo) = "window" /\ Tail(todo) = <<"pid-after", "response", "end">>
    BY <1>8
  <2>6. Len(todo) > 0
    BY <2>1
  <2>7. SubSeq(todo, Len(todo), Len(todo)) = <<todo[Len(todo)]>>
    BY <2>1, <2>6, LastOnly
  <2>3. SubSeq(todo, Len(todo), Len(todo)) = <<"end">>
    BY <2>1, <2>7
  <2>4. <<>> \o Tail(todo) = Tail(todo)
    BY <2>1
  <2>5. QED
    BY <2>2, <2>3, <2>4 DEF ObserverOps
<1>9. CASE todo = <<"pid-after", "response", "end">>
  <2>1. /\ todo \in Seq(ObserverOps) /\ Len(todo) = 3 /\ todo[3] = "end" /\ todo # <<>>
    BY <1>9 DEF ObserverOps
  <2>2. Head(todo) = "pid-after" /\ Tail(todo) = <<"response", "end">>
    BY <1>9
  <2>6. Len(todo) > 0
    BY <2>1
  <2>7. SubSeq(todo, Len(todo), Len(todo)) = <<todo[Len(todo)]>>
    BY <2>1, <2>6, LastOnly
  <2>3. SubSeq(todo, Len(todo), Len(todo)) = <<"end">>
    BY <2>1, <2>7
  <2>4. <<>> \o Tail(todo) = Tail(todo)
    BY <2>1
  <2>5. QED
    BY <2>2, <2>3, <2>4 DEF ObserverOps
<1>10. CASE todo = <<"response", "end">>
  <2>1. /\ todo \in Seq(ObserverOps) /\ Len(todo) = 2 /\ todo[2] = "end" /\ todo # <<>>
    BY <1>10 DEF ObserverOps
  <2>2. Head(todo) = "response" /\ Tail(todo) = <<"end">>
    BY <1>10
  <2>6. Len(todo) > 0
    BY <2>1
  <2>7. SubSeq(todo, Len(todo), Len(todo)) = <<todo[Len(todo)]>>
    BY <2>1, <2>6, LastOnly
  <2>3. SubSeq(todo, Len(todo), Len(todo)) = <<"end">>
    BY <2>1, <2>7
  <2>4. <<>> \o Tail(todo) = Tail(todo)
    BY <2>1
  <2>5. QED
    BY <2>2, <2>3, <2>4 DEF ObserverOps
<1>11. CASE todo = <<"end">>
  <2>1. /\ todo \in Seq(ObserverOps) /\ Len(todo) = 1 /\ todo[1] = "end" /\ todo # <<>>
    BY <1>11 DEF ObserverOps
  <2>2. Head(todo) = "end" /\ Tail(todo) = <<>>
    BY <1>11
  <2>6. Len(todo) > 0
    BY <2>1
  <2>7. SubSeq(todo, Len(todo), Len(todo)) = <<todo[Len(todo)]>>
    BY <2>1, <2>6, LastOnly
  <2>3. SubSeq(todo, Len(todo), Len(todo)) = <<"end">>
    BY <2>1, <2>7
  <2>4. <<>> \o Tail(todo) = Tail(todo)
    BY <2>1
  <2>5. QED
    BY <2>2, <2>3, <2>4 DEF ObserverOps
<1>12. QED
  BY <1>1, <1>2, <1>3, <1>4, <1>5, <1>6, <1>7, <1>8, <1>9, <1>10, <1>11 DEF ObserverTodos

ObserverOutcomes == {"returned", "timeout", "integrity", "signal"}

(* What an expired capture leaves to be done.                              *)
ObserverEnds ==
  mode = "run" /\ seen.expired /\ ~seen.masked =>
    todo # <<>> /\ Head(todo) \in {"stop-helper", "pid-again"}

(* What the observer knows of what it has brought into being.              *)
ObserverKnows ==
  /\ {"owned", "proc", "now", "app", "tree"} \subseteq DOMAIN device
  /\ {"reader", "helper", "pipe", "chunks", "stopping", "response"} \subseteq DOMAIN device.proc
  /\ {"owns_package", "outcome"} \subseteq DOMAIN mem
  /\ {"trees", "expired", "masked"} \subseteq DOMAIN seen
  /\ faults \in Nat
  /\ device.owned \subseteq {"observer", "helper", "adb", "reader"}
  /\ {"observer", "helper"} \cap device.owned # {} => mem.owns_package
  /\ "reader" \in device.owned => device.proc.reader = "reading"

ObserverUndone ==
  /\ mode \in {"run", "cleanup", "done"}
  /\ mode = "run" =>
       /\ todo \in ObserverTodos
       /\ todo # <<>> /\ Head(todo) # "install" => mem.owns_package
       /\ todo # <<>> /\ Head(todo) \in {"close", "judge"} => mem.outcome \in ObserverOutcomes
       /\ "adb" \in device.owned => todo # <<>> /\ Head(todo) \in {"collect", "close"}
       /\ "reader" \in device.owned => todo # <<>> /\ Head(todo) \in {"collect", "close", "judge"}
  /\ mode # "run" =>
       /\ todo \in {<<"cleanup">>, <<>>}
       /\ {"adb", "reader"} \cap device.owned = {}
       /\ {"observer", "helper"} \cap device.owned # {} => todo # <<>> \/ "cleanup" \in failed
  /\ mode = "done" => todo = <<>>

LEMMA ObserverInit ==
  ASSUME Observer!Init
  PROVE  ObserverKnows /\ ObserverUndone /\ ObserverEnds
<1>1. todo = <<"install", "observe", "end">>
  BY TwoAndOne DEF Observer!Init, Observer!Start
<1>2. mode = "run" /\ faults = 0
  BY DEF Observer!Init, Observer!Start
<1>3. device.owned = {} /\ ~seen.expired
  BY DEF Observer!Init
<1>4. ObserverKnows
  BY <1>2, <1>3 DEF Observer!Init, ObserverKnows, Observer!Idle
<1>5. Head(todo) = "install" /\ todo \in ObserverTodos
  BY <1>1 DEF ObserverTodos
<1>6. QED
  BY <1>2, <1>3, <1>4, <1>5 DEF ObserverUndone, ObserverEnds

(* Outside the try block there is only the clean-up left.                  *)
LEMMA ObserverOnlyCleans ==
  ASSUME ObserverUndone, mode # "run"
  PROVE  ~Observer!InstallHelper /\ ~Observer!Observe /\ ~Observer!Collect
         /\ ~Observer!CollectEnds /\ ~Observer!Close /\ ~Observer!Judge
         /\ ~Observer!StopHelper /\ ~Observer!PidAgain /\ ~Observer!ReadWindow
         /\ ~Observer!PidAfter /\ ~Observer!Response /\ ~Observer!Now("end")
         /\ ~Observer!Helper /\ ~Observer!Signal /\ ~Observer!AppRestarts /\ ~Observer!Tick
<1>1. todo # <<>> => Head(todo) = "cleanup"
  BY DEF ObserverUndone
<1>2. QED
  BY <1>1 DEF Observer!InstallHelper, Observer!Observe, Observer!Collect,
     Observer!CollectEnds, Observer!Close, Observer!Judge, Observer!StopHelper,
     Observer!PidAgain, Observer!ReadWindow, Observer!PidAfter, Observer!Response,
     Observer!Helper, Observer!Signal, Observer!AppRestarts, Observer!Tick,
     Observer!Running, Observer!Now

LEMMA ObserverOnlyTries ==
  ASSUME ObserverUndone, mode = "run"
  PROVE  ~Observer!CleanUp /\ ~Observer!Report
<1>1. todo # <<>> => Head(todo) \in ObserverOps
  BY ObserverPlaces DEF ObserverUndone
<1>2. QED
  BY <1>1 DEF Observer!CleanUp, Observer!Report, Observer!Now, ObserverOps

(* What the child and its threads do not depend on.                        *)
LEMMA ObserverKnowsStep ==
  ASSUME ObserverKnows, ObserverUndone, Observer!Next
  PROVE  /\ ObserverKnows'
         /\ ~Observer!Observe /\ ~Observer!InstallHelper => device'.owned \subseteq device.owned
         /\ mem.owns_package => mem'.owns_package
         /\ failed \subseteq failed'
<1>0. Observer!Judge => mem.outcome \in ObserverOutcomes
  BY ObserverOnlyCleans DEF ObserverUndone, Observer!Judge, Observer!Now, ObserverOutcomes
<1>1. /\ {"owned", "proc", "now", "app", "tree"} \subseteq DOMAIN device'
  BY DEF ObserverKnows, Observer!Next, Observer!Runner, Observer!Unchanged, Observer!Own,
     Observer!InstallHelper, Observer!Observe, Observer!Collect,
     Observer!CollectEnds, Observer!Close, Observer!Judge, Observer!StopHelper,
     Observer!PidAgain, Observer!ReadWindow, Observer!PidAfter, Observer!Response,
     Observer!CleanUp, Observer!Reader, Observer!Helper, Observer!Signal,
     Observer!AppRestarts, Observer!Tick
<1>2. {"reader", "helper", "pipe", "chunks", "stopping", "response"} \subseteq DOMAIN device'.proc
  <2>1. CASE Observer!Observe
    BY <2>1 DEF ObserverKnows, Observer!Observe, Observer!Idle
  <2>2. CASE ~Observer!Observe
    BY <2>2 DEF ObserverKnows, Observer!Next, Observer!Runner, Observer!Unchanged, Observer!Own,
       Observer!InstallHelper, Observer!Collect, Observer!CollectEnds,
       Observer!Close, Observer!Judge, Observer!StopHelper, Observer!PidAgain,
       Observer!ReadWindow, Observer!PidAfter, Observer!Response, Observer!CleanUp,
       Observer!Reader, Observer!Helper, Observer!Signal, Observer!AppRestarts,
       Observer!Tick
  <2>3. QED
    BY <2>1, <2>2
<1>3. /\ {"owns_package", "outcome"} \subseteq DOMAIN mem'
      /\ mem.owns_package => mem'.owns_package
  <2>1. CASE Observer!Collect
    BY <2>1 DEF Observer!Collect, Observer!Accepts, Observer!Progressed, ObserverKnows
  <2>2. CASE ~Observer!Collect
    BY <2>2 DEF ObserverKnows, Observer!Next, Observer!Runner, Observer!Unchanged,
       Observer!NoBudget, Observer!InstallHelper, Observer!Observe, Observer!CollectEnds,
       Observer!Close, Observer!Judge, Observer!StopHelper, Observer!PidAgain,
       Observer!ReadWindow, Observer!PidAfter, Observer!Response, Observer!CleanUp,
       Observer!Reader, Observer!Helper, Observer!Signal, Observer!AppRestarts,
       Observer!Tick
  <2>3. QED
    BY <2>1, <2>2
<1>4. {"trees", "expired", "masked"} \subseteq DOMAIN seen'
  BY DEF ObserverKnows, Observer!Next, Observer!Runner, Observer!Unchanged,
     Observer!InstallHelper, Observer!Observe, Observer!Collect,
     Observer!CollectEnds, Observer!Close, Observer!Judge, Observer!StopHelper,
     Observer!PidAgain, Observer!ReadWindow, Observer!PidAfter, Observer!Response,
     Observer!CleanUp, Observer!Reader, Observer!Helper, Observer!Signal,
     Observer!AppRestarts, Observer!Tick
<1>5. faults' \in {faults, faults + 1}
  <2>1. CASE Observer!InstallHelper
    BY <2>1 DEF Observer!InstallHelper, Observer!Retry, Observer!Require, Observer!Return,
       Observer!Call, Observer!Raise, Observer!Fault, Observer!NoFault, Observer!EnterFinally,
       Observer!Report, Observer!control, Observer!Unchanged, Observer!Own, Observer!Running,
       Observer!Now, ObserverOutcomes
  <2>2. CASE Observer!Observe
    BY <2>2 DEF Observer!Observe, Observer!Retry, Observer!Require, Observer!Return, Observer!Call,
     Observer!Raise, Observer!Fault, Observer!NoFault, Observer!EnterFinally,
     Observer!Report, Observer!control, Observer!Unchanged, Observer!Own,
     Observer!Running, Observer!Now, ObserverOutcomes
  <2>3. CASE Observer!Collect
    BY <2>3 DEF Observer!Collect, Observer!Retry, Observer!Require, Observer!Return, Observer!Call,
     Observer!Raise, Observer!Fault, Observer!NoFault, Observer!EnterFinally,
     Observer!Report, Observer!control, Observer!Unchanged, Observer!Own,
     Observer!Running, Observer!Now, ObserverOutcomes
  <2>4. CASE Observer!CollectEnds
    BY <2>4 DEF Observer!CollectEnds, Observer!Retry, Observer!Require, Observer!Return,
       Observer!Call, Observer!Raise, Observer!Fault, Observer!NoFault, Observer!EnterFinally,
       Observer!Report, Observer!control, Observer!Unchanged, Observer!Own, Observer!Running,
       Observer!Now, ObserverOutcomes
  <2>5. CASE Observer!Close
    BY <2>5 DEF Observer!Close, Observer!Retry, Observer!Require, Observer!Return, Observer!Call,
     Observer!Raise, Observer!Fault, Observer!NoFault, Observer!EnterFinally,
     Observer!Report, Observer!control, Observer!Unchanged, Observer!Own,
     Observer!Running, Observer!Now, ObserverOutcomes
  <2>6. CASE Observer!Judge
    BY <1>0, <2>6 DEF Observer!Judge, Observer!Retry, Observer!Require, Observer!Return,
       Observer!Call, Observer!Raise, Observer!Fault, Observer!NoFault, Observer!EnterFinally,
       Observer!Report, Observer!control, Observer!Unchanged, Observer!Own, Observer!Running,
       Observer!Now, ObserverOutcomes
  <2>7. CASE Observer!StopHelper
    BY <2>7 DEF Observer!StopHelper, Observer!Retry, Observer!Require, Observer!Return,
       Observer!Call, Observer!Raise, Observer!Fault, Observer!NoFault, Observer!EnterFinally,
       Observer!Report, Observer!control, Observer!Unchanged, Observer!Own, Observer!Running,
       Observer!Now, ObserverOutcomes
  <2>8. CASE Observer!PidAgain
    BY <2>8 DEF Observer!PidAgain, Observer!Retry, Observer!Require, Observer!Return, Observer!Call,
     Observer!Raise, Observer!Fault, Observer!NoFault, Observer!EnterFinally,
     Observer!Report, Observer!control, Observer!Unchanged, Observer!Own,
     Observer!Running, Observer!Now, ObserverOutcomes
  <2>9. CASE Observer!ReadWindow
    BY <2>9 DEF Observer!ReadWindow, Observer!Retry, Observer!Require, Observer!Return,
       Observer!Call, Observer!Raise, Observer!Fault, Observer!NoFault, Observer!EnterFinally,
       Observer!Report, Observer!control, Observer!Unchanged, Observer!Own, Observer!Running,
       Observer!Now, ObserverOutcomes
  <2>10. CASE Observer!PidAfter
    BY <2>10 DEF Observer!PidAfter, Observer!Retry, Observer!Require, Observer!Return,
       Observer!Call, Observer!Raise, Observer!Fault, Observer!NoFault, Observer!EnterFinally,
       Observer!Report, Observer!control, Observer!Unchanged, Observer!Own, Observer!Running,
       Observer!Now, ObserverOutcomes
  <2>11. CASE Observer!Response
    BY <2>11 DEF Observer!Response, Observer!Retry, Observer!Require, Observer!Return,
       Observer!Call, Observer!Raise, Observer!Fault, Observer!NoFault, Observer!EnterFinally,
       Observer!Report, Observer!control, Observer!Unchanged, Observer!Own, Observer!Running,
       Observer!Now, ObserverOutcomes
  <2>12. CASE Observer!CleanUp
    BY <2>12 DEF Observer!CleanUp, Observer!Retry, Observer!Require, Observer!Return, Observer!Call,
     Observer!ReturnUnheeded, Observer!Raise, Observer!Fault, Observer!NoFault, Observer!EnterFinally,
     Observer!Report, Observer!control, Observer!Unchanged, Observer!Own,
     Observer!Running, Observer!Now, ObserverOutcomes
  <2>13. CASE Observer!Reader
    BY <2>13 DEF Observer!Reader, Observer!Retry, Observer!Require, Observer!Return, Observer!Call,
     Observer!Raise, Observer!Fault, Observer!NoFault, Observer!EnterFinally,
     Observer!Report, Observer!control, Observer!Unchanged, Observer!Own,
     Observer!Running, Observer!Now, ObserverOutcomes
  <2>14. CASE Observer!Helper
    BY <2>14 DEF Observer!Helper, Observer!Retry, Observer!Require, Observer!Return, Observer!Call,
     Observer!Raise, Observer!Fault, Observer!NoFault, Observer!EnterFinally,
     Observer!Report, Observer!control, Observer!Unchanged, Observer!Own,
     Observer!Running, Observer!Now, ObserverOutcomes
  <2>15. CASE Observer!Signal
    BY <2>15 DEF Observer!Signal, Observer!Retry, Observer!Require, Observer!Return, Observer!Call,
     Observer!Raise, Observer!Fault, Observer!NoFault, Observer!EnterFinally,
     Observer!Report, Observer!control, Observer!Unchanged, Observer!Own,
     Observer!Running, Observer!Now, ObserverOutcomes
  <2>16. CASE Observer!AppRestarts
    BY <2>16 DEF Observer!AppRestarts, Observer!Retry, Observer!Require, Observer!Return,
       Observer!Call, Observer!Raise, Observer!Fault, Observer!NoFault, Observer!EnterFinally,
       Observer!Report, Observer!control, Observer!Unchanged, Observer!Own, Observer!Running,
       Observer!Now, ObserverOutcomes
  <2>17. CASE Observer!Tick
    BY <2>17 DEF Observer!Tick, Observer!Retry, Observer!Require, Observer!Return, Observer!Call,
     Observer!Raise, Observer!Fault, Observer!NoFault, Observer!EnterFinally,
     Observer!Report, Observer!control, Observer!Unchanged, Observer!Own,
     Observer!Running, Observer!Now, ObserverOutcomes
  <2>18. CASE Observer!Now("end") /\ Observer!Return /\ Observer!Unchanged
    BY <2>18 DEF Observer!Retry, Observer!Require, Observer!Return, Observer!Call,
     Observer!Raise, Observer!Fault, Observer!NoFault, Observer!EnterFinally,
     Observer!Report, Observer!control, Observer!Unchanged, Observer!Own,
     Observer!Running, Observer!Now, ObserverOutcomes
  <2>19. CASE (Observer!EnterFinally(Observer!CLEANUP) \/ Observer!Report) /\ Observer!Unchanged
    BY <2>19 DEF Observer!Retry, Observer!Require, Observer!Return, Observer!Call,
     Observer!Raise, Observer!Fault, Observer!NoFault, Observer!EnterFinally,
     Observer!Report, Observer!control, Observer!Unchanged, Observer!Own,
     Observer!Running, Observer!Now, ObserverOutcomes
  <2>20. QED
    BY <2>1, <2>2, <2>3, <2>4, <2>5, <2>6, <2>7, <2>8, <2>9, <2>10, <2>11, <2>12,
      <2>13, <2>14, <2>15, <2>16, <2>17, <2>18, <2>19
    DEF Observer!Next, Observer!Runner
<1>6. ~Observer!Observe /\ ~Observer!InstallHelper => device'.owned \subseteq device.owned
  <2>1. CASE Observer!Collect
    BY <2>1 DEF Observer!Collect, ObserverKnows, Observer!Unchanged, Observer!Own, Observer!Proc,
       Observer!Emit
  <2>2. CASE Observer!CollectEnds
    BY <2>2 DEF Observer!CollectEnds, ObserverKnows, Observer!Unchanged, Observer!Own,
       Observer!Proc, Observer!Emit
  <2>3. CASE Observer!Close
    BY <2>3 DEF Observer!Close, ObserverKnows, Observer!Unchanged, Observer!Own, Observer!Proc,
       Observer!Emit
  <2>4. CASE Observer!Judge
    BY <2>4 DEF Observer!Judge, ObserverKnows, Observer!Unchanged, Observer!Own, Observer!Proc,
       Observer!Emit
  <2>5. CASE Observer!StopHelper
    BY <2>5 DEF Observer!StopHelper, ObserverKnows, Observer!Unchanged, Observer!Own,
       Observer!Proc, Observer!Emit
  <2>6. CASE Observer!PidAgain
    BY <2>6 DEF Observer!PidAgain, ObserverKnows, Observer!Unchanged, Observer!Own, Observer!Proc,
       Observer!Emit
  <2>7. CASE Observer!ReadWindow
    BY <2>7 DEF Observer!ReadWindow, ObserverKnows, Observer!Unchanged, Observer!Own,
       Observer!Proc, Observer!Emit
  <2>8. CASE Observer!PidAfter
    BY <2>8 DEF Observer!PidAfter, ObserverKnows, Observer!Unchanged, Observer!Own, Observer!Proc,
       Observer!Emit
  <2>9. CASE Observer!Response
    BY <2>9 DEF Observer!Response, ObserverKnows, Observer!Unchanged, Observer!Own, Observer!Proc,
       Observer!Emit
  <2>10. CASE Observer!CleanUp
    BY <2>10 DEF Observer!CleanUp, ObserverKnows, Observer!Unchanged, Observer!Own, Observer!Proc,
       Observer!Emit
  <2>11. CASE Observer!Reader
    BY <2>11 DEF Observer!Reader, ObserverKnows, Observer!Unchanged, Observer!Own, Observer!Proc,
       Observer!Emit
  <2>12. CASE Observer!Helper
    BY <2>12 DEF Observer!Helper, ObserverKnows, Observer!Unchanged, Observer!Own, Observer!Proc,
       Observer!Emit
  <2>13. CASE Observer!Signal
    BY <2>13 DEF Observer!Signal, ObserverKnows, Observer!Unchanged, Observer!Own, Observer!Proc,
       Observer!Emit
  <2>14. CASE Observer!AppRestarts
    BY <2>14 DEF Observer!AppRestarts, ObserverKnows, Observer!Unchanged, Observer!Own,
       Observer!Proc, Observer!Emit
  <2>15. CASE Observer!Tick
    BY <2>15 DEF Observer!Tick, ObserverKnows, Observer!Unchanged, Observer!Own, Observer!Proc,
       Observer!Emit
  <2>16. CASE Observer!Now("end") /\ Observer!Return /\ Observer!Unchanged
    BY <2>16 DEF ObserverKnows, Observer!Unchanged, Observer!Own, Observer!Proc, Observer!Emit
  <2>17. CASE (Observer!EnterFinally(Observer!CLEANUP) \/ Observer!Report) /\ Observer!Unchanged
    BY <2>17 DEF ObserverKnows, Observer!Unchanged, Observer!Own, Observer!Proc, Observer!Emit
  <2>18. QED
    BY <2>1, <2>2, <2>3, <2>4, <2>5, <2>6, <2>7, <2>8, <2>9, <2>10, <2>11, <2>12,
      <2>13, <2>14, <2>15, <2>16, <2>17
    DEF Observer!Next, Observer!Runner
<1>7. failed \subseteq failed'
  <2>1. CASE Observer!InstallHelper
    BY <2>1 DEF Observer!InstallHelper, Observer!Retry, Observer!Require, Observer!Return,
       Observer!Call, Observer!Raise, Observer!Fault, Observer!NoFault, Observer!EnterFinally,
       Observer!Report, Observer!control, Observer!Unchanged, Observer!Own, Observer!Running,
       Observer!Now, ObserverOutcomes
  <2>2. CASE Observer!Observe
    BY <2>2 DEF Observer!Observe, Observer!Retry, Observer!Require, Observer!Return, Observer!Call,
     Observer!Raise, Observer!Fault, Observer!NoFault, Observer!EnterFinally,
     Observer!Report, Observer!control, Observer!Unchanged, Observer!Own,
     Observer!Running, Observer!Now, ObserverOutcomes
  <2>3. CASE Observer!Collect
    BY <2>3 DEF Observer!Collect, Observer!Retry, Observer!Require, Observer!Return, Observer!Call,
     Observer!Raise, Observer!Fault, Observer!NoFault, Observer!EnterFinally,
     Observer!Report, Observer!control, Observer!Unchanged, Observer!Own,
     Observer!Running, Observer!Now, ObserverOutcomes
  <2>4. CASE Observer!CollectEnds
    BY <2>4 DEF Observer!CollectEnds, Observer!Retry, Observer!Require, Observer!Return,
       Observer!Call, Observer!Raise, Observer!Fault, Observer!NoFault, Observer!EnterFinally,
       Observer!Report, Observer!control, Observer!Unchanged, Observer!Own, Observer!Running,
       Observer!Now, ObserverOutcomes
  <2>5. CASE Observer!Close
    BY <2>5 DEF Observer!Close, Observer!Retry, Observer!Require, Observer!Return, Observer!Call,
     Observer!Raise, Observer!Fault, Observer!NoFault, Observer!EnterFinally,
     Observer!Report, Observer!control, Observer!Unchanged, Observer!Own,
     Observer!Running, Observer!Now, ObserverOutcomes
  <2>6. CASE Observer!Judge
    BY <1>0, <2>6 DEF Observer!Judge, Observer!Retry, Observer!Require, Observer!Return,
       Observer!Call, Observer!Raise, Observer!Fault, Observer!NoFault, Observer!EnterFinally,
       Observer!Report, Observer!control, Observer!Unchanged, Observer!Own, Observer!Running,
       Observer!Now, ObserverOutcomes
  <2>7. CASE Observer!StopHelper
    BY <2>7 DEF Observer!StopHelper, Observer!Retry, Observer!Require, Observer!Return,
       Observer!Call, Observer!Raise, Observer!Fault, Observer!NoFault, Observer!EnterFinally,
       Observer!Report, Observer!control, Observer!Unchanged, Observer!Own, Observer!Running,
       Observer!Now, ObserverOutcomes
  <2>8. CASE Observer!PidAgain
    BY <2>8 DEF Observer!PidAgain, Observer!Retry, Observer!Require, Observer!Return, Observer!Call,
     Observer!Raise, Observer!Fault, Observer!NoFault, Observer!EnterFinally,
     Observer!Report, Observer!control, Observer!Unchanged, Observer!Own,
     Observer!Running, Observer!Now, ObserverOutcomes
  <2>9. CASE Observer!ReadWindow
    BY <2>9 DEF Observer!ReadWindow, Observer!Retry, Observer!Require, Observer!Return,
       Observer!Call, Observer!Raise, Observer!Fault, Observer!NoFault, Observer!EnterFinally,
       Observer!Report, Observer!control, Observer!Unchanged, Observer!Own, Observer!Running,
       Observer!Now, ObserverOutcomes
  <2>10. CASE Observer!PidAfter
    BY <2>10 DEF Observer!PidAfter, Observer!Retry, Observer!Require, Observer!Return,
       Observer!Call, Observer!Raise, Observer!Fault, Observer!NoFault, Observer!EnterFinally,
       Observer!Report, Observer!control, Observer!Unchanged, Observer!Own, Observer!Running,
       Observer!Now, ObserverOutcomes
  <2>11. CASE Observer!Response
    BY <2>11 DEF Observer!Response, Observer!Retry, Observer!Require, Observer!Return,
       Observer!Call, Observer!Raise, Observer!Fault, Observer!NoFault, Observer!EnterFinally,
       Observer!Report, Observer!control, Observer!Unchanged, Observer!Own, Observer!Running,
       Observer!Now, ObserverOutcomes
  <2>12. CASE Observer!CleanUp
    BY <2>12 DEF Observer!CleanUp, Observer!Retry, Observer!Require, Observer!Return, Observer!Call,
     Observer!ReturnUnheeded, Observer!Raise, Observer!Fault, Observer!NoFault, Observer!EnterFinally,
     Observer!Report, Observer!control, Observer!Unchanged, Observer!Own,
     Observer!Running, Observer!Now, ObserverOutcomes
  <2>13. CASE Observer!Reader
    BY <2>13 DEF Observer!Reader, Observer!Retry, Observer!Require, Observer!Return, Observer!Call,
     Observer!Raise, Observer!Fault, Observer!NoFault, Observer!EnterFinally,
     Observer!Report, Observer!control, Observer!Unchanged, Observer!Own,
     Observer!Running, Observer!Now, ObserverOutcomes
  <2>14. CASE Observer!Helper
    BY <2>14 DEF Observer!Helper, Observer!Retry, Observer!Require, Observer!Return, Observer!Call,
     Observer!Raise, Observer!Fault, Observer!NoFault, Observer!EnterFinally,
     Observer!Report, Observer!control, Observer!Unchanged, Observer!Own,
     Observer!Running, Observer!Now, ObserverOutcomes
  <2>15. CASE Observer!Signal
    BY <2>15 DEF Observer!Signal, Observer!Retry, Observer!Require, Observer!Return, Observer!Call,
     Observer!Raise, Observer!Fault, Observer!NoFault, Observer!EnterFinally,
     Observer!Report, Observer!control, Observer!Unchanged, Observer!Own,
     Observer!Running, Observer!Now, ObserverOutcomes
  <2>16. CASE Observer!AppRestarts
    BY <2>16 DEF Observer!AppRestarts, Observer!Retry, Observer!Require, Observer!Return,
       Observer!Call, Observer!Raise, Observer!Fault, Observer!NoFault, Observer!EnterFinally,
       Observer!Report, Observer!control, Observer!Unchanged, Observer!Own, Observer!Running,
       Observer!Now, ObserverOutcomes
  <2>17. CASE Observer!Tick
    BY <2>17 DEF Observer!Tick, Observer!Retry, Observer!Require, Observer!Return, Observer!Call,
     Observer!Raise, Observer!Fault, Observer!NoFault, Observer!EnterFinally,
     Observer!Report, Observer!control, Observer!Unchanged, Observer!Own,
     Observer!Running, Observer!Now, ObserverOutcomes
  <2>18. CASE Observer!Now("end") /\ Observer!Return /\ Observer!Unchanged
    BY <2>18 DEF Observer!Retry, Observer!Require, Observer!Return, Observer!Call,
     Observer!Raise, Observer!Fault, Observer!NoFault, Observer!EnterFinally,
     Observer!Report, Observer!control, Observer!Unchanged, Observer!Own,
     Observer!Running, Observer!Now, ObserverOutcomes
  <2>19. CASE (Observer!EnterFinally(Observer!CLEANUP) \/ Observer!Report) /\ Observer!Unchanged
    BY <2>19 DEF Observer!Retry, Observer!Require, Observer!Return, Observer!Call,
     Observer!Raise, Observer!Fault, Observer!NoFault, Observer!EnterFinally,
     Observer!Report, Observer!control, Observer!Unchanged, Observer!Own,
     Observer!Running, Observer!Now, ObserverOutcomes
  <2>20. QED
    BY <2>1, <2>2, <2>3, <2>4, <2>5, <2>6, <2>7, <2>8, <2>9, <2>10, <2>11, <2>12,
      <2>13, <2>14, <2>15, <2>16, <2>17, <2>18, <2>19
    DEF Observer!Next, Observer!Runner
<1>8. CASE Observer!Observe
  <2>1. mode = "run" /\ todo # <<>> /\ Head(todo) = "observe"
    BY <1>8, ObserverOnlyCleans DEF Observer!Observe, Observer!Now
  <2>2. mem.owns_package
    BY <2>1 DEF ObserverUndone
  <2>3. \/ device' = device
        \/ /\ device'.owned = device.owned \cup {"helper", "adb", "reader"}
           /\ device'.proc.reader = "reading"
    <3>1. CASE device.app = 0
      BY <1>8, <3>1 DEF Observer!Observe
    <3>2. CASE device.app # 0
      <4>1. device' = [device EXCEPT !.now = 0, !.owned = @ \cup {"helper", "adb", "reader"},
              !.proc = [Observer!Idle EXCEPT !.reader = "reading", !.helper = "starting"]]
        BY <1>8, <3>2 DEF Observer!Observe
      <4>2. device'.owned = device.owned \cup {"helper", "adb", "reader"}
        BY <4>1 DEF ObserverKnows
      <4>3. device'.proc = [Observer!Idle EXCEPT !.reader = "reading", !.helper = "starting"]
        BY <4>1 DEF ObserverKnows
      <4>4. device'.proc.reader = "reading"
        BY <4>3 DEF Observer!Idle
      <4>5. QED
        BY <4>2, <4>4
    <3>3. QED
      BY <3>1, <3>2
  <2>4. QED
    BY <1>1, <1>2, <1>3, <1>4, <1>5, <1>7, <1>8, <2>2, <2>3 DEF ObserverKnows
<1>9. CASE Observer!InstallHelper
  <2>1. \/ device' = device
        \/ device' = [device EXCEPT !.owned = @ \cup {"observer"}] /\ mem'.owns_package
    BY <1>9 DEF Observer!InstallHelper, Observer!Own, ObserverKnows
  <2>2. \/ device'.owned = device.owned
        \/ device'.owned = device.owned \cup {"observer"} /\ mem'.owns_package
    BY <2>1 DEF ObserverKnows
  <2>3. device'.proc = device.proc
    BY <2>1 DEF ObserverKnows
  <2>4. QED
    BY <1>1, <1>2, <1>3, <1>4, <1>5, <1>7, <1>9, <2>2, <2>3 DEF ObserverKnows
<1>10. CASE ~Observer!Observe /\ ~Observer!InstallHelper
  <2>1. "reader" \in device'.owned => device'.proc.reader = "reading"
    <3>1. CASE Observer!Reader
      <4>1. \/ device'.owned = device.owned \ {"reader"}
            \/ /\ device'.owned = device.owned
               /\ device'.proc.reader = device.proc.reader
        <5> DEFINE chunk == Head(device.proc.pipe)
                   over == chunk.stage = "eof"
        <5>1. \/ device' = [device EXCEPT !.proc.chunks = Append(@, chunk), !.proc.pipe = Tail(@),
                             !.proc.reader = IF over THEN "ended" ELSE @,
                             !.owned = IF over THEN @ \ {"reader"} ELSE @]
              \/ device' = [device EXCEPT !.proc.reader = "ended", !.owned = @ \ {"reader"}]
          BY <3>1 DEF Observer!Reader, Observer!Proc
        <5> HIDE DEF chunk, over
        <5>2. CASE device' = [device EXCEPT !.proc.reader = "ended", !.owned = @ \ {"reader"}]
          BY <5>2 DEF ObserverKnows
        <5>3. CASE device' = [device EXCEPT !.proc.chunks = Append(@, chunk), !.proc.pipe = Tail(@),
                             !.proc.reader = IF over THEN "ended" ELSE @,
                             !.owned = IF over THEN @ \ {"reader"} ELSE @]
          <6>1. device'.owned = IF over THEN device.owned \ {"reader"} ELSE device.owned
            BY <5>3 DEF ObserverKnows
          <6>2. ~over => device'.proc.reader = device.proc.reader
            BY <5>3 DEF ObserverKnows
          <6>3. QED
            BY <6>1, <6>2
        <5>4. QED
          BY <5>1, <5>2, <5>3
      <4>2. QED
        BY <4>1 DEF ObserverKnows
    <3>2. CASE ~Observer!Reader
      <4>1. device'.proc.reader = device.proc.reader
        <5>1. CASE Observer!Collect
          BY <5>1 DEF Observer!Collect, ObserverKnows, Observer!Unchanged, Observer!Own,
             Observer!Proc
        <5>2. CASE Observer!CollectEnds
          BY <5>2 DEF Observer!CollectEnds, ObserverKnows, Observer!Unchanged, Observer!Own,
             Observer!Proc
        <5>3. CASE Observer!Close
          BY <5>3 DEF Observer!Close, ObserverKnows, Observer!Unchanged, Observer!Own, Observer!Proc
        <5>4. CASE Observer!Judge
          BY <5>4 DEF Observer!Judge, ObserverKnows, Observer!Unchanged, Observer!Own, Observer!Proc
        <5>5. CASE Observer!StopHelper
          BY <5>5 DEF Observer!StopHelper, ObserverKnows, Observer!Unchanged, Observer!Own,
             Observer!Proc
        <5>6. CASE Observer!PidAgain
          BY <5>6 DEF Observer!PidAgain, ObserverKnows, Observer!Unchanged, Observer!Own,
             Observer!Proc
        <5>7. CASE Observer!ReadWindow
          BY <5>7 DEF Observer!ReadWindow, ObserverKnows, Observer!Unchanged, Observer!Own,
             Observer!Proc
        <5>8. CASE Observer!PidAfter
          BY <5>8 DEF Observer!PidAfter, ObserverKnows, Observer!Unchanged, Observer!Own,
             Observer!Proc
        <5>9. CASE Observer!Response
          BY <5>9 DEF Observer!Response, ObserverKnows, Observer!Unchanged, Observer!Own,
             Observer!Proc
        <5>10. CASE Observer!CleanUp
          BY <5>10 DEF Observer!CleanUp, ObserverKnows, Observer!Unchanged, Observer!Own,
             Observer!Proc
        <5>11. CASE Observer!Helper
            <6>1. \/ device' = [device EXCEPT !.proc.helper = "capturing",
                                              !.proc.pipe = Observer!Emit("service_ready")]
                  \/ device' = [device EXCEPT !.proc.helper = "traversed",
                                              !.proc.pipe = Observer!Emit("traverse_ready"),
                                              !.proc.response = "hierarchy", !.tree = device.app]
                  \/ \E response \in {"retryable", "native"} :
                       device' = [device EXCEPT !.proc.helper = "traversed",
                                                !.proc.response = response]
                  \/ device' = [device EXCEPT !.proc.helper = "exited", !.owned = @ \ {"helper"},
                        !.proc.pipe = Observer!Emit("finish") \o <<Observer!Line("eof")>>]
              BY <5>11 DEF Observer!Helper
            <6>2. CASE device' = [device EXCEPT !.proc.helper = "capturing",
                                                !.proc.pipe = Observer!Emit("service_ready")]
              BY <6>2 DEF ObserverKnows
            <6>3. CASE device' = [device EXCEPT !.proc.helper = "traversed",
                                                !.proc.pipe = Observer!Emit("traverse_ready"),
                                                !.proc.response = "hierarchy", !.tree = device.app]
              BY <6>3 DEF ObserverKnows
            <6>4. CASE \E response \in {"retryable", "native"} :
                         device' = [device EXCEPT !.proc.helper = "traversed",
                                                  !.proc.response = response]
              BY <6>4 DEF ObserverKnows
            <6>5. CASE device' = [device EXCEPT !.proc.helper = "exited", !.owned = @ \ {"helper"},
                          !.proc.pipe = Observer!Emit("finish") \o <<Observer!Line("eof")>>]
              BY <6>5 DEF ObserverKnows
            <6>6. QED
              BY <6>1, <6>2, <6>3, <6>4, <6>5
        <5>12. CASE Observer!Signal
          BY <5>12 DEF Observer!Signal, ObserverKnows, Observer!Unchanged, Observer!Own,
             Observer!Proc
        <5>13. CASE Observer!AppRestarts
          BY <5>13 DEF Observer!AppRestarts, ObserverKnows, Observer!Unchanged, Observer!Own,
             Observer!Proc
        <5>14. CASE Observer!Tick
          BY <5>14 DEF Observer!Tick, ObserverKnows, Observer!Unchanged, Observer!Own, Observer!Proc
        <5>15. CASE Observer!Now("end") /\ Observer!Return /\ Observer!Unchanged
          BY <5>15 DEF ObserverKnows, Observer!Unchanged, Observer!Own, Observer!Proc
        <5>16. CASE (Observer!EnterFinally(Observer!CLEANUP) \/ Observer!Report) /\ Observer!Unchanged
          BY <5>16 DEF ObserverKnows, Observer!Unchanged, Observer!Own, Observer!Proc
        <5>17. QED
          BY <1>10, <3>2, <5>1, <5>2, <5>3, <5>4, <5>5, <5>6, <5>7, <5>8, <5>9,
            <5>10, <5>11, <5>12, <5>13, <5>14, <5>15, <5>16
          DEF Observer!Next, Observer!Runner
      <4>2. QED
        BY <1>6, <1>10, <4>1 DEF ObserverKnows
    <3>3. QED
      BY <3>1, <3>2
  <2>2. QED
    BY <1>1, <1>2, <1>3, <1>4, <1>5, <1>6, <1>7, <1>10, <2>1 DEF ObserverKnows
<1>11. QED
  BY <1>8, <1>9, <1>10

LEMMA OneAndOne ==
  ASSUME NEW x, NEW e
  PROVE  <<x>> \o <<e>> = <<x, e>>
<1> DEFINE T == {x, e}
           a == <<x>>
           b == <<e>>
           c == <<x, e>>
<1>1. /\ a \in Seq(T) /\ Len(a) = 1 /\ a[1] = x
      /\ b \in Seq(T) /\ Len(b) = 1 /\ b[1] = e /\ b[2 - 1] = e
      /\ c \in Seq(T) /\ Len(c) = 2 /\ c[1] = x /\ c[2] = e
  OBVIOUS
<1> HIDE DEF T, a, b, c
<1>2. /\ a \o b \in Seq(T) /\ Len(a \o b) = Len(a) + Len(b)
      /\ \A i \in 1..Len(a) + Len(b) : (a \o b)[i] = IF i <= Len(a) THEN a[i] ELSE b[i - Len(a)]
  BY <1>1, ConcatProperties
<1>3. /\ Len(a \o b) = 2
      /\ (a \o b)[1] = x /\ (a \o b)[2] = e
  BY <1>1, <1>2
<1>4. a \o b = c
  BY <1>1, <1>2, <1>3, SeqEqual
<1>5. QED
  BY <1>4 DEF a, b, c

(* How the try block goes on.                                              *)
LEMMA ObserverRunning ==
  ASSUME ObserverKnows, ObserverUndone, ObserverEnds, Observer!Next, mode = "run"
  PROVE  ObserverUndone' /\ ObserverEnds'
<1> DEFINE Goal == ObserverUndone' /\ ObserverEnds'
           none == "adb" \notin device.owned /\ "reader" \notin device.owned
           none2 == "adb" \notin device'.owned /\ "reader" \notin device'.owned
           calm == ~seen.expired \/ seen.masked
           calm2 == ~seen'.expired \/ seen'.masked
<1>1. /\ todo # <<>> =>
           /\ SubSeq(todo, Len(todo), Len(todo)) = <<"end">>
           /\ <<>> \o Tail(todo) = Tail(todo)
           /\ todo \in ObserverTodos
           /\ Head(todo) \in ObserverOps
      /\ Head(todo) = "install" /\ todo # <<>> => Tail(todo) = <<"observe", "end">>
      /\ Head(todo) = "observe" /\ todo # <<>> => Tail(todo) = <<"end">>
      /\ Head(todo) = "collect" /\ todo # <<>> => Tail(todo) = <<"close", "judge", "end">>
      /\ Head(todo) = "close" /\ todo # <<>> => Tail(todo) = <<"judge", "end">>
      /\ Head(todo) = "judge" /\ todo # <<>> => Tail(todo) = <<"end">>
      /\ Head(todo) = "stop-helper" /\ todo # <<>> => Tail(todo) = <<"pid-again", "end">>
      /\ Head(todo) = "pid-again" /\ todo # <<>> => Tail(todo) = <<"end">>
      /\ Head(todo) = "window" /\ todo # <<>> => Tail(todo) = <<"pid-after", "response", "end">>
      /\ Head(todo) = "pid-after" /\ todo # <<>> => Tail(todo) = <<"response", "end">>
      /\ Head(todo) = "response" /\ todo # <<>> => Tail(todo) = <<"end">>
      /\ Head(todo) = "end" /\ todo # <<>> => Tail(todo) = <<>>
  BY ObserverPlaces DEF ObserverUndone
<1>2. todo # <<>> /\ Head(todo) \notin {"collect", "close", "judge"} => none
  BY DEF ObserverUndone
<1>3. todo # <<>> /\ Head(todo) \notin {"stop-helper", "pid-again"} => calm
  BY DEF ObserverEnds
<1>4. todo # <<>> /\ Head(todo) # "install" => mem.owns_package
  BY DEF ObserverUndone
<1>5. /\ ~Observer!Observe /\ ~Observer!InstallHelper => device'.owned \subseteq device.owned
      /\ mem.owns_package => mem'.owns_package
  BY ObserverKnowsStep
<1>6. /\ <<"observe">> \o <<"end">> = <<"observe", "end">>
      /\ <<"collect", "close", "judge">> \o <<"end">> = <<"collect", "close", "judge", "end">>
      /\ <<"window", "pid-after", "response">> \o <<"end">>
           = <<"window", "pid-after", "response", "end">>
      /\ <<"stop-helper", "pid-again">> \o <<"end">> = <<"stop-helper", "pid-again", "end">>
  <2>1. <<"observe">> \o <<"end">> = <<"observe", "end">>
    BY OneAndOne
  <2>2. QED
    BY <2>1, TwoAndOne, ThreeAndOne
<1>7. ASSUME mode' = "cleanup", todo' = <<"cleanup">>, none2
      PROVE  Goal
  BY <1>7 DEF ObserverUndone, ObserverEnds
<1>8. ASSUME mode' = "run", todo' \in ObserverTodos, todo' = <<>>, none2, calm2
      PROVE  Goal
  BY <1>8 DEF ObserverUndone, ObserverEnds
<1>9. ASSUME mode' = "run", NEW op, NEW rest, todo' = rest, rest \in ObserverTodos,
             rest # <<>>, Head(rest) = op, mem'.owns_package,
             op \in {"close", "judge"} => mem'.outcome \in ObserverOutcomes,
             "adb" \in device'.owned => op \in {"collect", "close"},
             "reader" \in device'.owned => op \in {"collect", "close", "judge"},
             calm2 \/ op \in {"stop-helper", "pid-again"}
      PROVE  Goal
  BY <1>9 DEF ObserverUndone, ObserverEnds
<1>10. /\ <<"observe", "end">> \in ObserverTodos
       /\ <<"collect", "close", "judge", "end">> \in ObserverTodos
       /\ <<"window", "pid-after", "response", "end">> \in ObserverTodos
       /\ <<"stop-helper", "pid-again", "end">> \in ObserverTodos
       /\ <<"close", "judge", "end">> \in ObserverTodos
       /\ <<"judge", "end">> \in ObserverTodos
       /\ <<"pid-again", "end">> \in ObserverTodos
       /\ <<"pid-after", "response", "end">> \in ObserverTodos
       /\ <<"response", "end">> \in ObserverTodos
       /\ <<"end">> \in ObserverTodos
       /\ <<>> \in ObserverTodos
  BY DEF ObserverTodos
<1>11. ASSUME mode' = "run", todo' = <<"observe", "end">>, none2, calm2, mem'.owns_package
       PROVE  Goal
  <2>1. <<"observe", "end">> # <<>> /\ Head(<<"observe", "end">>) = "observe"
    OBVIOUS
  <2>2. QED
    BY <1>9, <1>10, <1>11, <2>1
<1>12. ASSUME Observer!Retry, todo # <<>>, mem.owns_package, none2, calm2
       PROVE  Goal
  <2>1. \/ mode' = "cleanup" /\ todo' = <<"cleanup">>
        \/ mode' = "run" /\ todo' = <<"observe", "end">>
    BY <1>1, <1>6, <1>12 DEF Observer!Retry, Observer!Raise, Observer!Running, Observer!CLEANUP
  <2>2. QED
    BY <1>5, <1>7, <1>11, <1>12, <2>1
<1>13. ASSUME Observer!Raise(Observer!CLEANUP), none2
       PROVE  Goal
  BY <1>7, <1>13 DEF Observer!Raise, Observer!Running, Observer!CLEANUP
<1>14. Observer!Return /\ todo # <<>> => mode' = "run" /\ todo' = Tail(todo)
  BY <1>1 DEF Observer!Return, Observer!Call
<1> SUFFICES Goal
  BY DEF Goal
<1> HIDE DEF Goal
<1>20. CASE Observer!InstallHelper
  <2>1. todo # <<>> /\ Head(todo) = "install"
    BY <1>20 DEF Observer!InstallHelper, Observer!Now
  <2>2. none /\ calm /\ Tail(todo) = <<"observe", "end">> /\ seen' = seen
    BY <1>1, <1>2, <1>3, <2>1, <1>20 DEF Observer!InstallHelper
  <2>3. none2
    BY <2>2, <1>20 DEF Observer!InstallHelper, Observer!Own, ObserverKnows
  <2>4. \/ Observer!Raise(Observer!CLEANUP)
        \/ Observer!Return /\ mem' = [mem EXCEPT !.owns_package = TRUE, !.installed = TRUE]
    BY <1>20 DEF Observer!InstallHelper
  <2>5. CASE Observer!Return /\ mem' = [mem EXCEPT !.owns_package = TRUE, !.installed = TRUE]
    <3>1. mem'.owns_package
      BY <2>5 DEF ObserverKnows
    <3>2. QED
      BY <1>11, <1>14, <2>1, <2>2, <2>3, <2>5, <3>1
  <2>6. QED
    BY <1>13, <2>3, <2>4, <2>5
<1>21. CASE Observer!Observe
  <2>1. todo # <<>> /\ Head(todo) = "observe"
    BY <1>21 DEF Observer!Observe, Observer!Now
  <2>2. none /\ calm /\ Tail(todo) = <<"end">> /\ seen' = seen /\ mem.owns_package
    BY <1>1, <1>2, <1>3, <1>4, <2>1, <1>21 DEF Observer!Observe
  <2>3. \/ Observer!Raise(Observer!CLEANUP) /\ device' = device
        \/ Observer!Call(<<"collect", "close", "judge">>)
    BY <1>21 DEF Observer!Observe
  <2>4. CASE Observer!Call(<<"collect", "close", "judge">>)
    <3>1. mode' = "run" /\ todo' = <<"collect", "close", "judge", "end">>
      BY <1>6, <2>2, <2>4 DEF Observer!Call
    <3>2. <<"collect", "close", "judge", "end">> # <<>>
          /\ Head(<<"collect", "close", "judge", "end">>) = "collect"
      OBVIOUS
    <3>3. calm2
      BY <2>2
    <3>4. QED
      BY <1>5, <1>9, <1>10, <2>2, <3>1, <3>2, <3>3
  <2>5. QED
    BY <1>13, <2>2, <2>3, <2>4
<1>22. CASE Observer!Collect
  <2>1. todo # <<>> /\ Head(todo) = "collect"
    BY <1>22 DEF Observer!Collect, Observer!Now
  <2>2. calm /\ Tail(todo) = <<"close", "judge", "end">> /\ seen' = seen /\ mem.owns_package
    BY <1>1, <1>3, <1>4, <2>1, <1>22 DEF Observer!Collect
  <2>3. /\ mode' = "run"
        /\ \/ todo' = todo
           \/ todo' = Tail(todo) /\ mem' = [mem EXCEPT !.outcome = "integrity"]
    BY <1>22 DEF Observer!Collect
  <2>4. CASE todo' = todo
    BY <1>1, <1>5, <1>9, <2>1, <2>2, <2>3, <2>4
  <2>5. CASE todo' = Tail(todo) /\ mem' = [mem EXCEPT !.outcome = "integrity"]
    <3>1. <<"close", "judge", "end">> # <<>> /\ Head(<<"close", "judge", "end">>) = "close"
      OBVIOUS
    <3>2. mem'.outcome \in ObserverOutcomes
      BY <2>5 DEF ObserverKnows, ObserverOutcomes
    <3>3. QED
      BY <1>5, <1>9, <1>10, <2>2, <2>3, <2>5, <3>1, <3>2
  <2>6. QED
    BY <2>3, <2>4, <2>5
<1>23. CASE Observer!CollectEnds
  <2>1. todo # <<>> /\ Head(todo) = "collect"
    BY <1>23 DEF Observer!CollectEnds, Observer!Now
  <2>2. calm /\ Tail(todo) = <<"close", "judge", "end">> /\ seen' = seen /\ mem.owns_package
    BY <1>1, <1>3, <1>4, <2>1, <1>23 DEF Observer!CollectEnds
  <2>3. mode' = "run" /\ todo' = <<"close", "judge", "end">>
    BY <1>14, <2>1, <2>2, <1>23 DEF Observer!CollectEnds
  <2>4. mem'.outcome \in {"timeout", "returned", "integrity"}
    BY <1>23 DEF Observer!CollectEnds, ObserverKnows
  <2>5. mem'.outcome \in ObserverOutcomes
    BY <2>4 DEF ObserverOutcomes
  <2>6. <<"close", "judge", "end">> # <<>> /\ Head(<<"close", "judge", "end">>) = "close"
    OBVIOUS
  <2>7. QED
    BY <1>5, <1>9, <1>10, <2>2, <2>3, <2>5, <2>6
<1>24. CASE Observer!Signal
  <2>1. todo # <<>> /\ Head(todo) = "collect"
    BY <1>24 DEF Observer!Signal, Observer!Now
  <2>2. calm /\ Tail(todo) = <<"close", "judge", "end">> /\ seen' = seen /\ mem.owns_package
    BY <1>1, <1>3, <1>4, <2>1, <1>24 DEF Observer!Signal
  <2>3. mode' = "run" /\ todo' = <<"close", "judge", "end">>
    BY <2>1, <2>2, <1>24 DEF Observer!Signal
  <2>5. mem'.outcome \in ObserverOutcomes
    BY <1>24 DEF Observer!Signal, ObserverKnows, ObserverOutcomes
  <2>6. <<"close", "judge", "end">> # <<>> /\ Head(<<"close", "judge", "end">>) = "close"
    OBVIOUS
  <2>7. QED
    BY <1>5, <1>9, <1>10, <2>2, <2>3, <2>5, <2>6
<1>25. CASE Observer!Close
  <2>1. todo # <<>> /\ Head(todo) = "close"
    BY <1>25 DEF Observer!Close, Observer!Now
  <2>2. calm /\ Tail(todo) = <<"judge", "end">> /\ seen' = seen /\ mem.owns_package
    BY <1>1, <1>3, <1>4, <2>1, <1>25 DEF Observer!Close
  <2>3. mode' = "run" /\ todo' = <<"judge", "end">>
    BY <1>14, <2>1, <2>2, <1>25 DEF Observer!Close
  <2>4. mem.outcome \in ObserverOutcomes
    BY <2>1 DEF ObserverUndone
  <2>5. mem'.outcome \in ObserverOutcomes
    BY <2>4, <1>25 DEF Observer!Close, Observer!NoBudget, ObserverKnows
  <2>6. <<"judge", "end">> # <<>> /\ Head(<<"judge", "end">>) = "judge"
    OBVIOUS
  <2>7. "adb" \notin device'.owned
    BY <1>25 DEF Observer!Close, ObserverKnows
  <2>8. QED
    BY <1>5, <1>9, <1>10, <2>2, <2>3, <2>5, <2>6, <2>7
<1>26. CASE Observer!Judge
  <2>1. todo # <<>> /\ Head(todo) = "judge"
    BY <1>26 DEF Observer!Judge, Observer!Now
  <2>2. calm /\ Tail(todo) = <<"end">> /\ mem.owns_package /\ device' = device
    BY <1>1, <1>3, <1>4, <2>1, <1>26 DEF Observer!Judge
  <2>3. none2
    BY <2>1, <2>2, <1>26 DEF Observer!Judge, Observer!Proc, ObserverKnows, ObserverUndone
  <2>4. mem.outcome \in ObserverOutcomes
    BY <2>1 DEF ObserverUndone
  <2>5. /\ mem' = mem /\ seen'.masked = seen.masked
        /\ seen'.expired = (seen.expired \/ mem.outcome = "timeout")
    BY <1>26 DEF Observer!Judge, ObserverKnows
  <2>6. CASE mem.outcome = "returned"
    <3>1. Observer!Call(<<"window", "pid-after", "response">>)
      BY <2>6, <1>26 DEF Observer!Judge
    <3>2. mode' = "run" /\ todo' = <<"window", "pid-after", "response", "end">>
      BY <1>6, <2>2, <3>1 DEF Observer!Call
    <3>3. <<"window", "pid-after", "response", "end">> # <<>>
          /\ Head(<<"window", "pid-after", "response", "end">>) = "window"
      OBVIOUS
    <3>4. calm2
      BY <2>2, <2>5, <2>6
    <3>5. QED
      BY <1>9, <1>10, <2>2, <2>3, <2>5, <3>2, <3>3, <3>4
  <2>7. CASE mem.outcome \in {"timeout", "integrity"}
    <3>1. Observer!Call(<<"stop-helper", "pid-again">>)
      BY <2>7, <1>26 DEF Observer!Judge
    <3>2. mode' = "run" /\ todo' = <<"stop-helper", "pid-again", "end">>
      BY <1>6, <2>2, <3>1 DEF Observer!Call
    <3>3. <<"stop-helper", "pid-again", "end">> # <<>>
          /\ Head(<<"stop-helper", "pid-again", "end">>) = "stop-helper"
      OBVIOUS
    <3>4. QED
      BY <1>9, <1>10, <2>2, <2>3, <2>5, <3>2, <3>3
  <2>8. CASE mem.outcome = "signal"
    <3>1. Observer!Retry
      BY <2>8, <1>26 DEF Observer!Judge
    <3>2. calm2
      BY <2>2, <2>5, <2>8
    <3>3. QED
      BY <1>12, <2>1, <2>2, <2>3, <3>1, <3>2
  <2>9. QED
    BY <2>4, <2>6, <2>7, <2>8 DEF ObserverOutcomes
<1>27. CASE Observer!StopHelper
  <2>1. todo # <<>> /\ Head(todo) = "stop-helper"
    BY <1>27 DEF Observer!StopHelper, Observer!Now
  <2>2. /\ none /\ Tail(todo) = <<"pid-again", "end">> /\ mem.owns_package
        /\ device'.owned \subseteq device.owned
    BY <1>1, <1>2, <1>4, <1>5, <2>1, <1>27 DEF Observer!StopHelper, Observer!Observe,
       Observer!InstallHelper, Observer!Now
  <2>3. CASE Observer!Return
    <3>1. mode' = "run" /\ todo' = <<"pid-again", "end">>
      BY <1>14, <2>1, <2>2, <2>3
    <3>2. <<"pid-again", "end">> # <<>> /\ Head(<<"pid-again", "end">>) = "pid-again"
      OBVIOUS
    <3>3. QED
      BY <1>5, <1>9, <1>10, <2>2, <3>1, <3>2
  <2>4. CASE Observer!Fault /\ Observer!Retry
    <3>1. faults' # faults
      BY <2>4 DEF Observer!Fault, ObserverKnows
    <3>2. seen'.masked
      BY <3>1, <1>27 DEF Observer!StopHelper, ObserverKnows
    <3>3. QED
      BY <1>12, <2>1, <2>2, <2>4, <3>2
  <2>5. QED
    BY <2>3, <2>4, <1>27 DEF Observer!StopHelper
<1>28. CASE Observer!PidAgain
  <2>1. todo # <<>> /\ Head(todo) = "pid-again"
    BY <1>28 DEF Observer!PidAgain, Observer!Now
  <2>2. none2 /\ mem.owns_package
    BY <1>2, <1>4, <2>1, <1>28 DEF Observer!PidAgain
  <2>3. CASE Observer!Raise(Observer!CLEANUP)
    BY <1>13, <2>2, <2>3
  <2>4. CASE Observer!Retry /\ seen' = [seen EXCEPT !.masked = TRUE]
    <3>1. seen'.masked
      BY <2>4 DEF ObserverKnows
    <3>2. QED
      BY <1>12, <2>1, <2>2, <2>4, <3>1
  <2>5. QED
    BY <2>3, <2>4, <1>28 DEF Observer!PidAgain
<1>29. CASE Observer!ReadWindow
  <2>1. todo # <<>> /\ Head(todo) = "window"
    BY <1>29 DEF Observer!ReadWindow, Observer!Now
  <2>2. /\ none2 /\ calm2 /\ mem.owns_package /\ mem'.owns_package
        /\ Tail(todo) = <<"pid-after", "response", "end">>
    BY <1>1, <1>2, <1>3, <1>4, <1>5, <2>1, <1>29 DEF Observer!ReadWindow, Observer!Unchanged
  <2>3. Observer!Raise(Observer!CLEANUP) \/ Observer!Return \/ Observer!Retry
    BY <1>29 DEF Observer!ReadWindow
  <2>4. CASE Observer!Return
    <3>1. <<"pid-after", "response", "end">> # <<>>
          /\ Head(<<"pid-after", "response", "end">>) = "pid-after"
      OBVIOUS
    <3>2. QED
      BY <1>9, <1>10, <1>14, <2>1, <2>2, <2>4, <3>1
  <2>5. QED
    BY <1>12, <1>13, <2>1, <2>2, <2>3, <2>4
<1>30. CASE Observer!PidAfter
  <2>1. todo # <<>> /\ Head(todo) = "pid-after"
    BY <1>30 DEF Observer!PidAfter, Observer!Now
  <2>2. /\ none2 /\ calm2 /\ mem'.owns_package
        /\ Tail(todo) = <<"response", "end">>
    BY <1>1, <1>2, <1>3, <1>4, <1>5, <2>1, <1>30 DEF Observer!PidAfter, Observer!Unchanged
  <2>3. Observer!Raise(Observer!CLEANUP) \/ Observer!Return
    BY <1>30 DEF Observer!PidAfter, Observer!Require
  <2>4. CASE Observer!Return
    <3>1. <<"response", "end">> # <<>> /\ Head(<<"response", "end">>) = "response"
      OBVIOUS
    <3>2. QED
      BY <1>9, <1>10, <1>14, <2>1, <2>2, <2>4, <3>1
  <2>5. QED
    BY <1>13, <2>2, <2>3, <2>4
<1>31. CASE Observer!Response
  <2>1. todo # <<>> /\ Head(todo) = "response"
    BY <1>31 DEF Observer!Response, Observer!Now
  <2>2. /\ none2 /\ mem.owns_package /\ mem'.owns_package /\ calm
        /\ Tail(todo) = <<"end">>
    BY <1>1, <1>2, <1>3, <1>4, <1>5, <2>1, <1>31 DEF Observer!Response
  <2>3. calm2
    <3>1. \/ seen' = seen
          \/ seen' = [seen EXCEPT
               !.trees = @ \cup {[pid |-> device.tree, before |-> mem.before_pid]}]
      BY <1>31 DEF Observer!Response
    <3>2. QED
      BY <2>2, <3>1 DEF ObserverKnows
  <2>4. Observer!Raise(Observer!CLEANUP) \/ Observer!Return \/ Observer!Retry
    BY <1>31 DEF Observer!Response
  <2>5. CASE Observer!Return
    <3>1. <<"end">> # <<>> /\ Head(<<"end">>) = "end"
      OBVIOUS
    <3>2. QED
      BY <1>9, <1>10, <1>14, <2>1, <2>2, <2>3, <2>5, <3>1
  <2>6. QED
    BY <1>12, <1>13, <2>1, <2>2, <2>3, <2>4, <2>5
<1>32. CASE Observer!Now("end") /\ Observer!Return /\ Observer!Unchanged
  <2>1. todo # <<>> /\ Head(todo) = "end"
    BY <1>32 DEF Observer!Now
  <2>2. none2 /\ calm2 /\ Tail(todo) = <<>>
    BY <1>1, <1>2, <1>3, <1>32, <2>1 DEF Observer!Unchanged
  <2>3. QED
    BY <1>8, <1>10, <1>14, <1>32, <2>1, <2>2
<1>33. CASE Observer!EnterFinally(Observer!CLEANUP) /\ Observer!Unchanged
  <2>1. todo = <<>> /\ mode' = "cleanup" /\ todo' = <<"cleanup">> /\ device' = device
    BY <1>33 DEF Observer!EnterFinally, Observer!CLEANUP, Observer!Unchanged
  <2>2. none2
    BY <2>1 DEF ObserverUndone
  <2>3. QED
    BY <1>7, <2>1, <2>2
<1>34. CASE /\ Observer!Reader \/ Observer!Helper \/ Observer!AppRestarts \/ Observer!Tick
            /\ ~Observer!Observe /\ ~Observer!InstallHelper
  <2>1. todo' = todo /\ mode' = mode /\ mem' = mem /\ seen' = seen
    BY <1>34 DEF Observer!Reader, Observer!Helper, Observer!AppRestarts, Observer!Tick,
       Observer!control
  <2>2. device'.owned \subseteq device.owned
    BY <1>5, <1>34
  <2>3. QED
    BY <2>1, <2>2 DEF Goal, ObserverUndone, ObserverEnds
<1>35. QED
  BY <1>20, <1>21, <1>22, <1>23, <1>24, <1>25, <1>26, <1>27, <1>28, <1>29, <1>30, <1>31, <1>32,
     <1>33, <1>34, ObserverOnlyTries DEF Observer!Next, Observer!Runner

LEMMA ObserverUndoneStep ==
  ASSUME ObserverKnows, ObserverUndone, ObserverEnds, Observer!Next
  PROVE  ObserverKnows' /\ ObserverUndone' /\ ObserverEnds'
<1>1. CASE mode = "run"
  BY <1>1, ObserverRunning, ObserverKnowsStep
<1>2. CASE mode # "run"
  <2>1. Observer!Reader \/ Observer!CleanUp \/ (Observer!Report /\ Observer!Unchanged)
    BY <1>2, ObserverOnlyCleans DEF Observer!Next, Observer!Runner, Observer!EnterFinally,
       Observer!Running
  <2>2. ~Observer!Observe /\ ~Observer!InstallHelper
    BY <1>2, ObserverOnlyCleans
  <2>3. device'.owned \subseteq device.owned /\ failed \subseteq failed'
    BY <2>2, ObserverKnowsStep
  <2>4. CASE Observer!Reader
    <3>1. todo' = todo /\ mode' = mode
      BY <2>4 DEF Observer!Reader, Observer!control
    <3>2. QED
      BY <1>2, <2>3, <3>1, ObserverKnowsStep DEF ObserverUndone, ObserverEnds
  <2>5. CASE Observer!CleanUp
    <3>1. todo = <<"cleanup">> /\ mode = "cleanup"
      BY <1>2, <2>5 DEF Observer!CleanUp, Observer!Now, ObserverUndone
    <3>2. todo' = <<>> /\ mode' = "cleanup"
      BY <2>5, <3>1 DEF Observer!CleanUp, Observer!Return, Observer!Call, Observer!Raise,
         Observer!ReturnUnheeded, Observer!Running
    <3>3. \/ ~mem.owns_package
          \/ device'.owned = device.owned \ {"observer", "helper"}
          \/ "cleanup" \in failed'
      <4>1. \/ ~mem.owns_package
            \/ device' = [device EXCEPT !.owned = @ \ {"observer", "helper"}]
            \/ Observer!Raise(Observer!CLEANUP) \/ Observer!ReturnUnheeded
        BY <2>5 DEF Observer!CleanUp
      <4>2. Observer!Raise(Observer!CLEANUP) \/ Observer!ReturnUnheeded => "cleanup" \in failed'
        BY <3>1 DEF Observer!Raise, Observer!ReturnUnheeded
      <4>3. QED
        BY <4>1, <4>2 DEF ObserverKnows
    <3>4. QED
      BY <1>2, <2>3, <3>1, <3>2, <3>3, ObserverKnowsStep DEF ObserverUndone, ObserverEnds,
         ObserverKnows
  <2>6. CASE Observer!Report /\ Observer!Unchanged
    <3>1. todo = <<>> /\ todo' = <<>> /\ mode' = "done" /\ device' = device
      BY <2>6 DEF Observer!Report, Observer!Unchanged
    <3>2. QED
      BY <1>2, <2>3, <3>1, ObserverKnowsStep DEF ObserverUndone, ObserverEnds
  <2>7. QED
    BY <2>1, <2>4, <2>5, <2>6
<1>3. QED
  BY <1>1, <1>2

LEMMA ObserverRestored ==
  ASSUME ObserverKnows, ObserverUndone, Done
  PROVE  Observer!Restored
<1>1. mode = "done" /\ todo = <<>>
  BY DEF Done, ObserverUndone
<1>2. /\ device.owned \subseteq {"observer", "helper"}
      /\ device.owned # {} => "cleanup" \in failed
  BY <1>1 DEF ObserverUndone, ObserverKnows
<1>3. QED
  BY <1>2 DEF Observer!Restored, Observer!Cleaner

-----------------------------------------------------------------------------
(* The verdict of the fullscreen runner.                                   *)

LEMMA FullscreenProgram ==
  Fullscreen!Program \in Seq(FullscreenTry) /\ Len(Fullscreen!Program) = 46
BY DEF Fullscreen!Program, FullscreenTry, Fullscreen!Phases, Fullscreen!FullPhases,
       Fullscreen!PlayingPhases

LEMMA FullscreenPlaces ==
  \A i \in 1..46 :
       /\ Fullscreen!Program[i] = "prepare" => i = 2
       /\ Fullscreen!Program[i] = "app-pid" => i = 7
       /\ Fullscreen!Program[i] = "load-fixture" => i = 4
       /\ Fullscreen!Program[i] = "enter" => i = 17
       /\ Fullscreen!Program[i] = "back" => i = 37
       /\ Fullscreen!Program[i] = "idle" => i \in {23, 26}
       /\ Fullscreen!Program[i] \in {"record-play", "record-back"} => i \in {8, 21, 41}
       /\ Fullscreen!Program[i] = "15-normal-return-home" => i = 42
       /\ Fullscreen!Program[i] # "revealed"
       /\ i = 2 => Fullscreen!Program[i] = "prepare"
       /\ i = 4 => Fullscreen!Program[i] = "load-fixture"
       /\ i = 5 => Fullscreen!Program[i] = "02-loaded-paused"
       /\ i = 7 => Fullscreen!Program[i] = "app-pid"
       /\ i = 9 => Fullscreen!Program[i] = "03-normal-playing"
       /\ i = 23 => Fullscreen!Program[i] = "idle"
       /\ i \in {24, 27, 44} => Fullscreen!Program[i] = "pid"
       /\ i = 42 => Fullscreen!Program[i] = "15-normal-return-home" 
       /\ i \in {11, 30, 45} => Fullscreen!Program[i] = "stop-recording"
       /\ Fullscreen!Program[i] \in Fullscreen!Phases => i \notin 1..4
BY DEF Fullscreen!Program, Fullscreen!Phases, Fullscreen!FullPhases, Fullscreen!PlayingPhases

FullscreenInserted == {<<>>, <<"center-tap", "revealed">>, <<"revealed">>, <<"tap-pause">>}

FullscreenFields ==
  /\ {"app", "screen", "owned", "observer", "display", "controls", "playing", "tip"} \subseteq DOMAIN device
  /\ {"app_pid", "state", "confirmed", "recording", "recordings", "authorized"} \subseteq DOMAIN mem
  /\ {"taps", "pids", "idle", "recordedTurn"} \subseteq DOMAIN seen
  /\ device.observer \in BOOLEAN

(* What the first d operations have established, if none raised.           *)
FullscreenSoFar(d) ==
  /\ device.app \in Nat
  /\ device.screen = "player" => device.app <= 1
  /\ d < 4 => device.app = 0
  /\ d >= 2 => mem.authorized
  /\ d >= 7 => mem.app_pid \in 1..device.app
  /\ d >= 9 => mem.app_pid = 1
  /\ seen.pids \subseteq 1..device.app
  /\ d < 42 \/ d >= 44 => seen.pids \subseteq {1}
  /\ d >= 5 => seen.pids # {}
  /\ "recorder" \in device.owned => d \in 8..10 \cup 21..29 \cup 41..44
  /\ ~seen.recordedTurn
  /\ seen.idle \subseteq 1..device.app
  /\ d < 23 => seen.idle = {}
  /\ d >= 23 => seen.idle # {}
  /\ d \notin {23, 26} => seen.idle \subseteq {1}

FullscreenPassing ==
  /\ mode = "run" =>
       /\ errors = FALSE /\ FullscreenFields
       /\ \E d \in 0..46 : /\ \E ops \in FullscreenInserted : todo = ops \o After(Fullscreen!Program, d)
                          /\ FullscreenSoFar(d)
  /\ mode # "run" /\ ~errors => "app_pid" \in DOMAIN mem /\ Fullscreen!Earned

(* What the operation that runs now does, if it does not raise.            *)
FullscreenDoes(op) ==
  /\ device'.app = IF op = "load-fixture" THEN 1 ELSE device.app
  /\ device'.screen = "player" => device.screen = "player" \/ op = "load-fixture"
  /\ op = "prepare" => mem'.authorized
  /\ op # "prepare" => mem'.authorized = mem.authorized
  /\ "recorder" \in device'.owned =>
       \/ op \in {"record-play", "record-back"}
       \/ op # "stop-recording" /\ "recorder" \in device.owned
  /\ mem'.app_pid = IF op = "app-pid" THEN device.app ELSE mem.app_pid
  /\ op = "app-pid" => device.app # 0
  /\ op = "pid" => device.app = mem.app_pid
  /\ \/ seen'.pids = seen.pids /\ op \notin Fullscreen!Phases
     \/ op \in Fullscreen!Phases /\ Fullscreen!Shows(op) /\ seen'.pids = seen.pids \cup {device.app}
  /\ seen'.idle = IF op = "idle" THEN seen.idle \cup {device.app} ELSE seen.idle
  /\ seen'.recordedTurn => seen.recordedTurn \/ (op \in {"enter", "back"} /\ "recorder" \in device.owned)

LEMMA FullscreenEffects ==
  ASSUME FullscreenFields, mode = "run", Fullscreen!Next, ~errors',
         todo # <<>> => Head(todo) \in FullscreenTry
  PROVE  /\ FullscreenFields'
         /\ \/ mode' = "cleanup" /\ todo = <<>> /\ UNCHANGED <<device, mem, seen>>
            \/ /\ mode' = "run" /\ todo' = todo
               /\ device'.owned = device.owned /\ mem'.app_pid = mem.app_pid
               /\ mem'.authorized = mem.authorized
               /\ \/ device'.app = device.app /\ device'.screen = device.screen
                  \/ device'.app = device.app + 1 /\ device'.screen = "home" /\ device.app # 0
               /\ seen'.pids = seen.pids /\ seen'.idle = seen.idle
               /\ seen'.recordedTurn = seen.recordedTurn
            \/ /\ mode' = "run" /\ todo # <<>> /\ FullscreenDoes(Head(todo))
               /\ \/ todo' = <<>> \o Tail(todo)
                  \/ /\ Head(todo) = "pause"
                     /\ \E ops \in FullscreenInserted : todo' = ops \o Tail(todo)
                  \/ Head(todo) = "revealed" /\ todo' = <<"tap-pause">> \o Tail(todo)
<1>0. /\ todo # <<>> => Head(todo) \notin {"stop-logcat", "owned-again", "remove-observer", "force-stop", "remove-files"}
      /\ ~Fullscreen!OwnedAgain /\ ~Fullscreen!StopLogcat /\ ~Fullscreen!RemoveObserver
      /\ ~Fullscreen!ForceStop /\ ~Fullscreen!RemoveFiles
  BY DEF FullscreenTry, Fullscreen!Phases, Fullscreen!FullPhases, Fullscreen!PlayingPhases,
     Fullscreen!OwnedAgain, Fullscreen!StopLogcat, Fullscreen!RemoveObserver, Fullscreen!ForceStop, Fullscreen!RemoveFiles,
     Fullscreen!Now
<1> USE DEF FullscreenFields
<1>1. FullscreenFields'
  BY DEF Fullscreen!Next, Fullscreen!Runner, Fullscreen!Check, Fullscreen!Prepare,
     Fullscreen!StartLogcat, Fullscreen!WaitFails, Fullscreen!Sample, Fullscreen!Evidence,
     Fullscreen!Disconnected, Fullscreen!LoadFixture, Fullscreen!AppPid, Fullscreen!CheckPid, Fullscreen!Record,
     Fullscreen!StopRecording, Fullscreen!Pause, Fullscreen!Revealed, Fullscreen!Tap,
     Fullscreen!CenterTap, Fullscreen!Enter, Fullscreen!Back, Fullscreen!StopObserver,
     Fullscreen!Idle, Fullscreen!AllRecorded, Fullscreen!StopLogcat, Fullscreen!RemoveObserver,
     Fullscreen!ForceStop, Fullscreen!RemoveFiles, Fullscreen!OwnedAgain, Fullscreen!Fails, Fullscreen!Unchanged,
     Fullscreen!HideControls, Fullscreen!AppRestarts, Fullscreen!Surprise,
     Fullscreen!AcknowledgeTip, Fullscreen!Require, Fullscreen!Return, Fullscreen!Raise,
     Fullscreen!Call, Fullscreen!ReturnOrFail, Fullscreen!EnterFinally, Fullscreen!Report,
     Fullscreen!Running, Fullscreen!control, Fullscreen!Now, Fullscreen!Waiting,
     Fullscreen!Tapped, Fullscreen!Own, Fullscreen!Drop
<1>2. CASE Fullscreen!HideControls \/ Fullscreen!AppRestarts \/ Fullscreen!Surprise
  <2>1. CASE Fullscreen!HideControls \/ Fullscreen!Surprise
    BY <1>1, <2>1 DEF Fullscreen!HideControls, Fullscreen!Surprise, Fullscreen!Running,
       Fullscreen!control
  <2>2. CASE Fullscreen!AppRestarts
    <3>1. device.app # 0
      BY <2>2 DEF Fullscreen!AppRestarts
    <3>2. QED
      BY <1>1, <2>2, <3>1 DEF Fullscreen!AppRestarts, Fullscreen!Running, Fullscreen!control
  <2>3. QED
    BY <1>2, <2>1, <2>2
<1>3. CASE Fullscreen!AcknowledgeTip
  BY <1>1, <1>3 DEF Fullscreen!AcknowledgeTip, Fullscreen!Unchanged, Fullscreen!control,
     Fullscreen!Raise
<1>4. CASE (Fullscreen!EnterFinally(Fullscreen!CLEANUP) \/ Fullscreen!Report) /\ Fullscreen!Unchanged
  BY <1>1, <1>4 DEF Fullscreen!EnterFinally, Fullscreen!Report, Fullscreen!Unchanged
<1> USE DEF Fullscreen!Now, Fullscreen!Require, Fullscreen!ReturnOrFail, Fullscreen!Return,
            Fullscreen!Call, Fullscreen!Raise, Fullscreen!Unchanged, FullscreenDoes, Fullscreen!Check
<1> USE <1>1
<1>5. CASE \/ Fullscreen!Check("owned-avd", TRUE) \/ Fullscreen!Evidence \/ Fullscreen!CheckPid
           \/ Fullscreen!Disconnected \/ Fullscreen!AllRecorded
  BY <1>5 DEF Fullscreen!Evidence, Fullscreen!CheckPid, Fullscreen!Disconnected, Fullscreen!AllRecorded,
     Fullscreen!Phases, Fullscreen!FullPhases, Fullscreen!PlayingPhases
<1>6. CASE Fullscreen!WaitFails \/ \E op \in {"owned-avd", "evidence", "idle"} : Fullscreen!Fails(op)
  BY <1>6 DEF Fullscreen!WaitFails, Fullscreen!Fails
<1>7. CASE Fullscreen!Prepare
  BY <1>7 DEF Fullscreen!Prepare, Fullscreen!Phases, Fullscreen!FullPhases, Fullscreen!PlayingPhases
<1>8. CASE Fullscreen!StartLogcat
  BY <1>8 DEF Fullscreen!StartLogcat, Fullscreen!Own, Fullscreen!Phases, Fullscreen!FullPhases,
     Fullscreen!PlayingPhases
<1>9. CASE Fullscreen!Sample
  BY <1>9 DEF Fullscreen!Sample, Fullscreen!Waiting, Fullscreen!Phases, Fullscreen!FullPhases,
     Fullscreen!PlayingPhases
<1>10. CASE Fullscreen!LoadFixture
  BY <1>10 DEF Fullscreen!LoadFixture, Fullscreen!Phases, Fullscreen!FullPhases, Fullscreen!PlayingPhases
<1>11. CASE Fullscreen!AppPid
  BY <1>11 DEF Fullscreen!AppPid, Fullscreen!Phases, Fullscreen!FullPhases, Fullscreen!PlayingPhases
<1>12. CASE Fullscreen!Record("record-play") \/ Fullscreen!Record("record-back")
  BY <1>12 DEF Fullscreen!Record, Fullscreen!Tapped, Fullscreen!Own, Fullscreen!Phases,
     Fullscreen!FullPhases, Fullscreen!PlayingPhases
<1>13. CASE Fullscreen!StopRecording
  BY <1>13 DEF Fullscreen!StopRecording, Fullscreen!Drop, Fullscreen!Phases,
     Fullscreen!FullPhases, Fullscreen!PlayingPhases
<1>14. CASE Fullscreen!Pause
  BY <1>1, <1>14 DEF Fullscreen!Pause, FullscreenInserted, Fullscreen!Phases,
     Fullscreen!FullPhases, Fullscreen!PlayingPhases
<1>15. CASE Fullscreen!Revealed
  BY <1>1, <1>15 DEF Fullscreen!Revealed, FullscreenInserted, Fullscreen!Phases,
     Fullscreen!FullPhases, Fullscreen!PlayingPhases
<1>16. CASE Fullscreen!Tap("tap-pause") \/ Fullscreen!CenterTap
  BY <1>16 DEF Fullscreen!Tap, Fullscreen!CenterTap, Fullscreen!Tapped, Fullscreen!Phases,
     Fullscreen!FullPhases, Fullscreen!PlayingPhases
<1>17. CASE Fullscreen!Enter \/ Fullscreen!Back
  BY <1>17 DEF Fullscreen!Enter, Fullscreen!Back, Fullscreen!Phases, Fullscreen!FullPhases,
     Fullscreen!PlayingPhases
<1>18. CASE Fullscreen!StopObserver
  BY <1>18 DEF Fullscreen!StopObserver, Fullscreen!Phases, Fullscreen!FullPhases,
     Fullscreen!PlayingPhases
<1>19. CASE Fullscreen!Idle
  BY <1>19 DEF Fullscreen!Idle, Fullscreen!Phases, Fullscreen!FullPhases, Fullscreen!PlayingPhases
<1>20. QED
  BY <1>0, <1>1, <1>2, <1>3, <1>4, <1>5, <1>6, <1>7, <1>8, <1>9, <1>10, <1>11, <1>12, <1>13,
     <1>14, <1>15, <1>16, <1>17, <1>18, <1>19 DEF Fullscreen!Next, Fullscreen!Runner

(* What may run when d operations of the program have been done.           *)
LEMMA FullscreenHead ==
  ASSUME NEW d \in 0..46, NEW ops \in FullscreenInserted, todo # <<>>,
         todo = ops \o After(Fullscreen!Program, d)
  PROVE  \/ /\ ops = <<>> /\ d + 1 \in 1..46 /\ Head(todo) = Fullscreen!Program[d + 1]
            /\ Tail(todo) = After(Fullscreen!Program, d + 1)
            /\ After(Fullscreen!Program, d + 1) \in Seq(FullscreenTry)
         \/ /\ Head(todo) \in {"center-tap", "revealed", "tap-pause"}
            /\ \E more \in FullscreenInserted :
                 /\ Tail(todo) = more \o After(Fullscreen!Program, d)
                 /\ <<>> \o Tail(todo) = Tail(todo)
                 /\ Head(todo) = "revealed" => Tail(todo) = After(Fullscreen!Program, d)
<1> DEFINE P == Fullscreen!Program
<1>1. P \in Seq(FullscreenTry) /\ Len(P) = 46 /\ d \in 0..Len(P)
  BY FullscreenProgram
<1> HIDE DEF P
<1>2. CASE ops = <<>>
  <2>1. todo = After(P, d)
    BY <1>1, <1>2, AfterIsSeq DEF P
  <2>2. /\ d + 1 \in 1..Len(P) /\ Head(todo) = P[d + 1] /\ Tail(todo) = After(P, d + 1)
        /\ After(P, d + 1) \in Seq(FullscreenTry)
    BY <1>1, <2>1, ProgramHead
  <2>3. QED
    BY <1>1, <1>2, <2>2 DEF P
<1>3. CASE ops = <<"center-tap", "revealed">>
  <2>1. todo = <<"center-tap", "revealed">> \o After(P, d)
    BY <1>3 DEF P
  <2>2. Head(todo) = "center-tap" /\ Tail(todo) = <<"revealed">> \o After(P, d)
        /\ <<>> \o Tail(todo) = Tail(todo)
    BY <1>1, <2>1, InsertedHeads
  <2>3. QED
    BY <2>2 DEF FullscreenInserted, P
<1>4. CASE ops = <<"revealed">> \/ ops = <<"tap-pause">>
  <2>1. PICK x \in {"revealed", "tap-pause"} : todo = <<x>> \o After(P, d)
    BY <1>4 DEF P
  <2>2. Head(todo) = x /\ Tail(todo) = <<>> \o After(P, d) /\ <<>> \o Tail(todo) = Tail(todo)
    BY <1>1, <2>1, InsertedHead
  <2>3. <<>> \o After(P, d) = After(P, d)
    BY <1>1, AfterIsSeq
  <2>4. QED
    BY <2>2, <2>3 DEF FullscreenInserted, P
<1>5. QED
  BY <1>2, <1>3, <1>4 DEF FullscreenInserted

LEMMA FullscreenRaises ==
  ASSUME mode = "run", errors = FALSE, Fullscreen!Next, errors' # FALSE
  PROVE  mode' # "run" /\ errors' = TRUE
BY DEF Fullscreen!Next, Fullscreen!Runner, Fullscreen!Check, Fullscreen!Prepare,
     Fullscreen!StartLogcat, Fullscreen!WaitFails, Fullscreen!Sample, Fullscreen!Evidence,
     Fullscreen!Disconnected, Fullscreen!LoadFixture, Fullscreen!AppPid, Fullscreen!CheckPid, Fullscreen!Record,
     Fullscreen!StopRecording, Fullscreen!Pause, Fullscreen!Revealed, Fullscreen!Tap,
     Fullscreen!CenterTap, Fullscreen!Enter, Fullscreen!Back, Fullscreen!StopObserver,
     Fullscreen!Idle, Fullscreen!AllRecorded, Fullscreen!StopLogcat, Fullscreen!RemoveObserver,
     Fullscreen!ForceStop, Fullscreen!RemoveFiles, Fullscreen!OwnedAgain, Fullscreen!Fails, Fullscreen!Unchanged,
     Fullscreen!HideControls, Fullscreen!AppRestarts, Fullscreen!Surprise,
     Fullscreen!AcknowledgeTip, Fullscreen!Require, Fullscreen!Return, Fullscreen!Raise,
     Fullscreen!Call, Fullscreen!ReturnOrFail, Fullscreen!EnterFinally, Fullscreen!Report,
     Fullscreen!Running, Fullscreen!control, Fullscreen!Now, Fullscreen!Waiting, Fullscreen!RaiseOut, Fullscreen!ReturnUnheeded

(* A step of the try block that does not raise.                            *)
LEMMA FullscreenPassingRuns ==
  ASSUME FullscreenPassing, mode = "run", Fullscreen!Next, errors' = FALSE
  PROVE  FullscreenPassing'
<1>1. PICK d \in 0..46, ops \in FullscreenInserted :
        todo = ops \o After(Fullscreen!Program, d) /\ FullscreenSoFar(d)
  BY DEF FullscreenPassing
<1>2. FullscreenFields /\ errors = FALSE
  BY DEF FullscreenPassing
<1>3. todo # <<>> => Head(todo) \in FullscreenTry
  <2> SUFFICES ASSUME todo # <<>> PROVE Head(todo) \in FullscreenTry
    OBVIOUS
  <2>1. CASE Head(todo) \in {"center-tap", "revealed", "tap-pause"}
    BY <2>1 DEF FullscreenTry
  <2>2. CASE d + 1 \in 1..46 /\ Head(todo) = Fullscreen!Program[d + 1]
    <3>1. Fullscreen!Program[d + 1] \in FullscreenTry
      BY <2>2, FullscreenProgram, ElementOfSeq
    <3>2. QED
      BY <2>2, <3>1
  <2>3. QED
    BY <1>1, <2>1, <2>2, FullscreenHead
<1>4. CASE mode' = "cleanup" /\ todo = <<>> /\ UNCHANGED <<device, mem, seen>>
  <2>1. d = 46
    <3> DEFINE P == Fullscreen!Program
    <3>1. P \in Seq(FullscreenTry) /\ Len(P) = 46 /\ d \in 0..Len(P)
      BY FullscreenProgram
    <3>2. todo = ops \o After(P, d)
      BY <1>1
    <3> HIDE DEF P
    <3>3. ops = <<>>
      BY <1>4, <3>1, <3>2, InsertedHead, InsertedHeads DEF FullscreenInserted
    <3>4. After(P, d) = <<>> /\ Len(After(P, d)) = 46 - d
      BY <1>4, <3>1, <3>2, <3>3, AfterIsSeq
    <3>5. QED
      BY <3>1, <3>4
  <2>2. Fullscreen!Earned
    BY <1>1, <2>1 DEF FullscreenSoFar, Fullscreen!Earned
  <2>3. QED
    BY <1>2, <1>4, <2>2 DEF FullscreenPassing, FullscreenFields, Fullscreen!Earned
<1>5. ASSUME mode' = "run" /\ FullscreenFields',
             NEW e \in 0..46, NEW more \in FullscreenInserted,
             todo' = more \o After(Fullscreen!Program, e), FullscreenSoFar(e)'
      PROVE  FullscreenPassing'
  BY <1>5 DEF FullscreenPassing, After
<1>6. CASE /\ mode' = "run" /\ todo' = todo
           /\ device'.owned = device.owned /\ mem'.app_pid = mem.app_pid
           /\ mem'.authorized = mem.authorized
           /\ \/ device'.app = device.app /\ device'.screen = device.screen
              \/ device'.app = device.app + 1 /\ device'.screen = "home" /\ device.app # 0
           /\ seen'.pids = seen.pids /\ seen'.idle = seen.idle
           /\ seen'.recordedTurn = seen.recordedTurn
  <2>1. FullscreenSoFar(d)'
    BY <1>1, <1>6 DEF FullscreenSoFar
  <2>2. FullscreenFields'
    BY <1>2, <1>3, FullscreenEffects
  <2>3. QED
    BY <1>1, <1>5, <1>6, <2>1, <2>2
<1>7. CASE /\ mode' = "run" /\ todo # <<>> /\ FullscreenDoes(Head(todo))
           /\ \/ todo' = <<>> \o Tail(todo)
              \/ /\ Head(todo) = "pause"
                 /\ \E add \in FullscreenInserted : todo' = add \o Tail(todo)
              \/ Head(todo) = "revealed" /\ todo' = <<"tap-pause">> \o Tail(todo)
  <2>0. FullscreenFields'
    BY <1>2, <1>3, <1>7, FullscreenEffects
  <2>1. CASE /\ d + 1 \in 1..46 /\ Head(todo) = Fullscreen!Program[d + 1]
             /\ Tail(todo) = After(Fullscreen!Program, d + 1)
    <3>1. \E more \in FullscreenInserted : todo' = more \o After(Fullscreen!Program, d + 1)
      BY <1>7, <2>1, FullscreenPlaces DEF FullscreenInserted
    <3>2. FullscreenSoFar(d + 1)'
      <4> DEFINE op == Head(todo)
      <4>1. d + 1 \in 1..46 /\ d \in Nat /\ op = Fullscreen!Program[d + 1]
        BY <2>1
      <4>2. FullscreenDoes(op) /\ FullscreenSoFar(d)
        BY <1>1, <1>7
      <4>3. /\ op = "prepare" => d = 1
            /\ op = "app-pid" => d = 6
            /\ op = "load-fixture" => d = 3
            /\ op = "idle" => d \in {22, 25}
            /\ op \in {"enter", "back"} => d \in {16, 36}
            /\ op \in {"record-play", "record-back"} => d \in {7, 20, 40}
            /\ op = "15-normal-return-home" => d = 41
            /\ op \in Fullscreen!Phases => d \notin 0..3
            /\ d = 1 => op = "prepare"
            /\ d = 4 => op = "02-loaded-paused"
            /\ d = 6 => op = "app-pid"
            /\ d = 8 => op = "03-normal-playing"
            /\ d = 22 => op = "idle"
            /\ d \in {23, 26, 43} => op = "pid"
            /\ d \in {10, 29, 44} => op = "stop-recording"
        BY <4>1, FullscreenPlaces
      <4> HIDE DEF op
      <4> USE DEF FullscreenSoFar, FullscreenDoes
      <4>4. /\ device'.app \in Nat
            /\ device'.screen = "player" => device'.app <= 1
            /\ d + 1 < 4 => device'.app = 0
            /\ d + 1 >= 2 => mem'.authorized
        BY <4>1, <4>2, <4>3
      <4>5. op \in Fullscreen!Phases /\ op # "15-normal-return-home" => device.app = 1
        BY <4>2 DEF Fullscreen!Shows
      <4>6. /\ d + 1 >= 7 => mem'.app_pid \in 1..device'.app
            /\ d + 1 >= 9 => mem'.app_pid = 1
        BY <4>1, <4>2, <4>3, <4>5 DEF Fullscreen!Phases, Fullscreen!PlayingPhases
      <4>7. /\ seen'.pids \subseteq 1..device'.app
            /\ d + 1 < 42 \/ d + 1 >= 44 => seen'.pids \subseteq {1}
            /\ d + 1 >= 5 => seen'.pids # {}
        BY <4>1, <4>2, <4>3, <4>5 DEF Fullscreen!Phases, Fullscreen!Shows
      <4>8. /\ "recorder" \in device'.owned => d + 1 \in 8..10 \cup 21..29 \cup 41..44
            /\ ~seen'.recordedTurn
        BY <4>1, <4>2, <4>3
      <4>9. /\ seen'.idle \subseteq 1..device'.app
            /\ d + 1 < 23 => seen'.idle = {}
            /\ d + 1 >= 23 => seen'.idle # {}
            /\ d + 1 \notin {23, 26} => seen'.idle \subseteq {1}
        BY <4>1, <4>2, <4>3
      <4>10. QED
        BY <4>4, <4>6, <4>7, <4>8, <4>9
    <3>3. d + 1 \in 0..46
      BY <2>1
    <3>4. QED
      BY <1>5, <1>7, <2>0, <3>1, <3>2, <3>3
  <2>2. CASE /\ Head(todo) \in {"center-tap", "revealed", "tap-pause"}
             /\ \E more \in FullscreenInserted :
                  /\ Tail(todo) = more \o After(Fullscreen!Program, d)
                  /\ <<>> \o Tail(todo) = Tail(todo)
                  /\ Head(todo) = "revealed" => Tail(todo) = After(Fullscreen!Program, d)
    <3>1. \E more \in FullscreenInserted : todo' = more \o After(Fullscreen!Program, d)
      BY <1>7, <2>2 DEF FullscreenInserted
    <3>2. FullscreenSoFar(d)'
      <4> DEFINE op == Head(todo)
      <4>1. /\ FullscreenDoes(op) /\ FullscreenSoFar(d)
            /\ op \in {"center-tap", "revealed", "tap-pause"}
        BY <1>1, <1>7, <2>2
      <4>2. op \notin Fullscreen!Phases
        BY <4>1 DEF Fullscreen!Phases, Fullscreen!FullPhases, Fullscreen!PlayingPhases
      <4> HIDE DEF op
      <4>3. /\ device'.app = device.app /\ mem'.app_pid = mem.app_pid
            /\ device'.screen = "player" => device.screen = "player"
            /\ "recorder" \in device'.owned => "recorder" \in device.owned
            /\ seen'.pids = seen.pids /\ seen'.idle = seen.idle
            /\ seen'.recordedTurn => seen.recordedTurn
            /\ mem'.authorized = mem.authorized /\ op # "load-fixture"
        BY <4>1, <4>2 DEF FullscreenDoes
      <4>4. QED
        BY <4>1, <4>3 DEF FullscreenSoFar
    <3>3. QED
      BY <1>5, <1>7, <2>0, <3>1, <3>2
  <2>3. QED
    BY <1>1, <1>7, <2>1, <2>2, FullscreenHead
<1>8. QED
  BY <1>2, <1>3, <1>4, <1>6, <1>7, FullscreenEffects

(* The clean-up touches nothing that the verdict rests on.                 *)
LEMMA FullscreenPassingCleans ==
  ASSUME FullscreenPassing, FullscreenUndone, mode # "run", Fullscreen!Next
  PROVE  FullscreenPassing'
<1>1. todo # <<>> => Head(todo) \in {"stop-logcat", "owned-again", "stop-recording",
                                     "remove-observer", "force-stop", "remove-files"}
  <2> DEFINE C == Fullscreen!CLEANUP
  <2>1. C \in Seq({"stop-logcat", "owned-again", "stop-recording",
                   "remove-observer", "force-stop", "remove-files"}) /\ Undoing(C)
    BY FullscreenCleanup DEF FullscreenUndone
  <2> HIDE DEF C
  <2>2. QED
    BY <2>1, UndoingParts, ElementOfSeq
<1>2. /\ mode' # "run" /\ seen' = seen /\ (errors' = errors \/ errors' = TRUE)
      /\ "app_pid" \in DOMAIN mem => mem'.app_pid = mem.app_pid /\ "app_pid" \in DOMAIN mem'
  BY <1>1 DEF Fullscreen!Next, Fullscreen!Runner, Fullscreen!Check, Fullscreen!Prepare,
     Fullscreen!StartLogcat, Fullscreen!WaitFails, Fullscreen!Sample, Fullscreen!Evidence,
     Fullscreen!Disconnected, Fullscreen!LoadFixture, Fullscreen!AppPid, Fullscreen!CheckPid, Fullscreen!Record,
     Fullscreen!StopRecording, Fullscreen!Pause, Fullscreen!Revealed, Fullscreen!Tap,
     Fullscreen!CenterTap, Fullscreen!Enter, Fullscreen!Back, Fullscreen!StopObserver,
     Fullscreen!Idle, Fullscreen!AllRecorded, Fullscreen!StopLogcat, Fullscreen!RemoveObserver,
     Fullscreen!ForceStop, Fullscreen!RemoveFiles, Fullscreen!OwnedAgain, Fullscreen!Fails, Fullscreen!Unchanged,
     Fullscreen!HideControls, Fullscreen!AppRestarts, Fullscreen!Surprise,
     Fullscreen!AcknowledgeTip, Fullscreen!Require, Fullscreen!Return, Fullscreen!Raise,
     Fullscreen!Call, Fullscreen!ReturnOrFail, Fullscreen!EnterFinally, Fullscreen!Report,
     Fullscreen!Running, Fullscreen!control, Fullscreen!Now, Fullscreen!Waiting,
     Fullscreen!RaiseOut, Fullscreen!ReturnUnheeded, Fullscreen!Phases, Fullscreen!FullPhases, Fullscreen!PlayingPhases
<1>3. QED
  BY <1>2 DEF FullscreenPassing, Fullscreen!Earned

LEMMA FullscreenPassingInit ==
  ASSUME Fullscreen!Init
  PROVE  FullscreenPassing
<1> DEFINE P == Fullscreen!Program
<1>1. todo = P /\ mode = "run" /\ errors = FALSE
  BY DEF Fullscreen!Init, Fullscreen!Start
<1>2. P \in Seq(FullscreenTry)
  BY FullscreenProgram
<1>3. <<>> \o After(P, 0) = P
  BY <1>2, AfterNone
<1>4. FullscreenFields /\ FullscreenSoFar(0)
  BY DEF Fullscreen!Init, FullscreenFields, FullscreenSoFar
<1>5. QED
  BY <1>1, <1>3, <1>4 DEF FullscreenPassing, FullscreenInserted

(* The app is started when the preparation has succeeded.                  *)
LEMMA FullscreenPassingAdmits ==
  ASSUME FullscreenPassing, mode = "run"
  PROVE  FullscreenAdmits
<1>1. PICK d \in 0..46, ops \in FullscreenInserted :
        todo = ops \o After(Fullscreen!Program, d) /\ FullscreenSoFar(d)
  BY DEF FullscreenPassing
<1>2. todo # <<>> => \/ d + 1 \in 1..46 /\ Head(todo) = Fullscreen!Program[d + 1]
                     \/ Head(todo) \in {"center-tap", "revealed", "tap-pause"}
  BY <1>1, FullscreenHead
<1>3. /\ todo # <<>> /\ Head(todo) = "prepare" => d = 1
      /\ todo # <<>> /\ Head(todo) = "load-fixture" => d = 3
  <2>1. CASE d + 1 \in 1..46 /\ Head(todo) = Fullscreen!Program[d + 1]
    <3>1. /\ Fullscreen!Program[d + 1] = "prepare" => d + 1 = 2
          /\ Fullscreen!Program[d + 1] = "load-fixture" => d + 1 = 4
      BY <2>1, FullscreenPlaces
    <3>2. QED
      BY <1>1, <2>1, <3>1
  <2>2. CASE Head(todo) \in {"center-tap", "revealed", "tap-pause"}
    BY <2>2
  <2>3. QED
    BY <1>2, <2>1, <2>2
<1>4. /\ d < 4 => device.app = 0
      /\ d >= 2 => mem.authorized
      /\ d \in Nat
  BY <1>1 DEF FullscreenSoFar
<1>5. QED
  BY <1>3, <1>4 DEF FullscreenAdmits

-----------------------------------------------------------------------------
(* The verdict of the interruption runner.                                 *)

LEMMA InterruptionProgram ==
  InterruptionAll \in Seq(InterruptionTry) /\ Len(InterruptionAll) = 54
<1>1. Interruption!Program \in Seq(InterruptionTry) /\ Len(Interruption!Program) = 34
  BY DEF Interruption!Program, InterruptionTry, Interruption!SamplePhases,
     Interruption!PlayingPhases, Interruption!AdvancedPhases, Interruption!PausedPhases,
     Interruption!StablePhases
<1>2. Interruption!RunTransient \in Seq(InterruptionTry) /\ Len(Interruption!RunTransient) = 20
  BY DEF Interruption!RunTransient, InterruptionTry, Interruption!SamplePhases,
     Interruption!PlayingPhases, Interruption!AdvancedPhases, Interruption!PausedPhases,
     Interruption!StablePhases
<1> DEFINE p == Interruption!Program
           t == Interruption!RunTransient
<1>3. InterruptionAll = p \o t
  BY DEF InterruptionAll
<1>4. p \in Seq(InterruptionTry) /\ t \in Seq(InterruptionTry) /\ Len(p) = 34 /\ Len(t) = 20
  BY <1>1, <1>2
<1> HIDE DEF p, t
<1>5. p \o t \in Seq(InterruptionTry) /\ Len(p \o t) = Len(p) + Len(t)
  BY <1>4, ConcatProperties
<1>6. QED
  BY <1>3, <1>4, <1>5

(* Where the operations stand that the verdict rests on.                   *)
LEMMA InterruptionSteps ==
  ASSUME NEW i \in 1..54
  PROVE  /\ InterruptionAll[i] = "prepare" <=> i = 2
         /\ InterruptionAll[i] = "load-fixture" <=> i = 5
         /\ InterruptionAll[i] = "app-pid" <=> i = 10
         /\ InterruptionAll[i] \in {"08-focus-paused", "16-transient-paused"} <=> i \in {18, 41}
         /\ InterruptionAll[i] \in {"12-no-autoplay", "17-transient-held-stable"} <=> i \in {27, 45}
         /\ i = 16 => InterruptionAll[i] \in Interruption!SamplePhases
         /\ i = 53 => InterruptionAll[i] = "foreground"
         /\ i = 54 => InterruptionAll[i] = "finish-recording"
         /\ i \in 19..27 \cup 42..45 /\ InterruptionAll[i] \in Interruption!SamplePhases
              => InterruptionAll[i] \in Interruption!StablePhases
<1> DEFINE p == Interruption!Program
           t == Interruption!RunTransient
<1>1. p \in Seq(InterruptionTry) /\ Len(p) = 34
  BY DEF Interruption!Program, InterruptionTry, Interruption!SamplePhases,
     Interruption!PlayingPhases, Interruption!AdvancedPhases, Interruption!PausedPhases,
     Interruption!StablePhases
<1>2. t \in Seq(InterruptionTry) /\ Len(t) = 20
  BY DEF Interruption!RunTransient, InterruptionTry, Interruption!SamplePhases,
     Interruption!PlayingPhases, Interruption!AdvancedPhases, Interruption!PausedPhases,
     Interruption!StablePhases
<1>3. \A k \in 1..34 :
         /\ p[k] = "prepare" <=> k = 2
         /\ p[k] = "load-fixture" <=> k = 5
         /\ p[k] = "app-pid" <=> k = 10
         /\ p[k] \in {"08-focus-paused", "16-transient-paused"} <=> k = 18
         /\ p[k] \in {"12-no-autoplay", "17-transient-held-stable"} <=> k = 27
         /\ k = 16 => p[k] \in Interruption!SamplePhases
         /\ k \in 19..27 /\ p[k] \in Interruption!SamplePhases => p[k] \in Interruption!StablePhases
  BY DEF Interruption!Program, Interruption!SamplePhases, Interruption!PlayingPhases,
     Interruption!AdvancedPhases, Interruption!PausedPhases, Interruption!StablePhases
<1>4. \A k \in 1..20 :
         /\ t[k] # "prepare" /\ t[k] # "load-fixture" /\ t[k] # "app-pid"
         /\ t[k] \in {"08-focus-paused", "16-transient-paused"} <=> k = 7
         /\ t[k] \in {"12-no-autoplay", "17-transient-held-stable"} <=> k = 11
         /\ k = 19 => t[k] = "foreground"
         /\ k = 20 => t[k] = "finish-recording"
         /\ k \in 8..11 /\ t[k] \in Interruption!SamplePhases => t[k] \in Interruption!StablePhases
  BY DEF Interruption!RunTransient, Interruption!SamplePhases, Interruption!PlayingPhases,
     Interruption!AdvancedPhases, Interruption!PausedPhases, Interruption!StablePhases
<1> HIDE DEF p, t
<1>5. InterruptionAll[i] = IF i <= 34 THEN p[i] ELSE t[i - 34]
  <2>1. InterruptionAll = p \o t
    BY DEF InterruptionAll, p, t
  <2>2. \A k \in 1..(Len(p) + Len(t)) :
          (p \o t)[k] = IF k <= Len(p) THEN p[k] ELSE t[k - Len(p)]
    BY <1>1, <1>2, ConcatProperties
  <2>3. Len(p) + Len(t) = 54
    BY <1>1, <1>2
  <2>4. (p \o t)[i] = IF i <= Len(p) THEN p[i] ELSE t[i - Len(p)]
    BY <2>2, <2>3
  <2>5. QED
    BY <1>1, <2>1, <2>4
<1>6. CASE i <= 34
  BY <1>3, <1>5, <1>6
<1>7. CASE i > 34
  <2> DEFINE k == i - 34
  <2>1. k \in 1..20 /\ i = k + 34
    BY <1>7
  <2>2. InterruptionAll[i] = t[k]
    BY <1>5, <1>7
  <2> HIDE DEF k
  <2>3. QED
    BY <1>4, <2>1, <2>2
<1>8. QED
  BY <1>6, <1>7

InterruptionFields ==
  /\ {"app", "playing", "advance", "late", "focus", "lost", "owned"} \subseteq DOMAIN device
  /\ {"authorized", "owns_helper", "recording", "expected_pid", "gain", "focus_requested",
      "focus_released", "late"} \subseteq DOMAIN mem
  /\ {"pids", "watch", "moved"} \subseteq DOMAIN seen

(* What the first d operations have established, if none raised.  Time     *)
(* that passed under the eyes of nobody shows in the next sample of the    *)
(* pause, unless the app was restarted; and a restart is found out.        *)
InterruptionSoFar(d) ==
  /\ device.app \in {0, 1, 2}
  /\ d < 5 <=> device.app = 0
  /\ d >= 2 => mem.authorized
  /\ d < 10 => mem.expected_pid = 0 /\ seen.pids = {}
  /\ d >= 10 => mem.expected_pid \in {1, 2} /\ mem.expected_pid <= device.app
  /\ seen.watch => d \in 18..26 \cup 41..44
  /\ seen.moved => \/ seen.watch /\ device.advance
                   \/ d \in 10..52 /\ device.app # mem.expected_pid
  /\ \/ seen.pids \subseteq {mem.expected_pid}
     \/ d < 53 /\ device.app # mem.expected_pid
  /\ d >= 16 => seen.pids # {}

InterruptionPassing ==
  /\ mode = "run" =>
       /\ errors = FALSE /\ InterruptionFields
       /\ \E d \in 0..54 : todo = After(InterruptionAll, d) /\ InterruptionSoFar(d)
  /\ mode # "run" /\ ~errors => "expected_pid" \in DOMAIN mem /\ Interruption!Earned

(* What the operation that runs now does, if it does not raise.            *)
InterruptionDoes(op) ==
  /\ device'.app = IF op = "load-fixture" THEN 1 ELSE device.app
  /\ op = "prepare" => mem'.authorized
  /\ op # "prepare" => mem'.authorized = mem.authorized
  /\ mem'.expected_pid = IF op = "app-pid" THEN device.app ELSE mem.expected_pid
  /\ op = "app-pid" => device.app # 0
  /\ op = "foreground" => device.app = mem.expected_pid
  /\ op \notin Interruption!SamplePhases =>
       /\ device'.advance = device.advance
       /\ seen' = seen
  /\ op \in Interruption!SamplePhases =>
       /\ device.app # 0 /\ Interruption!Moves(op)
       /\ seen'.moved = seen.moved
       /\ seen'.pids = IF mem.expected_pid = 0 THEN seen.pids ELSE seen.pids \cup {device.app}
       /\ seen'.watch => \/ op \in {"08-focus-paused", "16-transient-paused"}
                         \/ seen.watch /\ op \notin {"12-no-autoplay", "17-transient-held-stable"}

LEMMA InterruptionEffects ==
  ASSUME InterruptionFields, mode = "run", Interruption!Next, errors' = FALSE,
         todo # <<>> => Head(todo) \in InterruptionTry
  PROVE  /\ InterruptionFields'
         /\ \/ mode' = "cleanup" /\ todo = <<>> /\ UNCHANGED <<device, mem, seen>>
            \/ /\ mode' = "run" /\ todo' = todo /\ mem' = mem
               /\ seen'.pids = seen.pids /\ seen'.watch = seen.watch
               /\ \/ /\ device'.app = device.app \/ (device.app = 1 /\ device'.app = 2)
                     /\ seen'.moved = seen.moved 
                     /\ device'.app = device.app => device'.advance = device.advance
                  \/ /\ device'.app = device.app /\ device'.advance
                     /\ seen'.moved => seen.moved \/ seen.watch
            \/ /\ mode' = "run" /\ todo # <<>> /\ InterruptionDoes(Head(todo))
               /\ todo' = <<>> \o Tail(todo)
<1>0. ~Interruption!OwnedAgain /\ ~Interruption!ReleaseAgain /\ ~Interruption!RemoveHelper
      /\ ~Interruption!RemoveObserver /\ ~Interruption!ForceStop /\ ~Interruption!RemoveFiles
  BY DEF InterruptionTry, Interruption!SamplePhases, Interruption!PlayingPhases,
     Interruption!AdvancedPhases, Interruption!PausedPhases, Interruption!StablePhases,
     Interruption!OwnedAgain, Interruption!ReleaseAgain, Interruption!RemoveHelper,
     Interruption!RemoveObserver, Interruption!ForceStop, Interruption!RemoveFiles,
     Interruption!Now
<1> USE DEF InterruptionFields
<1>1. InterruptionFields'
  BY DEF Interruption!Next, Interruption!Runner, Interruption!Check, Interruption!Fails,
     Interruption!Focus, Interruption!Prompt, Interruption!Foreground, Interruption!Prepare,
     Interruption!InstallHelper, Interruption!StartRecording, Interruption!FinishRecording,
     Interruption!LoadFixture, Interruption!TapPlay, Interruption!WaitFails, Interruption!Sample,
     Interruption!AppPid, Interruption!Acquire, Interruption!Release, Interruption!NewNonce,
     Interruption!AppFollowsFocus, Interruption!Play, Interruption!TimePasses,
     Interruption!Misbehave, Interruption!OwnedAgain, Interruption!ReleaseAgain,
     Interruption!RemoveHelper, Interruption!RemoveObserver, Interruption!ForceStop,
     Interruption!RemoveFiles, Interruption!Unchanged, Interruption!Require, Interruption!Return,
     Interruption!Raise, Interruption!RaiseOut, Interruption!Call, Interruption!ReturnOrFail,
     Interruption!EnterFinally, Interruption!Report, Interruption!Running, Interruption!control,
     Interruption!Now, Interruption!Waiting, Interruption!Acquired, Interruption!Released,
     Interruption!Own, Interruption!Drop
<1> USE <1>1
<1>2. CASE Interruption!AppFollowsFocus \/ Interruption!TimePasses
  BY <1>2 DEF Interruption!AppFollowsFocus, Interruption!TimePasses, Interruption!Running,
     Interruption!control
<1>3. CASE Interruption!Play
  BY <1>3 DEF Interruption!Play, Interruption!Running, Interruption!control
<1>4. CASE Interruption!Misbehave
  <2>1. mode' = mode /\ todo' = todo /\ mem' = mem /\ seen' = seen /\ device.app = 1
    BY <1>4 DEF Interruption!Misbehave, Interruption!control
  <2>2. CASE device' = [device EXCEPT !.playing = ~@]
    <3>1. device'.app = device.app /\ device'.advance = device.advance
      BY <2>2
    <3>2. QED
      BY <1>1, <2>1, <3>1
  <2>3. CASE device' = [device EXCEPT !.app = 2, !.playing = FALSE, !.advance = FALSE]
    <3>1. device'.app = 2
      BY <2>3
    <3>2. QED
      BY <1>1, <2>1, <3>1
  <2>4. QED
    BY <1>4, <2>2, <2>3 DEF Interruption!Misbehave
<1>5. CASE (Interruption!EnterFinally(Interruption!CLEANUP) \/ Interruption!Report) /\ Interruption!Unchanged
  BY <1>5 DEF Interruption!EnterFinally, Interruption!Report, Interruption!Unchanged
<1> USE DEF Interruption!Now, Interruption!Require, Interruption!ReturnOrFail, Interruption!Return,
            Interruption!Call, Interruption!Raise, Interruption!Unchanged, InterruptionDoes,
            Interruption!Check
<1>6. CASE Interruption!WaitFails \/ \E op \in {"owned-avd", "foreground", "held", "no-focus"} : Interruption!Fails(op)
  BY <1>6 DEF Interruption!WaitFails, Interruption!Fails
<1>7. CASE Interruption!Sample
  BY <1>7 DEF Interruption!Sample, Interruption!Waiting, Interruption!SamplePhases,
     Interruption!PlayingPhases, Interruption!AdvancedPhases, Interruption!PausedPhases,
     Interruption!StablePhases
<1> USE DEF Interruption!SamplePhases, Interruption!PlayingPhases, Interruption!AdvancedPhases,
     Interruption!PausedPhases, Interruption!StablePhases
<1>8. CASE \/ Interruption!Check("owned-avd", TRUE) \/ Interruption!Prompt \/ Interruption!Foreground
           \/ Interruption!Focus("app-focus", device.focus = "app")
           \/ Interruption!Focus("held", device.focus = "helper")
           \/ Interruption!Focus("no-focus", device.focus # "helper")
  BY <1>8 DEF Interruption!Prompt, Interruption!Foreground, Interruption!Focus
<1>9. CASE Interruption!InstallHelper
  BY <1>9 DEF Interruption!InstallHelper, Interruption!Own
<1>15. CASE Interruption!Prepare
  BY <1>15 DEF Interruption!Prepare
<1>10. CASE Interruption!StartRecording \/ Interruption!FinishRecording
  BY <1>10 DEF Interruption!StartRecording, Interruption!FinishRecording, Interruption!Own,
     Interruption!Drop
<1>11. CASE Interruption!LoadFixture \/ Interruption!TapPlay
  BY <1>11 DEF Interruption!LoadFixture, Interruption!TapPlay
<1>12. CASE Interruption!AppPid
  BY <1>12 DEF Interruption!AppPid
<1>13. CASE Interruption!Acquire \/ Interruption!Release
  BY <1>13 DEF Interruption!Acquire, Interruption!Acquired, Interruption!Release,
     Interruption!Released
<1>14. CASE Interruption!NewNonce
  BY <1>14 DEF Interruption!NewNonce
<1>20. QED
  BY <1>0, <1>2, <1>3, <1>4, <1>5, <1>6, <1>7, <1>8, <1>9, <1>10, <1>11, <1>12, <1>13, <1>14,
     <1>15 DEF Interruption!Next, Interruption!Runner

LEMMA InterruptionRaises ==
  ASSUME mode = "run", errors = FALSE, Interruption!Next, errors' # FALSE
  PROVE  mode' # "run" /\ errors' = TRUE
BY DEF Interruption!Next, Interruption!Runner, Interruption!Check, Interruption!Fails,
     Interruption!Focus, Interruption!Prompt, Interruption!Foreground, Interruption!Prepare,
     Interruption!InstallHelper, Interruption!StartRecording, Interruption!FinishRecording,
     Interruption!LoadFixture, Interruption!TapPlay, Interruption!WaitFails, Interruption!Sample,
     Interruption!AppPid, Interruption!Acquire, Interruption!Release, Interruption!NewNonce,
     Interruption!AppFollowsFocus, Interruption!Play, Interruption!TimePasses,
     Interruption!Misbehave, Interruption!OwnedAgain, Interruption!ReleaseAgain,
     Interruption!RemoveHelper, Interruption!RemoveObserver, Interruption!ForceStop,
     Interruption!RemoveFiles, Interruption!Unchanged, Interruption!Require, Interruption!Return,
     Interruption!Raise, Interruption!RaiseOut, Interruption!Call, Interruption!ReturnOrFail,
     Interruption!EnterFinally, Interruption!Report, Interruption!Running, Interruption!control,
     Interruption!Now, Interruption!Waiting, Interruption!ReturnUnheeded

(* A step of the try block that does not raise.                            *)
LEMMA InterruptionPassingRuns ==
  ASSUME InterruptionPassing, mode = "run", Interruption!Next, errors' = FALSE
  PROVE  InterruptionPassing'
<1> DEFINE P == InterruptionAll
<1>1. PICK d \in 0..54 : todo = After(P, d) /\ InterruptionSoFar(d)
  BY DEF InterruptionPassing
<1>2. InterruptionFields /\ errors = FALSE
  BY DEF InterruptionPassing
<1>3. P \in Seq(InterruptionTry) /\ Len(P) = 54 /\ d \in 0..Len(P)
  BY InterruptionProgram
<1>4. ASSUME mode' = "run" /\ InterruptionFields', NEW e \in 0..54,
             todo' = After(P, e), InterruptionSoFar(e)'
      PROVE  InterruptionPassing'
  BY <1>4 DEF InterruptionPassing, After, InterruptionAll, Interruption!Program,
         Interruption!RunTransient
<1> HIDE DEF P
<1>5. todo # <<>> =>
        /\ d + 1 \in 1..54 /\ d + 1 \in 0..54 /\ Head(todo) = P[d + 1] /\ Head(todo) \in InterruptionTry
        /\ <<>> \o Tail(todo) = After(P, d + 1)
  BY <1>1, <1>3, ProgramHead
<1>6. CASE mode' = "cleanup" /\ todo = <<>> /\ UNCHANGED <<device, mem, seen>>
  <2>1. d = 54
    BY <1>1, <1>3, <1>6, ProgramEnds
  <2>2. Interruption!Earned
    BY <1>1, <2>1 DEF InterruptionSoFar, Interruption!Earned
  <2>3. QED
    BY <1>2, <1>6, <2>2 DEF InterruptionPassing, InterruptionFields, Interruption!Earned
<1>7. CASE /\ mode' = "run" /\ todo' = todo /\ mem' = mem
           /\ seen'.pids = seen.pids /\ seen'.watch = seen.watch
           /\ \/ /\ device'.app = device.app \/ (device.app = 1 /\ device'.app = 2)
                 /\ seen'.moved = seen.moved 
                 /\ device'.app = device.app => device'.advance = device.advance
              \/ /\ device'.app = device.app /\ device'.advance
                 /\ seen'.moved => seen.moved \/ seen.watch
  <2>1. InterruptionSoFar(d)'
    BY <1>1, <1>7 DEF InterruptionSoFar
  <2>2. InterruptionFields'
    BY <1>2, <1>5, InterruptionEffects
  <2>3. QED
    BY <1>1, <1>4, <1>7, <2>1, <2>2
<1>8. CASE /\ mode' = "run" /\ todo # <<>> /\ InterruptionDoes(Head(todo))
           /\ todo' = <<>> \o Tail(todo)
  <2> DEFINE op == Head(todo)
  <2>1. d + 1 \in 1..54 /\ d \in Nat /\ op = InterruptionAll[d + 1]
    BY <1>5, <1>8 DEF P
  <2>2. InterruptionDoes(op) /\ InterruptionSoFar(d)
    BY <1>1, <1>8
  <2>3. /\ op = "prepare" <=> d = 1
        /\ op = "load-fixture" <=> d = 4
        /\ op = "app-pid" <=> d = 9
        /\ op \in {"08-focus-paused", "16-transient-paused"} <=> d \in {17, 40}
        /\ op \in {"12-no-autoplay", "17-transient-held-stable"} <=> d \in {26, 44}
        /\ d = 15 => op \in Interruption!SamplePhases
        /\ d = 52 => op = "foreground"
        /\ d = 53 => op = "finish-recording"
        /\ d \in 18..26 \cup 41..44 /\ op \in Interruption!SamplePhases
             => op \in Interruption!StablePhases
    BY <2>1, InterruptionSteps
  <2>4. op \in Interruption!StablePhases => ~device.advance \/ op \notin Interruption!SamplePhases
    BY <2>2 DEF InterruptionDoes, Interruption!Moves
  <2> HIDE DEF op
  <2> USE DEF InterruptionSoFar, InterruptionDoes
  <2>5. /\ device'.app \in {0, 1, 2}
        /\ d + 1 < 5 <=> device'.app = 0
        /\ d + 1 >= 2 => mem'.authorized
        /\ d + 1 < 10 => mem'.expected_pid = 0 /\ seen'.pids = {}
        /\ d + 1 >= 10 => mem'.expected_pid \in {1, 2} /\ mem'.expected_pid <= device'.app
    BY <2>1, <2>2, <2>3
  <2> DEFINE S == Interruption!SamplePhases
  <2>12. {"08-focus-paused", "16-transient-paused", "12-no-autoplay", "17-transient-held-stable"} \subseteq S
         /\ "foreground" \notin S /\ "finish-recording" \notin S /\ "load-fixture" \notin S /\ "app-pid" \notin S
    BY DEF Interruption!SamplePhases, Interruption!PlayingPhases, Interruption!AdvancedPhases,
     Interruption!PausedPhases, Interruption!StablePhases
  <2> HIDE DEF S
  <2>6. ASSUME op \notin S PROVE InterruptionSoFar(d + 1)'
    <3>1. seen' = seen /\ device'.advance = device.advance
      BY <2>2, <2>6 DEF S
    <3>2. op \notin {"08-focus-paused", "16-transient-paused", "12-no-autoplay", "17-transient-held-stable"}
      BY <2>6, <2>12
    <3>3. seen'.watch => d + 1 \in 18..26 \cup 41..44
      BY <2>1, <2>2, <2>3, <3>1, <3>2
    <3>4. seen'.moved => \/ seen'.watch /\ device'.advance
                         \/ d + 1 \in 10..52 /\ device'.app # mem'.expected_pid
      BY <2>1, <2>2, <2>3, <3>1
    <3>5. /\ \/ seen'.pids \subseteq {mem'.expected_pid}
             \/ d + 1 < 53 /\ device'.app # mem'.expected_pid
      BY <2>1, <2>2, <2>3, <3>1
    <3>6. d + 1 >= 16 => seen'.pids # {}
      BY <2>1, <2>2, <2>3, <2>6, <3>1 DEF S
    <3>7. QED
      BY <2>5, <3>3, <3>4, <3>5, <3>6
  <2>7. ASSUME op \in S PROVE InterruptionSoFar(d + 1)'
    <3>1. /\ device.app # 0 /\ device'.app = device.app /\ mem'.expected_pid = mem.expected_pid
          /\ seen'.moved = seen.moved
          /\ seen'.pids = IF mem.expected_pid = 0 THEN seen.pids ELSE seen.pids \cup {device.app}
          /\ seen'.watch => \/ op \in {"08-focus-paused", "16-transient-paused"}
                            \/ seen.watch /\ op \notin {"12-no-autoplay", "17-transient-held-stable"}
      BY <2>2, <2>7, <2>12 DEF S
    <3>2. seen'.watch => d + 1 \in 18..26 \cup 41..44
      BY <2>1, <2>2, <2>3, <3>1
    <3>3. seen'.moved => \/ seen'.watch /\ device'.advance
                         \/ d + 1 \in 10..52 /\ device'.app # mem'.expected_pid
      <4>1. ~(seen.watch /\ device.advance)
        <5>1. seen.watch => d \in 18..26 \cup 41..44
          BY <2>2
        <5>2. seen.watch => op \in Interruption!StablePhases
          BY <2>3, <2>7, <5>1 DEF S
        <5>3. QED
          BY <2>4, <2>7, <5>2 DEF S
      <4>2. d # 52
        BY <2>3, <2>7, <2>12
      <4>3. seen.moved => d \in 10..52 /\ device.app # mem.expected_pid
        BY <2>2, <4>1
      <4>4. QED
        BY <2>1, <3>1, <4>2, <4>3
    <3>4. \/ seen'.pids \subseteq {mem'.expected_pid}
          \/ d + 1 < 53 /\ device'.app # mem'.expected_pid
      <4>1. d # 52 /\ d # 53
        BY <2>3, <2>7, <2>12
      <4>2. d + 1 < 53
        BY <2>1, <4>1
      <4>3. QED
        BY <2>2, <3>1, <4>2
    <3>5. d + 1 >= 16 => seen'.pids # {}
      <4>1. d >= 10 => mem.expected_pid # 0
        BY <2>1, <2>2
      <4>2. d + 1 >= 16 => d >= 10
        BY <2>1
      <4>3. QED
        BY <3>1, <4>1, <4>2
    <3>6. QED
      BY <2>5, <3>2, <3>3, <3>4, <3>5
  <2>8. InterruptionSoFar(d + 1)'
    BY <2>6, <2>7
  <2>10. InterruptionFields'
    BY <1>2, <1>5, InterruptionEffects
  <2>11. QED
    BY <1>4, <1>5, <1>8, <2>8, <2>10
<1>9. QED
  BY <1>2, <1>5, <1>6, <1>7, <1>8, InterruptionEffects

(* The clean-up touches nothing that the verdict rests on.                 *)
LEMMA InterruptionPassingCleans ==
  ASSUME InterruptionPassing, InterruptionUndone, mode # "run", Interruption!Next
  PROVE  InterruptionPassing'
<1>1. todo # <<>> => Head(todo) \in {"owned-again", "release-again", "remove-helper",
                                     "finish-recording", "remove-observer", "force-stop", "remove-files"}
  BY InterruptionPlaces DEF InterruptionUndone
<1>2. /\ mode' # "run" /\ seen' = seen /\ (errors' = errors \/ errors' = TRUE)
      /\ "expected_pid" \in DOMAIN mem =>
            mem'.expected_pid = mem.expected_pid /\ "expected_pid" \in DOMAIN mem'
  BY <1>1 DEF Interruption!Next, Interruption!Runner, Interruption!Check, Interruption!Fails,
     Interruption!Focus, Interruption!Prompt, Interruption!Foreground, Interruption!Prepare,
     Interruption!InstallHelper, Interruption!StartRecording, Interruption!FinishRecording,
     Interruption!LoadFixture, Interruption!TapPlay, Interruption!WaitFails, Interruption!Sample,
     Interruption!AppPid, Interruption!Acquire, Interruption!Release, Interruption!NewNonce,
     Interruption!AppFollowsFocus, Interruption!Play, Interruption!TimePasses,
     Interruption!Misbehave, Interruption!OwnedAgain, Interruption!ReleaseAgain,
     Interruption!RemoveHelper, Interruption!RemoveObserver, Interruption!ForceStop,
     Interruption!RemoveFiles, Interruption!Unchanged, Interruption!Require, Interruption!Return,
     Interruption!Raise, Interruption!RaiseOut, Interruption!Call, Interruption!ReturnOrFail,
     Interruption!EnterFinally, Interruption!Report, Interruption!Running, Interruption!control,
     Interruption!Now, Interruption!Waiting, Interruption!ReturnUnheeded, Interruption!SamplePhases,
     Interruption!PlayingPhases, Interruption!AdvancedPhases, Interruption!PausedPhases,
     Interruption!StablePhases
<1>3. QED
  BY <1>2 DEF InterruptionPassing, Interruption!Earned

LEMMA InterruptionPassingInit ==
  ASSUME Interruption!Init
  PROVE  InterruptionPassing
<1>1. todo = InterruptionAll /\ mode = "run" /\ errors = FALSE
  BY DEF Interruption!Init, Interruption!Start, InterruptionAll
<1>2. After(InterruptionAll, 0) = InterruptionAll
  BY InterruptionProgram, AfterNone
<1>3. InterruptionFields /\ InterruptionSoFar(0)
  BY DEF Interruption!Init, InterruptionFields, InterruptionSoFar
<1>4. QED
  BY <1>1, <1>2, <1>3 DEF InterruptionPassing

(* The app is started when the preparation has succeeded.                  *)
LEMMA InterruptionPassingAdmits ==
  ASSUME InterruptionPassing, mode = "run"
  PROVE  InterruptionAdmits
<1> DEFINE P == InterruptionAll
<1>1. PICK d \in 0..54 : todo = After(P, d) /\ InterruptionSoFar(d)
  BY DEF InterruptionPassing
<1>2. P \in Seq(InterruptionTry) /\ Len(P) = 54 /\ d \in 0..Len(P)
  BY InterruptionProgram
<1> HIDE DEF P
<1>3. todo # <<>> => d + 1 \in 1..54 /\ Head(todo) = P[d + 1]
  BY <1>1, <1>2, ProgramHead
<1>4. /\ todo # <<>> /\ Head(todo) = "prepare" => d = 1
      /\ todo # <<>> /\ Head(todo) = "load-fixture" => d = 4
  <2>1. ASSUME todo # <<>>
        PROVE  /\ Head(todo) = "prepare" => d = 1
               /\ Head(todo) = "load-fixture" => d = 4
    <3>1. /\ P[d + 1] = "prepare" => d + 1 = 2
          /\ P[d + 1] = "load-fixture" => d + 1 = 5
      BY <1>3, <2>1, InterruptionSteps DEF P
    <3>2. QED
      BY <1>1, <1>3, <2>1, <3>1
  <2>2. QED
    BY <2>1
<1>5. /\ d < 5 <=> device.app = 0
      /\ d >= 2 => mem.authorized
      /\ d \in Nat
  BY <1>1 DEF InterruptionSoFar
<1>6. QED
  BY <1>4, <1>5 DEF InterruptionAdmits


-----------------------------------------------------------------------------
(* The verdict of the Together focus runner.                               *)

TogetherNames == {"none", "early-short-ready", "early-short-acquire", "permanent-acquire",
                  "permanent-release", "transient-acquire", "transient-release"}

TogetherTypes ==
  /\ {"app", "drive", "next", "request", "reply", "helper", "focus", "owned", "playing",
      "interrupted"} \subseteq DOMAIN device
  /\ {"owns", "server", "app_pid", "nonce", "steps", "stage", "completed", "failed"} \subseteq DOMAIN mem
  /\ {"rows", "grants"} \subseteq DOMAIN seen
  /\ device.app \in 0..2 /\ device.playing \in BOOLEAN /\ device.request \in TogetherNames
  /\ mem.failed \in BOOLEAN /\ mem.nonce \in Nat /\ mem.stage \in TogetherNames
  /\ mem.completed \in Seq(TogetherNames)
  /\ seen.rows \in Seq([stage : TogetherNames, pid : Nat, playing : BOOLEAN])
  /\ seen.grants \in Seq([nonce : Nat, pid : Nat])

(* What the handler thread has done when so many stages have their row, so *)
(* many commands have a nonce and so many requests for the focus took.     *)
TogetherCounts(done, commands, requests, pid) ==
  /\ Len(mem.completed) = done /\ Len(seen.rows) = done
  /\ \A i \in 1..done : /\ mem.completed[i] = TogetherFocus!STAGES[i]
                        /\ seen.rows[i].stage = TogetherFocus!STAGES[i] /\ seen.rows[i].pid = 1
  /\ mem.nonce = commands
  /\ Len(seen.grants) = requests /\ \A i \in 1..requests : seen.grants[i].nonce = i
  /\ mem.app_pid = pid

(* The same when j steps of stage k have been done.                        *)
TogetherDone(k, j) == IF k < 7 /\ j >= <<5, 6, 7, 6, 7, 6, 0>>[k] THEN k ELSE k - 1
TogetherCommands(k, j) ==
  <<0, 1, 1, 2, 2, 3, 3>>[IF (k = 1 /\ j >= 2) \/ (k \in {3, 5} /\ j >= 3) THEN k + 1 ELSE k]
TogetherRequests(k, j) ==
  <<0, 0, 1, 2, 2, 3, 3>>[IF (k = 2 /\ j >= 2) \/ (k \in {3, 5} /\ j >= 3) THEN k + 1 ELSE k]
TogetherPid(k, j) == IF k = 1 /\ j = 0 THEN 0 ELSE 1

TogetherWithin(k, j) ==
  TogetherCounts(TogetherDone(k, j), TogetherCommands(k, j), TogetherRequests(k, j), TogetherPid(k, j))

(* Where the handler thread stands when the journey asks for stage k.      *)
TogetherAt(k) ==
  \/ mem.steps = <<>> /\ device.reply = "none" /\ TogetherWithin(k, 0)
  \/ mem.steps = <<>> /\ device.reply = "row" /\ k \in 1..6 /\ TogetherWithin(k + 1, 0)
  \/ /\ k \in 1..6 /\ device.reply = "none" /\ mem.stage = TogetherFocus!STAGES[k]
     /\ device.request = TogetherFocus!STAGES[k]
     /\ \E j \in 0..(Len(TogetherFocus!StageSteps(TogetherFocus!STAGES[k])) - 1) :
          /\ mem.steps = After(TogetherFocus!StageSteps(TogetherFocus!STAGES[k]), j)
          /\ TogetherWithin(k, j)

(* While the journey has not failed, it and the handler thread agree.      *)
TogetherStages ==
  device.drive # "bad" =>
    /\ device.drive \in {"off", "running", "ok"}
    /\ device.next \in 1..7
    /\ device.request # "none" =>
         /\ device.drive = "running" /\ device.app = 1
         /\ device.next \in 1..6 /\ device.request = TogetherFocus!STAGES[device.next]
    /\ device.request = "none" => mem.steps = <<>> /\ device.reply = "none"
    /\ device.drive = "off" => device.next = 1 /\ device.app = 0
    /\ device.drive = "running" => device.app # 2
    /\ device.drive = "ok" => device.next = 7
    /\ mem.failed => mem.steps = <<>>
    /\ ~mem.failed => TogetherAt(device.next)

(* What the first d operations of the main thread have established.        *)
TogetherSoFar(d) ==
  /\ d < 5 => device.drive = "off"
  /\ d >= 6 => device.drive = "ok"
  /\ d >= 7 => ~mem.failed

TogetherPassing ==
  /\ TogetherTypes /\ TogetherStages
  /\ mode = "run" =>
       errors = FALSE /\ \E d \in 0..7 : todo = After(TogetherFocus!Program, d) /\ TogetherSoFar(d)
  /\ mode # "run" /\ ~errors => TogetherSoFar(7)

LEMMA TogetherProgram ==
  /\ TogetherFocus!Program \in Seq(TogetherTry) /\ Len(TogetherFocus!Program) = 7
  /\ \A i \in 1..7 : /\ TogetherFocus!Program[i] = "serve" <=> i = 5
                     /\ TogetherFocus!Program[i] = "drive" <=> i = 6
                     /\ TogetherFocus!Program[i] = "journey" <=> i = 7
BY DEF TogetherFocus!Program, TogetherTry

LEMMA TogetherStageSteps ==
  /\ TogetherFocus!StageSteps("early-short-ready") = <<"foreground", "warm", "no-focus", "foreground", "complete">>
  /\ TogetherFocus!StageSteps("early-short-acquire") =
       <<"app-focus", "early-acquire", "paused", "no-focus", "foreground", "complete">>
  /\ TogetherFocus!StageSteps("permanent-acquire") =
       <<"foreground", "app-focus", "acquire", "paused", "held", "foreground", "complete">>
  /\ TogetherFocus!StageSteps("transient-acquire") =
       <<"foreground", "app-focus", "acquire", "paused", "held", "foreground", "complete">>
  /\ TogetherFocus!StageSteps("permanent-release") =
       <<"foreground", "release", "paused", "no-focus", "foreground", "complete", "end-helper">>
  /\ TogetherFocus!StageSteps("transient-release") =
       <<"foreground", "release", "paused", "no-focus", "foreground", "complete", "end-helper">>
BY Zenon DEF TogetherFocus!StageSteps

LEMMA TogetherStageNames ==
  /\ Len(TogetherFocus!STAGES) = 6
  /\ TogetherFocus!STAGES[1] = "early-short-ready" /\ TogetherFocus!STAGES[2] = "early-short-acquire"
  /\ TogetherFocus!STAGES[3] = "permanent-acquire" /\ TogetherFocus!STAGES[4] = "permanent-release"
  /\ TogetherFocus!STAGES[5] = "transient-acquire" /\ TogetherFocus!STAGES[6] = "transient-release"
BY DEF TogetherFocus!STAGES

(* What a step of a stage does that does not raise.                        *)
TogetherDoes(op) ==
  /\ mem'.steps = Tail(mem.steps) /\ mem'.stage = mem.stage
  /\ device'.app = device.app /\ device'.drive = device.drive /\ device'.next = device.next
  /\ device'.request = device.request
  /\ device'.reply = IF device.reply = "none"
                        /\ (op = "end-helper" \/ (op = "complete" /\ Len(mem.steps) = 1))
                     THEN "row" ELSE device.reply
  /\ mem'.nonce = IF op \in {"warm", "acquire"} THEN mem.nonce + 1 ELSE mem.nonce
  /\ mem'.app_pid = IF op = "foreground" THEN device.app ELSE mem.app_pid
  /\ op # "complete" => mem'.completed = mem.completed /\ seen'.rows = seen.rows
  /\ op = "complete" => /\ mem'.completed = Append(mem.completed, mem.stage)
                        /\ seen'.rows = Append(seen.rows, [stage |-> mem.stage, pid |-> device.app,
                                                          playing |-> device.playing])
  /\ op \notin {"early-acquire", "acquire"} => seen'.grants = seen.grants
  /\ op = "early-acquire" =>
       seen'.grants = Append(seen.grants, [nonce |-> mem.nonce, pid |-> device.app])
  /\ op = "acquire" =>
       seen'.grants = Append(seen.grants, [nonce |-> mem.nonce + 1, pid |-> device.app])

(* A stage is accepted in its turn.                                        *)
TogetherAccepts ==
  /\ mem.steps = <<>> /\ device.reply = "none" /\ device.request # "none"
  /\ Len(mem.completed) # 6 /\ device.request = TogetherFocus!STAGES[Len(mem.completed) + 1]
  /\ mem'.steps = TogetherFocus!StageSteps(device.request) /\ mem'.stage = device.request
  /\ device' = device /\ seen' = seen
  /\ mem'.completed = mem.completed /\ mem'.nonce = mem.nonce /\ mem'.app_pid = mem.app_pid

LEMMA TogetherHandlerTypes ==
  ASSUME TogetherTypes, TogetherFocus!Handler
  PROVE  TogetherTypes'
<1> USE DEF TogetherTypes
<1>1. CASE TogetherFocus!Accept
  BY <1>1 DEF TogetherFocus!Accept, TogetherFocus!Goes, TogetherFocus!Stage
<1>2. CASE TogetherFocus!StageFails
  BY <1>2 DEF TogetherFocus!StageFails, TogetherFocus!Latch
<1> USE DEF TogetherFocus!Latch, TogetherFocus!Advanced
<1>3. CASE TogetherFocus!Foreground \/ TogetherFocus!Warm
  <2>1. seen' = seen
    BY <1>3 DEF TogetherFocus!Foreground, TogetherFocus!Warm
  <2>2. /\ DOMAIN mem' = DOMAIN mem /\ mem'.failed \in BOOLEAN /\ mem'.stage = mem.stage
        /\ mem'.completed = mem.completed /\ mem'.nonce \in {mem.nonce, mem.nonce + 1}
    BY <1>3 DEF TogetherFocus!Foreground, TogetherFocus!Warm
  <2>3. /\ DOMAIN device' = DOMAIN device /\ device'.app = device.app
        /\ device'.playing = device.playing /\ device'.request = device.request
    BY <1>3 DEF TogetherFocus!Foreground, TogetherFocus!Warm
  <2>4. QED
    BY <2>1, <2>2, <2>3
<1>4. CASE TogetherFocus!EarlyAcquire
  <2>1. /\ DOMAIN mem' = DOMAIN mem /\ mem'.failed \in BOOLEAN /\ mem'.stage = mem.stage
        /\ mem'.completed = mem.completed /\ mem'.nonce \in {mem.nonce, mem.nonce + 1}
        /\ DOMAIN device' = DOMAIN device /\ device'.app = device.app
        /\ device'.playing = device.playing /\ device'.request = device.request
    BY <1>4 DEF TogetherFocus!EarlyAcquire
  <2>2. /\ DOMAIN seen' = DOMAIN seen /\ seen'.rows = seen.rows
        /\ \/ seen'.grants = seen.grants
           \/ seen'.grants = Append(seen.grants, [nonce |-> mem.nonce, pid |-> device.app])
    BY <1>4 DEF TogetherFocus!EarlyAcquire, TogetherFocus!Grant
  <2> DEFINE S == [nonce : Nat, pid : Nat]
             grant == [nonce |-> mem.nonce, pid |-> device.app]
  <2>3. grant \in S /\ seen.grants \in Seq(S)
    OBVIOUS
  <2>4. seen'.grants \in Seq(S)
    <3> HIDE DEF S, grant
    <3>1. Append(seen.grants, grant) \in Seq(S)
      BY <2>3, AppendProperties
    <3>2. QED
      BY <2>2, <2>3, <3>1 DEF grant
  <2>5. QED
    BY <2>1, <2>2, <2>4
<1>5. CASE TogetherFocus!Acquire
  <2>1. /\ DOMAIN mem' = DOMAIN mem /\ mem'.failed \in BOOLEAN /\ mem'.stage = mem.stage
        /\ mem'.completed = mem.completed /\ mem'.nonce \in {mem.nonce, mem.nonce + 1}
        /\ DOMAIN device' = DOMAIN device /\ device'.app = device.app
        /\ device'.playing = device.playing /\ device'.request = device.request
    BY <1>5 DEF TogetherFocus!Acquire
  <2>2. /\ DOMAIN seen' = DOMAIN seen /\ seen'.rows = seen.rows
        /\ \/ seen'.grants = seen.grants
           \/ seen'.grants = Append(seen.grants, [nonce |-> mem.nonce + 1, pid |-> device.app])
    BY <1>5 DEF TogetherFocus!Acquire, TogetherFocus!Grant
  <2> DEFINE S == [nonce : Nat, pid : Nat]
             grant == [nonce |-> mem.nonce + 1, pid |-> device.app]
  <2>3. grant \in S /\ seen.grants \in Seq(S)
    OBVIOUS
  <2>4. seen'.grants \in Seq(S)
    <3> HIDE DEF S, grant
    <3>1. Append(seen.grants, grant) \in Seq(S)
      BY <2>3, AppendProperties
    <3>2. QED
      BY <2>2, <2>3, <3>1 DEF grant
  <2>5. QED
    BY <2>1, <2>2, <2>4
<1>6. CASE \/ TogetherFocus!Release \/ TogetherFocus!Paused
           \/ \E op, condition : TogetherFocus!Needs(op, condition)
  BY <1>6 DEF TogetherFocus!Release, TogetherFocus!Paused, TogetherFocus!Needs,
     TogetherFocus!Latch, TogetherFocus!Advanced
<1>7. CASE TogetherFocus!Complete
  BY <1>7 DEF TogetherFocus!Complete, TogetherFocus!Advanced
<1>8. CASE TogetherFocus!EndStage
  BY <1>8 DEF TogetherFocus!EndStage, TogetherFocus!EndHelper, TogetherFocus!Advanced
<1>9. QED
  BY <1>1, <1>2, <1>3, <1>4, <1>5, <1>6, <1>7, <1>8 DEF TogetherFocus!Handler

LEMMA TogetherHandles ==
  ASSUME TogetherTypes, TogetherFocus!Handler, ~mem.failed
  PROVE  /\ UNCHANGED <<todo, mode, errors, failed>>
         /\ \/ ~mem'.failed /\ TogetherAccepts
            \/ ~mem'.failed /\ mem.steps # <<>> /\ TogetherDoes(Head(mem.steps))
            \/ /\ mem'.failed /\ mem'.steps = <<>>
               /\ device'.app = device.app /\ device'.drive = device.drive
               /\ device'.next = device.next /\ device'.request = device.request
               /\ mem.steps # <<>> \/ device.request # "none"
<1> USE DEF TogetherTypes
<1>0. Len(TogetherFocus!STAGES) = 6
  BY TogetherStageNames
<1>1. CASE TogetherFocus!Accept
  BY <1>0, <1>1 DEF TogetherFocus!Accept, TogetherFocus!Goes, TogetherFocus!Stage,
     TogetherAccepts, TogetherFocus!control
<1> USE DEF TogetherDoes, TogetherFocus!Goes, TogetherFocus!control, TogetherFocus!Step,
            TogetherFocus!Latch, TogetherFocus!Advanced
<1>2. CASE TogetherFocus!StageFails
  BY <1>2 DEF TogetherFocus!StageFails
<1>3. CASE TogetherFocus!Foreground
  BY <1>3 DEF TogetherFocus!Foreground
<1>4. CASE TogetherFocus!Warm
  BY <1>4 DEF TogetherFocus!Warm
<1>5. CASE TogetherFocus!EarlyAcquire
  BY <1>5 DEF TogetherFocus!EarlyAcquire, TogetherFocus!Grant
<1>6. CASE TogetherFocus!Acquire
  BY <1>6 DEF TogetherFocus!Acquire, TogetherFocus!Grant
<1>7. CASE TogetherFocus!Release \/ TogetherFocus!Paused
  BY <1>7 DEF TogetherFocus!Release, TogetherFocus!Paused
<1>8. CASE \/ TogetherFocus!Needs("app-focus", device.focus = "app" /\ device.app = mem.app_pid)
           \/ TogetherFocus!Needs("no-focus", device.focus # "helper")
           \/ TogetherFocus!Needs("held", device.focus = "helper")
  BY <1>8 DEF TogetherFocus!Needs
<1>9. CASE TogetherFocus!Complete
  BY <1>9 DEF TogetherFocus!Complete
<1>10. CASE TogetherFocus!EndStage
  BY <1>10 DEF TogetherFocus!EndStage, TogetherFocus!EndHelper
<1>11. QED
  BY <1>1, <1>2, <1>3, <1>4, <1>5, <1>6, <1>7, <1>8, <1>9, <1>10 DEF TogetherFocus!Handler

(* After a failure the thread only refuses.                                *)
LEMMA TogetherRefuses ==
  ASSUME TogetherTypes, TogetherFocus!Handler, mem.failed, mem.steps = <<>>
  PROVE  /\ UNCHANGED <<todo, mode, errors, failed>>
         /\ mem'.failed /\ mem'.steps = <<>> /\ device.request # "none"
         /\ device'.app = device.app /\ device'.drive = device.drive
         /\ device'.next = device.next /\ device'.request = device.request
BY DEF TogetherTypes, TogetherFocus!Handler, TogetherFocus!Accept, TogetherFocus!StageFails,
   TogetherFocus!Foreground, TogetherFocus!Warm, TogetherFocus!EarlyAcquire,
   TogetherFocus!Acquire, TogetherFocus!Release, TogetherFocus!Paused, TogetherFocus!Needs,
   TogetherFocus!Complete, TogetherFocus!EndStage, TogetherFocus!EndHelper, TogetherFocus!Latch,
   TogetherFocus!Advanced, TogetherFocus!Goes, TogetherFocus!control, TogetherFocus!Step,
   TogetherFocus!Stage, TogetherFocus!Grant

(* A step that does not raise, in the counts of what has been done.        *)
LEMMA TogetherCounted ==
  ASSUME TogetherTypes, NEW op, TogetherDoes(op),
         NEW a \in 0..6, NEW b \in Nat, NEW c \in Nat, NEW p, TogetherCounts(a, b, c, p),
         device.app = 1,
         op = "complete" => mem.stage = TogetherFocus!STAGES[a + 1],
         op = "early-acquire" => b = c + 1,
         op = "acquire" => b = c
  PROVE  TogetherCounts(IF op = "complete" THEN a + 1 ELSE a,
                        IF op \in {"warm", "acquire"} THEN b + 1 ELSE b,
                        IF op \in {"early-acquire", "acquire"} THEN c + 1 ELSE c,
                        IF op = "foreground" THEN 1 ELSE p)'
<1>0. \A i \in 1..(a + 1) : i \in 1..a \/ i = a + 1
  OBVIOUS
<1> USE DEF TogetherCounts, TogetherDoes, TogetherTypes
<1>1. CASE op = "complete"
  <2> DEFINE S == [stage : TogetherNames, pid : Nat, playing : BOOLEAN]
             row == [stage |-> mem.stage, pid |-> device.app, playing |-> device.playing]
  <2>1. /\ Len(mem'.completed) = a + 1 /\ mem'.completed[a + 1] = mem.stage
        /\ \A i \in 1..a : mem'.completed[i] = mem.completed[i]
    <3>1. mem'.completed = Append(mem.completed, mem.stage) /\ Len(mem.completed) = a
      BY <1>1
    <3>2. QED
      BY <3>1, AppendProperties
  <2>2. row \in S /\ seen.rows \in Seq(S) /\ row.stage = mem.stage /\ row.pid = 1
        /\ seen'.rows = Append(seen.rows, row) /\ Len(seen.rows) = a
    BY <1>1
  <2> HIDE DEF S, row
  <2>3. /\ Len(seen'.rows) = a + 1 /\ seen'.rows[a + 1] = row
        /\ \A i \in 1..a : seen'.rows[i] = seen.rows[i]
    BY <2>2, AppendProperties
  <2>4. QED
    BY <1>0, <1>1, <2>1, <2>2, <2>3
<1>2. CASE op \in {"early-acquire", "acquire"}
  <2> DEFINE S == [nonce : Nat, pid : Nat]
  <2>1. PICK grant \in S : grant.nonce = c + 1 /\ seen'.grants = Append(seen.grants, grant)
    <3>1. CASE op = "early-acquire"
      <4>1. [nonce |-> mem.nonce, pid |-> device.app] \in S /\ mem.nonce = c + 1
        BY <3>1
      <4>2. QED
        BY <3>1, <4>1
    <3>2. CASE op = "acquire"
      <4>1. [nonce |-> mem.nonce + 1, pid |-> device.app] \in S /\ mem.nonce = c
        BY <3>2
      <4>2. QED
        BY <3>2, <4>1
    <3>3. QED
      BY <1>2, <3>1, <3>2
  <2>2. seen.grants \in Seq(S) /\ Len(seen.grants) = c
    OBVIOUS
  <2> HIDE DEF S
  <2>3. /\ Len(seen'.grants) = c + 1 /\ seen'.grants[c + 1] = grant
        /\ \A i \in 1..c : seen'.grants[i] = seen.grants[i]
    BY <2>1, <2>2, AppendProperties
  <2>4. \A i \in 1..(c + 1) : i \in 1..c \/ i = c + 1
    OBVIOUS
  <2>5. QED
    BY <1>2, <2>1, <2>3, <2>4
<1>3. CASE op \notin {"complete", "early-acquire", "acquire"}
  BY <1>3
<1>4. QED
  BY <1>1, <1>2, <1>3

(* Which operations of a stage count.                                      *)
LEMMA TogetherTally ==
  ASSUME NEW k \in 1..6,
         NEW j \in 0..(Len(TogetherFocus!StageSteps(TogetherFocus!STAGES[k])) - 1)
  PROVE  LET steps == TogetherFocus!StageSteps(TogetherFocus!STAGES[k])
             op == steps[j + 1]
         IN /\ j \in Nat /\ Len(steps) \in Nat
            /\ TogetherDone(k, j) \in 0..6 /\ (op = "complete" => TogetherDone(k, j) = k - 1)
            /\ TogetherCommands(k, j) \in 0..3 /\ TogetherRequests(k, j) \in 0..3
            /\ op = "early-acquire" => TogetherCommands(k, j) = TogetherRequests(k, j) + 1
            /\ op = "acquire" => TogetherCommands(k, j) = TogetherRequests(k, j)
            /\ TogetherDone(k, j + 1) = IF op = "complete" THEN TogetherDone(k, j) + 1 ELSE TogetherDone(k, j)
            /\ TogetherCommands(k, j + 1) = IF op \in {"warm", "acquire"}
                                            THEN TogetherCommands(k, j) + 1 ELSE TogetherCommands(k, j)
            /\ TogetherRequests(k, j + 1) = IF op \in {"early-acquire", "acquire"}
                                            THEN TogetherRequests(k, j) + 1 ELSE TogetherRequests(k, j)
            /\ TogetherPid(k, j + 1) = IF op = "foreground" THEN 1 ELSE TogetherPid(k, j)
            /\ (op = "end-helper" \/ (op = "complete" /\ Len(steps) - j = 1)) <=> j + 1 = Len(steps)
            /\ j + 1 = Len(steps) =>
                 /\ TogetherDone(k, j + 1) = TogetherDone(k + 1, 0)
                 /\ TogetherCommands(k, j + 1) = TogetherCommands(k + 1, 0)
                 /\ TogetherRequests(k, j + 1) = TogetherRequests(k + 1, 0)
                 /\ TogetherPid(k, j + 1) = TogetherPid(k + 1, 0)
<1> USE DEF TogetherDone, TogetherCommands, TogetherRequests, TogetherPid
<1>1. CASE k = 1
  <2>1. TogetherFocus!StageSteps(TogetherFocus!STAGES[k]) =
          <<"foreground", "warm", "no-focus", "foreground", "complete">>
    BY <1>1, TogetherStageNames, TogetherStageSteps
  <2>2. QED
    BY <1>1, <2>1
<1>2. CASE k = 2
  <2>1. TogetherFocus!StageSteps(TogetherFocus!STAGES[k]) =
          <<"app-focus", "early-acquire", "paused", "no-focus", "foreground", "complete">>
    BY <1>2, TogetherStageNames, TogetherStageSteps
  <2>2. QED
    BY <1>2, <2>1
<1>3. CASE k = 3
  <2>1. TogetherFocus!StageSteps(TogetherFocus!STAGES[k]) =
          <<"foreground", "app-focus", "acquire", "paused", "held", "foreground", "complete">>
    BY <1>3, TogetherStageNames, TogetherStageSteps
  <2>2. QED
    BY <1>3, <2>1
<1>4. CASE k = 4
  <2>1. TogetherFocus!StageSteps(TogetherFocus!STAGES[k]) =
          <<"foreground", "release", "paused", "no-focus", "foreground", "complete", "end-helper">>
    BY <1>4, TogetherStageNames, TogetherStageSteps
  <2>2. QED
    BY <1>4, <2>1
<1>5. CASE k = 5
  <2>1. TogetherFocus!StageSteps(TogetherFocus!STAGES[k]) =
          <<"foreground", "app-focus", "acquire", "paused", "held", "foreground", "complete">>
    BY <1>5, TogetherStageNames, TogetherStageSteps
  <2>2. QED
    BY <1>5, <2>1
<1>6. CASE k = 6
  <2>1. TogetherFocus!StageSteps(TogetherFocus!STAGES[k]) =
          <<"foreground", "release", "paused", "no-focus", "foreground", "complete", "end-helper">>
    BY <1>6, TogetherStageNames, TogetherStageSteps
  <2>2. QED
    BY <1>6, <2>1
<1>7. QED
  BY <1>1, <1>2, <1>3, <1>4, <1>5, <1>6

(* A stage comes to its next step, or to its end.                          *)
LEMMA TogetherSteps ==
  ASSUME TogetherTypes, NEW k \in 1..6,
         NEW j \in 0..(Len(TogetherFocus!StageSteps(TogetherFocus!STAGES[k])) - 1),
         TogetherDoes(TogetherFocus!StageSteps(TogetherFocus!STAGES[k])[j + 1]),
         TogetherWithin(k, j), device.app = 1, mem.stage = TogetherFocus!STAGES[k]
  PROVE  /\ TogetherWithin(k, j + 1)'
         /\ j + 1 = Len(TogetherFocus!StageSteps(TogetherFocus!STAGES[k])) => TogetherWithin(k + 1, 0)'
<1> DEFINE steps == TogetherFocus!StageSteps(TogetherFocus!STAGES[k])
           op == steps[j + 1]
           a == TogetherDone(k, j)
           b == TogetherCommands(k, j)
           c == TogetherRequests(k, j)
           p == TogetherPid(k, j)
<1>1. TogetherDoes(op) /\ TogetherCounts(a, b, c, p)
  BY DEF TogetherWithin
<1>2. /\ a \in 0..6 /\ (op = "complete" => a = k - 1) /\ b \in 0..3 /\ c \in 0..3
      /\ op = "early-acquire" => b = c + 1
      /\ op = "acquire" => b = c
      /\ TogetherDone(k, j + 1) = IF op = "complete" THEN a + 1 ELSE a
      /\ TogetherCommands(k, j + 1) = IF op \in {"warm", "acquire"} THEN b + 1 ELSE b
      /\ TogetherRequests(k, j + 1) = IF op \in {"early-acquire", "acquire"} THEN c + 1 ELSE c
      /\ TogetherPid(k, j + 1) = IF op = "foreground" THEN 1 ELSE p
  BY TogetherTally
<1>3. j + 1 = Len(steps) => /\ TogetherDone(k, j + 1) = TogetherDone(k + 1, 0)
                            /\ TogetherCommands(k, j + 1) = TogetherCommands(k + 1, 0)
                            /\ TogetherRequests(k, j + 1) = TogetherRequests(k + 1, 0)
                            /\ TogetherPid(k, j + 1) = TogetherPid(k + 1, 0)
  BY TogetherTally
<1> HIDE DEF steps, op, a, b, c, p
<1>4. op = "complete" => mem.stage = TogetherFocus!STAGES[a + 1]
  BY <1>2
<1>5. TogetherCounts(TogetherDone(k, j + 1), TogetherCommands(k, j + 1), TogetherRequests(k, j + 1),
                     TogetherPid(k, j + 1))'
  <2>1. b \in Nat /\ c \in Nat
    BY <1>2
  <2>2. TogetherCounts(IF op = "complete" THEN a + 1 ELSE a,
                        IF op \in {"warm", "acquire"} THEN b + 1 ELSE b,
                        IF op \in {"early-acquire", "acquire"} THEN c + 1 ELSE c,
                        IF op = "foreground" THEN 1 ELSE p)'
    BY <1>1, <1>2, <1>4, <2>1, TogetherCounted
  <2>3. QED
    BY <1>2, <2>2
<1>6. QED
  BY <1>3, <1>5 DEF TogetherWithin, steps

TogetherStepNames == {"foreground", "warm", "no-focus", "complete", "app-focus", "early-acquire",
                      "paused", "acquire", "held", "release", "end-helper"}

LEMMA TogetherStageSizes ==
  ASSUME NEW k \in 1..6
  PROVE  LET steps == TogetherFocus!StageSteps(TogetherFocus!STAGES[k])
         IN /\ steps \in Seq(TogetherStepNames) /\ Len(steps) \in 5..7
            /\ 0 \in 0..(Len(steps) - 1)
<1> DEFINE steps == TogetherFocus!StageSteps(TogetherFocus!STAGES[k])
<1>1. \/ steps = <<"foreground", "warm", "no-focus", "foreground", "complete">>
      \/ steps = <<"app-focus", "early-acquire", "paused", "no-focus", "foreground", "complete">>
      \/ steps = <<"foreground", "app-focus", "acquire", "paused", "held", "foreground", "complete">>
      \/ steps = <<"foreground", "release", "paused", "no-focus", "foreground", "complete", "end-helper">>
  BY TogetherStageNames, TogetherStageSteps
<1> HIDE DEF steps
<1>2. CASE steps = <<"foreground", "warm", "no-focus", "foreground", "complete">>
  BY <1>2 DEF TogetherStepNames, steps
<1>3. CASE steps = <<"app-focus", "early-acquire", "paused", "no-focus", "foreground", "complete">>
  BY <1>3 DEF TogetherStepNames, steps
<1>4. CASE steps = <<"foreground", "app-focus", "acquire", "paused", "held", "foreground", "complete">>
  BY <1>4 DEF TogetherStepNames, steps
<1>5. CASE steps = <<"foreground", "release", "paused", "no-focus", "foreground", "complete", "end-helper">>
  BY <1>5 DEF TogetherStepNames, steps
<1>6. QED
  BY <1>1, <1>2, <1>3, <1>4, <1>5

(* The handler thread and the journey stay in step.                        *)
LEMMA TogetherHandlerAgrees ==
  ASSUME TogetherTypes, TogetherStages, TogetherFocus!Handler
  PROVE  TogetherStages'
<1> SUFFICES ASSUME device'.drive # "bad" PROVE TogetherStages'
  BY DEF TogetherStages
<1>0. PICK k \in 1..7 : k = device.next \/ device.drive = "bad"
  BY DEF TogetherStages
<1>1. /\ device'.app = device.app /\ device'.drive = device.drive
      /\ device'.next = device.next /\ device'.request = device.request
  BY DEF TogetherFocus!Handler, TogetherFocus!Accept, TogetherFocus!StageFails,
     TogetherFocus!Foreground, TogetherFocus!Warm, TogetherFocus!EarlyAcquire,
     TogetherFocus!Acquire, TogetherFocus!Release, TogetherFocus!Paused, TogetherFocus!Needs,
     TogetherFocus!Complete, TogetherFocus!EndStage, TogetherFocus!EndHelper, TogetherFocus!Latch,
     TogetherFocus!Advanced, TogetherFocus!Goes, TogetherFocus!control, TogetherFocus!Step,
     TogetherFocus!Stage, TogetherFocus!Grant, TogetherTypes
<1>2. /\ device.request # "none" /\ device.drive = "running" /\ device.app = 1
      /\ device.next = k /\ device'.next = k /\ k \in 1..6 /\ device.request = TogetherFocus!STAGES[k]
      /\ mem.failed => mem.steps = <<>>
      /\ ~mem.failed => TogetherAt(k)
  BY <1>0, <1>1 DEF TogetherStages, TogetherFocus!Handler, TogetherFocus!Accept,
     TogetherFocus!StageFails, TogetherFocus!Foreground, TogetherFocus!Warm,
     TogetherFocus!EarlyAcquire, TogetherFocus!Acquire, TogetherFocus!Release,
     TogetherFocus!Paused, TogetherFocus!Needs, TogetherFocus!Complete, TogetherFocus!EndStage,
     TogetherFocus!EndHelper, TogetherFocus!Latch, TogetherFocus!Advanced, TogetherFocus!Goes,
     TogetherFocus!control, TogetherFocus!Step, TogetherFocus!Stage, TogetherFocus!Grant
<1>3. CASE mem.failed
  BY <1>1, <1>2, <1>3, TogetherRefuses DEF TogetherStages
<1>4. CASE mem'.failed /\ mem'.steps = <<>>
  BY <1>1, <1>2, <1>4 DEF TogetherStages
<1>5. ASSUME ~mem'.failed, TogetherAt(k)' PROVE TogetherStages'
  BY <1>1, <1>2, <1>5 DEF TogetherStages
<1> DEFINE steps == TogetherFocus!StageSteps(TogetherFocus!STAGES[k])
<1>6. /\ steps \in Seq(TogetherStepNames) /\ Len(steps) \in 5..7
      /\ 0 \in 0..(Len(steps) - 1)
  BY <1>2, TogetherStageSizes
<1>7. CASE ~mem.failed /\ ~mem'.failed /\ TogetherAccepts
  <2>1. mem.steps = <<>> /\ device.reply = "none"
    BY <1>7 DEF TogetherAccepts
  <2>2. TogetherWithin(k, 0)
    <3>1. CASE TogetherWithin(k, 0)
      BY <3>1
    <3>2. CASE mem.steps # <<>> \/ device.reply = "row"
      BY <2>1, <3>2
    <3>3. CASE \E j \in 0..(Len(steps) - 1) : mem.steps = After(steps, j)
      <4>1. PICK j \in 0..(Len(steps) - 1) : mem.steps = After(steps, j)
        BY <3>3
      <4> HIDE DEF steps
      <4>2. j \in 0..Len(steps) /\ j # Len(steps)
        BY <1>6
      <4>3. QED
        BY <1>6, <2>1, <4>1, <4>2, ProgramEnds
    <3>4. QED
      BY <1>2, <1>7, <3>1, <3>2, <3>3 DEF TogetherAt
  <2>3. /\ mem'.steps = steps /\ mem'.stage = TogetherFocus!STAGES[k]
        /\ device' = device
    BY <1>2, <1>7 DEF TogetherAccepts
  <2>4. TogetherWithin(k, 0)'
    BY <1>7, <2>2 DEF TogetherAccepts, TogetherWithin, TogetherCounts
  <2>5. After(steps, 0) = steps /\ 0 \in 0..(Len(steps) - 1)
    <3> HIDE DEF steps
    <3>1. QED
      BY <1>6, AfterNone
  <2>6. TogetherAt(k)'
    BY <1>1, <1>2, <2>1, <2>3, <2>4, <2>5 DEF TogetherAt
  <2>7. QED
    BY <1>5, <1>7, <2>6
<1>8. CASE ~mem.failed /\ ~mem'.failed /\ mem.steps # <<>> /\ TogetherDoes(Head(mem.steps))
  <2>1. PICK j \in 0..(Len(steps) - 1) :
          /\ device.reply = "none" /\ mem.stage = TogetherFocus!STAGES[k]
          /\ mem.steps = After(steps, j) /\ TogetherWithin(k, j)
    BY <1>2, <1>8 DEF TogetherAt
  <2>2. /\ j \in 0..Len(steps) /\ j + 1 \in 1..Len(steps)
    BY <1>6
  <2>3. /\ Head(mem.steps) = steps[j + 1] /\ Tail(mem.steps) = After(steps, j + 1)
        /\ Len(mem.steps) = Len(steps) - j
    <3> HIDE DEF steps
    <3>1. After(steps, j) # <<>> /\ Len(After(steps, j)) = Len(steps) - j
      BY <1>6, <1>8, <2>1, <2>2, AfterIsSeq
    <3>2. QED
      BY <1>6, <2>1, <2>2, <3>1, AfterParts
  <2>4. /\ TogetherWithin(k, j + 1)'
        /\ j + 1 = Len(steps) => TogetherWithin(k + 1, 0)'
    <3>1. TogetherDoes(steps[j + 1])
      BY <1>8, <2>3
    <3>2. QED
      BY <1>2, <2>1, <3>1, TogetherSteps
  <2>5. (steps[j + 1] = "end-helper" \/ (steps[j + 1] = "complete" /\ Len(steps) - j = 1))
          <=> j + 1 = Len(steps)
    BY <1>2, TogetherTally
  <2>6. /\ mem'.steps = After(steps, j + 1) /\ mem'.stage = TogetherFocus!STAGES[k]
        /\ device'.reply = IF j + 1 = Len(steps) THEN "row" ELSE "none"
    BY <1>8, <2>1, <2>3, <2>5 DEF TogetherDoes
  <2> HIDE DEF steps
  <2>7. CASE j + 1 = Len(steps)
    <3>1. After(steps, j + 1) = <<>>
      <4>1. Len(After(steps, j + 1)) = 0 /\ After(steps, j + 1) \in Seq(TogetherStepNames)
        BY <1>6, <2>2, <2>7, AfterIsSeq
      <4>2. QED
        BY <4>1, EmptySeq
    <3>2. TogetherAt(k)'
      BY <1>1, <1>2, <2>4, <2>6, <2>7, <3>1 DEF TogetherAt
    <3>3. QED
      BY <1>5, <1>8, <3>2
  <2>8. CASE j + 1 # Len(steps)
    <3>1. j + 1 \in 0..(Len(steps) - 1)
      BY <1>6, <2>2, <2>8
    <3>2. TogetherAt(k)'
      BY <1>1, <1>2, <2>4, <2>6, <2>8, <3>1 DEF TogetherAt, steps
    <3>3. QED
      BY <1>5, <1>8, <3>2
  <2>9. QED
    BY <2>7, <2>8
<1>9. QED
  BY <1>3, <1>4, <1>7, <1>8, TogetherHandles

LEMMA TogetherEnvironment ==
  ASSUME TogetherTypes, TogetherStages, TogetherFocus!Environment
  PROVE  /\ TogetherTypes' /\ TogetherStages'
         /\ UNCHANGED <<todo, mode, errors, failed>> /\ mem' = mem
         /\ device.drive = "off" => device'.drive = "off"
         /\ device.drive = "ok" => device'.drive = "ok"
<1> USE DEF TogetherTypes, TogetherStages
<1>1. CASE TogetherFocus!Post
  <2>1. /\ device.drive = "running" /\ device.request = "none" /\ device.next \in 1..6
        /\ mem' = mem /\ seen' = seen /\ UNCHANGED <<todo, mode, errors, failed>>
        /\ device'.request = TogetherFocus!STAGES[device.next] /\ device'.reply = "none"
        /\ device'.app = (IF device.app = 0 THEN 1 ELSE device.app)
        /\ device'.playing \in BOOLEAN /\ device'.drive = device.drive /\ device'.next = device.next
        /\ DOMAIN device' = DOMAIN device
    BY <1>1, TogetherStageNames DEF TogetherFocus!Post, TogetherFocus!Goes, TogetherFocus!control
  <2>2. device'.request \in TogetherNames /\ device'.request # "none" /\ device'.app = 1
    <3>1. device.next \in {1, 2, 3, 4, 5, 6}
      BY <2>1
    <3>2. QED
      BY <2>1, <3>1, TogetherStageNames DEF TogetherNames
  <2>3. ~mem.failed => TogetherAt(device.next)'
    BY <2>1 DEF TogetherAt, TogetherWithin, TogetherCounts
  <2>4. QED
    BY <2>1, <2>2, <2>3
<1>2. CASE TogetherFocus!Reply
  <2>1. /\ device.drive = "running" /\ device.request # "none" /\ device.reply # "none"
        /\ mem' = mem /\ seen' = seen /\ UNCHANGED <<todo, mode, errors, failed>>
        /\ device'.app = device.app /\ device'.playing = device.playing /\ DOMAIN device' = DOMAIN device
    BY <1>2 DEF TogetherFocus!Reply, TogetherFocus!Goes, TogetherFocus!control
  <2>2. CASE device.reply # "row"
    BY <1>2, <2>1, <2>2 DEF TogetherFocus!Reply
  <2>3. CASE device.reply = "row"
    <3>1. /\ device'.request = "none" /\ "none" \in TogetherNames /\ device'.reply = "none" /\ device'.next = device.next + 1
          /\ device'.drive = "running"
      BY <1>2, <2>1, <2>3 DEF TogetherFocus!Reply, TogetherNames
    <3>2. ~mem.failed => mem.steps = <<>> /\ TogetherWithin(device.next + 1, 0)
      BY <2>1, <2>3 DEF TogetherAt
    <3>3. mem.steps = <<>>
      BY <2>1, <3>2
    <3>4. ~mem.failed => TogetherAt(device.next)'
      BY <2>1, <3>1, <3>2 DEF TogetherAt, TogetherWithin, TogetherCounts
    <3>5. QED
      BY <2>1, <3>1, <3>3, <3>4
  <2>4. QED
    BY <2>2, <2>3
<1>3. CASE TogetherFocus!GiveUp
  BY <1>3 DEF TogetherFocus!GiveUp, TogetherFocus!control
<1>4. CASE TogetherFocus!JourneyEnds
  <2>1. /\ device.drive = "running" /\ device.next > 6 /\ device'.drive = "ok"
        /\ mem' = mem /\ seen' = seen /\ UNCHANGED <<todo, mode, errors, failed>>
        /\ device'.app = device.app /\ device'.playing = device.playing /\ DOMAIN device' = DOMAIN device
        /\ device'.request = device.request /\ device'.reply = device.reply
        /\ device'.next = device.next
    BY <1>4, TogetherStageNames DEF TogetherFocus!JourneyEnds, TogetherFocus!Goes,
       TogetherFocus!control
  <2>2. device.request = "none" /\ device.next = 7
    BY <2>1
  <2>3. ~mem.failed => TogetherAt(device.next)'
    BY <2>1 DEF TogetherAt, TogetherWithin, TogetherCounts
  <2>4. QED
    BY <2>1, <2>2, <2>3
<1>5. CASE TogetherFocus!AppPauses
  <2>1. /\ device'.drive = device.drive /\ device'.playing = FALSE
        /\ mem' = mem /\ seen' = seen /\ UNCHANGED <<todo, mode, errors, failed>>
        /\ device'.app = device.app /\ DOMAIN device' = DOMAIN device
        /\ device'.request = device.request /\ device'.reply = device.reply
        /\ device'.next = device.next
    BY <1>5 DEF TogetherFocus!AppPauses, TogetherFocus!Goes, TogetherFocus!control
  <2>2. device.drive # "bad" /\ ~mem.failed => TogetherAt(device.next)'
    BY <2>1 DEF TogetherAt, TogetherWithin, TogetherCounts
  <2>3. QED
    BY <2>1, <2>2
<1>6. CASE TogetherFocus!AppMisbehaves
  <2>1. /\ device.app = 1 /\ device'.playing \in BOOLEAN
        /\ mem' = mem /\ seen' = seen /\ UNCHANGED <<todo, mode, errors, failed>>
        /\ DOMAIN device' = DOMAIN device
        /\ device'.request = device.request /\ device'.reply = device.reply
        /\ device'.next = device.next
        /\ \/ device'.app = device.app /\ device'.drive = device.drive
           \/ device'.app = 2 /\ device'.drive = IF device.drive = "running" THEN "bad" ELSE device.drive
    BY <1>6 DEF TogetherFocus!AppMisbehaves, TogetherFocus!control
  <2>2. device.drive # "bad" /\ ~mem.failed => TogetherAt(device.next)'
    BY <2>1 DEF TogetherAt, TogetherWithin, TogetherCounts
  <2>3. QED
    BY <2>1, <2>2
<1>7. QED
  BY <1>1, <1>2, <1>3, <1>4, <1>5, <1>6 DEF TogetherFocus!Environment

(* What the main thread changes of what it shares with the handler thread. *)
LEMMA TogetherMain ==
  ASSUME TogetherTypes, TogetherFocus!Runner
  PROVE  /\ DOMAIN device' = DOMAIN device /\ DOMAIN mem' = DOMAIN mem /\ seen' = seen
         /\ device'.app = device.app /\ device'.playing = device.playing
         /\ device'.next = device.next /\ device'.request = device.request
         /\ device'.reply = device.reply
         /\ mem'.app_pid = mem.app_pid /\ mem'.nonce = mem.nonce /\ mem'.steps = mem.steps
         /\ mem'.stage = mem.stage /\ mem'.completed = mem.completed /\ mem'.failed = mem.failed
         /\ \/ device'.drive = device.drive
            \/ device'.drive = "bad" /\ device.drive = "running"
            \/ device'.drive = "running" /\ TogetherFocus!Now("serve")
<1> USE DEF TogetherTypes
<1>1. CASE TogetherFocus!Install("helper") \/ TogetherFocus!Install("observer")
  BY <1>1 DEF TogetherFocus!Install
<1>2. CASE TogetherFocus!Serve \/ TogetherFocus!Drive \/ TogetherFocus!StopDrive
  BY <1>2 DEF TogetherFocus!Serve, TogetherFocus!Drive, TogetherFocus!StopDrive
<1>3. CASE TogetherFocus!CloseServer \/ TogetherFocus!StopHelper
  BY <1>3 DEF TogetherFocus!CloseServer, TogetherFocus!StopHelper, TogetherFocus!EndHelper
<1>4. CASE TogetherFocus!Uninstall("remove-helper", "helper")
           \/ TogetherFocus!Uninstall("remove-observer", "observer")
  BY <1>4 DEF TogetherFocus!Uninstall
<1>5. CASE \/ TogetherFocus!Prepare \/ TogetherFocus!InstallApp \/ TogetherFocus!Journey
           \/ TogetherFocus!AvdAgain \/ UNCHANGED <<device, mem, seen>>
  BY <1>5 DEF TogetherFocus!Prepare, TogetherFocus!InstallApp, TogetherFocus!Journey,
     TogetherFocus!AvdAgain
<1>6. QED
  BY <1>1, <1>2, <1>3, <1>4, <1>5 DEF TogetherFocus!Runner

LEMMA TogetherMainAgrees ==
  ASSUME TogetherTypes, TogetherStages, TogetherFocus!Runner,
         TogetherFocus!Now("serve") => device.drive = "off"
  PROVE  TogetherTypes' /\ TogetherStages'
<1> DEFINE Shared ==
      /\ DOMAIN device' = DOMAIN device /\ DOMAIN mem' = DOMAIN mem /\ seen' = seen
      /\ device'.app = device.app /\ device'.playing = device.playing
      /\ device'.next = device.next /\ device'.request = device.request
      /\ device'.reply = device.reply
      /\ mem'.app_pid = mem.app_pid /\ mem'.nonce = mem.nonce /\ mem'.steps = mem.steps
      /\ mem'.stage = mem.stage /\ mem'.completed = mem.completed /\ mem'.failed = mem.failed
<1>1. Shared /\ \/ device'.drive = device.drive
                \/ device'.drive = "bad"
                \/ device'.drive = "running" /\ device.drive = "off"
  BY TogetherMain
<1>2. TogetherTypes'
  BY <1>1 DEF TogetherTypes
<1>3. ASSUME NEW k, TogetherAt(k) PROVE TogetherAt(k)'
  BY <1>1, <1>3 DEF TogetherAt, TogetherWithin, TogetherCounts
<1> HIDE DEF Shared
<1>4. device'.drive # "bad" /\ device.drive # "bad" /\ ~mem.failed => TogetherAt(device.next)'
  <2> SUFFICES ASSUME device'.drive # "bad" /\ device.drive # "bad" /\ ~mem.failed
               PROVE  TogetherAt(device.next)'
    OBVIOUS
  <2>1. PICK k \in 1..7 : k = device.next
    BY DEF TogetherStages
  <2>2. TogetherAt(k)
    BY <2>1 DEF TogetherStages
  <2>3. TogetherAt(k)' /\ k = device'.next
    BY <1>1, <1>3, <2>1, <2>2 DEF Shared
  <2>4. QED
    BY <2>3 DEF TogetherAt
<1>5. TogetherStages'
  BY <1>1, <1>4 DEF TogetherStages, Shared
<1>6. QED
  BY <1>2, <1>5

(* An operation of the main thread's try block that does not raise.        *)
LEMMA TogetherEffects ==
  ASSUME TogetherTypes, mode = "run", TogetherFocus!Runner, errors' = FALSE,
         todo # <<>> => Head(todo) \in TogetherTry
  PROVE  \/ mode' = "cleanup" /\ todo = <<>> /\ device'.drive = device.drive
         \/ /\ mode' = "run" /\ todo # <<>> /\ todo' = <<>> \o Tail(todo)
            /\ device'.drive = IF Head(todo) = "serve" THEN "running" ELSE device.drive
            /\ Head(todo) = "drive" => device.drive = "ok"
            /\ Head(todo) = "journey" => ~mem.failed
<1>1. \/ TogetherFocus!Prepare \/ TogetherFocus!Install("helper")
      \/ TogetherFocus!Install("observer") \/ TogetherFocus!InstallApp
      \/ TogetherFocus!Serve \/ TogetherFocus!Drive \/ TogetherFocus!Journey
      \/ TogetherFocus!EnterFinally(TogetherFocus!CLEANUP) /\ UNCHANGED <<device, mem, seen>>
  BY DEF TogetherTry, TogetherFocus!Runner, TogetherFocus!StopDrive,
     TogetherFocus!CloseServer, TogetherFocus!AvdAgain, TogetherFocus!StopHelper,
     TogetherFocus!Uninstall, TogetherFocus!Report, TogetherFocus!Now
<1> USE DEF TogetherTypes, TogetherFocus!Require, TogetherFocus!ReturnOrFail, TogetherFocus!Return,
     TogetherFocus!Call, TogetherFocus!Raise, TogetherFocus!RaiseOut, TogetherFocus!Running, TogetherFocus!Now
<1>2. CASE \/ TogetherFocus!Prepare \/ TogetherFocus!InstallApp \/ TogetherFocus!Journey
           \/ TogetherFocus!EnterFinally(TogetherFocus!CLEANUP) /\ UNCHANGED <<device, mem, seen>>
  BY <1>2 DEF TogetherFocus!Prepare, TogetherFocus!InstallApp, TogetherFocus!Journey,
     TogetherFocus!EnterFinally
<1>3. CASE TogetherFocus!Install("helper") \/ TogetherFocus!Install("observer")
  BY <1>3 DEF TogetherFocus!Install
<1>4. CASE TogetherFocus!Serve
  BY <1>4 DEF TogetherFocus!Serve
<1>5. CASE TogetherFocus!Drive
  BY <1>5 DEF TogetherFocus!Drive
<1>6. QED
  BY <1>1, <1>2, <1>3, <1>4, <1>5

LEMMA TogetherRaises ==
  ASSUME mode = "run", errors = FALSE, TogetherFocus!Next, errors' # FALSE
  PROVE  mode' # "run" /\ errors' = TRUE
<1>1. CASE TogetherFocus!Runner
  BY <1>1 DEF TogetherFocus!Runner, TogetherFocus!Prepare, TogetherFocus!Install,
     TogetherFocus!InstallApp, TogetherFocus!Serve, TogetherFocus!Drive, TogetherFocus!Journey,
     TogetherFocus!StopDrive, TogetherFocus!CloseServer, TogetherFocus!AvdAgain,
     TogetherFocus!StopHelper, TogetherFocus!Uninstall, TogetherFocus!EnterFinally,
     TogetherFocus!Report, TogetherFocus!EndHelper, TogetherFocus!Now, TogetherFocus!Require,
     TogetherFocus!ReturnOrFail, TogetherFocus!Return, TogetherFocus!Call, TogetherFocus!Raise,
     TogetherFocus!RaiseOut, TogetherFocus!ReturnUnheeded, TogetherFocus!Running
<1>2. CASE TogetherFocus!Handler \/ TogetherFocus!Environment
  BY <1>2 DEF TogetherFocus!Handler, TogetherFocus!Environment, TogetherFocus!Accept,
     TogetherFocus!StageFails, TogetherFocus!Foreground, TogetherFocus!Warm,
     TogetherFocus!EarlyAcquire, TogetherFocus!Acquire, TogetherFocus!Release,
     TogetherFocus!Paused, TogetherFocus!Needs, TogetherFocus!Complete, TogetherFocus!EndStage,
     TogetherFocus!EndHelper, TogetherFocus!Latch, TogetherFocus!Advanced, TogetherFocus!Goes,
     TogetherFocus!control, TogetherFocus!Step, TogetherFocus!Stage, TogetherFocus!Grant,
     TogetherFocus!Post, TogetherFocus!Reply, TogetherFocus!GiveUp, TogetherFocus!JourneyEnds,
     TogetherFocus!AppPauses, TogetherFocus!AppMisbehaves, TogetherFocus!Goes,
     TogetherFocus!control
<1>3. QED
  BY <1>1, <1>2 DEF TogetherFocus!Next

(* The handler thread, the journey and the app leave the main thread where *)
(* it is, and the journey's success as it is.                              *)
LEMMA TogetherBeside ==
  ASSUME TogetherPassing, TogetherFocus!Handler \/ TogetherFocus!Environment
  PROVE  TogetherPassing'
<1>1. /\ TogetherTypes' /\ TogetherStages' /\ UNCHANGED <<todo, mode, errors, failed>>
      /\ device.drive = "off" => device'.drive = "off"
      /\ device.drive = "ok" => device'.drive = "ok" /\ mem'.failed = mem.failed
  <2>1. CASE TogetherFocus!Environment
    BY <2>1, TogetherEnvironment DEF TogetherPassing
  <2>2. CASE TogetherFocus!Handler
    <3>1. TogetherTypes' /\ TogetherStages'
      BY <2>2, TogetherHandlerTypes, TogetherHandlerAgrees DEF TogetherPassing
    <3>2. UNCHANGED <<todo, mode, errors, failed>> /\ device'.drive = device.drive
          /\ (mem.steps # <<>> \/ device.request # "none")
      BY <2>2 DEF TogetherFocus!Handler, TogetherFocus!Accept, TogetherFocus!StageFails,
         TogetherFocus!Foreground, TogetherFocus!Warm, TogetherFocus!EarlyAcquire,
         TogetherFocus!Acquire, TogetherFocus!Release, TogetherFocus!Paused, TogetherFocus!Needs,
         TogetherFocus!Complete, TogetherFocus!EndStage, TogetherFocus!EndHelper,
         TogetherFocus!Latch, TogetherFocus!Advanced, TogetherFocus!Goes, TogetherFocus!control,
         TogetherFocus!Step, TogetherFocus!Stage, TogetherFocus!Grant, TogetherPassing,
         TogetherTypes
    <3>3. device.drive = "ok" => mem.steps = <<>> /\ device.request = "none"
      BY DEF TogetherPassing, TogetherStages
    <3>4. QED
      BY <3>1, <3>2, <3>3
  <2>3. QED
    BY <2>1, <2>2
<1>2. ASSUME NEW d \in 0..7, TogetherSoFar(d) PROVE TogetherSoFar(d)'
  BY <1>1, <1>2 DEF TogetherSoFar
<1>3. CASE mode = "run"
  <2>1. PICK d \in 0..7 : todo = After(TogetherFocus!Program, d) /\ TogetherSoFar(d)
    BY <1>3 DEF TogetherPassing
  <2>2. TogetherSoFar(d)' /\ todo' = After(TogetherFocus!Program, d)
    BY <1>1, <1>2, <2>1
  <2>3. QED
    BY <1>1, <1>3, <2>2 DEF TogetherPassing, After
<1>4. CASE mode # "run"
  BY <1>1, <1>2, <1>4 DEF TogetherPassing
<1>5. QED
  BY <1>3, <1>4

(* A step of the main thread.                                              *)
LEMMA TogetherPassingRuns ==
  ASSUME TogetherPassing, mode = "run", TogetherFocus!Runner
  PROVE  TogetherPassing'
<1> DEFINE P == TogetherFocus!Program
<1>1. PICK d \in 0..7 : todo = After(P, d) /\ TogetherSoFar(d)
  BY DEF TogetherPassing
<1>2. TogetherTypes /\ TogetherStages /\ errors = FALSE
  BY DEF TogetherPassing
<1>3. P \in Seq(TogetherTry) /\ Len(P) = 7 /\ d \in 0..Len(P)
  BY TogetherProgram
<1>4. ASSUME mode' = "run", errors' = FALSE, NEW e \in 0..7, todo' = After(P, e), TogetherSoFar(e)',
             TogetherTypes', TogetherStages'
      PROVE  TogetherPassing'
  BY <1>4 DEF TogetherPassing, After
<1> HIDE DEF P
<1>5. todo # <<>> =>
        /\ d + 1 \in 1..7 /\ d + 1 \in 0..7 /\ Head(todo) = P[d + 1] /\ Head(todo) \in TogetherTry
        /\ <<>> \o Tail(todo) = After(P, d + 1)
  BY <1>1, <1>3, ProgramHead
<1>6. todo # <<>> => /\ Head(todo) = "serve" <=> d = 4
                     /\ Head(todo) = "drive" <=> d = 5
                     /\ Head(todo) = "journey" <=> d = 6
  BY <1>5, TogetherProgram DEF P
<1>7. TogetherTypes' /\ TogetherStages'
  <2>1. TogetherFocus!Now("serve") => device.drive = "off"
    BY <1>1, <1>6 DEF TogetherFocus!Now, TogetherSoFar
  <2>2. QED
    BY <1>2, <2>1, TogetherMainAgrees
<1>8. CASE errors' # FALSE
  <2>1. mode' # "run" /\ errors' = TRUE
    BY <1>2, <1>8, TogetherRaises DEF TogetherFocus!Next
  <2>2. QED
    BY <1>7, <2>1 DEF TogetherPassing
<1>9. CASE errors' = FALSE /\ mode' = "cleanup" /\ todo = <<>> /\ device'.drive = device.drive
  <2>1. d = 7
    BY <1>1, <1>3, <1>9, ProgramEnds
  <2>2. mem'.failed = mem.failed
    BY <1>2, TogetherMain
  <2>3. QED
    BY <1>1, <1>7, <1>9, <2>1, <2>2 DEF TogetherPassing, TogetherSoFar
<1>10. CASE /\ errors' = FALSE /\ mode' = "run" /\ todo # <<>> /\ todo' = <<>> \o Tail(todo)
            /\ device'.drive = IF Head(todo) = "serve" THEN "running" ELSE device.drive
            /\ Head(todo) = "drive" => device.drive = "ok"
            /\ Head(todo) = "journey" => ~mem.failed
  <2>1. mem'.failed = mem.failed
    BY <1>2, TogetherMain
  <2>2. TogetherSoFar(d + 1)'
    BY <1>1, <1>6, <1>10, <2>1 DEF TogetherSoFar
  <2>3. QED
    BY <1>4, <1>5, <1>7, <1>10, <2>2
<1>11. QED
  BY <1>2, <1>5, <1>8, <1>9, <1>10, TogetherEffects

LEMMA TogetherPassingCleans ==
  ASSUME TogetherPassing, TogetherUndone, mode # "run", TogetherFocus!Runner
  PROVE  TogetherPassing'
<1>1. todo # <<>> => Head(todo) \in {"stop-drive", "close-server", "avd-again", "stop-helper",
                                     "remove-helper", "remove-observer"}
  <2> DEFINE C == TogetherFocus!CLEANUP
  <2>1. C \in Seq({"stop-drive", "close-server", "avd-again", "stop-helper",
                   "remove-helper", "remove-observer"}) /\ Undoing(C)
    BY TogetherCleanup DEF TogetherUndone
  <2> HIDE DEF C
  <2>2. QED
    BY <2>1, UndoingParts, ElementOfSeq
<1>2. ~TogetherFocus!Now("serve")
  BY <1>1 DEF TogetherFocus!Now
<1>3. TogetherTypes' /\ TogetherStages'
  BY <1>2, TogetherMainAgrees DEF TogetherPassing
<1>4. mode' # "run" /\ (errors' = errors \/ errors' = TRUE)
  BY <1>1 DEF TogetherFocus!Runner, TogetherFocus!Prepare, TogetherFocus!Install,
     TogetherFocus!InstallApp, TogetherFocus!Serve, TogetherFocus!Drive, TogetherFocus!Journey,
     TogetherFocus!StopDrive, TogetherFocus!CloseServer, TogetherFocus!AvdAgain,
     TogetherFocus!StopHelper, TogetherFocus!Uninstall, TogetherFocus!EnterFinally,
     TogetherFocus!Report, TogetherFocus!EndHelper, TogetherFocus!Now, TogetherFocus!Require,
     TogetherFocus!ReturnOrFail, TogetherFocus!Return, TogetherFocus!Call, TogetherFocus!Raise,
     TogetherFocus!RaiseOut, TogetherFocus!ReturnUnheeded, TogetherFocus!Running
<1>5. mem'.failed = mem.failed /\ (device.drive = "ok" => device'.drive = "ok")
  BY <1>2, TogetherMain DEF TogetherPassing
<1>6. QED
  BY <1>3, <1>4, <1>5 DEF TogetherPassing, TogetherSoFar

LEMMA TogetherPassingInit ==
  ASSUME TogetherFocus!Init
  PROVE  TogetherPassing
<1> DEFINE P == TogetherFocus!Program
<1>1. todo = P /\ mode = "run" /\ errors = FALSE
  BY DEF TogetherFocus!Init, TogetherFocus!Start
<1>2. P \in Seq(TogetherTry)
  BY TogetherProgram
<1>3. After(P, 0) = P
  BY <1>2, AfterNone
<1>4. TogetherTypes
  BY DEF TogetherFocus!Init, TogetherTypes, TogetherNames
<1>5. TogetherWithin(1, 0)
  BY DEF TogetherWithin, TogetherCounts, TogetherFocus!Init, TogetherDone, TogetherCommands,
     TogetherRequests, TogetherPid
<1>6. TogetherStages /\ TogetherSoFar(0)
  BY <1>5 DEF TogetherFocus!Init, TogetherStages, TogetherAt, TogetherSoFar
<1>7. QED
  BY <1>1, <1>3, <1>4, <1>6 DEF TogetherPassing

LEMMA TogetherPassingEarned ==
  ASSUME TogetherPassing, mode # "run", ~errors
  PROVE  TogetherFocus!Earned
<1>1. /\ device.drive = "ok" /\ ~mem.failed /\ device.next = 7
      /\ mem.steps = <<>> /\ TogetherAt(7)
  BY DEF TogetherPassing, TogetherSoFar, TogetherStages
<1>2. TogetherCounts(6, 3, 3, 1)
  BY <1>1 DEF TogetherAt, TogetherWithin, TogetherDone, TogetherCommands, TogetherRequests,
     TogetherPid
<1>3. Len(seen.rows) = 6 /\ DOMAIN seen.rows = 1..6 /\ DOMAIN seen.grants = 1..3
  BY <1>2 DEF TogetherCounts, TogetherPassing, TogetherTypes
<1>4. [i \in DOMAIN seen.rows |-> seen.rows[i].stage] = TogetherFocus!STAGES
  <2>1. \A i \in 1..6 : seen.rows[i].stage = TogetherFocus!STAGES[i]
    BY <1>2 DEF TogetherCounts
  <2>2. TogetherFocus!STAGES = [i \in 1..6 |-> TogetherFocus!STAGES[i]]
    BY DEF TogetherFocus!STAGES
  <2>3. QED
    BY <1>3, <2>1, <2>2
<1>5. QED
  BY <1>1, <1>2, <1>3, <1>4 DEF TogetherFocus!Earned, TogetherCounts

-----------------------------------------------------------------------------
(* The verdict of the lifecycle runner.                                    *)

LifecycleFields ==
  /\ {"app", "next", "window", "screen", "playing", "position", "history", "owned"}
       \subseteq DOMAIN device
  /\ {"cleanup_authorized", "recording", "recoveries", "onboarded", "timeouts",
      "before_home_pid", "new_pid", "age", "samples"} \subseteq DOMAIN mem
  /\ {"taps", "pids", "background"} \subseteq DOMAIN seen
  /\ device.app \in Nat /\ device.next \in Nat /\ device.playing \in BOOLEAN
  /\ device.position \in Nat /\ device.history \in Nat
  /\ mem.samples \in [Lifecycle!SamplePhases -> Nat] /\ mem.age \in Int
  /\ seen.background \in Nat

(* The processes after d operations, if none raised.  The player is not on *)
(* the screen of another process than the one before HOME until its card   *)
(* is tapped, and from then on only the new process is there.              *)
LifecycleProcesses(d) ==
  /\ device.app < device.next
  /\ d < 1 => device.app = 0
  /\ d >= 1 => mem.cleanup_authorized
  /\ d < 5 => ~device.playing /\ device.screen # "player"
  /\ d < 35 /\ device.playing => device.screen = "player" /\ device.app # 0
  /\ d \in 6..34 /\ device.screen = "player" => device.app # 0
  /\ d >= 4 => device.window # "anr"
  /\ d \in 4..14 \cup 17..28 /\ device.app # 0 => device.window = "app"
  /\ d < 13 => mem.before_home_pid = 0
  /\ d >= 13 => mem.before_home_pid \in Nat \ {0} /\ mem.before_home_pid < device.next
  /\ d \in 13..34 /\ device.screen = "player" => device.app = mem.before_home_pid
  /\ d >= 31 /\ d < 34 => device.app # mem.before_home_pid
  /\ d >= 34 => mem.new_pid \notin {0, mem.before_home_pid} /\ device.app \in {0, mem.new_pid}
  /\ d < 14 => seen.pids = {}
  /\ d \in 14..35 => seen.pids = {mem.before_home_pid}
  /\ d >= 36 => seen.pids = {mem.before_home_pid, mem.new_pid}

(* What played in the background has moved the position that is compared.  *)
LifecyclePlayed(d) ==
  LET left == mem.samples["04-pre-home-playing"] + mem.age + seen.background
  IN /\ d < 27 => mem.samples["09-saved-paused"] = 0
     /\ d >= 28 => mem.samples["09-saved-paused"] > 0
     /\ d < 15 => seen.background = 0
     /\ d \in 15..17 /\ device.screen = "player" => device.position >= left
     /\ d = 18 => mem.samples["05-foreground-paused"] >= left
     /\ d >= 19 => seen.background <= Tolerance

LifecycleSoFar(d) == LifecycleProcesses(d) /\ LifecyclePlayed(d)

(* Before the review the runner may recover, or pass the first page.       *)
LifecyclePassing ==
  /\ mode = "run" =>
       /\ errors = FALSE /\ LifecycleFields
       /\ \E d \in 0..45 :
            /\ LifecycleSoFar(d)
            /\ \/ todo = After(Lifecycle!Program, d)
               \/ d = 3 /\ \E op \in {"recover", "tap-continue"} :
                             todo = <<op>> \o After(Lifecycle!Program, d)
  /\ mode # "run" /\ ~errors => {"before_home_pid", "new_pid"} \subseteq DOMAIN mem /\ Lifecycle!Earned

LEMMA LifecycleProgram ==
  Lifecycle!Program \in Seq(LifecycleTry) /\ Len(Lifecycle!Program) = 45
BY DEF Lifecycle!Program, LifecycleTry, Lifecycle!SamplePhases, Lifecycle!PlayingPhases,
   Lifecycle!PausedPhases, Lifecycle!Verdicts

(* Where the operations stand that the verdict rests on.                   *)
LEMMA LifecycleSteps ==
  ASSUME NEW i \in 1..45
  PROVE  LET op == Lifecycle!Program[i]
         IN /\ op = "prepare" <=> i = 1
            /\ op = "share" <=> i = 3
            /\ op = "review" <=> i = 4
            /\ op = "open" <=> i = 5
            /\ i = 6 => op = "02-loaded-paused"
            /\ op = "before-home-pid" <=> i = 13
            /\ op = "04-pre-home-playing" <=> i = 14
            /\ op = "home" <=> i \in {15, 29}
            /\ op = "launch-main" <=> i \in {17, 32}
            /\ op = "05-foreground-paused" <=> i = 18
            /\ op = "background-pause" <=> i = 19
            /\ op = "09-saved-paused" <=> i = 27
            /\ op = "enough-saved" <=> i = 28
            /\ op = "force-stop-app" <=> i = 31
            /\ op = "new-pid" <=> i = 34
            /\ op = "tap-card" <=> i = 35
            /\ op = "11-resumed-paused" <=> i = 36
            /\ op \in {"tap-play", "tap-pause"} => i \in {7, 22, 26, 40}
            /\ op \in Lifecycle!SamplePhases =>
                 i \in {6, 8, 9, 14, 18, 20, 23, 24, 27, 36, 38, 41, 42}
            /\ op \notin {"recover", "tap-continue"}
BY DEF Lifecycle!Program, Lifecycle!SamplePhases, Lifecycle!PlayingPhases, Lifecycle!PausedPhases

(* The first page is put before the review, which runs again after it.     *)
LEMMA LifecycleInserted ==
  ASSUME NEW op
  PROVE  <<op, "review">> \o After(Lifecycle!Program, 4) = <<op>> \o After(Lifecycle!Program, 3)
<1> DEFINE P == Lifecycle!Program
<1>1. P \in Seq(LifecycleTry) /\ Len(P) = 45 /\ 3 \in 0..Len(P) /\ 4 \in 0..Len(P)
      /\ 4 \in 1..45 /\ 3 + 1 = 4
  BY LifecycleProgram
<1>2. P[4] = "review"
  BY <1>1, LifecycleSteps
<1> HIDE DEF P
<1> DEFINE rest == After(P, 4)
           all == After(P, 3)
<1>3. rest \in Seq(LifecycleTry) /\ all \in Seq(LifecycleTry) /\ all # <<>>
  <2>1. rest \in Seq(LifecycleTry)
    BY <1>1, AfterIsSeq
  <2>2. all \in Seq(LifecycleTry) /\ Len(all) = Len(P) - 3
    BY <1>1, AfterIsSeq
  <2> HIDE DEF rest, all
  <2>3. Len(all) # 0
    BY <1>1, <2>2
  <2>4. QED
    BY <2>1, <2>2, <2>3
<1>4. Head(all) = "review" /\ Tail(all) = rest
  BY <1>1, <1>2, <1>3, AfterParts
<1> HIDE DEF rest, all
<1>5. all = <<"review">> \o rest
  BY <1>3, <1>4, HeadAndTail
<1>6. <<op, "review">> \o rest = <<op>> \o (<<"review">> \o rest)
  BY <1>3, PushTwo
<1>7. QED
  BY <1>5, <1>6 DEF P, rest, all

(* What the operation that runs now does, if it does not raise.            *)
LifecycleLaunches(op) ==
  /\ device'.app = IF device.app = 0 THEN device.next ELSE device.app
  /\ device'.next = IF device.app = 0 THEN device.next + 1 ELSE device.next
  /\ device'.window = IF device.window = "anr" THEN "anr" ELSE "app"
  /\ device'.playing = device.playing /\ device'.position = device.position
  /\ device'.screen = IF op = "share" THEN "onboarding"
                      ELSE IF device.app = 0 THEN "home" ELSE device.screen

LifecycleTouches(op) ==
  /\ device'.next = device.next
  /\ device'.app = IF op = "force-stop-app" THEN 0 ELSE device.app
  /\ \/ device'.window = device.window
     \/ op = "home" /\ device'.window = "launcher"
     \/ op = "recover" /\ device'.window = "app"
  /\ op \in {"tap-play", "tap-pause"} => (device'.playing => device.screen = "player")
  /\ op = "force-stop-app" => ~device'.playing
  /\ op \notin {"tap-play", "tap-pause", "force-stop-app"} => device'.playing = device.playing
  /\ op \in {"open", "tap-card"} => device'.screen = "player"
  /\ op = "force-stop-app" => device'.screen = "none"
  /\ op = "tap-continue" => device'.screen = "review"
  /\ op \notin {"open", "tap-card", "force-stop-app", "tap-continue"} => device'.screen = device.screen
  /\ op \notin {"tap-card", "force-stop-app"} => device'.position = device.position

LifecycleNotes(op) ==
  /\ mem'.before_home_pid = IF op = "before-home-pid" THEN device.app ELSE mem.before_home_pid
  /\ mem'.new_pid = IF op = "new-pid" THEN device.app ELSE mem.new_pid
  /\ mem'.age = IF op = "home" /\ mem.samples["09-saved-paused"] = 0
                THEN device.position - mem.samples["04-pre-home-playing"] ELSE mem.age
  /\ op \notin Lifecycle!SamplePhases => mem'.samples = mem.samples /\ seen'.pids = seen.pids
  /\ op \in Lifecycle!SamplePhases =>
       /\ mem'.samples = [mem.samples EXCEPT ![op] = device.position]
       /\ seen'.pids = IF mem.before_home_pid = 0 THEN seen.pids ELSE seen.pids \cup {device.app}
  /\ seen'.background = seen.background
  /\ op = "prepare" => mem'.cleanup_authorized
  /\ op # "prepare" => mem'.cleanup_authorized = mem.cleanup_authorized

LifecycleDemands(op) ==
  /\ op = "review" => device.window = "app"
  /\ op = "before-home-pid" => device.app # 0
  /\ op = "new-pid" => device.app \notin {0, mem.before_home_pid}
  /\ op = "background-pause" =>
       mem.samples["05-foreground-paused"] - mem.samples["04-pre-home-playing"]
         <= Tolerance + mem.age
  /\ op = "enough-saved" => mem.samples["09-saved-paused"] > 0
  /\ op \in Lifecycle!SamplePhases =>
       device.window = "app" /\ device.app # 0 /\ device.screen = "player"

LifecycleDoes(op) ==
  /\ op \in {"share", "launch-main"} => LifecycleLaunches(op)
  /\ op \notin {"share", "launch-main"} => LifecycleTouches(op)
  /\ LifecycleNotes(op) /\ LifecycleDemands(op)

(* What happens beside it.                                                 *)
LifecyclePlays ==
  /\ Head(todo) \in Lifecycle!SamplePhases \cup {"review", "history", "home", "launch-main", "tap-pause"}
  /\ device.playing /\ device'.playing /\ device'.position = device.position + 1
  /\ device'.app = device.app /\ device'.window = device.window /\ device'.screen = device.screen
  /\ seen'.background = IF device.window = "launcher" /\ mem.samples["09-saved-paused"] = 0
                        THEN seen.background + 1 ELSE seen.background

LifecycleHappens ==
  /\ mode' = "run" /\ todo' = todo /\ device'.next = device.next
  /\ mem'.before_home_pid = mem.before_home_pid /\ mem'.new_pid = mem.new_pid
  /\ mem'.cleanup_authorized = mem.cleanup_authorized
  /\ mem'.age = mem.age /\ mem'.samples = mem.samples /\ seen'.pids = seen.pids
  /\ \/ LifecyclePlays
     \/ /\ seen'.background = seen.background
        /\ \/ /\ device'.app = device.app /\ device'.screen = device.screen
              /\ device'.position = device.position /\ device'.window = device.window
              /\ device'.playing => device.playing \/ (device.screen = "player" /\ device.app # 0)
           \/ device'.app = 0 /\ ~device'.playing /\ device'.screen = "none" /\ device'.window = "launcher"
           \/ /\ todo # <<>> /\ Head(todo) = "review" /\ device'.playing = device.playing
              /\ device'.app = device.app /\ device'.screen = device.screen
              /\ device'.position = device.position

LEMMA LifecycleEffects ==
  ASSUME LifecycleFields, mode = "run", Lifecycle!Next, errors' = FALSE,
         todo # <<>> => Head(todo) \in LifecycleTry \cup {"recover"}
  PROVE  /\ LifecycleFields'
         /\ \/ mode' = "cleanup" /\ todo = <<>> /\ UNCHANGED <<device, mem, seen>>
            \/ LifecycleHappens
            \/ /\ mode' = "run" /\ todo # <<>> /\ LifecycleDoes(Head(todo)) /\ todo' = <<>> \o Tail(todo)
            \/ /\ mode' = "run" /\ todo # <<>> /\ Head(todo) = "review" /\ UNCHANGED <<device, mem, seen>>
               /\ \E op \in {"recover", "tap-continue"} : todo' = <<op, "review">> \o Tail(todo)
<1>0. ~Lifecycle!RemoveObserver /\ ~Lifecycle!ForceStop /\ ~Lifecycle!RemoveFiles /\ ~Lifecycle!Signal
  BY DEF LifecycleTry, Lifecycle!SamplePhases, Lifecycle!PlayingPhases, Lifecycle!PausedPhases,
     Lifecycle!Verdicts, Lifecycle!Require, Lifecycle!ReturnOrFail, Lifecycle!Return,
     Lifecycle!Call, Lifecycle!Raise, Lifecycle!RaiseOut, Lifecycle!Running, Lifecycle!Now,
     Lifecycle!Waiting, Lifecycle!RemoveObserver, Lifecycle!ForceStop, Lifecycle!RemoveFiles,
     Lifecycle!Signal
<1> USE DEF LifecycleFields
<1>2. CASE Lifecycle!ObservationTimesOut
  BY <1>2 DEF Lifecycle!ObservationTimesOut, LifecycleHappens, Lifecycle!Raise, Lifecycle!control
<1>3. CASE Lifecycle!Play
  <2>1. /\ Head(todo) \in Lifecycle!SamplePhases \cup {"review", "history", "home", "launch-main",
                                                     "tap-pause"}
        /\ device.playing /\ device' = [device EXCEPT !.position = @ + 1]
        /\ mode' = mode /\ todo' = todo /\ mem' = mem
    BY <1>3 DEF Lifecycle!Play, Lifecycle!control, Lifecycle!Waiting, Lifecycle!Now
  <2>2. seen' = [seen EXCEPT !.background =
                  IF device.window = "launcher" /\ mem.samples["09-saved-paused"] = 0 THEN @ + 1 ELSE @]
    BY <1>3 DEF Lifecycle!Play, Lifecycle!At
  <2>3. LifecyclePlays
    BY <2>1, <2>2 DEF LifecyclePlays
  <2>4. /\ seen'.background \in Nat /\ DOMAIN seen' = DOMAIN seen /\ seen'.pids = seen.pids
    BY <2>2
  <2>5. DOMAIN device' = DOMAIN device /\ device'.app = device.app /\ device'.next = device.next
        /\ device'.playing = device.playing /\ device'.history = device.history
        /\ device'.position = device.position + 1 /\ mem' = mem
    BY <2>1
  <2>6. LifecycleFields'
    BY <2>4, <2>5
  <2>7. QED
    BY <2>1, <2>3, <2>4, <2>5, <2>6 DEF LifecycleHappens
<1>4. CASE Lifecycle!PauseAndSave
  BY <1>4 DEF Lifecycle!PauseAndSave, LifecycleHappens, Lifecycle!control
<1>5. CASE Lifecycle!Misbehave
  <2>1. mode' = mode /\ todo' = todo /\ mem' = mem /\ seen' = seen /\ device.app # 0
    BY <1>5 DEF Lifecycle!Misbehave, Lifecycle!control
  <2>2. CASE device.screen = "player" /\ device' = [device EXCEPT !.playing = ~@]
    BY <2>1, <2>2 DEF LifecycleHappens
  <2>3. CASE device' = [device EXCEPT !.app = 0, !.playing = FALSE, !.screen = "none", !.position = 0,
                                      !.window = "launcher"]
    BY <2>1, <2>3 DEF LifecycleHappens
  <2>4. QED
    BY <1>5, <2>2, <2>3 DEF Lifecycle!Misbehave
<1>6. CASE Lifecycle!Anr
  BY <1>6 DEF Lifecycle!Anr, LifecycleHappens, Lifecycle!control, Lifecycle!Now
<1>7. CASE (Lifecycle!EnterFinally(Lifecycle!CLEANUP) \/ Lifecycle!Report) /\ Lifecycle!Unchanged
  BY <1>7 DEF Lifecycle!EnterFinally, Lifecycle!Report, Lifecycle!Unchanged
<1> USE DEF Lifecycle!Require, Lifecycle!ReturnOrFail, Lifecycle!Return, Lifecycle!Call,
     Lifecycle!Raise, Lifecycle!RaiseOut, Lifecycle!Running, Lifecycle!Now, Lifecycle!Waiting, Lifecycle!Unchanged, Lifecycle!Check
<1>8. CASE Lifecycle!WaitFails
  BY <1>8 DEF Lifecycle!WaitFails
<1> USE DEF Lifecycle!SamplePhases, Lifecycle!PlayingPhases, Lifecycle!PausedPhases
<1>9. CASE Lifecycle!Review
  BY <1>9 DEF Lifecycle!Review, LifecycleDoes, LifecycleTouches, LifecycleNotes, LifecycleDemands
<1> USE DEF LifecycleDoes, LifecycleTouches, LifecycleNotes, LifecycleDemands
<1>19. CASE Lifecycle!Prepare
  BY <1>19 DEF Lifecycle!Prepare
<1>10. CASE Lifecycle!StartRecording \/ Lifecycle!FinishRecording
  BY <1>10 DEF Lifecycle!StartRecording, Lifecycle!FinishRecording, Lifecycle!Own, Lifecycle!Drop
<1>11. CASE Lifecycle!Launch("share", "onboarding") \/ Lifecycle!Launch("launch-main", "home")
  <2>1. PICK op \in {"share", "launch-main"}, screen \in {"onboarding", "home"} :
          /\ op = "share" <=> screen = "onboarding"
          /\ Lifecycle!Launch(op, screen)
    BY <1>11
  <2>2. /\ Head(todo) = op /\ todo # <<>> /\ mem' = mem /\ seen' = seen /\ todo' = <<>> \o Tail(todo)
        /\ mode' = "run"
    BY <2>1 DEF Lifecycle!Launch
  <2>3. device' = [Lifecycle!Launched EXCEPT !.screen = IF device.app = 0 \/ op = "share"
                                                        THEN screen ELSE @]
    BY <2>1 DEF Lifecycle!Launch
  <2>4. /\ {"app", "next", "window", "screen", "playing", "position", "history", "owned"}
              \subseteq DOMAIN device'
        /\ device'.app = IF device.app = 0 THEN device.next ELSE device.app
        /\ device'.next = IF device.app = 0 THEN device.next + 1 ELSE device.next
        /\ device'.window = IF device.window = "anr" THEN "anr" ELSE "app"
        /\ device'.playing = device.playing /\ device'.position = device.position
        /\ device'.history = device.history
        /\ device'.screen = IF device.app = 0 \/ op = "share" THEN screen ELSE device.screen
    BY <2>3 DEF Lifecycle!Launched
  <2>5. LifecycleLaunches(op)
    BY <2>1, <2>4 DEF LifecycleLaunches
  <2>6. LifecycleFields'
    BY <2>2, <2>4
  <2>7. QED
    BY <2>1, <2>2, <2>5, <2>6
<1>12. ASSUME NEW op \in {"open", "tap-play", "tap-pause", "tap-card"}, Lifecycle!Tap(op)
       PROVE  LifecycleFields' /\ mode' = "run" /\ LifecycleDoes(Head(todo)) /\ todo' = <<>> \o Tail(todo)
  <2>1. Head(todo) = op /\ todo # <<>> /\ mem' = mem /\ seen' = seen /\ todo' = <<>> \o Tail(todo)
        /\ mode' = "run"
    BY <1>12 DEF Lifecycle!Tap
  <2>2. device' = CASE op = "open" -> [device EXCEPT !.screen = "player"]
                    [] op = "tap-card" -> [device EXCEPT !.screen = "player", !.position = device.history]
                    [] OTHER -> [device EXCEPT !.playing = ~@ /\ device.screen = "player"]
    BY <1>12 DEF Lifecycle!Tap
  <2>3. \/ op = "open" /\ device' = [device EXCEPT !.screen = "player"]
        \/ op = "tap-card" /\ device' = [device EXCEPT !.screen = "player", !.position = device.history]
        \/ /\ op \in {"tap-play", "tap-pause"}
           /\ device' = [device EXCEPT !.playing = ~@ /\ device.screen = "player"]
    BY <2>2
  <2>4. QED
    BY <2>1, <2>3
<1>13. CASE Lifecycle!Sample
  BY <1>13 DEF Lifecycle!Sample, Lifecycle!Shows
<1>14. CASE Lifecycle!TapContinue \/ Lifecycle!Recover
  BY <1>14 DEF Lifecycle!TapContinue, Lifecycle!Recover
<1>15. CASE Lifecycle!History \/ Lifecycle!BeforeHomePid \/ Lifecycle!NewPid
  BY <1>15 DEF Lifecycle!History, Lifecycle!BeforeHomePid, Lifecycle!NewPid
<1>16. CASE Lifecycle!GoHome
  <2> DEFINE left == mem.samples["04-pre-home-playing"]
             saved == mem.samples["09-saved-paused"]
  <2>1. /\ Head(todo) = "home" /\ todo # <<>> /\ seen' = seen /\ todo' = <<>> \o Tail(todo)
        /\ mode' = "run" /\ device' = [device EXCEPT !.window = "launcher"]
    BY <1>16 DEF Lifecycle!GoHome
  <2>2. left \in Nat
    OBVIOUS
  <2>3. mem' = [mem EXCEPT !.age = IF saved = 0 THEN device.position - left ELSE @]
    BY <1>16 DEF Lifecycle!GoHome, Lifecycle!At
  <2> HIDE DEF left, saved
  <2>4. /\ mem'.age \in Int /\ DOMAIN mem' = DOMAIN mem
        /\ mem'.age = IF saved = 0 THEN device.position - left ELSE mem.age
    BY <2>2, <2>3
  <2>5. /\ mem'.before_home_pid = mem.before_home_pid /\ mem'.new_pid = mem.new_pid
        /\ mem'.samples = mem.samples /\ mem'.cleanup_authorized = mem.cleanup_authorized
    BY <2>3
  <2>6. LifecycleFields'
    BY <2>1, <2>4, <2>5
  <2>7. QED
    BY <2>1, <2>4, <2>5, <2>6 DEF left, saved
<1>17. CASE Lifecycle!ForceStopApp
  BY <1>17 DEF Lifecycle!ForceStopApp
<1>18. ASSUME NEW op \in Lifecycle!Verdicts, Lifecycle!Check(op, Lifecycle!Verdict(op))
       PROVE  LifecycleFields' /\ mode' = "run" /\ LifecycleDoes(Head(todo)) /\ todo' = <<>> \o Tail(todo)
  <2>1. /\ Head(todo) = op /\ todo # <<>> /\ device' = device /\ mem' = mem /\ seen' = seen
        /\ todo' = <<>> \o Tail(todo) /\ mode' = "run" /\ Lifecycle!Verdict(op)
    BY <1>18
  <2>2. op = "background-pause" =>
          Lifecycle!At("05-foreground-paused") - Lifecycle!At("04-pre-home-playing")
            <= Tolerance + mem.age
    BY <2>1, Zenon DEF Lifecycle!Verdict
  <2>3. op = "enough-saved" => Lifecycle!At("09-saved-paused") > 0
    BY <2>1, Zenon DEF Lifecycle!Verdict
  <2>4. QED
    BY <2>1, <2>2, <2>3 DEF Lifecycle!At, Lifecycle!Verdicts
<1>20. QED
  BY <1>0, <1>2, <1>3, <1>4, <1>5, <1>6, <1>7, <1>8, <1>9, <1>10, <1>11, <1>12, <1>13, <1>14, <1>15,
     <1>16, <1>17, <1>18, <1>19 DEF Lifecycle!Next, Lifecycle!Runner, Lifecycle!Tap

LEMMA LifecycleRaises ==
  ASSUME mode = "run", errors = FALSE, Lifecycle!Next, errors' # FALSE
  PROVE  mode' # "run" /\ errors' = TRUE
BY DEF Lifecycle!Next, Lifecycle!Runner, Lifecycle!Check, Lifecycle!Prepare,
   Lifecycle!StartRecording, Lifecycle!FinishRecording, Lifecycle!Launch, Lifecycle!Launched,
   Lifecycle!Tap, Lifecycle!WaitFails, Lifecycle!Sample, Lifecycle!Review, Lifecycle!TapContinue,
   Lifecycle!Recover, Lifecycle!History, Lifecycle!BeforeHomePid, Lifecycle!GoHome,
   Lifecycle!ForceStopApp, Lifecycle!NewPid, Lifecycle!RemoveObserver, Lifecycle!ForceStop,
   Lifecycle!RemoveFiles, Lifecycle!ObservationTimesOut, Lifecycle!Signal, Lifecycle!Play,
   Lifecycle!PauseAndSave, Lifecycle!Misbehave, Lifecycle!Anr, Lifecycle!Unchanged,
   Lifecycle!EnterFinally, Lifecycle!Report, Lifecycle!control, Lifecycle!Own, Lifecycle!Drop,
   Lifecycle!Require, Lifecycle!ReturnOrFail, Lifecycle!Return, Lifecycle!Call, Lifecycle!Raise,
   Lifecycle!RaiseOut, Lifecycle!ReturnUnheeded, Lifecycle!Running, Lifecycle!Now, Lifecycle!Waiting

(* What happens beside an operation.                                       *)
LEMMA LifecycleSoFarBeside ==
  ASSUME LifecycleFields, LifecycleFields', NEW d \in 0..45, LifecycleSoFar(d), LifecycleHappens,
         d = 18 => Head(todo) = "background-pause",
         todo # <<>> /\ Head(todo) = "review" => d = 3
  PROVE  LifecycleSoFar(d)'
<1> USE DEF LifecycleFields, LifecycleSoFar
<1>1. LifecycleProcesses(d)'
  BY DEF LifecycleProcesses, LifecycleHappens, LifecyclePlays
<1>2. CASE LifecyclePlays
  <2>1. d # 18
    BY <1>2 DEF LifecyclePlays, Lifecycle!SamplePhases, Lifecycle!PlayingPhases,
       Lifecycle!PausedPhases
  <2>2. d < 15 => device.window # "launcher"
    BY <1>2 DEF LifecyclePlays, LifecycleProcesses
  <2>3. d \in 19..27 => device.window # "launcher"
    BY <1>2 DEF LifecyclePlays, LifecycleProcesses
  <2>4. d >= 28 => mem.samples["09-saved-paused"] # 0
    BY DEF LifecyclePlayed
  <2>5. /\ seen'.background = seen.background \/ (d \in 15..17 /\ seen'.background = seen.background + 1)
        /\ device'.position = device.position + 1 /\ device'.screen = device.screen
        /\ mem'.samples = mem.samples /\ mem'.age = mem.age
    <3>1. device.window = "launcher" /\ mem.samples["09-saved-paused"] = 0 => d \in 15..17
      <4> HIDE DEF LifecycleFields, LifecycleSoFar
      <4>1. d \in 0..14 \/ d \in 15..17 \/ d \in 19..27 \/ d >= 28
        BY <2>1
      <4>2. QED
        BY <2>2, <2>3, <2>4, <4>1
    <3>2. /\ seen'.background = IF device.window = "launcher" /\ mem.samples["09-saved-paused"] = 0
                                THEN seen.background + 1 ELSE seen.background
          /\ device'.position = device.position + 1 /\ device'.screen = device.screen
      BY <1>2 DEF LifecyclePlays
    <3>3. mem'.samples = mem.samples /\ mem'.age = mem.age
      BY DEF LifecycleHappens
    <3>4. QED
      BY <3>1, <3>2, <3>3
  <2>6. /\ mem.samples["04-pre-home-playing"] \in Nat /\ mem.samples["05-foreground-paused"] \in Nat
    BY DEF Lifecycle!SamplePhases, Lifecycle!PlayingPhases, Lifecycle!PausedPhases
  <2>7. LifecyclePlayed(d)'
    BY <2>5, <2>6 DEF LifecyclePlayed
  <2>8. QED
    BY <1>1, <2>7
<1>3. CASE ~LifecyclePlays
  <2>1. LifecyclePlayed(d)'
    BY <1>3 DEF LifecyclePlayed, LifecycleHappens
  <2>2. QED
    BY <1>1, <2>1
<1>4. QED
  BY <1>2, <1>3

(* The next operation, which returns.                                      *)
LEMMA LifecycleSoFarNext ==
  ASSUME LifecycleFields, LifecycleFields', NEW d \in 0..44, LifecycleSoFar(d),
         LifecycleDoes(Lifecycle!Program[d + 1])
  PROVE  LifecycleSoFar(d + 1)'
<1> DEFINE op == Lifecycle!Program[d + 1]
           S == Lifecycle!SamplePhases
<1> USE DEF LifecycleFields, LifecycleSoFar
<1>1. /\ op = "prepare" <=> d = 0
      /\ op = "share" <=> d = 2
      /\ op = "review" <=> d = 3
      /\ op = "open" <=> d = 4
      /\ d = 5 => op = "02-loaded-paused"
      /\ op = "before-home-pid" <=> d = 12
      /\ op = "04-pre-home-playing" <=> d = 13
      /\ op = "home" <=> d \in {14, 28}
      /\ op = "launch-main" <=> d \in {16, 31}
      /\ op = "05-foreground-paused" <=> d = 17
      /\ op = "background-pause" <=> d = 18
      /\ op = "09-saved-paused" <=> d = 26
      /\ op = "enough-saved" <=> d = 27
      /\ op = "force-stop-app" <=> d = 30
      /\ op = "new-pid" <=> d = 33
      /\ op = "tap-card" <=> d = 34
      /\ op = "11-resumed-paused" <=> d = 35
      /\ op \in {"tap-play", "tap-pause"} => d \in {6, 21, 25, 39}
      /\ op \in S => d \in {5, 7, 8, 13, 17, 19, 22, 23, 26, 35, 37, 40, 41}
      /\ op \notin {"recover", "tap-continue"}
  BY LifecycleSteps
<1>2. /\ "02-loaded-paused" \in S /\ "04-pre-home-playing" \in S /\ "05-foreground-paused" \in S
      /\ "09-saved-paused" \in S /\ "11-resumed-paused" \in S
  BY DEF Lifecycle!SamplePhases, Lifecycle!PlayingPhases, Lifecycle!PausedPhases
<1>3. LifecycleDoes(op)
  OBVIOUS
<1> HIDE DEF op, S
<1>4. LifecycleNotes(op) /\ LifecycleDemands(op)
  BY <1>3 DEF LifecycleDoes
<1>5. CASE op \in {"share", "launch-main"}
  <2>1. LifecycleLaunches(op)
    BY <1>3, <1>5 DEF LifecycleDoes
  <2>2. d \in {2, 16, 31} /\ op \notin S
    BY <1>1, <1>5
  <2>3. LifecycleProcesses(d + 1)'
    BY <1>1, <1>4, <2>1, <2>2 DEF LifecycleProcesses, LifecycleLaunches, LifecycleNotes, S
  <2>4. LifecyclePlayed(d + 1)'
    BY <1>1, <1>4, <2>1, <2>2 DEF LifecyclePlayed, LifecycleLaunches, LifecycleNotes, S
  <2>5. QED
    BY <2>3, <2>4
<1>6. CASE op \notin {"share", "launch-main"} /\ op \notin S
  <2>1. LifecycleTouches(op)
    BY <1>3, <1>6 DEF LifecycleDoes
  <2>2. /\ mem'.samples = mem.samples /\ seen'.pids = seen.pids /\ seen'.background = seen.background
        /\ d \notin {5, 13, 17, 26, 35} /\ op \notin {"recover", "tap-continue"}
    BY <1>1, <1>2, <1>4, <1>6 DEF LifecycleNotes, S
  <2>3. /\ mem.samples["04-pre-home-playing"] \in Nat /\ mem.samples["05-foreground-paused"] \in Nat
        /\ mem.samples["09-saved-paused"] \in Nat
    BY DEF Lifecycle!SamplePhases, Lifecycle!PlayingPhases, Lifecycle!PausedPhases
  <2>4. LifecyclePlayed(d + 1)'
    <3>1. CASE op = "home"
      BY <1>1, <1>4, <2>1, <2>2, <2>3, <3>1 DEF LifecyclePlayed, LifecycleTouches, LifecycleNotes
    <3>2. CASE op \in {"open", "tap-card", "force-stop-app"}
      BY <1>1, <1>4, <2>2, <2>3, <3>2 DEF LifecyclePlayed, LifecycleNotes
    <3>3. CASE op \notin {"home", "open", "tap-card", "force-stop-app"}
      <4>1. /\ mem'.age = mem.age /\ device'.screen = device.screen /\ device'.position = device.position
            /\ d \notin {14, 28, 4, 34, 30}
        BY <1>1, <1>4, <2>1, <2>2, <3>3 DEF LifecycleNotes, LifecycleTouches
      <4>2. d = 18 => mem.samples["05-foreground-paused"] - mem.samples["04-pre-home-playing"]
                        <= Tolerance + mem.age
        BY <1>1, <1>4 DEF LifecycleDemands
      <4>3. d = 27 => mem.samples["09-saved-paused"] > 0
        BY <1>1, <1>4 DEF LifecycleDemands
      <4>4. d # 16 /\ d # 17
        BY <1>1, <1>6, <2>2
      <4>5. QED
        BY <2>2, <2>3, <4>1, <4>2, <4>3, <4>4, TimesAssumption DEF LifecyclePlayed
    <3>4. QED
      BY <3>1, <3>2, <3>3
  <2>5. LifecycleProcesses(d + 1)'
    <3>1. CASE op = "force-stop-app"
      BY <1>1, <1>4, <2>1, <2>2, <3>1 DEF LifecycleProcesses, LifecycleTouches, LifecycleNotes
    <3>2. CASE op \in {"open", "tap-card"}
      BY <1>1, <1>4, <2>1, <2>2, <3>2 DEF LifecycleProcesses, LifecycleTouches, LifecycleNotes
    <3>3. CASE op \in {"tap-play", "tap-pause"}
      BY <1>1, <1>4, <2>1, <2>2, <3>3 DEF LifecycleProcesses, LifecycleTouches, LifecycleNotes
    <3>4. CASE op = "home"
      BY <1>1, <1>4, <2>1, <2>2, <3>4 DEF LifecycleProcesses, LifecycleTouches, LifecycleNotes
    <3>5. CASE op \notin {"force-stop-app", "open", "tap-card", "tap-play", "tap-pause", "home"}
      <4>1. /\ device'.app = device.app /\ device'.next = device.next /\ device'.window = device.window
            /\ device'.screen = device.screen /\ device'.playing = device.playing
            /\ d \notin {4, 14, 28, 30, 34, 16, 31}
        BY <1>1, <1>6, <2>1, <2>2, <3>5 DEF LifecycleTouches
      <4>2. /\ mem'.before_home_pid = IF d = 12 THEN device.app ELSE mem.before_home_pid
            /\ mem'.new_pid = IF d = 33 THEN device.app ELSE mem.new_pid
            /\ d = 3 => device.window = "app"
            /\ d = 12 => device.app # 0
            /\ d = 33 => device.app \notin {0, mem.before_home_pid}
            /\ d = 0 => mem'.cleanup_authorized
            /\ d # 0 => mem'.cleanup_authorized = mem.cleanup_authorized
        BY <1>1, <1>4 DEF LifecycleNotes, LifecycleDemands
      <4>3. QED
        BY <2>2, <4>1, <4>2 DEF LifecycleProcesses
    <3>6. QED
      BY <3>1, <3>2, <3>3, <3>4, <3>5
  <2>6. QED
    BY <2>4, <2>5
<1>7. CASE op \in S
  <2>0. op \notin {"share", "launch-main", "open", "tap-card", "force-stop-app", "tap-continue",
                   "home", "recover", "tap-play", "tap-pause", "before-home-pid", "new-pid",
                   "background-pause", "enough-saved"}
    BY <1>7 DEF S, Lifecycle!SamplePhases, Lifecycle!PlayingPhases, Lifecycle!PausedPhases
  <2>1. LifecycleTouches(op)
    BY <1>3, <2>0 DEF LifecycleDoes
  <2>2. LifecycleProcesses(d + 1)'
    BY <1>1, <1>2, <1>4, <1>7, <2>0, <2>1
       DEF LifecycleProcesses, LifecycleTouches, LifecycleNotes, LifecycleDemands, S
  <2>3. LifecyclePlayed(d + 1)'
    BY <1>1, <1>2, <1>4, <1>7, <2>0, <2>1 DEF LifecyclePlayed, LifecycleProcesses,
       LifecycleTouches, LifecycleNotes, LifecycleDemands, S
  <2>4. QED
    BY <2>2, <2>3
<1>8. QED
  BY <1>5, <1>6, <1>7

(* A step of the try block that does not raise.                            *)
LEMMA LifecyclePassingRuns ==
  ASSUME LifecyclePassing, mode = "run", Lifecycle!Next, errors' = FALSE
  PROVE  LifecyclePassing'
<1> DEFINE P == Lifecycle!Program
<1>1. PICK d \in 0..45 :
        /\ LifecycleSoFar(d)
        /\ \/ todo = After(P, d)
           \/ d = 3 /\ \E op \in {"recover", "tap-continue"} : todo = <<op>> \o After(P, d)
  BY DEF LifecyclePassing
<1>2. LifecycleFields /\ errors = FALSE
  BY DEF LifecyclePassing
<1>3. P \in Seq(LifecycleTry) /\ Len(P) = 45 /\ d \in 0..Len(P)
  BY LifecycleProgram
<1>4. ASSUME mode' = "run", LifecycleFields', NEW e \in 0..45, LifecycleSoFar(e)',
             \/ todo' = After(P, e)
             \/ e = 3 /\ \E op \in {"recover", "tap-continue"} : todo' = <<op>> \o After(P, e)
      PROVE  LifecyclePassing'
  BY <1>4 DEF LifecyclePassing, After, Lifecycle!Program
<1>5. P[19] = "background-pause"
  BY LifecycleSteps
<1>6. \A i \in 1..45 : P[i] = "review" <=> i = 4
  BY LifecycleSteps
<1>7. \A i \in 1..45 : P[i] \notin {"recover", "tap-continue"}
  BY LifecycleSteps
<1>8. <<"recover", "review">> \o After(P, 4) = <<"recover">> \o After(P, 3)
      /\ <<"tap-continue", "review">> \o After(P, 4) = <<"tap-continue">> \o After(P, 3)
  BY LifecycleInserted
<1>9. ASSUME d \in 0..44, LifecycleFields', LifecycleDoes(P[d + 1])
      PROVE  LifecycleSoFar(d + 1)'
  BY <1>1, <1>2, <1>9, LifecycleSoFarNext
<1> HIDE DEF P
<1>10. CASE todo = After(P, d)
  <2>1. todo # <<>> =>
          /\ d + 1 \in 1..45 /\ d \in 0..44 /\ d + 1 \in 0..45 /\ Head(todo) = P[d + 1]
          /\ Head(todo) \in LifecycleTry
          /\ Tail(todo) = After(P, d + 1) /\ <<>> \o Tail(todo) = After(P, d + 1)
    <3>1. todo # <<>> =>
            /\ d + 1 \in 1..Len(P) /\ Head(todo) = P[d + 1] /\ Head(todo) \in LifecycleTry
            /\ Tail(todo) = After(P, d + 1) /\ <<>> \o Tail(todo) = Tail(todo)
      BY <1>3, <1>10, ProgramHead
    <3>2. d + 1 \in 1..45 => d \in 0..44 /\ d + 1 \in 0..45
      OBVIOUS
    <3>3. QED
      BY <1>3, <3>1, <3>2
  <2>2. LifecycleFields'
    BY <1>2, <2>1, LifecycleEffects
  <2>3. CASE mode' = "cleanup" /\ todo = <<>> /\ UNCHANGED <<device, mem, seen>>
    <3>1. d = 45
      BY <1>3, <1>10, <2>3, ProgramEnds
    <3>2. Lifecycle!Earned
      BY <1>1, <3>1 DEF LifecycleSoFar, LifecycleProcesses, LifecyclePlayed, Lifecycle!Earned
    <3>3. QED
      BY <1>2, <2>3, <3>2 DEF LifecyclePassing, LifecycleFields, Lifecycle!Earned
  <2>4. CASE LifecycleHappens
    <3>1. todo # <<>> \/ d = 45
      BY <1>3, <1>10, ProgramEnds
    <3>2. d = 18 => Head(todo) = "background-pause"
      BY <1>5, <2>1, <3>1
    <3>3. todo # <<>> /\ Head(todo) = "review" => d = 3
      <4>1. d + 1 \in 1..45 /\ P[d + 1] = "review" => d + 1 = 4
        BY <1>6
      <4>2. QED
        BY <2>1, <4>1
    <3>4. LifecycleSoFar(d)'
      BY <1>1, <1>2, <2>2, <2>4, <3>2, <3>3, LifecycleSoFarBeside
    <3>5. QED
      BY <1>4, <1>10, <2>2, <2>4, <3>4 DEF LifecycleHappens
  <2>5. CASE /\ mode' = "run" /\ todo # <<>> /\ LifecycleDoes(Head(todo))
             /\ todo' = <<>> \o Tail(todo)
    <3>1. LifecycleSoFar(d + 1)'
      BY <1>9, <2>1, <2>2, <2>5
    <3>2. QED
      BY <1>4, <2>1, <2>2, <2>5, <3>1
  <2>6. CASE /\ mode' = "run" /\ todo # <<>> /\ Head(todo) = "review" /\ UNCHANGED <<device, mem, seen>>
             /\ \E op \in {"recover", "tap-continue"} : todo' = <<op, "review">> \o Tail(todo)
    <3>1. d = 3 /\ 3 + 1 = 4
      <4>1. d + 1 \in 1..45 /\ P[d + 1] = "review" => d + 1 = 4
        BY <1>6
      <4>2. QED
        BY <2>1, <2>6, <4>1
    <3>2. Tail(todo) = After(P, 4)
      BY <2>1, <2>6, <3>1
    <3>3. \E op \in {"recover", "tap-continue"} : todo' = <<op>> \o After(P, 3)
      BY <1>8, <2>6, <3>2
    <3>4. LifecycleSoFar(d)'
      BY <1>1, <2>6 DEF LifecycleSoFar, LifecycleProcesses, LifecyclePlayed
    <3>5. QED
      BY <1>4, <2>2, <2>6, <3>1, <3>3, <3>4
  <2>7. QED
    BY <1>2, <2>1, <2>3, <2>4, <2>5, <2>6, LifecycleEffects
<1>11. CASE d = 3 /\ \E op \in {"recover", "tap-continue"} : todo = <<op>> \o After(P, d)
  <2>1. PICK op \in {"recover", "tap-continue"} : todo = <<op>> \o After(P, d)
    BY <1>11
  <2>2. /\ todo # <<>> /\ Head(todo) = op /\ Tail(todo) = <<>> \o After(P, d)
        /\ <<>> \o Tail(todo) = After(P, d)
    <3>1. <<>> \o After(P, d) = After(P, d)
      BY <1>3, AfterIsSeq
    <3>2. QED
      BY <1>3, <2>1, <3>1, InsertedHead
  <2>3. Head(todo) \in LifecycleTry \cup {"recover"}
    BY <2>2 DEF LifecycleTry
  <2>4. LifecycleFields'
    BY <1>2, <2>3, LifecycleEffects
  <2>5. CASE LifecycleHappens
    <3>1. LifecycleSoFar(d)'
      BY <1>1, <1>2, <1>11, <2>2, <2>4, <2>5, LifecycleSoFarBeside
    <3>2. QED
      BY <1>4, <1>11, <2>1, <2>4, <2>5, <3>1 DEF LifecycleHappens
  <2>6. CASE mode' = "run" /\ LifecycleDoes(Head(todo)) /\ todo' = <<>> \o Tail(todo)
    <3>1. /\ device'.app = device.app /\ device'.next = device.next
          /\ device'.window = device.window \/ device'.window = "app"
          /\ device'.playing = device.playing
          /\ device'.screen = device.screen \/ device'.screen = "review"
      BY <2>2, <2>6 DEF LifecycleDoes, LifecycleTouches
    <3>2. op \notin Lifecycle!SamplePhases
      BY DEF Lifecycle!SamplePhases, Lifecycle!PlayingPhases, Lifecycle!PausedPhases
    <3>3. /\ mem'.before_home_pid = mem.before_home_pid /\ mem'.samples = mem.samples
          /\ seen'.pids = seen.pids /\ seen'.background = seen.background
          /\ mem'.cleanup_authorized = mem.cleanup_authorized
      BY <2>2, <2>6, <3>2 DEF LifecycleDoes, LifecycleNotes
    <3>4. LifecycleSoFar(d)'
      BY <1>1, <1>11, <3>1, <3>3 DEF LifecycleSoFar, LifecycleProcesses, LifecyclePlayed
    <3>5. QED
      BY <1>4, <2>2, <2>4, <2>6, <3>4
  <2>7. QED
    BY <1>2, <2>2, <2>3, <2>5, <2>6, LifecycleEffects
<1>12. QED
  BY <1>1, <1>10, <1>11

(* The clean-up forgets the samples, and touches nothing else of these.    *)
LEMMA LifecyclePassingCleans ==
  ASSUME LifecyclePassing, LifecycleTaps, mode # "run", Lifecycle!Next
  PROVE  LifecyclePassing'
<1>1. todo # <<>> => Head(todo) \in {"finish-recording", "remove-observer", "force-stop", "remove-files"}
  BY LifecyclePlaces DEF LifecycleTaps
<1>2. /\ mode' # "run" /\ seen'.pids = seen.pids /\ seen'.background = seen.background
      /\ (errors' = errors \/ errors' = TRUE)
      /\ {"before_home_pid", "new_pid"} \subseteq DOMAIN mem =>
           /\ {"before_home_pid", "new_pid"} \subseteq DOMAIN mem'
           /\ mem'.before_home_pid = mem.before_home_pid /\ mem'.new_pid = mem.new_pid
  BY <1>1 DEF Lifecycle!Next, Lifecycle!Runner, Lifecycle!Check, Lifecycle!Prepare,
     Lifecycle!StartRecording, Lifecycle!FinishRecording, Lifecycle!Launch, Lifecycle!Launched,
     Lifecycle!Tap, Lifecycle!WaitFails, Lifecycle!Sample, Lifecycle!Review,
     Lifecycle!TapContinue, Lifecycle!Recover, Lifecycle!History, Lifecycle!BeforeHomePid,
     Lifecycle!GoHome, Lifecycle!ForceStopApp, Lifecycle!NewPid, Lifecycle!RemoveObserver,
     Lifecycle!ForceStop, Lifecycle!RemoveFiles, Lifecycle!ObservationTimesOut, Lifecycle!Signal,
     Lifecycle!Play, Lifecycle!PauseAndSave, Lifecycle!Misbehave, Lifecycle!Anr,
     Lifecycle!Unchanged, Lifecycle!EnterFinally, Lifecycle!Report, Lifecycle!control,
     Lifecycle!Own, Lifecycle!Drop, Lifecycle!Require, Lifecycle!ReturnOrFail, Lifecycle!Return,
     Lifecycle!Call, Lifecycle!Raise, Lifecycle!RaiseOut, Lifecycle!ReturnUnheeded,
     Lifecycle!Running, Lifecycle!Now, Lifecycle!Waiting, Lifecycle!SamplePhases,
     Lifecycle!PlayingPhases, Lifecycle!PausedPhases, Lifecycle!Verdicts
<1>3. QED
  BY <1>2 DEF LifecyclePassing, Lifecycle!Earned

LEMMA LifecyclePassingInit ==
  ASSUME Lifecycle!Init
  PROVE  LifecyclePassing
<1>1. todo = Lifecycle!Program /\ mode = "run" /\ errors = FALSE
  BY DEF Lifecycle!Init, Lifecycle!Start
<1>2. After(Lifecycle!Program, 0) = Lifecycle!Program
  BY LifecycleProgram, AfterNone
<1>3. LifecycleFields
  BY DEF Lifecycle!Init, LifecycleFields, Lifecycle!NoSamples
<1>4. LifecycleSoFar(0)
  BY DEF Lifecycle!Init, LifecycleSoFar, LifecycleProcesses, LifecyclePlayed, Lifecycle!NoSamples,
     Lifecycle!SamplePhases, Lifecycle!PlayingPhases, Lifecycle!PausedPhases
<1>5. QED
  BY <1>1, <1>2, <1>3, <1>4 DEF LifecyclePassing

(* The app is started when the preparation has succeeded.                  *)
LEMMA LifecyclePassingAdmits ==
  ASSUME LifecyclePassing, mode = "run"
  PROVE  LifecycleAdmits
<1> DEFINE P == Lifecycle!Program
<1>1. PICK d \in 0..45 :
        /\ LifecycleSoFar(d)
        /\ \/ todo = After(P, d)
           \/ d = 3 /\ \E op \in {"recover", "tap-continue"} : todo = <<op>> \o After(P, d)
  BY DEF LifecyclePassing
<1>2. P \in Seq(LifecycleTry) /\ Len(P) = 45 /\ d \in 0..Len(P)
  BY LifecycleProgram
<1>3. /\ d < 1 => device.app = 0
      /\ d >= 1 => mem.cleanup_authorized
      /\ d \in Nat
  BY <1>1 DEF LifecycleSoFar, LifecycleProcesses
<1>4. \A i \in 1..45 : P[i] = "prepare" <=> i = 1
  BY LifecycleSteps
<1>5. \A i \in 1..45 : (P[i] = "share" <=> i = 3) /\ (P[i] = "launch-main" <=> i \in {17, 32})
  BY LifecycleSteps
<1> HIDE DEF P
<1>6. /\ todo # <<>> /\ Head(todo) = "prepare" => d = 0
      /\ todo # <<>> /\ Head(todo) \in {"share", "launch-main"} => d >= 1
  <2>1. CASE todo = After(P, d)
    <3>1. todo # <<>> => d + 1 \in 1..45 /\ Head(todo) = P[d + 1]
      BY <1>2, <2>1, ProgramHead
    <3>2. todo # <<>> /\ Head(todo) = "prepare" => d + 1 = 1
      BY <1>4, <3>1
    <3>3. todo # <<>> /\ Head(todo) \in {"share", "launch-main"} => d + 1 \in {3, 17, 32}
      BY <1>5, <3>1
    <3>4. QED
      BY <1>3, <3>2, <3>3
  <2>2. CASE d = 3 /\ \E op \in {"recover", "tap-continue"} : todo = <<op>> \o After(P, d)
    <3>1. PICK op \in {"recover", "tap-continue"} : todo = <<op>> \o After(P, d)
      BY <2>2
    <3>2. Head(todo) = op
      BY <1>2, <3>1, InsertedHead
    <3>3. QED
      BY <3>1, <3>2
  <2>3. QED
    BY <1>1, <2>1, <2>2
<1>7. QED
  BY <1>3, <1>6 DEF LifecycleAdmits

-----------------------------------------------------------------------------
(* The verdict of the recording.                                           *)

RecordingFields ==
  /\ {"now", "recorder", "began", "first", "last", "foreign", "owned"} \subseteq DOMAIN device
  /\ {"kind", "require", "process", "pid", "launched", "status", "action", "trigger", "ready",
      "observed", "required", "postRollFailed", "stopped", "exitedEarly", "pulled", "finished"}
       \subseteq DOMAIN mem
  /\ "actions" \in DOMAIN seen
  /\ device.now \in Nat /\ device.began \in Nat /\ device.first \in Nat /\ device.last \in Nat
  /\ mem.kind \in Kinds /\ mem.require \in BOOLEAN /\ seen.actions \in Nat

(* A recorder that lives has not come to its limit, and what it shows is   *)
(* past.  Nobody asks for what the caller did not want.                    *)
RecordingClocks ==
  /\ device.last <= device.now
  /\ device.recorder = "recording" => device.now - device.began < LIMIT
  /\ mem.kind = "live" => mem.observed = 0
  /\ mem.required # 0 => mem.require

(* The program of each kind, as it is called; the action is its third call. *)
RecordingOps ==
  IF mem.kind = "live" THEN <<"launch", "identify", "ready", "finish">>
  ELSE IF mem.kind = "finite" THEN <<"launch", "identify", "action", "observe", "finish">>
  ELSE <<"launch", "identify", "action", "ready", "observe", "finish">>

RecordingBegins(d) ==
  /\ todo = After(RecordingOps, d) /\ ~mem.finished /\ mem.required = 0
  /\ d > 0 => mem.process
  /\ seen.actions = IF mem.kind # "live" /\ d >= 3 THEN 1 ELSE 0

RecordingStops(e) ==
  /\ todo = After(Recording!FINISH, e) /\ mem.finished
  /\ seen.actions = IF mem.kind # "live" THEN 1 ELSE 0
  /\ e >= 2 => /\ device.recorder # "recording"
               /\ ~mem.exitedEarly => device.last - device.began < LIMIT
  /\ e >= 4 => Recording!Earned

(* The recording has been judged.  Its clean-up finds it finished.         *)
RecordingPassing ==
  /\ mode = "run" =>
       /\ errors = FALSE /\ RecordingFields /\ RecordingClocks
       /\ \/ \E d \in 0..(Len(RecordingOps) - 1) : RecordingBegins(d)
          \/ \E e \in 0..5 : RecordingStops(e)
  /\ mode # "run" /\ ~errors =>
       /\ RecordingFields /\ mem.finished /\ device.recorder # "recording" /\ Recording!Earned
       /\ todo \in {<<"finish">>, <<>>}

LEMMA FourAndOne ==
  ASSUME NEW x, NEW y, NEW z, NEW w, NEW e
  PROVE  <<x, y, z, w>> \o <<e>> = <<x, y, z, w, e>>
<1> DEFINE T == {x, y, z, w, e}
           a == <<x, y, z, w>>
           b == <<e>>
           c == <<x, y, z, w, e>>
<1>1. /\ a \in Seq(T) /\ Len(a) = 4 /\ a[1] = x /\ a[2] = y /\ a[3] = z /\ a[4] = w
      /\ b \in Seq(T) /\ Len(b) = 1 /\ b[1] = e /\ b[5 - 4] = e
      /\ c \in Seq(T) /\ Len(c) = 5 /\ c[1] = x /\ c[2] = y /\ c[3] = z /\ c[4] = w /\ c[5] = e
  OBVIOUS
<1> HIDE DEF T, a, b, c
<1>2. /\ a \o b \in Seq(T) /\ Len(a \o b) = Len(a) + Len(b)
      /\ \A i \in 1..Len(a) + Len(b) : (a \o b)[i] = IF i <= Len(a) THEN a[i] ELSE b[i - Len(a)]
  BY <1>1, ConcatProperties
<1>3. /\ Len(a \o b) = 5
      /\ (a \o b)[1] = x /\ (a \o b)[2] = y /\ (a \o b)[3] = z /\ (a \o b)[4] = w /\ (a \o b)[5] = e
  BY <1>1, <1>2
<1>4. a \o b = c
  BY <1>1, <1>2, <1>3, SeqEqual
<1>5. QED
  BY <1>4 DEF a, b, c

LEMMA FiveAndOne ==
  ASSUME NEW x, NEW y, NEW z, NEW w, NEW v, NEW e
  PROVE  <<x, y, z, w, v>> \o <<e>> = <<x, y, z, w, v, e>>
<1> DEFINE T == {x, y, z, w, v, e}
           a == <<x, y, z, w, v>>
           b == <<e>>
           c == <<x, y, z, w, v, e>>
<1>1. /\ a \in Seq(T) /\ Len(a) = 5 /\ a[1] = x /\ a[2] = y /\ a[3] = z /\ a[4] = w /\ a[5] = v
      /\ b \in Seq(T) /\ Len(b) = 1 /\ b[1] = e /\ b[6 - 5] = e
      /\ c \in Seq(T) /\ Len(c) = 6 /\ c[1] = x /\ c[2] = y /\ c[3] = z /\ c[4] = w /\ c[5] = v
      /\ c[6] = e
  OBVIOUS
<1> HIDE DEF T, a, b, c
<1>2. /\ a \o b \in Seq(T) /\ Len(a \o b) = Len(a) + Len(b)
      /\ \A i \in 1..Len(a) + Len(b) : (a \o b)[i] = IF i <= Len(a) THEN a[i] ELSE b[i - Len(a)]
  BY <1>1, ConcatProperties
<1>3. /\ Len(a \o b) = 6
      /\ (a \o b)[1] = x /\ (a \o b)[2] = y /\ (a \o b)[3] = z /\ (a \o b)[4] = w /\ (a \o b)[5] = v
      /\ (a \o b)[6] = e
  BY <1>1, <1>2
<1>4. a \o b = c
  <2>1. \A i \in 1..6 : (a \o b)[i] = c[i]
    BY <1>1, <1>3
  <2>2. a \o b \in Seq(T) /\ c \in Seq(T) /\ Len(a \o b) = 6 /\ Len(c) = 6
    BY <1>1, <1>2, <1>3
  <2>3. QED
    BY <2>1, <2>2, SeqEqual
<1>5. QED
  BY <1>4 DEF a, b, c

RecordingCalls == RecordingStarts \cup {"finish"}

LEMMA RecordingOrder ==
  ASSUME mem.kind \in {"live", "action", "finite"}
  PROVE  /\ RecordingOps \in Seq(RecordingCalls) /\ Len(RecordingOps) \in 4..6
         /\ mem.kind # "live" => Len(RecordingOps) \in 5..6
         /\ \A i \in 1..Len(RecordingOps) :
              /\ RecordingOps[i] = "launch" <=> i = 1
              /\ RecordingOps[i] = "action" <=> i = 3 /\ mem.kind # "live"
              /\ RecordingOps[i] = "observe" => mem.kind # "live"
              /\ RecordingOps[i] = "finish" <=> i = Len(RecordingOps)
<1>1. CASE mem.kind = "live"
  BY <1>1 DEF RecordingOps, RecordingCalls, RecordingStarts
<1>2. CASE mem.kind = "action"
  BY <1>2 DEF RecordingOps, RecordingCalls, RecordingStarts
<1>3. CASE mem.kind = "finite"
  BY <1>3 DEF RecordingOps, RecordingCalls, RecordingStarts
<1>4. QED
  BY <1>1, <1>2, <1>3

LEMMA RecordingProgram ==
  ASSUME mem.kind \in {"live", "action", "finite"}
  PROVE  Recording!Program(mem.kind) = RecordingOps
<1> DEFINE a == <<"launch", "identify">>
<1>0. a \o <<>> = a /\ <<"launch", "identify", "ready">> \o <<>> = <<"launch", "identify", "ready">>
      /\ <<"launch", "identify", "action">> \o <<>> = <<"launch", "identify", "action">>
  OBVIOUS
<1>1. CASE mem.kind = "live"
  <2>1. Recording!Program(mem.kind) = (((a \o <<>>) \o <<"ready">>) \o <<>>) \o <<"finish">>
    BY <1>1 DEF Recording!Program, Recording!CLEANUP
  <2>2. a \o <<"ready">> = <<"launch", "identify", "ready">>
    BY TwoAndOne
  <2>3. <<"launch", "identify", "ready">> \o <<"finish">> = <<"launch", "identify", "ready", "finish">>
    BY ThreeAndOne
  <2> HIDE DEF a
  <2>4. QED
    BY <1>0, <1>1, <2>1, <2>2, <2>3, Zenon DEF RecordingOps
<1>2. a \o <<"action">> = <<"launch", "identify", "action">>
  BY TwoAndOne
<1>3. CASE mem.kind = "action"
  <2>1. Recording!Program(mem.kind)
          = (((a \o <<"action">>) \o <<"ready">>) \o <<"observe">>) \o <<"finish">>
    BY <1>3 DEF Recording!Program, Recording!CLEANUP
  <2>2. <<"launch", "identify", "action">> \o <<"ready">> = <<"launch", "identify", "action", "ready">>
    BY ThreeAndOne
  <2>3. <<"launch", "identify", "action", "ready">> \o <<"observe">>
          = <<"launch", "identify", "action", "ready", "observe">>
    BY FourAndOne
  <2>4. <<"launch", "identify", "action", "ready", "observe">> \o <<"finish">>
          = <<"launch", "identify", "action", "ready", "observe", "finish">>
    BY FiveAndOne
  <2>5. RecordingOps = <<"launch", "identify", "action", "ready", "observe", "finish">>
    BY <1>3 DEF RecordingOps
  <2> HIDE DEF a
  <2>6. QED
    BY <1>2, <2>1, <2>2, <2>3, <2>4, <2>5, Zenon
<1>4. CASE mem.kind = "finite"
  <2>1. Recording!Program(mem.kind) = (((a \o <<"action">>) \o <<>>) \o <<"observe">>) \o <<"finish">>
    BY <1>4 DEF Recording!Program, Recording!CLEANUP
  <2>2. <<"launch", "identify", "action">> \o <<"observe">>
          = <<"launch", "identify", "action", "observe">>
    BY ThreeAndOne
  <2>3. <<"launch", "identify", "action", "observe">> \o <<"finish">>
          = <<"launch", "identify", "action", "observe", "finish">>
    BY FourAndOne
  <2>4. RecordingOps = <<"launch", "identify", "action", "observe", "finish">>
    BY <1>4 DEF RecordingOps
  <2> HIDE DEF a
  <2>5. QED
    BY <1>0, <1>2, <2>1, <2>2, <2>3, <2>4, Zenon
<1>5. QED
  BY <1>1, <1>3, <1>4

LEMMA RecordingFinishOrder ==
  ASSUME NEW i \in 1..5
  PROVE  /\ Recording!FINISH[i] = "post-roll" <=> i = 1
         /\ Recording!FINISH[i] = "stop" <=> i = 2
         /\ Recording!FINISH[i] = "pull" <=> i = 3
         /\ Recording!FINISH[i] = "validate" <=> i = 4
         /\ Recording!FINISH[i] = "close" <=> i = 5
BY DEF Recording!FINISH

(* What a recording shows that was found good.                             *)
RecordingShown ==
  /\ mem.status = "verified" /\ ~mem.exitedEarly
  /\ mem.kind = "finite" => mem.trigger < device.last
  /\ mem.kind # "finite" =>
       \A clock \in {mem.observed, mem.required} \ {0} :
           device.first <= clock /\ clock <= device.last

RecordingPicture == <<device.recorder, device.began, device.first, device.last>>
RecordingVerdict == <<mem.exitedEarly, mem.trigger, mem.observed, mem.required>>

(* What the operation that runs now does, if it does not raise.            *)
RecordingDoes(op) ==
  /\ op = "launch" => mem'.process
  /\ mem.process => mem'.process
  /\ seen'.actions = IF op = "action" THEN seen.actions + 1 ELSE seen.actions
  /\ op \in RecordingStarts => mem'.required = mem.required
  /\ op = "finish" => ~mem.process \/ mem.finished
  /\ op # "finish" => mem'.finished = mem.finished
  /\ op = "stop" =>
       /\ device'.recorder # "recording" /\ device'.last = device.last /\ device'.began = device.began
       /\ ~mem'.exitedEarly => device.recorder = "recording"
  /\ op \in {"pull", "validate", "close"} => RecordingPicture' = RecordingPicture
  /\ op \in {"pull", "validate", "close"} => RecordingVerdict' = RecordingVerdict
  /\ op = "validate" => RecordingShown'
  /\ op = "close" => (mem.status = "verified" => mem'.status = "verified")

(* What happens beside it.                                                 *)
RecordingHappens ==
  /\ mode' = "run" /\ todo' = todo /\ seen' = seen /\ mem'.process = mem.process
  /\ mem'.finished = mem.finished /\ mem'.exitedEarly = mem.exitedEarly
  /\ mem'.trigger = mem.trigger /\ mem'.observed = mem.observed /\ mem'.status = mem.status
  /\ mem'.required = mem.required \/ (todo # <<>> /\ Head(todo) = "post-roll")
  /\ device'.began = device.began
  /\ device.recorder # "recording" => RecordingPicture' = RecordingPicture

LEMMA RecordingEffects ==
  ASSUME RecordingFields, RecordingClocks, mode = "run", Recording!Next, errors' = FALSE,
         todo # <<>> /\ Head(todo) = "observe" => mem.kind # "live"
  PROVE  /\ RecordingFields' /\ RecordingClocks' /\ mem'.kind = mem.kind
         /\ \/ mode' = "cleanup" /\ todo = <<>> /\ UNCHANGED <<device, mem, seen>>
               /\ todo' = <<"finish">>
            \/ RecordingHappens
            \/ /\ mode' = "run" /\ todo # <<>> /\ RecordingDoes(Head(todo))
               /\ todo' = <<>> \o Tail(todo) \/ todo' = Tail(todo)
            \/ /\ mode' = "run" /\ todo # <<>> /\ Head(todo) = "finish" /\ mem'.finished
               /\ mem'.process = mem.process /\ seen' = seen /\ todo' = Recording!FINISH \o Tail(todo)
<1> USE DEF RecordingFields, RecordingClocks
<1> DEFINE Goal ==
      /\ RecordingFields' /\ RecordingClocks' /\ mem'.kind = mem.kind
      /\ mode' = "run" /\ todo # <<>> /\ RecordingDoes(Head(todo))
      /\ todo' = <<>> \o Tail(todo) \/ todo' = Tail(todo)
<1>1. CASE Recording!Tick
  <2>1. PICK frame \in BOOLEAN :
          LET now == device.now + 1
              shown == frame /\ Recording!Alive
              full == Recording!Alive /\ now - device.began >= LIMIT
          IN device' = [device EXCEPT !.now = now,
                           !.first = IF shown /\ @ = 0 THEN now ELSE @,
                           !.last = IF shown THEN now ELSE @,
                           !.recorder = IF full THEN "exited" ELSE @,
                           !.owned = IF full THEN @ \ {"recorder", "adb"} ELSE @]
    BY <1>1 DEF Recording!Tick
  <2>2. mode' = mode /\ todo' = todo /\ mem' = mem /\ seen' = seen
    BY <1>1 DEF Recording!Tick, Recording!control
  <2> DEFINE alive == device.recorder = "recording"
             now == device.now + 1
  <2>3. /\ DOMAIN device' = DOMAIN device /\ device'.now = now /\ device'.began = device.began
        /\ device'.first = IF (frame /\ alive) /\ device.first = 0 THEN now ELSE device.first
        /\ device'.last = IF frame /\ alive THEN now ELSE device.last
        /\ device'.recorder = IF alive /\ now - device.began >= LIMIT THEN "exited" ELSE device.recorder
    BY <2>1 DEF Recording!Alive
  <2>4. RecordingFields'
    BY <2>2, <2>3
  <2>5. RecordingClocks'
    BY <2>2, <2>3, TimesAssumption
  <2>6. RecordingHappens
    BY <2>2, <2>3 DEF RecordingHappens, RecordingPicture
  <2>7. QED
    BY <2>2, <2>4, <2>5, <2>6
<1>2. CASE Recording!RecorderExits
  BY <1>2 DEF Recording!RecorderExits, Recording!control, Recording!Alive, RecordingHappens,
     RecordingPicture
<1>3. CASE (Recording!EnterFinally(Recording!CLEANUP) \/ Recording!Report) /\ UNCHANGED <<device, mem, seen>>
  BY <1>3 DEF Recording!EnterFinally, Recording!Report, Recording!CLEANUP
<1>4. CASE Recording!PostRollStart
  <2>1. CASE UNCHANGED mem
    BY <1>4, <2>1 DEF Recording!PostRollStart, RecordingDoes, RecordingHappens, RecordingPicture,
       Recording!Return, Recording!Call, Recording!Now, Recording!control, RecordingStarts
  <2>2. CASE mem.require /\ mem' = [mem EXCEPT !.required = device.now] /\ UNCHANGED Recording!control
    BY <1>4, <2>2 DEF Recording!PostRollStart, RecordingHappens, RecordingPicture,
       Recording!Now, Recording!control
  <2>3. QED
    BY <1>4, <2>1, <2>2 DEF Recording!PostRollStart
<1> USE DEF Recording!RaiseInStart, Recording!RaiseInFinish, Recording!Return, Recording!Call,
     Recording!Raise, Recording!Running, Recording!Now, Recording!Alive
<1>5. CASE Recording!Finish
  BY <1>5 DEF Recording!Finish, RecordingDoes, RecordingStarts
<1> USE DEF RecordingDoes, RecordingStarts, RecordingPicture, RecordingVerdict
<1>6. CASE Recording!Launch
  <2>1. /\ Head(todo) = "launch" /\ todo # <<>> /\ seen' = seen /\ mode' = "run"
        /\ todo' = <<>> \o Tail(todo)
        /\ device' = [device EXCEPT !.recorder = "recording", !.began = device.now,
                                    !.owned = {"recorder", "adb"}]
        /\ mem' = [mem EXCEPT !.process = TRUE, !.launched = device.now]
    BY <1>6 DEF Recording!Launch
  <2>2. /\ RecordingFields' /\ mem'.kind = mem.kind /\ mem'.process /\ mem'.required = mem.required
        /\ mem'.finished = mem.finished
    BY <2>1
  <2>3. device'.now - device'.began = 0 /\ 0 < LIMIT
    BY <2>1, TimesAssumption
  <2>4. RecordingClocks'
    BY <2>1, <2>3
  <2>5. QED
    BY <2>1, <2>2, <2>4
<1>7. CASE Recording!Identify \/ Recording!MediaReady
  BY <1>7 DEF Recording!Identify, Recording!MediaReady
<1>8. CASE Recording!StartupAction
  <2>1. /\ Head(todo) = "action" /\ todo # <<>> /\ device' = device /\ mode' = "run"
        /\ todo' = <<>> \o Tail(todo) /\ seen' = [seen EXCEPT !.actions = @ + 1]
        /\ mem' = [mem EXCEPT !.trigger = device.now, !.action = "completed",
                              !.status = IF mem.kind = "finite" THEN "recording" ELSE @]
    BY <1>8 DEF Recording!StartupAction
  <2>2. /\ DOMAIN mem' = DOMAIN mem /\ mem'.kind = mem.kind /\ mem'.process = mem.process
        /\ mem'.required = mem.required /\ mem'.finished = mem.finished
        /\ mem'.require = mem.require /\ mem'.observed = mem.observed
    BY <2>1
  <2>3. seen'.actions = seen.actions + 1 /\ seen'.actions \in Nat /\ "actions" \in DOMAIN seen'
    BY <2>1
  <2>4. QED
    BY <2>1, <2>2, <2>3
<1>9. CASE Recording!ObserveStartup
  BY <1>9 DEF Recording!ObserveStartup
<1>10. CASE Recording!PostRollEnd
  BY <1>10 DEF Recording!PostRollEnd
<1>11. CASE Recording!Stop
  BY <1>11 DEF Recording!Stop
<1>12. CASE Recording!Pull
  BY <1>12 DEF Recording!Pull
<1>13. CASE Recording!Close
  BY <1>13 DEF Recording!Close
<1>14. CASE Recording!Validate
  <2>1. /\ Head(todo) = "validate" /\ todo # <<>> /\ mode' = "run" /\ todo' = <<>> \o Tail(todo)
        /\ mem' = [mem EXCEPT !.status = "verified"] /\ device' = device /\ seen' = seen
        /\ ~mem.exitedEarly
        /\ IF mem.kind = "finite" THEN Recording!FiniteHolds ELSE Recording!LiveHolds
    BY <1>14 DEF Recording!Validate
  <2>2. mem.kind = "finite" => mem.trigger < device.last
    BY <2>1 DEF Recording!FiniteHolds
  <2>3. mem.kind # "finite" =>
          \A clock \in {mem.observed, mem.required} \ {0} :
              device.first <= clock /\ clock <= device.last
    <3>1. mem.kind \in {"live", "action", "finite"}
      BY KindsAssumption
    <3>2. SUFFICES ASSUME mem.kind # "finite"
                   PROVE  /\ mem.observed # 0 => Recording!Recorded(mem.observed)
                          /\ mem.required # 0 => Recording!Recorded(mem.required)
      BY DEF Recording!Recorded
    <3>3. QED
      BY <2>1, <3>1, <3>2 DEF Recording!LiveHolds
  <2>4. RecordingShown'
    BY <2>1, <2>2, <2>3 DEF RecordingShown
  <2>5. QED
    BY <2>1, <2>4
<1>20. QED
  BY <1>1, <1>2, <1>3, <1>4, <1>5, <1>6, <1>7, <1>8, <1>9, <1>10, <1>11, <1>12, <1>13, <1>14
     DEF Recording!Next, Recording!Runner

LEMMA RecordingRaises ==
  ASSUME mode = "run", errors = FALSE, Recording!Next, errors' # FALSE
  PROVE  mode' # "run" /\ errors' = TRUE
BY DEF Recording!Next, Recording!Runner, Recording!Launch, Recording!Identify,
   Recording!StartupAction, Recording!MediaReady, Recording!ObserveStartup, Recording!Finish,
   Recording!PostRollStart, Recording!PostRollEnd, Recording!Stop, Recording!Pull,
   Recording!Validate, Recording!Close, Recording!Tick, Recording!RecorderExits,
   Recording!EnterFinally, Recording!Report, Recording!control, Recording!RaiseInStart,
   Recording!RaiseInFinish, Recording!Return, Recording!Call, Recording!Raise, Recording!Running,
   Recording!Now, Recording!Alive

(* A step of the try block that does not raise, before the recorder is to  *)
(* stop and from then on.                                                  *)
LEMMA RecordingPassingBegins ==
  ASSUME errors = FALSE, RecordingFields, RecordingClocks, mode = "run", Recording!Next,
         errors' = FALSE, NEW d \in 0..(Len(RecordingOps) - 1), RecordingBegins(d)
  PROVE  RecordingPassing'
<1> DEFINE P == RecordingOps
           n == Len(RecordingOps)
<1>1. mem.kind \in {"live", "action", "finite"}
  BY KindsAssumption DEF RecordingFields
<1>2. /\ P \in Seq(RecordingCalls) /\ n \in 4..6 /\ d \in 0..n /\ d \in 0..(n - 1)
      /\ \A i \in 1..n : /\ P[i] = "launch" <=> i = 1
                         /\ P[i] = "action" <=> i = 3 /\ mem.kind # "live"
                         /\ P[i] = "observe" => mem.kind # "live"
                         /\ P[i] = "finish" <=> i = n
  BY <1>1, RecordingOrder
<1>3. mem.kind # "live" => n \in 5..6
  BY <1>1, RecordingOrder
<1>4. ASSUME mem'.kind = mem.kind PROVE P' = P
  BY <1>4 DEF RecordingOps
<1> HIDE DEF P, n
<1>5. todo = After(P, d) /\ n = Len(P)
  BY DEF RecordingBegins, P, n
<1>6. todo # <<>>
  <2>1. ASSUME todo = <<>> PROVE FALSE
    <3>1. d = Len(P)
      BY <1>2, <1>5, <2>1, ProgramEnds
    <3>2. QED
      BY <1>2, <1>5, <3>1
  <2>2. QED
    BY <2>1
<1>7. /\ d + 1 \in 1..n /\ Head(todo) = P[d + 1] /\ Head(todo) \in RecordingCalls
      /\ <<>> \o Tail(todo) = After(P, d + 1) /\ Tail(todo) = After(P, d + 1)
  BY <1>2, <1>5, <1>6, ProgramHead
<1>8. Head(todo) = "observe" => mem.kind # "live"
  BY <1>2, <1>7
<1>9. RecordingFields' /\ RecordingClocks' /\ mem'.kind = mem.kind
  BY <1>8, RecordingEffects
<1>10. P' = P
  BY <1>4, <1>9
<1>11. ASSUME mode' = "run", NEW e \in 0..(n - 1), RecordingBegins(e)'
       PROVE  RecordingPassing'
  <2>1. Len(RecordingOps)' = n
    BY <1>10 DEF n, P
  <2>2. e \in 0..(Len(RecordingOps)' - 1)
    BY <2>1
  <2>3. QED
    BY <1>9, <1>11, <2>2 DEF RecordingPassing
<1>12. CASE RecordingHappens
  <2>1. Head(todo) # "post-roll"
    BY <1>7 DEF RecordingCalls, RecordingStarts
  <2>2. todo' = After(P', d)
    BY <1>5, <1>10, <1>12 DEF RecordingHappens
  <2>3. /\ mem'.required = mem.required /\ mem'.finished = mem.finished /\ mem'.process = mem.process
        /\ seen' = seen
    BY <1>12, <2>1 DEF RecordingHappens
  <2>4. RecordingBegins(d)'
    BY <1>9, <2>2, <2>3 DEF RecordingBegins, After, P
  <2>5. QED
    BY <1>2, <1>11, <1>12, <2>4 DEF RecordingHappens
<1>13. CASE mode' = "run" /\ RecordingDoes(Head(todo)) /\ (todo' = <<>> \o Tail(todo) \/ todo' = Tail(todo))
  <2> DEFINE op == Head(todo)
  <2>1. /\ op = "launch" <=> d = 0
        /\ op = "action" <=> d = 2 /\ mem.kind # "live"
        /\ op = "finish" <=> d + 1 = n
    BY <1>2, <1>7
  <2>2. RecordingDoes(op) /\ op \in RecordingCalls
    BY <1>7, <1>13
  <2> HIDE DEF op
  <2>3. op # "finish"
    <3>1. ASSUME op = "finish" PROVE FALSE
      <4>1. d > 0
        BY <1>2, <2>1, <3>1
      <4>2. mem.process /\ ~mem.finished
        BY <4>1 DEF RecordingBegins
      <4>3. QED
        BY <2>2, <3>1, <4>2 DEF RecordingDoes
    <3>2. QED
      BY <3>1
  <2>4. d + 1 \in 0..(n - 1)
    BY <1>2, <1>7, <2>1, <2>3
  <2>5. todo' = After(P', d + 1)
    BY <1>7, <1>10, <1>13
  <2>6. op \in RecordingStarts
    BY <2>2, <2>3 DEF RecordingCalls
  <2>7. mem'.required = 0 /\ ~mem'.finished
    BY <2>2, <2>3, <2>6 DEF RecordingDoes, RecordingBegins
  <2>8. mem'.process
    BY <1>2, <2>1, <2>2 DEF RecordingDoes, RecordingBegins
  <2>9. seen'.actions = IF mem'.kind # "live" /\ d + 1 >= 3 THEN 1 ELSE 0
    <3>1. seen'.actions = IF op = "action" THEN seen.actions + 1 ELSE seen.actions
      BY <2>2 DEF RecordingDoes
    <3>2. seen.actions = IF mem.kind # "live" /\ d >= 3 THEN 1 ELSE 0
      BY DEF RecordingBegins
    <3>3. QED
      BY <1>2, <1>9, <2>1, <3>1, <3>2
  <2>10. RecordingBegins(d + 1)'
    BY <2>5, <2>7, <2>8, <2>9 DEF RecordingBegins, After, P
  <2>11. QED
    BY <1>11, <1>13, <2>4, <2>10
<1>14. CASE /\ mode' = "run" /\ Head(todo) = "finish" /\ mem'.finished
            /\ seen' = seen /\ todo' = Recording!FINISH \o Tail(todo)
  <2>1. d + 1 = n
    BY <1>2, <1>7, <1>14
  <2>2. After(P, n) = <<>>
    <3>1. n \in 0..Len(P)
      BY <1>2, <1>5
    <3>2. After(P, n) \in Seq(RecordingCalls) /\ Len(After(P, n)) = Len(P) - n
      BY <1>2, <3>1, AfterIsSeq
    <3> DEFINE t == After(P, n)
    <3>3. t \in Seq(RecordingCalls) /\ Len(t) = 0
      BY <1>2, <1>5, <3>2
    <3> HIDE DEF t
    <3>4. t = <<>>
      BY <3>3
    <3>5. QED
      BY <3>4 DEF t
  <2>3. todo' = Recording!FINISH \o <<>>
    BY <1>7, <1>14, <2>1, <2>2
  <2>4. todo' = After(Recording!FINISH, 0)
    <3>1. Recording!FINISH \o <<>> = Recording!FINISH
      BY RecordingCleanup
    <3>2. After(Recording!FINISH, 0) = Recording!FINISH
      BY RecordingCleanup, AfterNone
    <3>3. QED
      BY <2>3, <3>1, <3>2
  <2>5. seen.actions = IF mem.kind # "live" THEN 1 ELSE 0
    BY <1>2, <1>3, <2>1 DEF RecordingBegins
  <2>6. RecordingStops(0)'
    <3>1. mem'.finished /\ seen'.actions = IF mem'.kind # "live" THEN 1 ELSE 0
      BY <1>9, <1>14, <2>5
    <3>2. (todo = After(Recording!FINISH, 0))'
      BY <2>4 DEF After, Recording!FINISH
    <3>3. QED
      BY <3>1, <3>2 DEF RecordingStops
  <2>7. QED
    BY <1>9, <1>14, <2>6 DEF RecordingPassing
<1>15. QED
  BY <1>6, <1>8, <1>12, <1>13, <1>14, RecordingEffects

LEMMA RecordingPassingStops ==
  ASSUME errors = FALSE, RecordingFields, RecordingClocks, mode = "run", Recording!Next,
         errors' = FALSE, NEW e \in 0..5, RecordingStops(e)
  PROVE  RecordingPassing'
<1> DEFINE P == Recording!FINISH
           S == {"post-roll", "stop", "pull", "validate", "close"}
<1>1. P \in Seq(S) /\ Len(P) = 5 /\ e \in 0..Len(P)
  BY RecordingCleanup
<1>2. todo = After(P, e)
  BY DEF RecordingStops
<1>3. \A i \in 1..5 : /\ P[i] = "post-roll" <=> i = 1
                      /\ P[i] = "stop" <=> i = 2
                      /\ P[i] = "pull" <=> i = 3
                      /\ P[i] = "validate" <=> i = 4
                      /\ P[i] = "close" <=> i = 5
  BY RecordingFinishOrder
<1>4. ASSUME mode' = "run", RecordingFields', RecordingClocks', NEW k \in 0..5, todo' = After(P, k),
             mem'.finished, seen'.actions = IF mem'.kind # "live" THEN 1 ELSE 0,
             k >= 2 => /\ device'.recorder # "recording"
                       /\ ~mem'.exitedEarly => device'.last - device'.began < LIMIT,
             k >= 4 => Recording!Earned'
      PROVE  RecordingPassing'
  <2>1. RecordingStops(k)'
    BY <1>4 DEF RecordingStops, After, Recording!FINISH
  <2>2. QED
    BY <1>4, <2>1 DEF RecordingPassing
<1> HIDE DEF P
<1>5. todo # <<>> =>
        /\ e + 1 \in 1..5 /\ Head(todo) = P[e + 1] /\ Head(todo) \in S
        /\ <<>> \o Tail(todo) = After(P, e + 1) /\ Tail(todo) = After(P, e + 1)
  BY <1>1, <1>2, ProgramHead
<1>6. todo # <<>> => Head(todo) \notin RecordingStarts \cup {"finish"}
  BY <1>5 DEF RecordingStarts
<1>7. todo # <<>> /\ Head(todo) = "observe" => mem.kind # "live"
  BY <1>6 DEF RecordingStarts
<1>8. RecordingFields' /\ RecordingClocks' /\ mem'.kind = mem.kind
  BY <1>7, RecordingEffects
<1>9. /\ seen.actions = IF mem.kind # "live" THEN 1 ELSE 0
      /\ mem.finished
      /\ e >= 2 => /\ device.recorder # "recording"
                   /\ ~mem.exitedEarly => device.last - device.began < LIMIT
      /\ e >= 4 => Recording!Earned
  BY DEF RecordingStops
<1>10. CASE mode' = "cleanup" /\ todo = <<>> /\ UNCHANGED <<device, mem, seen>> /\ todo' = <<"finish">>
  <2>1. e = 5
    BY <1>1, <1>2, <1>10, ProgramEnds
  <2>2. QED
    BY <1>8, <1>9, <1>10, <2>1 DEF RecordingPassing, Recording!Earned
<1>11. CASE RecordingHappens
  <2>1. e >= 2 => RecordingPicture' = RecordingPicture
    BY <1>9, <1>11 DEF RecordingHappens
  <2>2. e >= 4 => mem'.required = mem.required
    BY <1>3, <1>5, <1>11 DEF RecordingHappens
  <2>3. /\ mem'.finished = mem.finished /\ seen'.actions = seen.actions
        /\ mem'.exitedEarly = mem.exitedEarly /\ mem'.trigger = mem.trigger
        /\ mem'.observed = mem.observed /\ mem'.status = mem.status
    BY <1>11 DEF RecordingHappens
  <2>4. e >= 4 => Recording!Earned'
    BY <1>8, <1>9, <2>1, <2>2, <2>3 DEF Recording!Earned, RecordingPicture
  <2>5. e >= 2 => /\ device'.recorder # "recording"
                  /\ ~mem'.exitedEarly => device'.last - device'.began < LIMIT
    BY <1>9, <2>1, <2>3 DEF RecordingPicture
  <2>6. todo' = After(P, e) /\ mode' = "run"
    BY <1>2, <1>11 DEF RecordingHappens
  <2>7. QED
    BY <1>4, <1>8, <1>9, <2>3, <2>4, <2>5, <2>6
<1>12. CASE /\ mode' = "run" /\ todo # <<>> /\ RecordingDoes(Head(todo))
            /\ (todo' = <<>> \o Tail(todo) \/ todo' = Tail(todo))
  <2> DEFINE op == Head(todo)
  <2>1. /\ op = "post-roll" <=> e = 0
        /\ op = "stop" <=> e = 1
        /\ op = "pull" <=> e = 2
        /\ op = "validate" <=> e = 3
        /\ op = "close" <=> e = 4
        /\ e \in 0..4 /\ e + 1 \in 0..5 /\ op # "finish" /\ op # "action"
    <3>1. e \in 0..4 /\ e + 1 \in 0..5
      BY <1>5, <1>12
    <3>2. op # "finish" /\ op # "action"
      BY <1>6, <1>12 DEF RecordingStarts
    <3>3. QED
      BY <1>3, <1>5, <1>12, <3>1, <3>2
  <2>2. RecordingDoes(op)
    BY <1>12
  <2> HIDE DEF op
  <2>3. mem'.finished /\ seen'.actions = seen.actions
    BY <1>9, <2>1, <2>2 DEF RecordingDoes
  <2>4. e + 1 >= 2 => device'.recorder # "recording"
                      /\ (~mem'.exitedEarly => device'.last - device'.began < LIMIT)
    <3>1. CASE e = 1
      <4>1. /\ device'.recorder # "recording" /\ device'.last = device.last /\ device'.began = device.began
            /\ ~mem'.exitedEarly => device.recorder = "recording"
        BY <2>1, <2>2, <3>1 DEF RecordingDoes
      <4>2. /\ device.recorder = "recording" => device.now - device.began < LIMIT
            /\ device.last <= device.now /\ device.now \in Nat /\ device.last \in Nat /\ device.began \in Nat
        BY DEF RecordingClocks, RecordingFields
      <4>3. QED
        BY <4>1, <4>2, TimesAssumption
    <3>2. CASE e >= 2
      <4>1. RecordingPicture' = RecordingPicture /\ RecordingVerdict' = RecordingVerdict
        BY <2>1, <2>2, <3>2 DEF RecordingDoes
      <4>2. QED
        BY <1>9, <3>2, <4>1 DEF RecordingPicture, RecordingVerdict
    <3>3. QED
      BY <2>1, <3>1, <3>2
  <2>5. e + 1 >= 4 => Recording!Earned'
    <3>1. CASE e = 3
      <4>1. RecordingShown'
        BY <2>1, <2>2, <3>1 DEF RecordingDoes
      <4>2. device'.last - device'.began < LIMIT
        BY <2>4, <3>1, <4>1 DEF RecordingShown
      <4>3. QED
        BY <1>8, <1>9, <2>3, <4>1, <4>2 DEF RecordingShown, Recording!Earned
    <3>2. CASE e = 4
      <4>1. RecordingPicture' = RecordingPicture /\ RecordingVerdict' = RecordingVerdict
            /\ (mem.status = "verified" => mem'.status = "verified")
        BY <2>1, <2>2, <3>2 DEF RecordingDoes
      <4>2. QED
        BY <1>8, <1>9, <2>3, <3>2, <4>1 DEF Recording!Earned, RecordingPicture, RecordingVerdict
    <3>3. QED
      BY <2>1, <3>1, <3>2
  <2>6. todo' = After(P, e + 1) /\ mode' = "run"
    BY <1>5, <1>12
  <2>7. QED
    BY <1>4, <1>8, <1>9, <2>1, <2>3, <2>4, <2>5, <2>6
<1>13. QED
  BY <1>6, <1>7, <1>10, <1>11, <1>12, RecordingEffects

LEMMA RecordingPassingRuns ==
  ASSUME RecordingPassing, mode = "run", Recording!Next, errors' = FALSE
  PROVE  RecordingPassing'
BY RecordingPassingBegins, RecordingPassingStops DEF RecordingPassing

(* The finish of the finally block finds the recording finished.           *)
LEMMA RecordingPassingCleans ==
  ASSUME RecordingPassing, RecordingUndone, mode # "run", Recording!Next
  PROVE  RecordingPassing'
<1>1. mode' # "run" /\ (errors' = errors \/ errors' = TRUE)
  BY DEF Recording!Next, Recording!Runner, Recording!Launch, Recording!Identify,
     Recording!StartupAction, Recording!MediaReady, Recording!ObserveStartup, Recording!Finish,
     Recording!PostRollStart, Recording!PostRollEnd, Recording!Stop, Recording!Pull,
     Recording!Validate, Recording!Close, Recording!Tick, Recording!RecorderExits,
     Recording!EnterFinally, Recording!Report, Recording!control, Recording!RaiseInStart,
     Recording!RaiseInFinish, Recording!Return, Recording!Call, Recording!Raise,
     Recording!Running, Recording!Now, Recording!Alive
<1>10. ASSUME errors' \/ errors
       PROVE  RecordingPassing'
  <2>1. mode' # "run" /\ errors'
    BY <1>1, <1>10
  <2>2. QED
    BY <2>1 DEF RecordingPassing
<1>2. SUFFICES ASSUME ~errors, ~errors'
               PROVE  RecordingPassing'
  BY <1>10
<1>3. /\ RecordingFields /\ mem.finished /\ device.recorder # "recording" /\ Recording!Earned
      /\ todo \in {<<"finish">>, <<>>}
  BY <1>2 DEF RecordingPassing
<1>4. todo # <<>> => Head(todo) = "finish" /\ <<>> \o Tail(todo) = <<>>
  <2>1. CASE todo = <<"finish">>
    BY <2>1
  <2>2. QED
    BY <1>3, <2>1
<1>5. \/ Recording!Finish \/ Recording!Tick
      \/ Recording!Report /\ UNCHANGED <<device, mem, seen>>
  BY <1>3, <1>4 DEF Recording!Next, Recording!Runner, Recording!Launch, Recording!Identify,
     Recording!StartupAction, Recording!MediaReady, Recording!ObserveStartup, Recording!Finish,
     Recording!PostRollStart, Recording!PostRollEnd, Recording!Stop, Recording!Pull,
     Recording!Validate, Recording!Close, Recording!Tick, Recording!RecorderExits,
     Recording!EnterFinally, Recording!Report, Recording!control, Recording!RaiseInStart,
     Recording!RaiseInFinish, Recording!Return, Recording!Call, Recording!Raise,
     Recording!Running, Recording!Now, Recording!Alive
<1>6. CASE Recording!Finish
  <2>1. mem' = [mem EXCEPT !.finished = @ \/ mem.process] /\ device' = device /\ seen' = seen /\ todo' = <<>>
    BY <1>3, <1>4, <1>6 DEF Recording!Finish, Recording!RaiseInStart, Recording!RaiseInFinish,
       Recording!Return, Recording!Call, Recording!Raise, Recording!Running, Recording!Now,
       Recording!Alive
  <2>2. RecordingFields' /\ mem'.finished /\ Recording!Earned'
    BY <1>3, <2>1 DEF RecordingFields, Recording!Earned
  <2>3. QED
    BY <1>1, <1>3, <2>1, <2>2 DEF RecordingPassing
<1>7. CASE Recording!Tick
  <2>1. mem' = mem /\ seen' = seen /\ todo' = todo
    BY <1>7 DEF Recording!Tick, Recording!control
  <2>2. PICK frame \in BOOLEAN :
          LET now == device.now + 1
              shown == frame /\ Recording!Alive
              full == Recording!Alive /\ now - device.began >= LIMIT
          IN device' = [device EXCEPT !.now = now,
                           !.first = IF shown /\ @ = 0 THEN now ELSE @,
                           !.last = IF shown THEN now ELSE @,
                           !.recorder = IF full THEN "exited" ELSE @,
                           !.owned = IF full THEN @ \ {"recorder", "adb"} ELSE @]
    BY <1>7 DEF Recording!Tick
  <2>3. /\ DOMAIN device' = DOMAIN device /\ device'.now = device.now + 1
        /\ device'.began = device.began /\ device'.first = device.first /\ device'.last = device.last
        /\ device'.recorder = device.recorder
    BY <1>3, <2>2 DEF Recording!Alive, RecordingFields
  <2>4. RecordingFields' /\ Recording!Earned'
    BY <1>3, <2>1, <2>3 DEF RecordingFields, Recording!Earned
  <2>5. QED
    BY <1>1, <1>3, <2>1, <2>3, <2>4 DEF RecordingPassing
<1>8. CASE Recording!Report /\ UNCHANGED <<device, mem, seen>>
  BY <1>1, <1>3, <1>8 DEF Recording!Report, RecordingPassing, RecordingFields, Recording!Earned
<1>9. QED
  BY <1>5, <1>6, <1>7, <1>8

LEMMA RecordingPassingInit ==
  ASSUME Recording!Init
  PROVE  RecordingPassing
<1>1. PICK kind \in Kinds, require, foreign \in BOOLEAN :
        /\ Recording!Start(Recording!Program(kind))
        /\ device = [now |-> 1, recorder |-> "off", began |-> 0, first |-> 0, last |-> 0,
                     foreign |-> foreign, owned |-> {}]
        /\ mem = [kind |-> kind, require |-> require, process |-> FALSE, pid |-> FALSE,
                  launched |-> 0, status |-> "not-started", action |-> "none", trigger |-> 0,
                  ready |-> 0, observed |-> 0, required |-> 0, postRollFailed |-> FALSE,
                  stopped |-> 0, exitedEarly |-> FALSE, pulled |-> "none", finished |-> FALSE]
        /\ seen = [actions |-> 0]
  BY DEF Recording!Init
<1>2. RecordingFields /\ RecordingClocks /\ ~mem.finished /\ mem.required = 0 /\ seen.actions = 0
  BY <1>1 DEF RecordingFields, RecordingClocks
<1>3. mem.kind \in {"live", "action", "finite"} /\ mem.kind = kind
  BY <1>1, KindsAssumption
<1>4. RecordingOps \in Seq(RecordingCalls) /\ Len(RecordingOps) \in 4..6
  BY <1>3, RecordingOrder
<1>5. todo = RecordingOps /\ mode = "run" /\ errors = FALSE
  BY <1>1, <1>3, RecordingProgram DEF Recording!Start
<1>6. After(RecordingOps, 0) = RecordingOps
  BY <1>4, AfterNone
<1>7. RecordingBegins(0) /\ 0 \in 0..(Len(RecordingOps) - 1)
  <2> DEFINE n == Len(RecordingOps)
  <2>1. n \in 4..6
    BY <1>4
  <2> HIDE DEF n
  <2>2. 0 \in 0..(n - 1)
    BY <2>1
  <2>3. RecordingBegins(0)
    BY <1>2, <1>5, <1>6 DEF RecordingBegins
  <2>4. QED
    BY <2>2, <2>3 DEF n
<1>8. QED
  BY <1>2, <1>5, <1>7 DEF RecordingPassing

-----------------------------------------------------------------------------
(* The verdict of the observer.                                            *)

ObserverFields ==
  /\ "before_pid" \in DOMAIN mem
  /\ mem.before_pid \in Nat /\ device.app \in Nat /\ device.tree \in Nat

(* The app is the process the capture began with, or a later one; a tree   *)
(* belongs to one that has run since.                                      *)
ObserverClocks ==
  /\ mem.before_pid <= device.app
  /\ device.proc.response = "hierarchy" =>
       mem.before_pid <= device.tree /\ device.tree <= device.app

(* An answer was believed after the helper had ended, and nobody takes     *)
(* another tree from there on.                                             *)
ObserverSoFar(op) ==
  /\ op \in {"close", "judge"} /\ mem.outcome = "returned" => device.proc.helper = "exited"
  /\ op \in {"window", "pid-after", "response"} => device.proc.helper = "exited"
  /\ op = "response" /\ device.proc.response = "hierarchy" => device.tree = mem.before_pid
  /\ op = "end" => seen.trees # {}

ObserverTrees == \A tree \in seen.trees : tree.pid = tree.before

ObserverPassing ==
  /\ mode = "run" => /\ errors = FALSE /\ ObserverFields /\ ObserverClocks /\ ObserverTrees
                     /\ IF todo = <<>> THEN seen.trees # {} ELSE ObserverSoFar(Head(todo))
  /\ mode # "run" /\ ~errors => Observer!Earned

LEMMA ObserverRaises ==
  ASSUME mode = "run", errors = FALSE, ObserverUndone, Observer!Next, errors' # FALSE
  PROVE  mode' # "run" /\ errors' = TRUE
<1>0. Observer!Judge => mem.outcome \in ObserverOutcomes
  BY DEF ObserverUndone, Observer!Judge, Observer!Now
<1>1. QED
  BY <1>0 DEF Observer!Next, Observer!Runner, Observer!Unchanged, Observer!InstallHelper,
     Observer!Observe, Observer!Collect, Observer!CollectEnds, Observer!Close, Observer!Judge,
     Observer!StopHelper, Observer!PidAgain, Observer!ReadWindow, Observer!PidAfter,
     Observer!Response, Observer!CleanUp, Observer!Reader, Observer!Helper, Observer!Signal,
     Observer!AppRestarts, Observer!Tick, Observer!Retry, Observer!Require, Observer!Return,
     Observer!Call, Observer!Raise, Observer!ReturnUnheeded, Observer!EnterFinally,
     Observer!Report, Observer!control, Observer!Running, Observer!Now, ObserverOutcomes

(* What an operation leaves to be done, if it does not raise.              *)
LEMMA ObserverCalls ==
  ASSUME todo \in ObserverTodos, todo # <<>>
  PROVE  /\ Observer!Return => todo' = Tail(todo)
         /\ Observer!Retry /\ errors' = FALSE => todo' = <<"observe", "end">> /\ mode' = mode
         /\ Observer!Call(<<"collect", "close", "judge">>) /\ Head(todo) = "observe" =>
              Head(todo') = "collect" /\ todo' # <<>>
         /\ Observer!Call(<<"window", "pid-after", "response">>) /\ Head(todo) = "judge" =>
              Head(todo') = "window" /\ todo' # <<>>
         /\ Observer!Call(<<"stop-helper", "pid-again">>) /\ Head(todo) = "judge" =>
              Head(todo') = "stop-helper" /\ todo' # <<>>
<1>1. /\ SubSeq(todo, Len(todo), Len(todo)) = <<"end">> /\ <<>> \o Tail(todo) = Tail(todo)
      /\ Head(todo) = "observe" => Tail(todo) = <<"end">>
      /\ Head(todo) = "judge" => Tail(todo) = <<"end">>
  BY ObserverPlaces
<1>2. <<"observe">> \o <<"end">> = <<"observe", "end">>
  BY OneAndOne
<1>3. <<"stop-helper", "pid-again">> \o <<"end">> = <<"stop-helper", "pid-again", "end">>
  BY TwoAndOne
<1>4. <<"collect", "close", "judge">> \o <<"end">> = <<"collect", "close", "judge", "end">>
  BY ThreeAndOne
<1>5. <<"window", "pid-after", "response">> \o <<"end">> = <<"window", "pid-after", "response", "end">>
  BY ThreeAndOne
<1>6. Observer!Return => todo' = Tail(todo)
  BY <1>1 DEF Observer!Return, Observer!Call
<1>7. Observer!Retry /\ errors' = FALSE => todo' = <<"observe", "end">> /\ mode' = mode
  BY <1>1, <1>2 DEF Observer!Retry, Observer!Raise
<1>8. Observer!Call(<<"collect", "close", "judge">>) /\ Head(todo) = "observe" =>
        todo' = <<"collect", "close", "judge", "end">>
  BY <1>1, <1>4 DEF Observer!Call
<1>9. Observer!Call(<<"window", "pid-after", "response">>) /\ Head(todo) = "judge" =>
        todo' = <<"window", "pid-after", "response", "end">>
  BY <1>1, <1>5 DEF Observer!Call
<1>10. Observer!Call(<<"stop-helper", "pid-again">>) /\ Head(todo) = "judge" =>
        todo' = <<"stop-helper", "pid-again", "end">>
  BY <1>1, <1>3 DEF Observer!Call
<1>11. QED
  BY <1>6, <1>7, <1>8, <1>9, <1>10

(* What happens beside the runner's own operations.                        *)
LEMMA ObserverBeside ==
  ASSUME ObserverKnows, ObserverFields, ObserverClocks,
         Observer!Reader \/ Observer!Helper \/ Observer!AppRestarts \/ Observer!Tick,
         NEW op, ObserverSoFar(op)
  PROVE  /\ ObserverFields' /\ ObserverClocks' /\ ObserverSoFar(op)'
         /\ UNCHANGED <<control, mem, seen>>
<1> USE DEF ObserverKnows, ObserverFields, ObserverClocks, ObserverSoFar, Observer!Proc, Observer!control,
       control
<1>1. CASE Observer!Reader
  <2>1. /\ device'.app = device.app /\ device'.tree = device.tree
        /\ device'.proc.helper = device.proc.helper /\ device'.proc.response = device.proc.response
    <3>1. CASE device' = [device EXCEPT !.proc.reader = "ended", !.owned = @ \ {"reader"}]
      BY <3>1
    <3> DEFINE chunk == Head(device.proc.pipe)
    <3>2. CASE device' = [device EXCEPT !.proc.chunks = Append(@, chunk), !.proc.pipe = Tail(@),
                            !.proc.reader = IF chunk.stage = "eof" THEN "ended" ELSE @,
                            !.owned = IF chunk.stage = "eof" THEN @ \ {"reader"} ELSE @]
      <4>1. PICK chunks, pipe, reader, owned :
              device' = [device EXCEPT !.proc.chunks = chunks, !.proc.pipe = pipe,
                                       !.proc.reader = reader, !.owned = owned]
        BY <3>2, Zenon
      <4>2. QED
        BY <4>1
    <3>3. QED
      BY <1>1, <3>1, <3>2 DEF Observer!Reader
  <2>2. UNCHANGED <<control, mem, seen>>
    BY <1>1 DEF Observer!Reader
  <2>3. QED
    BY <2>1, <2>2
<1>2. CASE Observer!AppRestarts
  BY <1>2 DEF Observer!AppRestarts
<1>3. CASE Observer!Tick
  BY <1>3 DEF Observer!Tick
<1>4. CASE Observer!Helper
  <2>1. device.proc.helper # "exited" /\ UNCHANGED <<control, mem, seen>>
    BY <1>4 DEF Observer!Helper
  <2>2. /\ device'.app = device.app
        /\ \/ device'.tree = device.tree /\ device'.proc.response = device.proc.response
           \/ device'.tree = device.tree /\ device'.proc.response \in {"retryable", "native"}
           \/ device'.tree = device.app /\ device'.proc.response = "hierarchy"
    <3>1. \/ \E pipe : device' = [device EXCEPT !.proc.helper = "capturing", !.proc.pipe = pipe]
          \/ \E pipe : device' = [device EXCEPT !.proc.helper = "traversed", !.proc.pipe = pipe,
                                     !.proc.response = "hierarchy", !.tree = device.app]
          \/ \E response \in {"retryable", "native"} :
                device' = [device EXCEPT !.proc.helper = "traversed", !.proc.response = response]
          \/ \E pipe, owned :
                device' = [device EXCEPT !.proc.helper = "exited", !.owned = owned, !.proc.pipe = pipe]
      BY <1>4, Zenon DEF Observer!Helper
    <3>2. CASE \E pipe : device' = [device EXCEPT !.proc.helper = "capturing", !.proc.pipe = pipe]
      <4>1. PICK pipe : device' = [device EXCEPT !.proc.helper = "capturing", !.proc.pipe = pipe]
        BY <3>2
      <4>2. QED
        BY <4>1
    <3>3. CASE \E pipe : device' = [device EXCEPT !.proc.helper = "traversed", !.proc.pipe = pipe,
                                     !.proc.response = "hierarchy", !.tree = device.app]
      <4>1. PICK pipe : device' = [device EXCEPT !.proc.helper = "traversed", !.proc.pipe = pipe,
                                     !.proc.response = "hierarchy", !.tree = device.app]
        BY <3>3
      <4>2. QED
        BY <4>1
    <3>4. CASE \E pipe, owned :
                device' = [device EXCEPT !.proc.helper = "exited", !.owned = owned, !.proc.pipe = pipe]
      <4>1. PICK pipe, owned :
                device' = [device EXCEPT !.proc.helper = "exited", !.owned = owned, !.proc.pipe = pipe]
        BY <3>4
      <4>2. QED
        BY <4>1
    <3>5. CASE \E response \in {"retryable", "native"} :
                device' = [device EXCEPT !.proc.helper = "traversed", !.proc.response = response]
      <4>1. PICK response \in {"retryable", "native"} :
                device' = [device EXCEPT !.proc.helper = "traversed", !.proc.response = response]
        BY <3>5
      <4>2. QED
        BY <4>1
    <3>6. QED
      BY <3>1, <3>2, <3>3, <3>4, <3>5
  <2>3. ObserverFields' /\ ObserverClocks'
    BY <2>1, <2>2
  <2>4. ObserverSoFar(op)'
    BY <2>1
  <2>5. QED
    BY <2>1, <2>3, <2>4
<1>5. QED
  BY <1>1, <1>2, <1>3, <1>4

LEMMA ObserverPassingRuns ==
  ASSUME ObserverKnows, ObserverUndone, ObserverPassing, mode = "run", Observer!Next, errors' = FALSE
  PROVE  ObserverPassing'
<1> DEFINE op == Head(todo)
           trees == IF todo = <<>> THEN seen.trees # {} ELSE ObserverSoFar(op)
           same == UNCHANGED <<device.app, device.tree, device.proc.response, device.proc.helper>>
<1>1. /\ todo \in ObserverTodos /\ ObserverFields /\ ObserverClocks /\ ObserverTrees /\ errors = FALSE
      /\ todo # <<>> => ObserverSoFar(op)
      /\ todo = <<>> => seen.trees # {}
  BY DEF ObserverPassing, ObserverUndone
<1>2. /\ Head(todo) = "install" /\ todo # <<>> => Tail(todo) = <<"observe", "end">>
      /\ Head(todo) = "collect" /\ todo # <<>> => Tail(todo) = <<"close", "judge", "end">>
      /\ Head(todo) = "close" /\ todo # <<>> => Tail(todo) = <<"judge", "end">>
      /\ Head(todo) = "stop-helper" /\ todo # <<>> => Tail(todo) = <<"pid-again", "end">>
      /\ Head(todo) = "window" /\ todo # <<>> => Tail(todo) = <<"pid-after", "response", "end">>
      /\ Head(todo) = "pid-after" /\ todo # <<>> => Tail(todo) = <<"response", "end">>
      /\ Head(todo) = "response" /\ todo # <<>> => Tail(todo) = <<"end">>
      /\ Head(todo) = "end" /\ todo # <<>> => Tail(todo) = <<>>
  BY <1>1, ObserverPlaces
<1>3. ASSUME ObserverFields', ObserverClocks', ObserverTrees', NEW next, todo' # <<>>,
             Head(todo') = next, ObserverSoFar(next)', mode' = "run"
      PROVE  ObserverPassing'
  BY <1>3 DEF ObserverPassing
<1>4. ASSUME device' = device, mem' = mem, seen' = seen
      PROVE  ObserverFields' /\ ObserverClocks' /\ ObserverTrees'
  BY <1>1, <1>4 DEF ObserverFields, ObserverClocks, ObserverTrees
<1>5. todo # <<>> =>
        /\ Observer!Return => todo' = Tail(todo) /\ mode' = mode
        /\ Observer!Retry => Head(todo') = "observe" /\ todo' # <<>> /\ mode' = mode
  <2>1. <<"observe", "end">> # <<>> /\ Head(<<"observe", "end">>) = "observe"
    OBVIOUS
  <2>2. QED
    BY <1>1, <2>1, ObserverCalls DEF Observer!Return, Observer!Call
<1>6. ~Observer!Raise(Observer!CLEANUP)
  BY DEF Observer!Raise
<1>7. ObserverSoFar("observe")' /\ ObserverSoFar("collect")' /\ ObserverSoFar("stop-helper")'
      /\ ObserverSoFar("pid-again")'
  BY DEF ObserverSoFar
<1>8. ASSUME ObserverFields', ObserverClocks', ObserverTrees', todo # <<>>, Observer!Retry
      PROVE  ObserverPassing'
  BY <1>3, <1>5, <1>7, <1>8
<1>10. CASE Observer!InstallHelper
  <2>1. todo # <<>> /\ Head(todo) = "install" /\ Observer!Return /\ seen' = seen
        /\ device' = [device EXCEPT !.owned = @ \cup {"observer"}]
        /\ mem' = [mem EXCEPT !.owns_package = TRUE, !.installed = TRUE]
    BY <1>6, <1>10 DEF Observer!InstallHelper, Observer!Now, Observer!Own
  <2>2. ObserverFields' /\ ObserverClocks' /\ ObserverTrees'
    BY <1>1, <2>1 DEF ObserverFields, ObserverClocks, ObserverTrees, ObserverKnows
  <2>3. todo' = <<"observe", "end">> /\ mode' = "run"
    BY <1>2, <1>5, <2>1
  <2>4. Head(todo') = "observe" /\ todo' # <<>>
    BY <2>3
  <2>5. QED
    BY <1>3, <1>7, <2>2, <2>3, <2>4
<1>11. CASE Observer!Observe
  <2>1. todo # <<>> /\ Head(todo) = "observe" /\ seen' = seen
        /\ Observer!Call(<<"collect", "close", "judge">>)
    BY <1>6, <1>11 DEF Observer!Observe, Observer!Now
  <2>2. PICK caller \in {STARTUP, Observer!TOTAL} :
          /\ mem' = [mem EXCEPT !.captures = @ + 1, !.before_pid = device.app,
                  !.total = Observer!Least(caller, Observer!TOTAL),
                  !.deadline = Observer!Least(caller, STARTUP),
                  !.ready = FALSE, !.traversed = FALSE, !.finished = FALSE, !.outcome = "none"]
          /\ device' = [device EXCEPT !.now = 0, !.owned = @ \cup {"helper", "adb", "reader"},
                  !.proc = [Observer!Idle EXCEPT !.reader = "reading", !.helper = "starting"]]
    BY <1>6, <1>11 DEF Observer!Observe
  <2>3. "before_pid" \in DOMAIN mem' /\ mem'.before_pid = device.app
    BY <1>1, <2>2 DEF ObserverFields
  <2>4. device'.app = device.app /\ device'.tree = device.tree /\ device'.proc.response = "none"
    BY <2>2 DEF ObserverKnows, Observer!Idle
  <2>5. ObserverFields' /\ ObserverClocks' /\ ObserverTrees'
    BY <1>1, <2>1, <2>3, <2>4 DEF ObserverFields, ObserverClocks, ObserverTrees
  <2>6. Head(todo') = "collect" /\ todo' # <<>> /\ mode' = "run"
    BY <1>1, <2>1, ObserverCalls DEF Observer!Call
  <2>7. QED
    BY <1>3, <1>7, <2>5, <2>6
<1>12. CASE Observer!Collect
  <2>1. todo # <<>> /\ Head(todo) = "collect" /\ seen' = seen /\ mode' = "run"
        /\ device' = [device EXCEPT !.proc.chunks = Tail(@)]
    BY <1>12 DEF Observer!Collect, Observer!Now
  <2>2. device'.app = device.app /\ device'.tree = device.tree
        /\ device'.proc.response = device.proc.response /\ device'.proc.helper = device.proc.helper
    <3>1. PICK chunks : device' = [device EXCEPT !.proc.chunks = chunks]
      BY <2>1, Zenon
    <3>2. QED
      BY <3>1 DEF ObserverKnows
  <2> DEFINE event == Head(device.proc.chunks)
  <2>3. CASE Observer!Accepts(event)
    <3>1. mem' = Observer!Progressed(event) /\ todo' = todo
      BY <1>12, <2>3 DEF Observer!Collect, Observer!Proc
    <3>2. "before_pid" \in DOMAIN mem' /\ mem'.before_pid = mem.before_pid
      <4>1. \/ \E uptime, deadline :
                 mem' = [mem EXCEPT !.ready = TRUE, !.capture_uptime = uptime, !.deadline = deadline]
            \/ mem' = [mem EXCEPT !.traversed = TRUE]
            \/ \E deadline : mem' = [mem EXCEPT !.finished = TRUE, !.deadline = deadline]
        <5>1. event.stage \in {"service_ready", "traverse_ready", "finish"}
          BY <2>3 DEF Observer!Accepts
        <5>2. CASE event.stage = "service_ready"
          BY <3>1, <5>2 DEF Observer!Progressed
        <5>3. CASE event.stage = "traverse_ready"
          BY <3>1, <5>3 DEF Observer!Progressed
        <5>4. CASE event.stage = "finish"
          <6>1. mem' = [mem EXCEPT !.finished = TRUE,
                                   !.deadline = Observer!Least(@, device.now + RESULT)]
            BY <3>1, <5>4 DEF Observer!Progressed
          <6>2. QED
            BY <6>1, Zenon
        <5>5. QED
          BY <5>1, <5>2, <5>3, <5>4
      <4>2. QED
        BY <1>1, <4>1 DEF ObserverFields
    <3>3. ObserverFields' /\ ObserverClocks' /\ ObserverTrees'
      BY <1>1, <2>1, <2>2, <3>2 DEF ObserverFields, ObserverClocks, ObserverTrees
    <3>4. QED
      BY <1>3, <1>7, <2>1, <3>1, <3>3
  <2>4. CASE ~Observer!Accepts(event)
    <3>1. mem' = [mem EXCEPT !.outcome = "integrity"] /\ todo' = Tail(todo)
      BY <1>12, <2>4 DEF Observer!Collect, Observer!Proc
    <3>2. ObserverFields' /\ ObserverClocks' /\ ObserverTrees'
      BY <1>1, <2>1, <2>2, <3>1 DEF ObserverFields, ObserverClocks, ObserverTrees, ObserverKnows
    <3>3. todo' = <<"close", "judge", "end">>
      BY <1>2, <2>1, <3>1
    <3>4. todo' # <<>> /\ Head(todo') = "close"
      BY <3>3
    <3>5. ObserverSoFar("close")'
      <4>1. mem'.outcome = "integrity"
        BY <3>1 DEF ObserverKnows
      <4>2. QED
        BY <4>1 DEF ObserverSoFar
    <3>6. QED
      BY <1>3, <2>1, <3>2, <3>4, <3>5
  <2>5. QED
    BY <2>3, <2>4
<1>13. CASE Observer!CollectEnds
  <2>1. todo # <<>> /\ Head(todo) = "collect" /\ seen' = seen /\ device' = device /\ Observer!Return
    BY <1>13 DEF Observer!CollectEnds, Observer!Now
  <2>2. \E outcome : /\ mem' = [mem EXCEPT !.outcome = outcome]
                     /\ outcome = "returned" => device.proc.helper = "exited"
    BY <1>13, Zenon DEF Observer!CollectEnds, Observer!Proc
  <2>3. ObserverFields' /\ ObserverClocks' /\ ObserverTrees'
    BY <1>1, <2>1, <2>2 DEF ObserverFields, ObserverClocks, ObserverTrees, ObserverKnows
  <2>4. mem'.outcome = "returned" => device'.proc.helper = "exited"
    BY <2>1, <2>2 DEF ObserverKnows
  <2>5. todo' = <<"close", "judge", "end">> /\ mode' = "run"
    BY <1>2, <1>5, <2>1
  <2>6. todo' # <<>> /\ Head(todo') = "close"
    BY <2>5
  <2>7. ObserverSoFar("close")'
    BY <2>4 DEF ObserverSoFar
  <2>8. QED
    BY <1>3, <2>3, <2>5, <2>6, <2>7
<1>14. CASE Observer!Signal
  <2>1. todo # <<>> /\ Head(todo) = "collect" /\ seen' = seen /\ device' = device
        /\ todo' = Tail(todo) /\ mode' = "run" /\ mem' = [mem EXCEPT !.outcome = "signal"]
    BY <1>14 DEF Observer!Signal, Observer!Now
  <2>2. ObserverFields' /\ ObserverClocks' /\ ObserverTrees' /\ mem'.outcome = "signal"
    BY <1>1, <2>1 DEF ObserverFields, ObserverClocks, ObserverTrees, ObserverKnows
  <2>3. todo' = <<"close", "judge", "end">>
    BY <1>2, <2>1
  <2>4. todo' # <<>> /\ Head(todo') = "close"
    BY <2>3
  <2>5. ObserverSoFar("close")'
    BY <2>2 DEF ObserverSoFar
  <2>6. QED
    BY <1>3, <2>1, <2>2, <2>4, <2>5
<1>15. CASE Observer!Close
  <2>1. todo # <<>> /\ Head(todo) = "close" /\ seen' = seen /\ Observer!Return
        /\ device' = [device EXCEPT !.proc.stopping = TRUE, !.proc.pipe = <<>>, !.proc.chunks = <<>>,
                                    !.owned = @ \ {"adb"}]
        /\ mem' = Observer!NoBudget(mem)
    BY <1>15 DEF Observer!Close, Observer!Now
  <2>2. device'.app = device.app /\ device'.tree = device.tree
        /\ device'.proc.response = device.proc.response /\ device'.proc.helper = device.proc.helper
    BY <2>1 DEF ObserverKnows
  <2>3. "before_pid" \in DOMAIN mem' /\ mem'.before_pid = mem.before_pid /\ mem'.outcome = mem.outcome
    BY <1>1, <2>1 DEF Observer!NoBudget, ObserverFields
  <2>4. ObserverFields' /\ ObserverClocks' /\ ObserverTrees'
    BY <1>1, <2>1, <2>2, <2>3 DEF ObserverFields, ObserverClocks, ObserverTrees
  <2>5. todo' = <<"judge", "end">> /\ mode' = "run"
    BY <1>2, <1>5, <2>1
  <2>6. todo' # <<>> /\ Head(todo') = "judge"
    BY <2>5
  <2>7. ObserverSoFar("judge")'
    BY <1>1, <2>1, <2>2, <2>3 DEF ObserverSoFar
  <2>8. QED
    BY <1>3, <2>4, <2>5, <2>6, <2>7
<1>16. CASE Observer!Judge
  <2>1. todo # <<>> /\ Head(todo) = "judge" /\ device' = device /\ mem' = mem
        /\ mem.outcome \in ObserverOutcomes
        /\ seen' = [seen EXCEPT !.expired = @ \/ mem.outcome = "timeout"]
    BY <1>16 DEF Observer!Judge, Observer!Now, ObserverUndone
  <2>2. seen'.trees = seen.trees
    BY <2>1 DEF ObserverKnows
  <2>3. ObserverFields' /\ ObserverClocks' /\ ObserverTrees'
    BY <1>1, <2>1, <2>2 DEF ObserverFields, ObserverClocks, ObserverTrees
  <2>4. CASE mem.outcome = "returned"
    <3>1. Observer!Call(<<"window", "pid-after", "response">>)
      BY <1>16, <2>4 DEF Observer!Judge
    <3>2. Head(todo') = "window" /\ todo' # <<>> /\ mode' = "run"
      BY <1>1, <2>1, <3>1, ObserverCalls DEF Observer!Call
    <3>3. ObserverSoFar("window")'
      BY <1>1, <2>1, <2>4 DEF ObserverSoFar
    <3>4. QED
      BY <1>3, <2>3, <3>2, <3>3
  <2>5. CASE mem.outcome \in {"timeout", "integrity"}
    <3>1. Observer!Call(<<"stop-helper", "pid-again">>)
      BY <1>16, <2>5 DEF Observer!Judge
    <3>2. Head(todo') = "stop-helper" /\ todo' # <<>> /\ mode' = "run"
      BY <1>1, <2>1, <3>1, ObserverCalls DEF Observer!Call
    <3>3. QED
      BY <1>3, <1>7, <2>3, <3>2
  <2>6. CASE mem.outcome = "signal"
    <3>1. Observer!Retry
      BY <1>16, <2>6 DEF Observer!Judge
    <3>2. QED
      BY <1>8, <2>1, <2>3, <3>1
  <2>7. QED
    BY <2>1, <2>4, <2>5, <2>6 DEF ObserverOutcomes
<1>17. CASE Observer!StopHelper
  <2>1. todo # <<>> /\ Head(todo) = "stop-helper" /\ mem' = mem
        /\ seen' = [seen EXCEPT !.masked = @ \/ faults' # faults]
        /\ \/ Observer!Return
              /\ device' = [device EXCEPT !.owned = @ \ {"helper"}, !.proc.helper = "exited"]
           \/ Observer!Retry /\ device' = device
    BY <1>17 DEF Observer!StopHelper, Observer!Now
  <2>2. seen'.trees = seen.trees /\ device'.app = device.app /\ device'.tree = device.tree
        /\ device'.proc.response = device.proc.response
    BY <2>1 DEF ObserverKnows
  <2>3. ObserverFields' /\ ObserverClocks' /\ ObserverTrees'
    BY <1>1, <2>1, <2>2 DEF ObserverFields, ObserverClocks, ObserverTrees
  <2>4. CASE Observer!Return
    <3>1. todo' = <<"pid-again", "end">> /\ mode' = "run"
      BY <1>2, <1>5, <2>1, <2>4
    <3>2. todo' # <<>> /\ Head(todo') = "pid-again"
      BY <3>1
    <3>3. QED
      BY <1>3, <1>7, <2>3, <3>1, <3>2
  <2>5. QED
    BY <1>8, <2>1, <2>3, <2>4
<1>18. CASE Observer!PidAgain
  <2>1. todo # <<>> /\ Observer!Retry /\ seen' = [seen EXCEPT !.masked = TRUE]
        /\ device' = device /\ mem' = mem
    BY <1>6, <1>18 DEF Observer!PidAgain, Observer!Now
  <2>2. seen'.trees = seen.trees
    BY <2>1 DEF ObserverKnows
  <2>3. ObserverFields' /\ ObserverClocks' /\ ObserverTrees'
    BY <1>1, <2>1, <2>2 DEF ObserverFields, ObserverClocks, ObserverTrees
  <2>4. QED
    BY <1>8, <2>1, <2>3
<1>19. CASE Observer!ReadWindow
  <2>1. todo # <<>> /\ Head(todo) = "window" /\ device' = device /\ mem' = mem /\ seen' = seen
        /\ (Observer!Return \/ Observer!Retry)
    BY <1>6, <1>19 DEF Observer!ReadWindow, Observer!Now, Observer!Unchanged
  <2>2. CASE Observer!Return
    <3>1. todo' = <<"pid-after", "response", "end">> /\ mode' = "run"
      BY <1>2, <1>5, <2>1, <2>2
    <3>2. todo' # <<>> /\ Head(todo') = "pid-after"
      BY <3>1
    <3>3. ObserverSoFar("pid-after")'
      BY <1>1, <2>1 DEF ObserverSoFar
    <3>4. QED
      BY <1>3, <1>4, <2>1, <3>1, <3>2, <3>3
  <2>3. QED
    BY <1>4, <1>8, <2>1, <2>2
<1>20. CASE Observer!PidAfter
  <2>1. todo # <<>> /\ Head(todo) = "pid-after" /\ device' = device /\ mem' = mem /\ seen' = seen
        /\ Observer!Return /\ device.app = mem.before_pid
    BY <1>6, <1>20 DEF Observer!PidAfter, Observer!Now, Observer!Unchanged, Observer!Require
  <2>2. todo' = <<"response", "end">> /\ mode' = "run"
    BY <1>2, <1>5, <2>1
  <2>3. todo' # <<>> /\ Head(todo') = "response"
    BY <2>2
  <2>4. device.proc.response = "hierarchy" => device.tree = mem.before_pid
    BY <1>1, <2>1 DEF ObserverClocks, ObserverFields
  <2>5. ObserverSoFar("response")'
    BY <1>1, <2>1, <2>4 DEF ObserverSoFar
  <2>6. QED
    BY <1>3, <1>4, <2>1, <2>2, <2>3, <2>5
<1>21. CASE Observer!Response
  <2>1. todo # <<>> /\ Head(todo) = "response" /\ device' = device /\ mem' = mem
    BY <1>21 DEF Observer!Response, Observer!Now
  <2>2. \/ /\ seen' = [seen EXCEPT !.trees = @ \cup {[pid |-> device.tree, before |-> mem.before_pid]}]
           /\ device.proc.response = "hierarchy" /\ Observer!Return
        \/ Observer!Retry /\ seen' = seen
    BY <1>6, <1>21 DEF Observer!Response, Observer!Proc
  <2>3. CASE Observer!Retry /\ seen' = seen
    BY <1>4, <1>8, <2>1, <2>3
  <2>4. CASE /\ seen' = [seen EXCEPT !.trees = @ \cup {[pid |-> device.tree, before |-> mem.before_pid]}]
             /\ device.proc.response = "hierarchy" /\ Observer!Return
    <3>1. device.tree = mem.before_pid
      BY <1>1, <2>1, <2>4 DEF ObserverSoFar
    <3>2. seen'.trees = seen.trees \cup {[pid |-> device.tree, before |-> mem.before_pid]}
      BY <2>4 DEF ObserverKnows
    <3>3. ObserverTrees' /\ seen'.trees # {}
      <4> DEFINE new == [pid |-> device.tree, before |-> mem.before_pid]
      <4>1. new.pid = new.before
        BY <3>1
      <4> HIDE DEF new
      <4>2. seen'.trees = seen.trees \cup {new}
        BY <3>2 DEF new
      <4>3. QED
        BY <1>1, <4>1, <4>2 DEF ObserverTrees
    <3>4. ObserverFields' /\ ObserverClocks'
      BY <1>1, <2>1 DEF ObserverFields, ObserverClocks
    <3>5. todo' = <<"end">> /\ mode' = "run"
      BY <1>2, <1>5, <2>1, <2>4
    <3>6. todo' # <<>> /\ Head(todo') = "end"
      BY <3>5
    <3>7. ObserverSoFar("end")'
      BY <3>3 DEF ObserverSoFar
    <3>8. QED
      BY <1>3, <3>3, <3>4, <3>5, <3>6, <3>7
  <2>5. QED
    BY <2>2, <2>3, <2>4
<1>22. CASE Observer!Now("end") /\ Observer!Return /\ Observer!Unchanged
  <2>1. todo # <<>> /\ Head(todo) = "end" /\ device' = device /\ mem' = mem /\ seen' = seen
    BY <1>22 DEF Observer!Now, Observer!Unchanged
  <2>2. todo' = <<>> /\ mode' = "run" /\ seen'.trees # {}
    BY <1>1, <1>2, <1>5, <1>22, <2>1 DEF ObserverSoFar
  <2>3. QED
    BY <1>4, <2>1, <2>2 DEF ObserverPassing
<1>23. CASE Observer!EnterFinally(Observer!CLEANUP) /\ Observer!Unchanged
  <2>1. mode' = "cleanup" /\ seen' = seen /\ todo = <<>>
    BY <1>23 DEF Observer!EnterFinally, Observer!Unchanged
  <2>2. Observer!Earned'
    BY <1>1, <2>1 DEF Observer!Earned, ObserverTrees
  <2>3. QED
    BY <2>1, <2>2 DEF ObserverPassing
<1>24. CASE Observer!Reader \/ Observer!Helper \/ Observer!AppRestarts \/ Observer!Tick
  <2>1. CASE todo = <<>>
    <3>1. ObserverSoFar("none")
      BY DEF ObserverSoFar
    <3>2. ObserverFields' /\ ObserverClocks' /\ UNCHANGED <<control, mem, seen>>
      BY <1>1, <1>24, <3>1, ObserverBeside
    <3>3. QED
      BY <1>1, <2>1, <3>2 DEF ObserverPassing, ObserverTrees, control
  <2>2. CASE todo # <<>>
    <3>1. PICK now : now = op
      OBVIOUS
    <3>2. ObserverFields' /\ ObserverClocks' /\ ObserverSoFar(now)' /\ UNCHANGED <<control, mem, seen>>
      BY <1>1, <1>24, <2>2, <3>1, ObserverBeside
    <3>3. QED
      BY <1>1, <2>2, <3>1, <3>2 DEF ObserverPassing, ObserverTrees, control
  <2>3. QED
    BY <2>1, <2>2
<1>25. QED
  BY <1>10, <1>11, <1>12, <1>13, <1>14, <1>15, <1>16, <1>17, <1>18, <1>19, <1>20, <1>21, <1>22,
     <1>23, <1>24, ObserverOnlyTries DEF Observer!Next, Observer!Runner

LEMMA ObserverPassingCleans ==
  ASSUME ObserverKnows, ObserverUndone, ObserverPassing, mode # "run", Observer!Next
  PROVE  ObserverPassing'
<1>1. Observer!Reader \/ Observer!CleanUp \/ (Observer!Report /\ Observer!Unchanged)
  BY ObserverOnlyCleans DEF Observer!Next, Observer!Runner, Observer!EnterFinally, Observer!Running
<1>2. mode' # "run" /\ seen' = seen /\ (errors' = errors \/ errors' = TRUE)
  BY <1>1 DEF Observer!Reader, Observer!CleanUp, Observer!Report, Observer!Unchanged,
     Observer!control, Observer!Return, Observer!Call, Observer!Raise, Observer!ReturnUnheeded
<1>3. QED
  BY <1>2 DEF ObserverPassing, Observer!Earned

LEMMA ObserverPassingInit ==
  ASSUME Observer!Init
  PROVE  ObserverPassing
<1>1. todo = <<"install", "observe", "end">> /\ mode = "run" /\ errors = FALSE
  BY TwoAndOne DEF Observer!Init, Observer!Start
<1>2. todo # <<>> /\ Head(todo) = "install"
  BY <1>1
<1>3. ObserverFields /\ ObserverClocks /\ ObserverTrees /\ ObserverSoFar("install")
  BY DEF Observer!Init, ObserverFields, ObserverClocks, ObserverTrees, ObserverSoFar, Observer!Idle
<1>4. QED
  BY <1>1, <1>2, <1>3 DEF ObserverPassing

=============================================================================
