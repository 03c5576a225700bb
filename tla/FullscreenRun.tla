---------------------------- MODULE FullscreenRun ----------------------------
(***************************************************************************)
(* tools/android_fullscreen_runtime/run.py: the player enters full screen  *)
(* and leaves it with Back, on a phone that rotates.  Three recordings,    *)
(* none across a rotation; an interval in which nothing reads the screen,  *)
(* because reading it keeps the controls up; taps only where a button was  *)
(* just seen; Android's own full-screen tip, which covers the app once.    *)
(***************************************************************************)
EXTENDS ToolRun

FullPhases == {"07-entered-fullscreen", "09-controls-shown", "10-fullscreen-paused",
               "11-fullscreen-still-paused", "12-before-system-back"}
PlayingPhases == {"03-normal-playing", "04-normal-advanced", "09-controls-shown"}
Phases == {"02-loaded-paused", "05-before-fullscreen", "06-fresh-entry-control",
           "13-back-exits-fullscreen", "15-normal-return-home"} \cup FullPhases \cup PlayingPhases

Program ==
    <<"owned-avd", "prepare", "logcat", "load-fixture", "02-loaded-paused", "evidence", "app-pid",
      "record-play", "03-normal-playing", "04-normal-advanced", "stop-recording", "pause",
      "05-before-fullscreen", "evidence", "06-fresh-entry-control", "pid", "enter",
      "07-entered-fullscreen", "evidence", "pid",
      "record-play", "stop-observer", "idle", "pid", "disconnected", "idle", "pid",
      "center-tap", "09-controls-shown",
      "stop-recording", "pause", "10-fullscreen-paused", "evidence",
      "11-fullscreen-still-paused", "evidence", "12-before-system-back", "back",
      "13-back-exits-fullscreen", "evidence", "pid",
      "record-back", "15-normal-return-home", "evidence", "pid",
      "stop-recording", "all-recorded">>

CLEANUP == <<"stop-logcat", "owned-again", "stop-recording", "remove-observer", "force-stop",
             "remove-files">>

Unchanged == UNCHANGED <<device, mem, seen>>
Check(op, condition) == Now(op) /\ Require(condition, CLEANUP) /\ Unchanged
Fails(op) == Now(op) /\ Fault /\ Raise(CLEANUP) /\ Unchanged
Full == device.display = "full"

\* A raise of require_owned_avd in cleanup: nothing but the log is cleaned up.
OwnedAgain ==
    /\ Now("owned-again")
    /\ \/ Return
       \/ /\ mem.authorized \/ device.owned \cap {"files", "observer"} # {}
          /\ Fault /\ RaiseOut
    /\ Unchanged

\* "files" is the directory the tool knows it made, with its files,
\* "directory" one that a mkdir made which timed out.
Prepare ==
    /\ Now("prepare")
    /\ \E things \in {{}, {"directory"}, {"files"}, {"files", "observer"}}, authorized \in BOOLEAN :
         /\ authorized => "files" \in things
         /\ "observer" \in things => authorized
         /\ device' = [device EXCEPT !.owned = things]
         /\ mem' = [mem EXCEPT !.authorized = authorized]
         /\ \/ "observer" \in things /\ Return
            \/ Fault /\ Raise(CLEANUP)
    /\ UNCHANGED seen

StartLogcat == Now("logcat") /\ Own("logcat") /\ Return /\ UNCHANGED <<mem, seen>>

LoadFixture ==
    /\ Now("load-fixture")
    /\ device' = [device EXCEPT !.app = 1, !.screen = "player"]
    /\ ReturnOrFail(CLEANUP)
    /\ UNCHANGED <<mem, seen>>

-----------------------------------------------------------------------------
(* Samples and evidence.                                                   *)

Waiting == Running /\ todo # <<>> /\ Head(todo) \in Phases
WaitFails == Waiting /\ Raise(CLEANUP) /\ NoFault /\ Unchanged

Shows(phase) ==
    /\ device.app # 0 /\ ~device.tip
    /\ device.display = (IF phase \in FullPhases THEN "full" ELSE "normal")
    /\ IF phase = "15-normal-return-home" THEN device.screen = "home"
       ELSE /\ device.screen = "player"
            /\ device.playing = (phase \in PlayingPhases)
            /\ Full => device.controls

\* system_sample and sample.  The first entry requires the process it began
\* with before and after, or raises.
Sample ==
    /\ Waiting
    /\ LET phase == Head(todo)
       IN /\ Shows(phase)
          /\ IF phase = "07-entered-fullscreen" /\ device.app # mem.app_pid
             THEN Raise(CLEANUP) /\ NoFault /\ UNCHANGED <<mem, seen>>
             ELSE /\ Return
                  /\ mem' = [mem EXCEPT !.state = device.display]
                  /\ seen' = [seen EXCEPT !.pids = @ \cup {device.app}]
    /\ device' = [device EXCEPT !.observer = TRUE]

\* acknowledge_immersive_confirmation: in the first entry, once, the tip seen
\* a second time and the process still there; one tap.
AcknowledgeTip ==
    /\ Now("07-entered-fullscreen") /\ device.tip
    /\ IF mem.confirmed \/ device.app # mem.app_pid
       THEN Raise(CLEANUP) /\ NoFault /\ Unchanged
       ELSE /\ mem' = [mem EXCEPT !.confirmed = TRUE]
            /\ seen' = [seen EXCEPT !.taps = @ + 1]
            /\ \/ device' = [device EXCEPT !.tip = FALSE] /\ NoFault /\ UNCHANGED control
               \/ UNCHANGED device /\ Fault /\ Raise(CLEANUP)

\* evidence: the picture has the size of the display that was sampled, and
\* the display is the same after it.
Evidence == Check("evidence", device.display = mem.state /\ device.app # 0)

-----------------------------------------------------------------------------
(* The process, the recordings and the actions.                            *)

AppPid ==
    /\ Now("app-pid")
    /\ mem' = [mem EXCEPT !.app_pid = device.app]
    /\ Require(device.app # 0, CLEANUP)
    /\ UNCHANGED <<device, seen>>

CheckPid == Check("pid", device.app = mem.app_pid)

\* What a tap on the middle, or on the transport button, does: when the
\* controls of the full screen are hidden it shows them.
Tapped == IF Full /\ ~device.controls THEN [device EXCEPT !.controls = TRUE]
          ELSE [device EXCEPT !.playing = ~@ /\ device.screen = "player"]

\* start_recording with a startup action: the display before and after the
\* start must be the same, the action is sent once.
Record(op) ==
    /\ Now(op)
    /\ mem' = [mem EXCEPT !.recording = TRUE, !.recordings = @ + 1]
    /\ \/ /\ device' = [(IF op = "record-play" THEN Tapped ELSE [device EXCEPT !.screen = "home"])
                          EXCEPT !.owned = @ \cup {"recorder"}]
          /\ ReturnOrFail(CLEANUP)
       \/ Own("recorder") /\ Fault /\ Raise(CLEANUP)
    /\ UNCHANGED seen

\* finish_recording, and stop_for_rotation: no recorder is left.
StopRecording ==
    /\ Now("stop-recording")
    /\ mem' = [mem EXCEPT !.recording = FALSE]
    /\ \/ Drop("recorder") /\ Return
       \/ mem.recording /\ UNCHANGED device /\ Fault /\ Raise(CLEANUP)
    /\ UNCHANGED seen

\* pause_after_recording: the button is looked for again, the recording took
\* eight seconds to end.  Hidden controls are called up by one tap.
Pause ==
    /\ Now("pause")
    /\ IF device.app # mem.app_pid \/ ~device.playing \/ device.tip
       THEN Raise(CLEANUP) /\ NoFault
       ELSE Call(IF Full /\ ~device.controls THEN <<"center-tap", "revealed">> ELSE <<"tap-pause">>)
    /\ Unchanged

Revealed ==
    /\ Now("revealed")
    /\ \/ Full /\ device.controls /\ device.app = mem.app_pid /\ device.playing /\ Call(<<"tap-pause">>)
       \/ Raise(CLEANUP) /\ NoFault
    /\ Unchanged

Tap(op) ==
    /\ Now(op)
    /\ device' = Tapped
    /\ ReturnOrFail(CLEANUP)
    /\ UNCHANGED <<mem, seen>>

\* center_tap of capture_controls_idle_window, or to call the controls up.
CenterTap ==
    /\ Now("center-tap")
    /\ device' = [device EXCEPT !.controls = ~@ /\ Full]
    /\ ReturnOrFail(CLEANUP)
    /\ UNCHANGED <<mem, seen>>

\* The orientation changes only here; Android may show its tip the first time.
Enter ==
    /\ Now("enter")
    /\ \E tip \in BOOLEAN :
         device' = [device EXCEPT !.display = "full", !.controls = TRUE, !.tip = tip]
    /\ ReturnOrFail(CLEANUP)
    /\ seen' = [seen EXCEPT !.recordedTurn = @ \/ "recorder" \in device.owned]
    /\ UNCHANGED mem

Back ==
    /\ Now("back")
    /\ device' = [device EXCEPT !.display = "normal"]
    /\ ReturnOrFail(CLEANUP)
    /\ seen' = [seen EXCEPT !.recordedTurn = @ \/ "recorder" \in device.owned]
    /\ UNCHANGED mem

-----------------------------------------------------------------------------
(* capture_controls_idle_window.                                           *)

StopObserver ==
    /\ Now("stop-observer")
    /\ IF mem.recording /\ device.app = mem.app_pid
       THEN device' = [device EXCEPT !.observer = FALSE] /\ Return
       ELSE Raise(CLEANUP) /\ NoFault /\ UNCHANGED device
    /\ UNCHANGED <<mem, seen>>

\* A picture at either end of the interval; whose it is is asked after it.
Idle ==
    /\ Now("idle")
    /\ Require(Full, CLEANUP)
    /\ seen' = [seen EXCEPT !.idle = @ \cup {device.app}]
    /\ UNCHANGED <<device, mem>>

\* After four seconds nothing has connected; the second picture comes later.
Disconnected == Check("disconnected", ~device.observer)

AllRecorded == Check("all-recorded", mem.recordings = 3)

-----------------------------------------------------------------------------
(* cleanup.                                                                *)

\* terminate, and a wait that may time out.
StopLogcat ==
    /\ Now("stop-logcat")
    /\ \/ Drop("logcat") /\ Return
       \/ "logcat" \in device.owned /\ Fault /\ Raise(CLEANUP) /\ UNCHANGED device
    /\ UNCHANGED <<mem, seen>>

\* A failed uninstall is excused when pm path prints nothing; it prints
\* nothing either when it fails itself.
RemoveObserver ==
    /\ Now("remove-observer")
    /\ \/ Drop("observer") /\ Return
       \/ ReturnUnheeded /\ UNCHANGED device
       \/ Fault /\ Raise(CLEANUP) /\ UNCHANGED device
    /\ UNCHANGED <<mem, seen>>

\* check=False: only a command that hangs raises, and then the files stay.
ForceStop ==
    /\ Now("force-stop")
    /\ IF ~mem.authorized THEN Return /\ UNCHANGED device
       ELSE \/ device' = [device EXCEPT !.app = 0] /\ Return
            \/ ReturnUnheeded /\ UNCHANGED device
            \/ Fault /\ RaiseOut /\ UNCHANGED device
    /\ UNCHANGED <<mem, seen>>

\* rm and rmdir likewise; once they have returned the authorization is over.
RemoveFiles ==
    /\ Now("remove-files")
    /\ \/ /\ mem' = [mem EXCEPT !.authorized = FALSE]
          /\ (Drop("files") /\ Return) \/ (ReturnUnheeded /\ UNCHANGED device)
       \/ Fault /\ Raise(CLEANUP) /\ UNCHANGED <<device, mem>>
    /\ UNCHANGED seen

-----------------------------------------------------------------------------
(* The app and the emulator.                                               *)

HideControls == /\ Running /\ Full /\ device.playing /\ device.controls
                /\ device' = [device EXCEPT !.controls = FALSE]
                /\ UNCHANGED <<control, faults, mem, seen>>

\* A new process shows the home page.
AppRestarts == /\ Running /\ device.app \in 1..2 /\ Fault
               /\ device' = [device EXCEPT !.app = @ + 1, !.playing = FALSE, !.screen = "home"]
               /\ UNCHANGED <<control, mem, seen>>

\* The display turns of itself, the app plays or pauses of itself, another
\* accessibility service connects.
Surprise ==
    /\ Running /\ device.app # 0 /\ Fault
    /\ \/ device' = [device EXCEPT !.display = IF Full THEN "normal" ELSE "full"]
       \/ device' = [device EXCEPT !.playing = ~@]
       \/ device' = [device EXCEPT !.observer = TRUE]
    /\ UNCHANGED <<control, mem, seen>>

-----------------------------------------------------------------------------

Init ==
    /\ Start(Program)
    /\ device = [app |-> 0, display |-> "normal", screen |-> "none", playing |-> FALSE,
                 controls |-> TRUE, tip |-> FALSE, observer |-> FALSE, owned |-> {}]
    /\ mem = [authorized |-> FALSE, app_pid |-> 0, state |-> "none", confirmed |-> FALSE,
              recording |-> FALSE, recordings |-> 0]
    /\ seen = [taps |-> 0, pids |-> {}, idle |-> {}, recordedTurn |-> FALSE]

Runner == \/ Check("owned-avd", TRUE) \/ Prepare \/ StartLogcat \/ LoadFixture
          \/ WaitFails \/ Sample \/ AcknowledgeTip \/ Evidence
          \/ AppPid \/ CheckPid \/ Record("record-play") \/ Record("record-back") \/ StopRecording
          \/ Pause \/ Revealed \/ Tap("tap-pause") \/ CenterTap \/ Enter \/ Back
          \/ StopObserver \/ Idle \/ Disconnected \/ AllRecorded
          \/ StopLogcat \/ OwnedAgain \/ RemoveObserver \/ ForceStop \/ RemoveFiles
          \/ \E op \in {"owned-avd", "evidence", "idle"} : Fails(op)
          \/ (EnterFinally(CLEANUP) \/ Report) /\ Unchanged

Next == Runner \/ HideControls \/ AppRestarts \/ Surprise

Spec == Init /\ [][Next]_vars

-----------------------------------------------------------------------------

\* What a passing report vouches for: one process throughout, also in the
\* pictures of the idle interval, and no turn while a recorder ran.
Earned ==
    /\ seen.pids = {mem.app_pid} /\ seen.idle = {mem.app_pid}
    /\ ~seen.recordedTurn

\* What is left behind, and the operations one of which must have failed.
Cleaner == [logcat |-> {"stop-logcat"}, observer |-> {"owned-again", "remove-observer"},
            recorder |-> {"owned-again", "stop-recording"},
            files |-> {"owned-again", "force-stop", "remove-files"}, directory |-> {"prepare"}]

Restored ==
    /\ \A thing \in device.owned : Cleaner[thing] \cap failed # {}
    /\ device.app # 0 => {"owned-again", "force-stop"} \cap failed # {}
=============================================================================
