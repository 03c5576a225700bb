---------------------------- MODULE LifecycleRun ----------------------------
(***************************************************************************)
(* tools/android_lifecycle_runtime/run.py, the Runner: the app plays, is   *)
(* sent to the background, returns paused, plays again, is killed, and     *)
(* comes back in a new process at the saved position.  Each step is known  *)
(* through samples of the native UI, taken in polling loops; positions are *)
(* in units of the least advance the runner accepts.                       *)
(***************************************************************************)
EXTENDS ToolRun

CONSTANTS MAX_PREPARATION_ANR_RECOVERIES, MAX_OBSERVATION_TIMEOUTS,
          Tolerance,        \* of require_background_pause
          MaxPosition       \* bound on the player's clock

PlayingPhases == {"03-playing", "04-advanced", "04-pre-home-playing", "07-explicit-replay",
                  "08-replay-advanced", "13-restored-explicit-play", "14-restored-play-advanced"}
PausedPhases == {"02-loaded-paused", "05-foreground-paused", "06-no-autoplay",
                 "09-saved-paused", "11-resumed-paused", "12-restored-no-autoplay"}
SamplePhases == PlayingPhases \cup PausedPhases

Program ==
    <<"prepare", "start-recording", "share", "review", "open",
      "02-loaded-paused", "tap-play", "03-playing", "04-advanced", "first-advance",
      "finish-recording", "start-recording", "before-home-pid",
      "04-pre-home-playing", "home", "same-pid", "launch-main", "05-foreground-paused",
      "background-pause", "06-no-autoplay", "foreground-stable",
      "tap-play", "07-explicit-replay", "08-replay-advanced", "replay-advance",
      "tap-pause", "09-saved-paused", "enough-saved", "home", "same-pid", "force-stop-app",
      "launch-main", "history", "new-pid", "tap-card",
      "11-resumed-paused", "restored-position", "12-restored-no-autoplay", "restored-stable",
      "tap-play", "13-restored-explicit-play", "14-restored-play-advanced", "resumed-advance",
      "still-new-pid", "finish-recording">>

CLEANUP == <<"finish-recording", "remove-observer", "force-stop", "remove-files">>

Unchanged == UNCHANGED <<device, mem, seen>>
Check(op, condition) == Now(op) /\ Require(condition, CLEANUP) /\ Unchanged
At(phase) == mem.samples[phase]

-----------------------------------------------------------------------------
(* prepare, the recordings and the launches.                               *)

\* "files" is the directory the tool knows it made, with its files,
\* "directory" one that a mkdir made which timed out.
Prepare ==
    /\ Now("prepare")
    /\ \E things \in {{}, {"directory"}, {"files"}, {"files", "observer"}}, authorized \in BOOLEAN :
         /\ authorized => "files" \in things
         /\ "observer" \in things => authorized
         /\ device' = [device EXCEPT !.owned = things]
         /\ mem' = [mem EXCEPT !.cleanup_authorized = authorized]
         /\ \/ "observer" \in things /\ Return
            \/ Fault /\ Raise(CLEANUP)
    /\ UNCHANGED seen

StartRecording ==
    /\ Now("start-recording")
    /\ Own("recorder")
    /\ mem' = [mem EXCEPT !.recording = TRUE]
    /\ ReturnOrFail(CLEANUP)
    /\ UNCHANGED seen

\* A finish that raises is not tried again.  In the finally block what run knew
\* is gone.
NoSamples == [phase \in SamplePhases |-> 0]

FinishRecording ==
    /\ Now("finish-recording")
    /\ mem' = [mem EXCEPT !.recording = FALSE, !.samples = IF Running THEN @ ELSE NoSamples]
    /\ \/ Drop("recorder") /\ Return
       \/ mem.recording /\ UNCHANGED device /\ Fault /\ Raise(CLEANUP)
    /\ UNCHANGED seen

\* am start brings the activity to the front, in a new process when there is
\* none.
Launched == [device EXCEPT !.app = IF @ = 0 THEN device.next ELSE @,
                           !.next = IF device.app = 0 THEN @ + 1 ELSE @,
                           !.window = IF @ = "anr" THEN @ ELSE "app"]

Launch(op, screen) ==
    /\ Now(op)
    /\ device' = [Launched EXCEPT !.screen = IF device.app = 0 \/ op = "share" THEN screen ELSE @]
    /\ ReturnOrFail(CLEANUP)
    /\ UNCHANGED <<mem, seen>>

\* A tap goes where the button was when it was observed.
Tap(op) ==
    /\ Now(op)
    /\ device' = CASE op = "open" -> [device EXCEPT !.screen = "player"]
                   [] op = "tap-card" -> [device EXCEPT !.screen = "player", !.position = device.history]
                   [] OTHER -> [device EXCEPT !.playing = ~@ /\ device.screen = "player"]
    /\ ReturnOrFail(CLEANUP)
    /\ UNCHANGED <<mem, seen>>

-----------------------------------------------------------------------------
(* wait: observe until the check holds.                                    *)

Waiting == todo # <<>> /\ Running /\ Head(todo) \in SamplePhases \cup {"review", "history"}

\* The deadline of the loop, or a capture that may not be retried.
WaitFails == Waiting /\ Raise(CLEANUP) /\ NoFault /\ Unchanged

\* An observation that timed out is repeated, but only so often.
ObservationTimesOut ==
    /\ Waiting /\ Fault
    /\ mem' = [mem EXCEPT !.timeouts = @ + 1]
    /\ IF mem.timeouts + 1 >= MAX_OBSERVATION_TIMEOUTS
       THEN Raise(CLEANUP) ELSE UNCHANGED control
    /\ UNCHANGED <<device, seen>>

Shows(phase) == /\ device.window = "app" /\ device.app # 0 /\ device.screen = "player"
                /\ device.playing = (phase \in PlayingPhases)

\* The displayed position is as old as the capture; the one before HOME has
\* its device clock kept with it.
Sample ==
    /\ Waiting /\ Head(todo) \in SamplePhases /\ Shows(Head(todo))
    /\ mem' = [mem EXCEPT !.samples[Head(todo)] = device.position, !.timeouts = 0]
    /\ seen' = [seen EXCEPT !.pids = IF mem.before_home_pid = 0 THEN @ ELSE @ \cup {device.app}]
    /\ Return
    /\ UNCHANGED device

\* load_fixture: an ANR of the launcher or of the setup package may cover the
\* review here, and nowhere else.
Review ==
    /\ Now("review")
    /\ \/ /\ device.window = "anr"
          /\ IF mem.recoveries < MAX_PREPARATION_ANR_RECOVERIES
             THEN Call(<<"recover", "review">>) ELSE Raise(CLEANUP) /\ NoFault
       \/ /\ device.window = "app" /\ device.screen = "onboarding" /\ ~mem.onboarded
          /\ Call(<<"tap-continue", "review">>)
       \/ /\ device.window = "app" /\ device.screen = "review"
          /\ Return
    /\ Unchanged

TapContinue ==
    /\ Now("tap-continue")
    /\ device' = [device EXCEPT !.screen = "review"]
    /\ mem' = [mem EXCEPT !.onboarded = TRUE]
    /\ Return
    /\ UNCHANGED seen

\* recover_preparation_anr: a second observation, one tap, and when the tap is
\* not confirmed no other.
Recover ==
    /\ Now("recover")
    /\ IF device.window # "anr"
       THEN Return /\ Unchanged
       ELSE /\ seen' = [seen EXCEPT !.taps = @ + 1]
            /\ mem' = [mem EXCEPT !.recoveries = @ + 1]
            /\ \/ Return /\ device' = [device EXCEPT !.window = "app"]
               \/ /\ Fault /\ Raise(CLEANUP)
                  /\ UNCHANGED device \/ device' = [device EXCEPT !.window = "app"]

History ==
    /\ Now("history") /\ device.window = "app" /\ device.screen = "home"
    /\ Require(device.history = At("09-saved-paused"), CLEANUP)
    /\ mem' = [mem EXCEPT !.timeouts = 0]
    /\ UNCHANGED <<device, seen>>

-----------------------------------------------------------------------------
(* run: the verdicts on the samples, and the processes.                    *)

Verdict(op) ==
    CASE op = "first-advance"   -> At("04-advanced") > At("03-playing")
      [] op = "background-pause" ->
           At("05-foreground-paused") - At("04-pre-home-playing") <= Tolerance + mem.age
      [] op = "foreground-stable" -> At("06-no-autoplay") = At("05-foreground-paused")
      [] op = "replay-advance"  -> At("08-replay-advanced") > At("07-explicit-replay")
      [] op = "enough-saved"    -> At("09-saved-paused") > 0
      [] op = "restored-position" -> At("11-resumed-paused") = At("09-saved-paused")
      [] op = "restored-stable" -> At("12-restored-no-autoplay") = At("11-resumed-paused")
      [] op = "resumed-advance" -> At("14-restored-play-advanced") > At("13-restored-explicit-play")
      [] op = "same-pid"        -> device.app = mem.before_home_pid
      [] op = "still-new-pid"   -> device.app = mem.new_pid

Verdicts == {"first-advance", "background-pause", "foreground-stable", "replay-advance",
             "enough-saved", "restored-position", "restored-stable", "resumed-advance",
             "same-pid", "still-new-pid"}

BeforeHomePid ==
    /\ Now("before-home-pid")
    /\ mem' = [mem EXCEPT !.before_home_pid = device.app]
    /\ Require(device.app # 0, CLEANUP)
    /\ UNCHANGED <<device, seen>>

\* go_home: the clock, the key, the clock; eight seconds; a launcher in front.
GoHome ==
    /\ Now("home")
    /\ mem' = [mem EXCEPT !.age = IF At("09-saved-paused") = 0
                                  THEN device.position - At("04-pre-home-playing") ELSE @]
    /\ device' = [device EXCEPT !.window = "launcher"]
    /\ ReturnOrFail(CLEANUP)
    /\ UNCHANGED seen

ForceStopApp ==
    /\ Now("force-stop-app")
    /\ device' = [device EXCEPT !.app = 0, !.playing = FALSE, !.screen = "none", !.position = 0]
    /\ ReturnOrFail(CLEANUP)
    /\ UNCHANGED <<mem, seen>>

NewPid ==
    /\ Now("new-pid")
    /\ mem' = [mem EXCEPT !.new_pid = device.app]
    /\ Require(device.app \notin {0, mem.before_home_pid}, CLEANUP)
    /\ UNCHANGED <<device, seen>>

-----------------------------------------------------------------------------
(* cleanup, three nested finally blocks.                                   *)

\* A failed uninstall is excused when pm path prints nothing; it prints
\* nothing either when it fails itself.
RemoveObserver ==
    /\ Now("remove-observer")
    /\ \/ Drop("observer") /\ Return
       \/ ReturnUnheeded /\ UNCHANGED device
       \/ Fault /\ Raise(CLEANUP) /\ UNCHANGED device
    /\ UNCHANGED <<mem, seen>>

\* check=False: only a command that hangs raises, and then the files stay.
ForceStop ==
    /\ Now("force-stop")
    /\ IF ~mem.cleanup_authorized THEN Return /\ UNCHANGED device
       ELSE \/ device' = [device EXCEPT !.app = 0, !.playing = FALSE] /\ Return
            \/ ReturnUnheeded /\ UNCHANGED device
            \/ Fault /\ RaiseOut /\ UNCHANGED device
    /\ UNCHANGED <<mem, seen>>

\* rm and rmdir likewise; once they have returned the authorization is over.
RemoveFiles ==
    /\ Now("remove-files")
    /\ \/ /\ mem' = [mem EXCEPT !.cleanup_authorized = FALSE]
          /\ (Drop("files") /\ Return) \/ (ReturnUnheeded /\ UNCHANGED device)
       \/ Fault /\ Raise(CLEANUP) /\ UNCHANGED <<device, mem>>
    /\ UNCHANGED seen

\* main: SIGTERM raises a RuntimeFailure in the operation it hits, which wait
\* takes for one more observation that failed.
Signal ==
    /\ mode # "done" /\ todo # <<>> /\ ~Waiting /\ Fault
    /\ IF Now("force-stop") THEN RaiseOut ELSE Raise(CLEANUP)
    /\ mem' = [mem EXCEPT !.recording = @ /\ ~Now("finish-recording")]
    /\ UNCHANGED <<device, seen>>

-----------------------------------------------------------------------------
(* The app and the emulator.                                               *)

\* Time passes where the runner waits, and where it makes a difference when.
Play ==
    /\ Waiting \/ Now("home") \/ Now("launch-main") \/ Now("tap-pause")
    /\ device.playing /\ device.position < MaxPosition
    /\ device' = [device EXCEPT !.position = @ + 1]
    /\ seen' = [seen EXCEPT !.background =
                  IF device.window = "launcher" /\ At("09-saved-paused") = 0 THEN @ + 1 ELSE @]
    /\ UNCHANGED <<control, faults, mem>>

\* The app pauses when it is put in the background, and saves where it is.
PauseAndSave ==
    /\ Running /\ device.screen = "player"
    /\ \/ device.playing /\ device.window = "launcher"
       \/ ~device.playing /\ device.history # device.position
    /\ device' = [device EXCEPT !.playing = FALSE, !.history = device.position]
    /\ UNCHANGED <<control, faults, mem, seen>>

Misbehave ==
    /\ Running /\ device.app # 0 /\ Fault
    /\ \/ device.screen = "player" /\ device' = [device EXCEPT !.playing = ~@]
       \/ device' = [device EXCEPT !.app = 0, !.playing = FALSE, !.screen = "none", !.position = 0,
                                   !.window = "launcher"]
    /\ UNCHANGED <<control, mem, seen>>

Anr == /\ device.window = "app" /\ Now("review") /\ Fault
       /\ device' = [device EXCEPT !.window = "anr"]
       /\ UNCHANGED <<control, mem, seen>>

-----------------------------------------------------------------------------

Init ==
    /\ Start(Program)
    /\ \E window \in {"launcher", "anr"} :
         device = [app |-> 0, next |-> 1, window |-> window, screen |-> "none", playing |-> FALSE,
                   position |-> 0, history |-> 0, owned |-> {}]
    /\ mem = [cleanup_authorized |-> FALSE, recording |-> FALSE, recoveries |-> 0, onboarded |-> FALSE,
              timeouts |-> 0, before_home_pid |-> 0, new_pid |-> 0, age |-> 0,
              samples |-> NoSamples]
    /\ seen = [taps |-> 0, pids |-> {}, background |-> 0]

Runner == \/ Prepare \/ StartRecording \/ FinishRecording
          \/ Launch("share", "onboarding") \/ Launch("launch-main", "home")
          \/ \E op \in {"open", "tap-play", "tap-pause", "tap-card"} : Tap(op)
          \/ WaitFails \/ Sample \/ Review \/ TapContinue \/ Recover \/ History
          \/ \E op \in Verdicts : Check(op, Verdict(op))
          \/ BeforeHomePid \/ GoHome \/ ForceStopApp \/ NewPid
          \/ RemoveObserver \/ ForceStop \/ RemoveFiles
          \/ (EnterFinally(CLEANUP) \/ Report) /\ Unchanged

Next == Runner \/ ObservationTimesOut \/ Signal \/ Play \/ PauseAndSave \/ Misbehave \/ Anr

Spec == Init /\ [][Next]_vars

-----------------------------------------------------------------------------

\* What a passing report vouches for: every sample after the first was of one
\* process, or of the one that followed it, and in the background nothing
\* played for longer than the tolerance.
Earned ==
    /\ seen.pids = {mem.before_home_pid, mem.new_pid}
    /\ seen.background <= Tolerance

\* What is left behind, and the operations one of which must have failed.
Cleaner == [recorder |-> {"finish-recording"}, observer |-> {"remove-observer"},
            files |-> {"remove-files", "force-stop"}, directory |-> {"prepare"}]

Restored ==
    /\ \A thing \in device.owned : Cleaner[thing] \cap failed # {}
    /\ device.app # 0 => "force-stop" \in failed
=============================================================================
