--------------------------- MODULE InterruptionRun ---------------------------
(***************************************************************************)
(* tools/android_interruption_runtime/run.py: the app plays alone and loses*)
(* Android's audio focus to a helper of this tool, first for good, then    *)
(* for a while.  After the first it must stay paused until Play is tapped, *)
(* after the second it must go on by itself.  What the app did between two *)
(* samples is known from the displayed position alone.                     *)
(*                                                                         *)
(* device.advance: the position has advanced since the latest sample.      *)
(* device.late: the time allowed after a focus change is over.             *)
(***************************************************************************)
EXTENDS ToolRun

PlayingPhases == {"03-playing", "06-immediate-playing", "13-explicit-play",
                  "15-transient-playing", "19-transient-auto-resumed"}
AdvancedPhases == {"04-playing-advanced", "14-replay-advanced", "20-transient-auto-advanced"}
PausedPhases == {"02-open-paused", "08-focus-paused", "16-transient-paused"}
StablePhases == {"09-held-stable", "11-release-paused", "12-no-autoplay", "17-transient-held-stable"}
SamplePhases == PlayingPhases \cup AdvancedPhases \cup PausedPhases \cup StablePhases

\* run and run_transient.
Program ==
    <<"owned-avd", "prepare", "helper", "start-recording", "load-fixture", "02-open-paused",
      "tap-play", "03-playing", "04-playing-advanced", "app-pid", "foreground", "app-focus",
      "finish-recording", "start-recording", "foreground", "06-immediate-playing", "acquire",
      "08-focus-paused", "prompt", "held", "foreground", "09-held-stable", "held", "release",
      "no-focus", "11-release-paused", "12-no-autoplay", "foreground", "tap-play",
      "13-explicit-play", "app-focus", "14-replay-advanced", "foreground", "finish-recording">>
RunTransient ==
    <<"new-nonce", "start-recording", "foreground", "15-transient-playing", "app-focus", "acquire",
      "16-transient-paused", "prompt", "held", "foreground", "17-transient-held-stable", "held",
      "release", "no-focus", "19-transient-auto-resumed", "prompt", "app-focus",
      "20-transient-auto-advanced", "foreground", "finish-recording">>

CLEANUP == <<"owned-again", "release-again", "remove-helper", "finish-recording",
             "remove-observer", "force-stop", "remove-files">>

Unchanged == UNCHANGED <<device, mem, seen>>
Check(op, condition) == Now(op) /\ Require(condition, CLEANUP) /\ Unchanged
Fails(op) == Now(op) /\ Fault /\ Raise(CLEANUP) /\ Unchanged
OwnsAnything == \/ mem.owns_helper \/ mem.authorized \/ mem.recording
                \/ device.owned \cap {"files", "observer"} # {}

-----------------------------------------------------------------------------
(* Preparation and recordings.                                             *)

\* The inherited clean installation, after the emulator was identified.
\* "files" is the directory the tool knows it made, with its files,
\* "directory" one that a mkdir made which timed out.
Prepare ==
    /\ Now("prepare")
    /\ \E things \in {{}, {"directory"}, {"files"}, {"files", "observer"}}, authorized \in BOOLEAN :
         /\ authorized => "files" \in things
         /\ "observer" \in things => authorized
         /\ device' = [device EXCEPT !.owned = things]
         /\ mem' = [mem EXCEPT !.authorized = authorized]
         /\ \/ "observer" \in things /\ Return
            \/ Fault /\ Raise(CLEANUP)
    /\ UNCHANGED seen

\* Ownership is noted once the installation is confirmed.
InstallHelperThenOwn ==
    /\ Now("helper")
    /\ \/ Own("helper") /\ Return /\ mem' = [mem EXCEPT !.owns_helper = TRUE]
       \/ Own("helper") /\ Fault /\ Raise(CLEANUP) /\ UNCHANGED mem
    /\ UNCHANGED seen

\* Ownership is noted before an installation that may be uncertain.
InstallHelper ==
    /\ Now("helper")
    /\ mem' = [mem EXCEPT !.owns_helper = TRUE]
    /\ \/ Own("helper") /\ ReturnOrFail(CLEANUP)
       \/ UNCHANGED device /\ Fault /\ Raise(CLEANUP)
    /\ UNCHANGED seen

StartRecording ==
    /\ Now("start-recording")
    /\ Own("recorder")
    /\ mem' = [mem EXCEPT !.recording = TRUE]
    /\ ReturnOrFail(CLEANUP)
    /\ UNCHANGED seen

FinishRecording ==
    /\ Now("finish-recording")
    /\ mem' = [mem EXCEPT !.recording = FALSE]
    /\ \/ Drop("recorder") /\ Return
       \/ mem.recording /\ UNCHANGED device /\ Fault /\ Raise(CLEANUP)
    /\ UNCHANGED seen

LoadFixture ==
    /\ Now("load-fixture")
    /\ device' = [device EXCEPT !.app = 1]
    /\ ReturnOrFail(CLEANUP)
    /\ UNCHANGED <<mem, seen>>

\* Play takes the audio focus.
TapPlay ==
    /\ Now("tap-play")
    /\ device' = [device EXCEPT !.playing = ~@,
                                !.focus = IF device.playing THEN @ ELSE "app", !.lost = "no"]
    /\ ReturnOrFail(CLEANUP)
    /\ UNCHANGED <<mem, seen>>

-----------------------------------------------------------------------------
(* Samples and verdicts.                                                   *)

Waiting == Running /\ todo # <<>> /\ Head(todo) \in SamplePhases
WaitFails == Waiting /\ Raise(CLEANUP) /\ NoFault /\ Unchanged

\* A sample waits for the state the phase names; whether the position moved
\* since the one before is judged once.
Moves(phase) == /\ phase \in StablePhases => ~device.advance
                /\ phase \in AdvancedPhases => device.advance

Sample ==
    /\ Waiting
    /\ LET phase == Head(todo)
       IN /\ device.app # 0
          /\ device.playing = (phase \in PlayingPhases \cup AdvancedPhases)
          /\ Require(Moves(phase), CLEANUP)
          /\ mem' = [mem EXCEPT !.late = device.late]
          /\ seen' = [seen EXCEPT !.pids = IF mem.expected_pid = 0 THEN @ ELSE @ \cup {device.app},
                        !.watch = \/ phase \in {"08-focus-paused", "16-transient-paused"}
                                  \/ @ /\ phase \notin {"12-no-autoplay", "17-transient-held-stable"}]
    /\ device' = [device EXCEPT !.advance = FALSE]

\* require_prompt_pause and require_prompt_transient_resume bound the time by
\* the end of the capture, not by when somebody asks.
Prompt == Check("prompt", ~mem.late)

AppPid ==
    /\ Now("app-pid")
    /\ mem' = [mem EXCEPT !.expected_pid = device.app]
    /\ Require(device.app # 0, CLEANUP)
    /\ UNCHANGED <<device, seen>>

\* foreground: the same process, and an Activity history without an event.
Foreground == Check("foreground", device.app = mem.expected_pid)

\* focus, which ends with foreground.
Focus(op, condition) == Check(op, condition /\ device.app = mem.expected_pid)

-----------------------------------------------------------------------------
(* command.                                                                *)

\* What the system does: the helper owns the focus, the app has lost it.
Acquired == [device EXCEPT !.focus = "helper", !.lost = mem.gain, !.late = FALSE]

Acquire ==
    /\ Now("acquire")
    /\ mem' = [mem EXCEPT !.focus_requested = TRUE]
    /\ \/ device' = Acquired /\ Return
       \/ (device' = Acquired \/ UNCHANGED device) /\ Fault /\ Raise(CLEANUP)
    /\ UNCHANGED seen

Released == [device EXCEPT !.focus = IF @ = "helper" THEN "none" ELSE @, !.late = FALSE]

Release ==
    /\ Now("release")
    /\ \/ /\ device' = Released /\ Return
          /\ mem' = [mem EXCEPT !.focus_released = TRUE]
       \/ /\ device' = Released \/ UNCHANGED device
          /\ Fault /\ Raise(CLEANUP) /\ UNCHANGED mem
    /\ UNCHANGED seen

NewNonce ==
    /\ Now("new-nonce")
    /\ mem' = [mem EXCEPT !.gain = "transient", !.focus_requested = FALSE, !.focus_released = FALSE]
    /\ Return
    /\ UNCHANGED <<device, seen>>

-----------------------------------------------------------------------------
(* cleanup.                                                                *)

OwnedAgain ==
    /\ Now("owned-again")
    /\ Return \/ (OwnsAnything /\ Fault /\ RaiseOut)
    /\ Unchanged

\* A release that was not confirmed is tried once more; its failure is kept.
ReleaseAgain ==
    /\ Now("release-again")
    /\ IF mem.owns_helper /\ mem.focus_requested /\ ~mem.focus_released
       THEN \/ device' = Released /\ Return
            \/ UNCHANGED device /\ Fault /\ Raise(CLEANUP)
       ELSE Return /\ UNCHANGED device
    /\ UNCHANGED <<mem, seen>>

\* Removing the helper takes its focus away, whatever became of the release.
RemoveHelper ==
    /\ Now("remove-helper")
    /\ IF ~mem.owns_helper THEN Return /\ UNCHANGED <<device, mem>>
       ELSE \/ /\ device' = [Released EXCEPT !.owned = @ \ {"helper"}]
               /\ mem' = [mem EXCEPT !.owns_helper = FALSE]
               /\ Return
            \/ UNCHANGED <<device, mem>> /\ Fault /\ Raise(CLEANUP)
    /\ UNCHANGED seen

\* A failed uninstall is excused when pm path prints nothing; it prints
\* nothing either when it fails itself.
RemoveObserver ==
    /\ Now("remove-observer")
    /\ \/ Drop("observer") /\ Return
       \/ ReturnUnheeded /\ UNCHANGED device
       \/ Fault /\ Raise(CLEANUP) /\ UNCHANGED device
    /\ UNCHANGED <<mem, seen>>

\* check=False: only a command that hangs raises, and then the files stay.
ForceStop ==
    /\ Now("force-stop")
    /\ IF ~mem.authorized THEN Return /\ UNCHANGED device
       ELSE \/ device' = [device EXCEPT !.app = 0, !.playing = FALSE] /\ Return
            \/ ReturnUnheeded /\ UNCHANGED device
            \/ Fault /\ RaiseOut /\ UNCHANGED device
    /\ UNCHANGED <<mem, seen>>

\* rm and rmdir likewise; once they have returned the authorization is over.
RemoveFiles ==
    /\ Now("remove-files")
    /\ \/ /\ mem' = [mem EXCEPT !.authorized = FALSE]
          /\ (Drop("files") /\ Return) \/ (ReturnUnheeded /\ UNCHANGED device)
       \/ Fault /\ Raise(CLEANUP) /\ UNCHANGED <<device, mem>>
    /\ UNCHANGED seen

-----------------------------------------------------------------------------
(* The app, and the clock.                                                 *)

\* The app pauses when it loses the focus, and takes up after a transient loss.
AppFollowsFocus ==
    /\ Running
    /\ \/ /\ device.focus = "helper" /\ device.playing
          /\ device' = [device EXCEPT !.playing = FALSE]
       \/ /\ device.focus = "none" /\ device.lost = "transient" /\ ~device.playing
          /\ device' = [device EXCEPT !.playing = TRUE, !.focus = "app", !.lost = "no"]
    /\ UNCHANGED <<control, faults, mem, seen>>

Play ==
    /\ Running /\ device.playing /\ ~device.advance
    /\ device' = [device EXCEPT !.advance = TRUE]
    /\ seen' = [seen EXCEPT !.moved = @ \/ seen.watch]
    /\ UNCHANGED <<control, faults, mem>>

TimePasses ==
    /\ Waiting /\ ~device.late
    /\ device' = [device EXCEPT !.late = TRUE]
    /\ UNCHANGED <<control, faults, mem, seen>>

Misbehave ==
    /\ Running /\ device.app = 1 /\ Fault
    /\ \/ device' = [device EXCEPT !.playing = ~@]
       \/ device' = [device EXCEPT !.app = 2, !.playing = FALSE, !.advance = FALSE]
    /\ UNCHANGED <<control, mem, seen>>

-----------------------------------------------------------------------------

Init ==
    /\ Start(Program \o RunTransient)
    /\ device = [app |-> 0, playing |-> FALSE, advance |-> FALSE, late |-> FALSE,
                 focus |-> "none", lost |-> "no", owned |-> {}]
    /\ mem = [authorized |-> FALSE, owns_helper |-> FALSE, recording |-> FALSE, expected_pid |-> 0,
              gain |-> "permanent", focus_requested |-> FALSE, focus_released |-> FALSE, late |-> FALSE]
    /\ seen = [pids |-> {}, watch |-> FALSE, moved |-> FALSE]

Runner == \/ Check("owned-avd", TRUE) \/ Prepare \/ InstallHelper \/ StartRecording \/ FinishRecording
          \/ LoadFixture \/ TapPlay \/ WaitFails \/ Sample \/ Prompt \/ AppPid \/ Foreground
          \/ Focus("app-focus", device.focus = "app") \/ Focus("held", device.focus = "helper")
          \/ Focus("no-focus", device.focus # "helper")
          \/ Acquire \/ Release \/ NewNonce
          \/ OwnedAgain \/ ReleaseAgain \/ RemoveHelper \/ RemoveObserver \/ ForceStop \/ RemoveFiles
          \/ \E op \in {"owned-avd", "foreground", "held", "no-focus"} : Fails(op)
          \/ (EnterFinally(CLEANUP) \/ Report) /\ Unchanged

Next == Runner \/ AppFollowsFocus \/ Play \/ TimePasses \/ Misbehave

Spec == Init /\ [][Next]_vars

-----------------------------------------------------------------------------

\* What a passing report vouches for: one process; and no media time passed
\* from the first sample of a pause to the last, though nobody looked between.
Earned == seen.pids = {mem.expected_pid} /\ ~seen.moved

\* What is left behind, and the operations one of which must have failed.
Cleaner == [helper |-> {"owned-again", "remove-helper"},
            recorder |-> {"owned-again", "finish-recording"},
            observer |-> {"owned-again", "remove-observer"},
            files |-> {"owned-again", "remove-files", "force-stop"},
            directory |-> {"prepare"}]

\* Nobody's audio focus is kept from the app either.
Restored ==
    /\ \A thing \in device.owned : Cleaner[thing] \cap failed # {}
    /\ device.focus = "helper" => {"owned-again", "remove-helper"} \cap failed # {}
    /\ device.app # 0 => {"owned-again", "force-stop"} \cap failed # {}
=============================================================================
