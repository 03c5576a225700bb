----------------------------- MODULE ScreenTools -----------------------------
(***************************************************************************)
(* The tools that watch the screen and the playback of one installed app:  *)
(* the recording and the observer they share, and the runners that drive   *)
(* the app through its player.                                             *)
(***************************************************************************)
EXTENDS ToolRun

CONSTANTS Kinds, LIMIT, READY, Tolerance, MaxTime, STARTUP, CAPTURE, RESULT, Capacity,
          MaxCaptures, MAX_PREPARATION_ANR_RECOVERIES, MAX_OBSERVATION_TIMEOUTS, MaxPosition

ASSUME PreparationAssumption == MAX_PREPARATION_ANR_RECOVERIES \in Nat
ASSUME TimesAssumption == Tolerance \in Nat /\ LIMIT \in Nat \ {0}
ASSUME KindsAssumption == Kinds \subseteq {"live", "action", "finite"}

Recording == INSTANCE NativeRecording
Observer == INSTANCE ObserverCapture
Lifecycle == INSTANCE LifecycleRun
Fullscreen == INSTANCE FullscreenRun
TogetherFocus == INSTANCE TogetherFocusRun
Interruption == INSTANCE InterruptionRun
=============================================================================
