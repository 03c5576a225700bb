-------------------------- MODULE TogetherFocusRun --------------------------
(***************************************************************************)
(* tools/android_together_focus_runtime/run.py: an app that plays together *)
(* with a peer loses Android's audio focus to a helper of this tool.  The  *)
(* journey runs in the app (flutter drive) and asks for each stage by HTTP;*)
(* a handler thread performs it under a lock while the main thread waits   *)
(* for the journey.  When the journey's deadline passes, the main thread   *)
(* cleans up beside a stage that may still run.                            *)
(***************************************************************************)
EXTENDS ToolRun

STAGES == <<"early-short-ready", "early-short-acquire", "permanent-acquire", "permanent-release",
            "transient-acquire", "transient-release">>

Program == <<"prepare", "helper", "observer", "app", "serve", "drive", "journey">>
CLEANUP == <<"stop-drive", "close-server", "avd-again", "stop-helper", "remove-helper",
             "remove-observer">>

\* FocusSession.stage.
StageSteps(stage) ==
    CASE stage = "early-short-ready" ->
           <<"foreground", "warm", "no-focus", "foreground", "complete">>
      [] stage = "early-short-acquire" ->
           <<"app-focus", "early-acquire", "paused", "no-focus", "foreground", "complete">>
      [] stage \in {"permanent-acquire", "transient-acquire"} ->
           <<"foreground", "app-focus", "acquire", "paused", "held", "foreground", "complete">>
      [] stage \in {"permanent-release", "transient-release"} ->
           <<"foreground", "release", "paused", "no-focus", "foreground", "complete", "end-helper">>

\* am force-stop of the helper, and what becomes of the audio focus.
EndHelper == [device EXCEPT !.helper = IF @ = "none" THEN @ ELSE "stopped",
                            !.focus = IF @ = "helper" THEN "none" ELSE @]

-----------------------------------------------------------------------------
(* The main thread.                                                        *)

Prepare == Now("prepare") /\ Return /\ UNCHANGED <<device, mem, seen>>

\* Ownership first, then the installation, which may fail or not.
Install(op) ==
    /\ Now(op)
    /\ mem' = [mem EXCEPT !.owns = @ \cup {op}]
    /\ \/ /\ device' = [device EXCEPT !.owned = @ \cup {op}, !.helper = IF op = "helper" THEN "stopped" ELSE @]
          /\ ReturnOrFail(CLEANUP)
       \/ Fault /\ Raise(CLEANUP) /\ UNCHANGED device
    /\ UNCHANGED seen

InstallApp == Now("app") /\ ReturnOrFail(CLEANUP) /\ UNCHANGED <<device, mem, seen>>

Serve ==
    /\ Now("serve")
    /\ device' = [device EXCEPT !.drive = "running", !.owned = @ \cup {"drive"}]
    /\ mem' = [mem EXCEPT !.server = "open"]
    /\ Return /\ UNCHANGED seen

\* Nothing bounds the wait for the journey.
DriveWithoutDeadline ==
    /\ Now("drive") /\ device.drive \in {"ok", "bad"}
    /\ Require(device.drive = "ok", CLEANUP)
    /\ UNCHANGED <<device, mem, seen>>

\* process.wait: an exit code, or the deadline.
Drive ==
    /\ Now("drive")
    /\ \/ device.drive \in {"ok", "bad"} /\ Require(device.drive = "ok", CLEANUP) /\ UNCHANGED device
       \/ /\ device.drive = "running" /\ Raise(CLEANUP) /\ NoFault
          /\ device' = [device EXCEPT !.drive = "bad", !.owned = @ \ {"drive"}]
    /\ UNCHANGED <<mem, seen>>

\* validate_journey, then the failure that a handler thread may have latched.
Journey == /\ Now("journey")
           /\ Require(mem.completed = STAGES /\ ~mem.failed, CLEANUP)
           /\ UNCHANGED <<device, mem, seen>>

\* terminate, kill; a process that survives both leaves the finally block.
StopDrive ==
    /\ Now("stop-drive")
    /\ \/ /\ device' = [device EXCEPT !.drive = IF @ = "running" THEN "bad" ELSE @,
                                      !.owned = @ \ {"drive"}]
          /\ Return
       \/ device.drive = "running" /\ Fault /\ RaiseOut /\ UNCHANGED device
    /\ UNCHANGED <<mem, seen>>

\* shutdown ends the accepting thread; handler threads are daemons.
CloseServer == /\ Now("close-server")
               /\ mem' = [mem EXCEPT !.server = "closed"]
               /\ Return /\ UNCHANGED <<device, seen>>

\* FocusSession.cleanup: another emulator under this name is left alone.
AvdAgain == /\ Now("avd-again")
            /\ \/ Return
               \/ mem.owns # {} /\ Fault /\ RaiseOut
            /\ UNCHANGED <<device, mem, seen>>

StopHelper == /\ Now("stop-helper")
              /\ \/ device' = EndHelper /\ Return
                 \/ "helper" \in mem.owns /\ Fault /\ Raise(CLEANUP) /\ UNCHANGED device
              /\ UNCHANGED <<mem, seen>>

\* A failed uninstall of the observer may be taken for nothing to uninstall.
Uninstall(op, thing) ==
    /\ Now(op)
    /\ \/ /\ thing = "observer" /\ thing \in mem.owns
          /\ mem' = [mem EXCEPT !.owns = @ \ {thing}]
          /\ ReturnUnheeded /\ UNCHANGED device
       \/ /\ thing \in mem.owns
          /\ device' = [device EXCEPT !.owned = @ \ {thing}, !.helper = IF thing = "helper" THEN "none" ELSE @,
                                      !.focus = IF thing = "helper" /\ @ = "helper" THEN "none" ELSE @]
          /\ mem' = [mem EXCEPT !.owns = @ \ {thing}]
          /\ Return
       \/ thing \notin mem.owns /\ Return /\ UNCHANGED <<device, mem>>
       \/ thing \in mem.owns /\ Fault /\ Raise(CLEANUP) /\ UNCHANGED <<device, mem>>
    /\ UNCHANGED seen

-----------------------------------------------------------------------------
(* StageHandler.do_POST: the lock is held while mem.steps is not empty.    *)

Stage == device.request
Step(op) == mode # "done" /\ mem.steps # <<>> /\ Head(mem.steps) = op
Goes == UNCHANGED <<control, faults>>

\* A stage that comes after a failure, or out of its turn, is refused.
Accept ==
    /\ device.request # "none" /\ mem.server # "off" /\ mem.steps = <<>> /\ device.reply = "none"
    /\ IF mem.failed \/ Len(mem.completed) = Len(STAGES)
          \/ Stage # STAGES[Len(mem.completed) + 1]
       THEN /\ mem' = [mem EXCEPT !.failed = TRUE]
            /\ device' = [device EXCEPT !.reply = "refused"]
       ELSE /\ mem' = [mem EXCEPT !.steps = StageSteps(Stage), !.stage = Stage]
            /\ UNCHANGED device
    /\ Goes /\ UNCHANGED seen

Advanced == [mem EXCEPT !.steps = Tail(@)]
\* The exception of a stage is latched and answered.
Latch == /\ mem' = [mem EXCEPT !.failed = TRUE, !.steps = <<>>]
         /\ device' = [device EXCEPT !.reply = IF @ = "none" THEN "refused" ELSE @]

StageFails == /\ mode # "done" /\ mem.steps # <<>> /\ Fault /\ Latch /\ UNCHANGED <<control, seen>>

Needs(op, condition) ==
    /\ Step(op)
    /\ IF condition THEN mem' = Advanced /\ UNCHANGED device ELSE Latch
    /\ Goes /\ UNCHANGED seen

\* foreground: one process and one unbroken Activity history.
Foreground ==
    /\ Step("foreground")
    /\ IF device.app # 0 /\ mem.app_pid \in {0, device.app}
       THEN mem' = [Advanced EXCEPT !.app_pid = device.app] /\ UNCHANGED device
       ELSE Latch
    /\ Goes /\ UNCHANGED seen

\* A helper that is not installed cannot be started.  A command has a nonce.
Warm ==
    /\ Step("warm")
    /\ IF device.helper = "none" THEN Latch
       ELSE /\ device' = [device EXCEPT !.helper = "warm"]
            /\ mem' = [Advanced EXCEPT !.nonce = @ + 1]
    /\ Goes /\ UNCHANGED seen

Grant(nonce) == seen' = [seen EXCEPT !.grants = Append(@, [nonce |-> nonce, pid |-> device.app])]

\* The warm helper takes the focus and gives it back within the early window.
EarlyAcquire ==
    /\ Step("early-acquire")
    /\ IF device.helper # "warm" THEN Latch /\ UNCHANGED seen
       ELSE /\ device' = [device EXCEPT !.helper = "running", !.focus = "none", !.interrupted = TRUE]
            /\ mem' = Advanced
            /\ Grant(mem.nonce)
    /\ Goes

Acquire ==
    /\ Step("acquire")
    /\ IF device.helper = "none" THEN Latch /\ UNCHANGED seen
       ELSE /\ device' = [device EXCEPT !.helper = "running", !.focus = "helper", !.interrupted = TRUE]
            /\ mem' = [Advanced EXCEPT !.nonce = @ + 1]
            /\ Grant(mem.nonce + 1)
    /\ Goes

Release ==
    /\ Step("release")
    /\ IF device.focus # "helper" THEN Latch
       ELSE device' = [device EXCEPT !.focus = "none"] /\ mem' = Advanced
    /\ Goes /\ UNCHANGED seen

\* One look at the app's own screen: it must already have paused.
Paused ==
    /\ Step("paused")
    /\ IF device.app = mem.app_pid /\ ~device.playing
       THEN mem' = Advanced /\ UNCHANGED device ELSE Latch
    /\ Goes /\ UNCHANGED seen

Complete ==
    /\ Step("complete")
    /\ mem' = [Advanced EXCEPT !.completed = Append(@, mem.stage)]
    /\ device' = [device EXCEPT !.reply = IF Len(mem.steps) = 1 /\ @ = "none" THEN "row" ELSE @]
    /\ seen' = [seen EXCEPT !.rows = Append(@, [stage |-> mem.stage, pid |-> device.app,
                                                playing |-> device.playing])]
    /\ Goes

EndStage ==
    /\ Step("end-helper")
    /\ device' = [EndHelper EXCEPT !.reply = IF @ = "none" THEN "row" ELSE @]
    /\ mem' = Advanced
    /\ Goes /\ UNCHANGED seen

Handler ==
    \/ Accept \/ StageFails \/ Foreground \/ Warm \/ EarlyAcquire \/ Acquire \/ Release \/ Paused
    \/ Needs("app-focus", device.focus = "app" /\ device.app = mem.app_pid)
    \/ Needs("no-focus", device.focus # "helper")
    \/ Needs("held", device.focus = "helper")
    \/ Complete \/ EndStage

-----------------------------------------------------------------------------
(* The app, the journey in it, and the driver.                             *)

\* The journey presses Play before a stage that begins with a playing app.
Post ==
    /\ device.drive = "running" /\ device.request = "none" /\ device.next <= Len(STAGES)
    /\ LET stage == STAGES[device.next]
           plays == stage \in {"early-short-acquire", "permanent-acquire", "transient-acquire"}
       IN /\ device' = [device EXCEPT !.request = stage, !.reply = "none",
                            !.app = IF @ = 0 THEN 1 ELSE @,
                            !.playing = plays \/ (@ /\ stage # "early-short-ready"),
                            !.focus = IF plays THEN "app" ELSE @,
                            !.interrupted = IF plays THEN FALSE ELSE @]
    /\ Goes /\ UNCHANGED <<mem, seen>>

Reply ==
    /\ device.drive = "running" /\ device.request # "none" /\ device.reply # "none"
    /\ device' = IF device.reply = "row"
                 THEN [device EXCEPT !.request = "none", !.reply = "none", !.next = @ + 1]
                 ELSE [device EXCEPT !.drive = "bad", !.owned = @ \ {"drive"}]
    /\ Goes /\ UNCHANGED <<mem, seen>>

\* postNativeFocusStage gives up after 50 seconds, and the journey with it.
GiveUp ==
    /\ device.drive = "running" /\ device.request # "none" /\ Fault
    /\ device' = [device EXCEPT !.drive = "bad", !.owned = @ \ {"drive"}]
    /\ UNCHANGED <<control, mem, seen>>

JourneyEnds ==
    /\ device.drive = "running" /\ device.next > Len(STAGES)
    /\ device' = [device EXCEPT !.drive = "ok", !.owned = @ \ {"drive"}]
    /\ Goes /\ UNCHANGED <<mem, seen>>

AppPauses ==
    /\ mode # "done" /\ device.interrupted /\ device.playing
    /\ device' = [device EXCEPT !.playing = FALSE]
    /\ Goes /\ UNCHANGED <<mem, seen>>

\* Autoplay while it must not; a restart, which ends the journey in it.
AppMisbehaves ==
    /\ mode # "done" /\ device.app = 1 /\ Fault
    /\ \/ device' = [device EXCEPT !.playing = TRUE, !.interrupted = FALSE]
       \/ device' = [device EXCEPT !.app = 2, !.playing = FALSE, !.owned = @ \ {"drive"},
                          !.drive = IF @ = "running" THEN "bad" ELSE @]
    /\ UNCHANGED <<control, mem, seen>>

-----------------------------------------------------------------------------

Init ==
    /\ Start(Program)
    /\ device = [app |-> 0, playing |-> FALSE, focus |-> "none", interrupted |-> FALSE, helper |-> "none",
                 drive |-> "off", next |-> 1, request |-> "none", reply |-> "none", owned |-> {}]
    /\ mem = [owns |-> {}, server |-> "off", app_pid |-> 0, nonce |-> 0, steps |-> <<>>, stage |-> "none",
              completed |-> <<>>, failed |-> FALSE]
    /\ seen = [rows |-> <<>>, grants |-> <<>>]

Runner == \/ Prepare \/ Install("helper") \/ Install("observer") \/ InstallApp \/ Serve \/ Drive \/ Journey
          \/ StopDrive \/ CloseServer \/ AvdAgain \/ StopHelper
          \/ Uninstall("remove-helper", "helper") \/ Uninstall("remove-observer", "observer")
          \/ (EnterFinally(CLEANUP) \/ Report) /\ UNCHANGED <<device, mem, seen>>

Environment == Post \/ Reply \/ GiveUp \/ JourneyEnds \/ AppPauses \/ AppMisbehaves

Next == Runner \/ Handler \/ Environment

Spec == Init /\ [][Next]_vars

-----------------------------------------------------------------------------

\* What a passing report vouches for: every stage was performed once, in order
\* and in one process, each of the three interruptions was a request of its
\* own, and the app was paused at the end of each stage that says so.
Earned ==
    /\ [i \in DOMAIN seen.rows |-> seen.rows[i].stage] = STAGES
    /\ \A i \in DOMAIN seen.rows : seen.rows[i].pid = mem.app_pid
    /\ \A i, j \in DOMAIN seen.grants : seen.grants[i].nonce = seen.grants[j].nonce => i = j
    /\ Len(seen.grants) = 3 /\ ~mem.failed /\ mem.steps = <<>>

\* What is left behind, and the operations one of which must have failed.
Cleaner == [helper |-> {"stop-drive", "avd-again", "remove-helper"},
            observer |-> {"stop-drive", "avd-again", "remove-observer"}, drive |-> {"stop-drive"}]

Restored == \A thing \in device.owned : Cleaner[thing] \cap failed # {}
=============================================================================
