----------------------------- MODULE InstallRun -----------------------------
(***************************************************************************)
(* tools/android_install/runner.py: a clean install of the normal app on   *)
(* an emulator, its first launch and its first screen, under a recording.  *)
(* A dialog of Google's setup package may cover the app; it is closed at   *)
(* most once.  There are two launch attempts and 55 seconds for the first  *)
(* screen.                                                                 *)
(***************************************************************************)
EXTENDS ToolRun

CLEANUP == <<"finish-recorder", "force-stop", "remove-files">>

Unchanged == UNCHANGED <<device, mem, seen>>
Check(op, condition) == Now(op) /\ Require(condition, CLEANUP) /\ Unchanged
Fails(op) == Now(op) /\ Fault /\ Raise(CLEANUP) /\ Unchanged

-----------------------------------------------------------------------------
(* prepare and Adb.prepare_storage.                                        *)

PrepareDevice ==
    /\ Now("prepare")
    /\ mem' = [mem EXCEPT !.authorized = device.emulator]
    /\ Require(device.emulator, CLEANUP)
    /\ UNCHANGED <<device, seen>>

\* An existing directory is somebody else's.  mkdir is repeated for twenty
\* seconds; one that timed out may have made the directory all the same.
PrepareStorage ==
    /\ Now("storage")
    /\ \/ /\ device.foreign
          /\ Raise(CLEANUP) /\ NoFault /\ UNCHANGED <<device, mem>>
       \/ /\ ~device.foreign
          /\ mem' = [mem EXCEPT !.remote_root_created = TRUE, !.remote_files = {"probe"}]
          /\ Own("directory")
          /\ Return
       \/ /\ ~device.foreign
          /\ mem' = [mem EXCEPT !.remote_files = {"probe"}]
          /\ Own("directory") \/ UNCHANGED device
          /\ Fault /\ Raise(CLEANUP)
    /\ UNCHANGED seen

Uninstall ==
    /\ Now("uninstall")
    /\ \/ device' = [device EXCEPT !.package = "none", !.app = 0] /\ Return
       \/ Fault /\ Raise(CLEANUP) /\ UNCHANGED device
    /\ UNCHANGED <<mem, seen>>

Install ==
    /\ Now("install")
    /\ \/ device' = [device EXCEPT !.package = "new"] /\ Return
       \/ Fault /\ Raise(CLEANUP) /\ UNCHANGED device
    /\ UNCHANGED <<mem, seen>>

-----------------------------------------------------------------------------
(* NativeRecording.                                                        *)

StartRecorder ==
    /\ Now("start-recorder")
    /\ IF device.recorders
       THEN Raise(CLEANUP) /\ NoFault /\ UNCHANGED <<device, mem>>
       ELSE /\ device' = [device EXCEPT !.owned = @ \cup {"recorder", "recording"}]
            /\ ReturnOrFail(CLEANUP)
            /\ mem' = [mem EXCEPT !.remote_files = @ \cup {"recording"}, !.process = TRUE,
                                  !.pid_known = ~errors']
    /\ UNCHANGED seen

\* Once only, in the try block or else in the finally block; the time limit
\* of 90 seconds ends a recorder that could not be told to stop.
FinishRecorder ==
    /\ Now("finish-recorder")
    /\ IF ~mem.process \/ mem.finish_attempted
       THEN Return /\ UNCHANGED <<device, mem>>
       ELSE /\ mem' = [mem EXCEPT !.finish_attempted = Running]
            /\ \/ mem.pid_known /\ Drop("recorder") /\ Return
               \/ mem.pid_known /\ Drop("recorder") /\ Fault /\ Raise(CLEANUP)
               \/ mem.pid_known /\ UNCHANGED device /\ Fault /\ Raise(CLEANUP)
               \/ ~mem.pid_known /\ UNCHANGED device /\ NoFault /\ Raise(CLEANUP)
    /\ UNCHANGED seen

-----------------------------------------------------------------------------
(* launch and recover_setup_anr.                                           *)

\* am start -W confirms, or gives up waiting for the first frame, or fails;
\* what fails for it may have started the app.
AmStart ==
    /\ Now("launch")
    /\ \E outcome \in {"accepted", "expired", "refused"} :
         /\ outcome = "accepted" => device.window # "setup-anr"
         /\ IF outcome = "refused" /\ device.window # "setup-anr" THEN Fault ELSE NoFault
         /\ device' = [device EXCEPT !.app = IF @ = 0 THEN 1 ELSE @,
                                     !.window = IF @ = "launcher" THEN "app" ELSE @]
         /\ mem' = [mem EXCEPT !.attempts = @ + 1, !.expired = outcome = "expired"]
         /\ todo' = (CASE outcome = "accepted" -> <<>>
                       [] outcome # "accepted" /\ mem.attempts = 0 -> <<"recover", "relaunch">>
                       [] OTHER -> <<"relaunch">>) \o Tail(todo)
    /\ UNCHANGED <<mode, errors, failed, seen>>

Relaunch ==
    /\ Now("relaunch")
    /\ CASE mem.attempts = 1 /\ mem.recovered -> Call(<<"launch">>)
         [] mem.expired /\ ~(mem.attempts = 1 /\ mem.recovered) ->
               Require(device.window = "app", CLEANUP)
         [] OTHER -> Raise(CLEANUP) /\ NoFault
    /\ Unchanged

Recover ==
    /\ Now("recover")
    /\ Call(IF device.window = "setup-anr" THEN <<"confirm", "tap">> ELSE <<>>)
    /\ Unchanged

\* The same dialog a second time, or nothing is touched.
Confirm == Check("confirm", device.window = "setup-anr")

\* The recovery is noted when the dialog has gone.
TapThenNote ==
    /\ Now("tap")
    /\ seen' = [seen EXCEPT !.taps = @ + 1]
    /\ \/ /\ device' = [device EXCEPT !.window = "app"] /\ NoFault
          /\ mem' = [mem EXCEPT !.recovered = TRUE, !.recovery_pid = mem.pid]
       \/ UNCHANGED <<device, mem>> /\ Fault
    /\ todo' = Tail(todo)
    /\ UNCHANGED <<mode, errors, failed>>

Tap ==
    /\ Now("tap")
    /\ seen' = [seen EXCEPT !.taps = @ + 1]
    /\ \/ device' = [device EXCEPT !.window = "app"] /\ NoFault
       \/ UNCHANGED device /\ Fault
    /\ mem' = [mem EXCEPT !.recovered = TRUE, !.recovery_pid = mem.pid]
    /\ todo' = Tail(todo)
    /\ UNCHANGED <<mode, errors, failed>>

-----------------------------------------------------------------------------
(* run: the first screen.                                                  *)

ReadPid ==
    /\ Now("wait")
    /\ IF device.late THEN Raise(CLEANUP) /\ NoFault /\ UNCHANGED mem
       ELSE /\ device.app # 0
            /\ mem' = [mem EXCEPT !.pid = device.app]
            /\ Call(<<"look">>)
    /\ UNCHANGED <<device, seen>>

Look ==
    /\ Now("look")
    /\ IF mem.recovery_pid \notin {0, mem.pid}
       THEN Raise(CLEANUP) /\ NoFault /\ UNCHANGED <<mem, seen>>
       ELSE CASE device.window = "setup-anr" /\ ~mem.recovered ->
                   Call(<<"confirm", "tap", "wait">>) /\ UNCHANGED <<mem, seen>>
              [] device.window = "app" /\ device.onboarding ->
                   /\ Return
                   /\ mem' = [mem EXCEPT !.installed_pid = mem.pid]
                   /\ seen' = [seen EXCEPT !.shown = @ \cup {device.app}]
              [] OTHER -> Call(<<"wait">>) /\ UNCHANGED <<mem, seen>>
    /\ UNCHANGED device

CheckLog == Check("log", mem.installed_pid \notin device.fatal)

\* Two seconds later.
CheckStable == Check("stable", device.app = mem.installed_pid)

LookAgain == Check("look-again", device.window = "app" /\ device.onboarding)

-----------------------------------------------------------------------------
(* The finally block.                                                      *)

\* An exception in cleanup leaves it: what follows is not tried.  Only a
\* command that hangs raises one.
ForceStop ==
    /\ Now("force-stop")
    /\ IF ~mem.authorized THEN Return /\ UNCHANGED device
       ELSE \/ device' = [device EXCEPT !.app = 0] /\ Return
            \/ ReturnUnheeded /\ UNCHANGED device
            \/ Fault /\ RaiseOut /\ UNCHANGED device
    /\ UNCHANGED <<mem, seen>>

\* Each rm may fail, and rmdir does when anything is left.
Removable == mem.remote_files \cup (IF mem.remote_root_created THEN {"directory"} ELSE {})

RemoveFiles ==
    /\ Now("remove-files")
    /\ \E gone \in SUBSET Removable :
         /\ "directory" \in gone => gone = Removable
         /\ device' = [device EXCEPT !.owned = @ \ gone]
         /\ \/ gone = Removable /\ Return
            \/ ReturnUnheeded
            \/ Fault /\ RaiseOut
    /\ UNCHANGED <<mem, seen>>

-----------------------------------------------------------------------------
(* The emulator and the app.                                               *)

Expire == /\ Running /\ mem.attempts > 0 /\ ~device.late
          /\ device' = [device EXCEPT !.late = TRUE]
          /\ UNCHANGED <<control, faults, mem, seen>>

ShowOnboarding ==
    /\ device.app # 0 /\ ~device.onboarding
    /\ device' = [device EXCEPT !.onboarding = TRUE]
    /\ UNCHANGED <<control, faults, mem, seen>>

SetupAnr ==
    /\ Running /\ device.window # "setup-anr" /\ Fault
    /\ device' = [device EXCEPT !.window = "setup-anr"]
    /\ UNCHANGED <<control, mem, seen>>

AppDies ==
    /\ Running /\ device.app \in 1..2 /\ Fault
    /\ device' = [device EXCEPT !.app = @ + 1, !.fatal = @ \cup {device.app},
                                !.onboarding = FALSE]
    /\ UNCHANGED <<control, mem, seen>>

-----------------------------------------------------------------------------

Init ==
    /\ Start(<<"prepare", "storage", "uninstall", "install", "start-recorder", "launch",
               "wait", "metadata", "log", "stable", "look-again", "finish-recorder">>)
    /\ \E emulator, foreign, recorders \in BOOLEAN, window \in {"launcher", "setup-anr"} :
         device = [emulator |-> emulator, foreign |-> foreign, recorders |-> recorders,
                   window |-> window, package |-> "old", app |-> 0, onboarding |-> FALSE,
                   fatal |-> {}, late |-> FALSE, owned |-> {}]
    /\ mem = [authorized |-> FALSE, remote_root_created |-> FALSE, remote_files |-> {},
              process |-> FALSE, pid_known |-> FALSE, finish_attempted |-> FALSE,
              attempts |-> 0, expired |-> FALSE, recovered |-> FALSE, recovery_pid |-> 0,
              pid |-> 0, installed_pid |-> 0]
    /\ seen = [taps |-> 0, shown |-> {}]

Runner == \/ PrepareDevice \/ PrepareStorage \/ Uninstall \/ Install
          \/ StartRecorder \/ FinishRecorder
          \/ AmStart \/ Relaunch \/ Recover \/ Confirm \/ Tap
          \/ ReadPid \/ Look \/ CheckLog \/ CheckStable \/ LookAgain
          \/ Check("metadata", TRUE)
          \/ ForceStop \/ RemoveFiles
          \/ \E op \in {"confirm", "look", "metadata", "stable"} : Fails(op)
          \/ (EnterFinally(CLEANUP) \/ Report) /\ Unchanged

Environment == ShowOnboarding \/ SetupAnr \/ AppDies

Next == Runner \/ Expire \/ Environment

Spec == Init /\ [][Next]_vars

-----------------------------------------------------------------------------

\* What a passing report vouches for: the new package runs, the process that
\* showed the first screen is the one whose log was read and which was still
\* there two seconds later.
Earned ==
    /\ device.emulator /\ device.package = "new"
    /\ seen.shown = {mem.installed_pid} /\ mem.installed_pid # 0
    /\ mem.finish_attempted

\* What is left behind, and the operations one of which must have failed.
Cleaner == [recorder  |-> {"finish-recorder"},
            recording |-> {"force-stop", "remove-files"},
            directory |-> {"storage", "force-stop", "remove-files"}]

Restored ==
    /\ \A thing \in device.owned : Cleaner[thing] \cap failed # {}
    /\ device.app # 0 => "force-stop" \in failed
=============================================================================
