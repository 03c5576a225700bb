-------------------------- MODULE BillingRelaunchRun --------------------------
(***************************************************************************)
(* tools/billing_runtime/run_relaunch_journey.py with native_dialog.py: a  *)
(* purchase in the Test Store, the same customer in a new process, and the *)
(* real expiration, each a flutter drive of its own over one installation. *)
(* The journey prints a marker when the store's dialog is due; a reader    *)
(* thread queues it, and the main thread answers the dialog between looks  *)
(* at the screen, where an ANR of the system may cover it at any moment.   *)
(*                                                                         *)
(* Unlike in the other tools the verdict is a flag, mem.passed, that is set*)
(* before the last report is written and only withdrawn by the clean-up.   *)
(***************************************************************************)
EXTENDS ToolRun

CONSTANT MAX_SYSTEM_ANR_RECOVERIES

STAGES == <<"cancel", "failure", "success">>
Pids == {1, 2, 3}

\* main; the last drive is repeated while the purchase has not expired.
Probe == <<"probe", "drive", "the-pid", "stop-app", "probed">>
Program == <<"verify", "save", "matrix", "drive", "dialogs", "the-pid", "save", "stop-app", "gone", "build",
             "relaunch", "drive", "same-customer", "new-pid", "save", "stop-app", "build", "save">>
           \o Probe \o <<"verdict", "save">>
CLEANUP == <<"stop-drive", "stop-again", "remove-files", "save-verdict">>

Unchanged == UNCHANGED <<device, mem, seen>>
Check(op, condition) == Now(op) /\ Require(condition, CLEANUP) /\ Unchanged
Fails(op) == Now(op) /\ Fault /\ Raise(CLEANUP) /\ Unchanged
\* remaining_time raises when the journey or the wait for expiration is late.
InTime == ~device.late

-----------------------------------------------------------------------------
(* main.                                                                   *)

Verify == /\ Now("verify")
          /\ mem' = [mem EXCEPT !.safe_emulator = TRUE]
          /\ Return
          /\ UNCHANGED <<device, seen>>

\* save_progress replaces run.json whole.
Save ==
    /\ Now("save")
    /\ \/ device' = [device EXCEPT !.report = IF mem.passed THEN "verified" ELSE "running"] /\ Return
       \/ Fault /\ Raise(CLEANUP) /\ UNCHANGED device
    /\ UNCHANGED <<mem, seen>>

\* run_drive: flutter drive replaces the app and starts a process of it.
Launch(journey) ==
    /\ Now(journey)
    /\ mem' = [mem EXCEPT !.journey = journey]
    /\ IF InTime
       THEN /\ \E pid \in Pids : device' = [device EXCEPT !.pids = {pid}, !.drive = "running",
                                                          !.markers = <<>>, !.ended = FALSE]
            /\ Return
       ELSE Raise(CLEANUP) /\ NoFault /\ UNCHANGED device
    /\ UNCHANGED seen

\* The queue is emptied before the end of the output is seen.
Marker == Now("drive") /\ device.markers # <<>>
PerformSteps == <<"start-recording", "look", "look-again", "tap", "finish-recording">>

Perform ==
    /\ Marker
    /\ mem' = [mem EXCEPT !.stage = Head(device.markers)]
    /\ device' = [device EXCEPT !.markers = Tail(@)]
    /\ IF mem.journey = "matrix" /\ Len(mem.completed) < Len(STAGES)
          /\ Head(device.markers) = STAGES[Len(mem.completed) + 1]
       THEN Call(PerformSteps \o <<"drive">>)
       ELSE Raise(CLEANUP) /\ NoFault
    /\ UNCHANGED seen

\* validate_evidence for each of the three journeys.
Proves(result) ==
    IF mem.journey = "probe"
    THEN result.customer = mem.customer /\ (result.pending \/ result.restored = "expired")
    ELSE result.restored = "active"

DriveEnds ==
    /\ Now("drive") /\ device.markers = <<>> /\ device.ended
    /\ Require(device.drive = "ok" /\ Proves(device.result), CLEANUP)
    /\ mem' = [mem EXCEPT !.evidence = device.result,
                          !.customer = IF mem.journey = "matrix" THEN device.result.customer ELSE @]
    /\ seen' = [seen EXCEPT !.customers = @ \cup {device.result.customer},
                            !.relaunched = @ \/ mem.journey = "relaunch"]
    /\ device' = [device EXCEPT !.drive = "off"]

DriveFails ==
    /\ Now("drive") /\ ~device.ended
    /\ Raise(CLEANUP) /\ NoFault
    /\ Unchanged

ThePid(op, condition) ==
    /\ Now(op)
    /\ Require(Cardinality(device.pids) = 1 /\ condition, CLEANUP)
    /\ mem' = [mem EXCEPT !.pid = IF Cardinality(device.pids) = 1 THEN device.pids ELSE @]
    /\ UNCHANGED <<device, seen>>

\* force_stop_and_wait: the process has gone, and no other has come.
ForceStop(op) ==
    /\ Now(op)
    /\ \/ device' = [device EXCEPT !.pids = {}] /\ Return
       \/ Fault /\ Raise(CLEANUP) /\ UNCHANGED device
       \/ \E pid \in Pids : device' = [device EXCEPT !.pids = {pid}] /\ Fault /\ Raise(CLEANUP)
    /\ UNCHANGED <<mem, seen>>

\* A probe that succeeds ends the wait, whatever it found.
ProbedOnce ==
    /\ Now("probed")
    /\ Require(InTime, CLEANUP)
    /\ Unchanged

\* wait_for_expiration: only a probe that succeeded and found it pending is repeated.
Probed ==
    /\ Now("probed")
    /\ IF ~InTime THEN Raise(CLEANUP) /\ NoFault
       ELSE IF mem.evidence.pending THEN Call(Probe) ELSE Return
    /\ Unchanged

Verdict == /\ Now("verdict")
           /\ mem' = [mem EXCEPT !.passed = TRUE]
           /\ Return
           /\ UNCHANGED <<device, seen>>

-----------------------------------------------------------------------------
(* DialogOrchestrator.perform.                                             *)

DialogCleanup == <<"finish-recording">> \o CLEANUP
Looking == Running /\ todo # <<>> /\ Head(todo) \in {"look", "look-again"}
Looked == device.dialog = mem.stage /\ ~device.anr

StartRecording ==
    /\ Now("start-recording")
    /\ device' = [device EXCEPT !.owned = @ \cup {"recorder", "files"}]
    /\ ReturnOrFail(DialogCleanup)
    /\ UNCHANGED <<mem, seen>>

Look == Looking /\ Looked /\ Return /\ Unchanged

\* The dialog was not there any more after the screenshot: from the first look.
LookFails ==
    /\ Now("look-again") /\ Running /\ ~Looked /\ ~device.anr
    /\ Call(<<"look", "look-again">>)
    /\ Unchanged

\* _recover_emulator_system_anr, at most so often over the whole run.
Recover ==
    /\ Looking /\ device.anr /\ mem.recoveries < MAX_SYSTEM_ANR_RECOVERIES
    /\ Call(IF Head(todo) = "look" THEN <<"recover", "look">> ELSE <<"recover", "look", "look-again">>)
    /\ Unchanged

\* A tap that may have been delivered but raised is neither counted nor an
\* error: the loop looks again.
Close ==
    /\ Now("recover")
    /\ \/ ~device.anr /\ Return /\ Unchanged
       \/ /\ device.anr
          /\ device' = [device EXCEPT !.anr = FALSE]
          /\ seen' = [seen EXCEPT !.taps = @ + 1]
          /\ \/ Return /\ mem' = [mem EXCEPT !.recoveries = @ + 1]
             \/ /\ Fault /\ todo' = Tail(todo) /\ UNCHANGED <<mode, errors, failed, mem>>
    
\* The time for this dialog is over, with whatever was wrong last.
LookTimesOut == Looking /\ Raise(DialogCleanup) /\ NoFault /\ Unchanged

\* The button is where it was seen; what is on top of it by now takes the tap.
Tap ==
    /\ Now("tap")
    /\ mem' = [mem EXCEPT !.completed = Append(@, mem.stage)]
    /\ IF Looked
       THEN /\ device' = [device EXCEPT !.dialog = "none", !.next = @ + 1,
                                        !.plus = IF mem.stage = "success" THEN "active" ELSE @]
            /\ seen' = [seen EXCEPT !.tapped = Append(@, mem.stage)]
       ELSE UNCHANGED <<device, seen>>
    /\ ReturnOrFail(DialogCleanup)

\* finish: it refuses to signal a process that is not its recorder.
FinishRecording ==
    /\ Now("finish-recording")
    /\ \/ Drop("recorder") /\ Return
       \/ Fault /\ Raise(CLEANUP) /\ UNCHANGED device
    /\ UNCHANGED <<mem, seen>>

-----------------------------------------------------------------------------
(* The finally blocks of run_drive and main.                               *)

StopDrive ==
    /\ Now("stop-drive")
    /\ device' = [device EXCEPT !.drive = "off", !.dialog = "none"]
    /\ Return
    /\ UNCHANGED <<mem, seen>>

\* Only an emulator that was verified, and only a process that is the only one.
StopAgain ==
    /\ Now("stop-again")
    /\ \/ /\ ~mem.safe_emulator \/ device.pids = {} \/ Cardinality(device.pids) = 1
          /\ device' = [device EXCEPT !.pids = IF mem.safe_emulator THEN {} ELSE @]
          /\ Return
          /\ UNCHANGED mem
       \/ /\ mem.safe_emulator
          /\ \/ Cardinality(device.pids) > 1 /\ NoFault
             \/ Fault
          /\ Raise(CLEANUP)
          /\ mem' = [mem EXCEPT !.passed = FALSE]
          /\ UNCHANGED device
    /\ UNCHANGED seen

RemoveRemote ==
    /\ Now("remove-files")
    /\ \/ Drop("files") /\ Return /\ UNCHANGED mem
       \/ /\ Fault /\ Raise(CLEANUP) /\ UNCHANGED device
          /\ mem' = [mem EXCEPT !.passed = FALSE]
    /\ UNCHANGED seen

SaveVerdict ==
    /\ Now("save-verdict")
    /\ \/ device' = [device EXCEPT !.report = IF mem.passed THEN "passed" ELSE "failed"] /\ Return
       \/ Fault /\ Raise(CLEANUP) /\ UNCHANGED device
    /\ UNCHANGED <<mem, seen>>

-----------------------------------------------------------------------------
(* The app, the store, the system and the clock.                           *)

Goes == UNCHANGED <<control, faults, mem, seen>>
Driving == device.drive = "running" /\ ~device.ended

StoreDialog ==
    /\ Driving /\ mem.journey = "matrix" /\ device.next <= Len(STAGES) /\ device.dialog = "none"
    /\ device' = [device EXCEPT !.dialog = STAGES[device.next], !.markers = Append(@, STAGES[device.next])]
    /\ Goes

Result(restored) == [customer |-> device.customer, pending |-> device.plus = "active", restored |-> restored]

\* The driver's output ends.  Restore may disagree with the observation before
\* it, and a journey may fail.
JourneyEnds ==
    /\ Driving /\ device.dialog = "none" /\ (mem.journey = "matrix" => device.next > Len(STAGES))
    /\ \/ device' = [device EXCEPT !.drive = "ok", !.ended = TRUE, !.result = Result(device.plus)] /\ NoFault
       \/ /\ \/ device' = [device EXCEPT !.drive = "ok", !.ended = TRUE, !.result = Result("active")]
             \/ device' = [device EXCEPT !.drive = "bad", !.ended = TRUE]
          /\ Fault
    /\ UNCHANGED <<control, mem, seen>>

Expire == /\ Running /\ device.plus = "active"
          /\ device' = [device EXCEPT !.plus = "expired"]
          /\ Goes

SystemAnr == /\ Looking \/ Now("recover") \/ Now("tap")
             /\ Running
             /\ device' = [device EXCEPT !.anr = ~@]
             /\ Goes

\* Another process of the app, or the data of the app lost with its customer.
AppMisbehaves ==
    /\ Running /\ device.pids # {} /\ Fault
    /\ \/ \E pid \in Pids : device' = [device EXCEPT !.pids = @ \cup {pid}]
       \/ device.customer = 1 /\ device' = [device EXCEPT !.customer = 2]
    /\ UNCHANGED <<control, mem, seen>>

TimePasses == /\ Running /\ InTime
              /\ device' = [device EXCEPT !.late = TRUE]
              /\ Goes

-----------------------------------------------------------------------------

Init ==
    /\ Start(Program)
    /\ device = [pids |-> {}, drive |-> "off", ended |-> FALSE, markers |-> <<>>, dialog |-> "none",
                 next |-> 1, anr |-> FALSE, plus |-> "none", customer |-> 1, late |-> FALSE,
                 result |-> [customer |-> 0, pending |-> FALSE, restored |-> "none"],
                 report |-> "none", owned |-> {}]
    /\ mem = [safe_emulator |-> FALSE, journey |-> "none", stage |-> "none", completed |-> <<>>,
              recoveries |-> 0, pid |-> {}, customer |-> 0, passed |-> FALSE,
              evidence |-> [customer |-> 0, pending |-> FALSE, restored |-> "none"]]
    /\ seen = [tapped |-> <<>>, taps |-> 0, customers |-> {}, relaunched |-> FALSE]

Runner == \/ Verify \/ Save \/ (\E journey \in {"matrix", "relaunch", "probe"} : Launch(journey))
          \/ Perform \/ DriveEnds \/ DriveFails \/ Probed \/ Verdict
          \/ Check("dialogs", mem.completed = STAGES)
          \/ Check("same-customer", mem.evidence.customer = mem.customer)
          \/ Check("gone", device.pids = {}) \/ Check("build", InTime)
          \/ (\E op \in {"verify", "matrix", "build", "relaunch", "probe", "the-pid"} : Fails(op))
          \/ ThePid("the-pid", TRUE) \/ ThePid("new-pid", device.pids # mem.pid) \/ ForceStop("stop-app")
          \/ StartRecording \/ Look \/ LookFails \/ Recover \/ Close \/ LookTimesOut \/ Tap \/ FinishRecording
          \/ StopDrive \/ StopAgain \/ RemoveRemote \/ SaveVerdict
          \/ (EnterFinally(CLEANUP) \/ Report) /\ Unchanged

Environment == StoreDialog \/ JourneyEnds \/ Expire \/ SystemAnr \/ AppMisbehaves \/ TimePasses

Next == Runner \/ Environment

Spec == Init /\ [][Next]_vars

-----------------------------------------------------------------------------

\* main returns 0.
Succeeds == Done /\ mem.passed /\ "save-verdict" \notin failed

\* What it vouches for: every button of the store was really hit, once and in
\* order; one customer throughout, still active after the relaunch; and the
\* purchase has really expired.
Earned == /\ seen.tapped = STAGES /\ seen.relaunched
          /\ Cardinality(seen.customers) = 1
          /\ device.plus = "expired"
          /\ device.report = "passed"

\* A run that was interrupted at any point cannot leave the verdict of another.
Restored ==
    /\ device.drive # "running"
    /\ device.pids # {} => {"stop-again", "verify"} \cap failed # {}
    /\ "recorder" \in device.owned => {"finish-recording"} \cap failed # {}
    /\ "files" \in device.owned => "remove-files" \in failed
    /\ device.report = "passed" => mem.passed
=============================================================================
