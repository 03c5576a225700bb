----------------------------- MODULE NetworkRun -----------------------------
(***************************************************************************)
(* tools/android_network_runtime: one app process plays through a radio    *)
(* outage of an emulator.  The app reports checkpoints through logcat; the *)
(* runner takes them in order, observes, switches the radios and           *)
(* acknowledges; the app waits for each acknowledgement.  In the           *)
(* decoder_failure variant the media comes from a server that serves no    *)
(* byte beyond a cap until the runner has proof that the device is offline *)
(* (fixture_proof.py, android_multi_device/fixture_server.py).             *)
(***************************************************************************)
EXTENDS ToolRun, Functions

CONSTANT Variants      \* "normal", "decoder_failure"

PHASES == <<"app-ready", "players-ready", "initial-ready", "offline-confirmed",
            "reconnected-confirmed", "recovery-confirmed", "teardown-complete">>
Phases == IF mem.variant = "decoder_failure"
          THEN SubSeq(PHASES, 1, 3) \o <<"offline-unreachable">> \o SubSeq(PHASES, 4, 7)
          ELSE PHASES

Offline == {"offline-unreachable", "offline-confirmed"}
Off == [wifi |-> FALSE, data |-> FALSE]
Driver == {"running", "exit0", "exit1", "none"}

\* The calls observe_checkpoint makes for a phase.
Handler(phase) ==
    CASE phase = "app-ready"     -> <<"capture", "ack">>
      [] phase = "players-ready" -> <<"start-recording", "ack">>
      [] phase = "initial-ready" -> <<"capture", "finish-recording", "start-recording",
                                      "disable", "capture", "ack">>
      [] phase = "offline-unreachable" -> <<"require-off", "prove-bytes", "ack">>
      [] phase = "offline-confirmed" ->
           <<"capture", "require-off">>
           \o (IF mem.variant = "decoder_failure" THEN <<"prove-again", "release-cap">> ELSE <<>>)
           \o <<"finish-recording", "start-recording", "restore-wifi-first", "restore",
                "capture", "ack">>
      [] phase = "reconnected-confirmed" -> <<"capture", "finish-recording",
                                              "start-recording", "ack">>
      [] phase = "recovery-confirmed" -> <<"capture", "finish-recording", "ack">>
      [] phase = "teardown-complete" -> <<>>

CLEANUP == <<"restore", "final-evidence", "finish-recording", "stop-driver", "stop-logcat",
             "remove-observer", "stop-app", "remove-acks", "remove-evidence">>

Radios(d) == [wifi |-> d.wifi, data |-> d.data]

-----------------------------------------------------------------------------
(* The radios: class Radios.                                               *)

\* require_owned_avd and a call that raises.
Fails(op) == /\ Now(op) /\ Fault /\ Raise(CLEANUP)
             /\ UNCHANGED <<device, mem, seen>>

CaptureInitial ==
    /\ Now("capture-initial")
    /\ mem' = [mem EXCEPT !.initial = Radios(device), !.admitted = device.wifi \/ device.data]
    /\ Require(device.wifi \/ device.data, CLEANUP)
    /\ UNCHANGED <<device, seen>>

\* _apply: each of the two svc commands may fail, or have no effect; what
\* counts is that both answered and that both settings are then read back.
Applied(desired) ==
    {[wifi |-> w, data |-> d] : w \in {device.wifi, desired.wifi}, d \in {device.data, desired.data}}

Apply(desired, raised) ==
    \E actual \in Applied(desired) :
       /\ device' = [device EXCEPT !.wifi = actual.wifi, !.data = actual.data]
       /\ actual # desired => raised
       /\ IF raised THEN Fault ELSE NoFault

Proceed(raised) == IF raised THEN Raise(CLEANUP)
                   ELSE todo' = Tail(todo) /\ UNCHANGED <<mode, errors, failed>>

Disable ==
    /\ Now("disable")
    /\ mem' = [mem EXCEPT !.changed = TRUE]
    /\ \E raised \in BOOLEAN : Apply(Off, raised) /\ Proceed(raised)
    /\ UNCHANGED seen

\* restore(stable_primary=True) starts with Wi-Fi alone and waits for two
\* observations that agree on it; a failure is kept for later.
RestoreWifiFirst ==
    /\ Now("restore-wifi-first")
    /\ IF mem.initial = [wifi |-> TRUE, data |-> TRUE]
       THEN \E raised \in BOOLEAN : /\ Apply([wifi |-> TRUE, data |-> FALSE], raised)
                                    /\ mem' = [mem EXCEPT !.unready = raised]
       ELSE UNCHANGED <<device, mem, faults>>
    /\ todo' = Tail(todo)
    /\ UNCHANGED <<mode, errors, failed, seen>>

Restore ==
    /\ Now("restore")
    /\ mem' = [mem EXCEPT !.unready = FALSE]
    /\ IF mem.changed
       THEN \E raised \in BOOLEAN : Apply(mem.initial, raised) /\ Proceed(raised \/ mem.unready)
       ELSE Return /\ UNCHANGED device
    /\ UNCHANGED seen

RequireOff ==
    /\ Now("require-off")
    /\ Require(Radios(device) = Off, CLEANUP)
    /\ UNCHANGED <<device, mem, seen>>

-----------------------------------------------------------------------------
(* Observation: capture and recover_sdk_setup_anr.                         *)

Capture ==
    /\ Now("capture")
    /\ CASE device.window = "app" -> Return
         [] device.window = "setup-anr" /\ mem.recoveries = 0 -> Call(<<"confirm-anr">>)
         [] OTHER -> Raise(CLEANUP) /\ NoFault
    /\ UNCHANGED <<device, mem, seen>>

\* The second observation must show the same dialog and nothing else.
ConfirmAnr ==
    /\ Now("confirm-anr")
    /\ IF device.window = "setup-anr" THEN Call(<<"tap-anr">>) ELSE Raise(CLEANUP) /\ NoFault
    /\ mem' = [mem EXCEPT !.recoveries = IF device.window = "setup-anr" THEN 1 ELSE @]
    /\ UNCHANGED <<device, seen>>

\* The tap, and then the app must regain the focus.
TapAnr ==
    /\ Now("tap-anr")
    /\ seen' = [seen EXCEPT !.taps = @ + 1]
    /\ \/ Return /\ device' = [device EXCEPT !.window = "app"]
       \/ Fault /\ Raise(CLEANUP) /\ UNCHANGED device
    /\ UNCHANGED mem

\* final-evidence: the capture that does not look at the hierarchy.
FinalEvidence ==
    /\ Now("final-evidence")
    /\ Return
    /\ UNCHANGED <<device, mem, seen>>

-----------------------------------------------------------------------------
(* Recordings and acknowledgements.                                        *)

StartRecording ==
    /\ Now("start-recording")
    /\ Own("recorder")
    /\ mem' = [mem EXCEPT !.recording = TRUE, !.recordings = @ + 1]
    /\ ReturnOrFail(CLEANUP)
    /\ UNCHANGED seen

\* finish_recording forgets the recording first: a finish that raises is not
\* tried again.
FinishRecording ==
    /\ Now("finish-recording")
    /\ IF mem.recording
       THEN \/ /\ Drop("recorder") /\ Return
               /\ mem' = [mem EXCEPT !.recording = FALSE, !.verified = @ + 1]
            \/ /\ Drop("recorder") \/ UNCHANGED device
               /\ Fault /\ Raise(CLEANUP)
               /\ mem' = [mem EXCEPT !.recording = FALSE]
       ELSE Return /\ UNCHANGED <<device, mem>>
    /\ UNCHANGED seen

\* ack: the process is still the same, and the file appears complete.
Ack ==
    /\ Now("ack")
    /\ IF device.app = mem.android_pid
       THEN /\ Own("ack")
            /\ mem' = [mem EXCEPT !.acks = @ + 1]
            /\ Return
       ELSE Raise(CLEANUP) /\ NoFault /\ UNCHANGED <<device, mem>>
    /\ UNCHANGED seen

-----------------------------------------------------------------------------
(* The capped fixture.                                                     *)

\* A request has been sent everything below the cap and waits; its row of the
\* log takes the time first and is written later.  Once released it is sent
\* the rest.
FixtureServe ==
    /\ mem.variant = "decoder_failure" /\ "driver" \in device.owned
    /\ \/ /\ device.fixture = "below"
          /\ device' = [device EXCEPT !.fixture = "reached", !.early = ~mem.proved]
       \/ device.fixture = "reached" /\ device' = [device EXCEPT !.fixture = "logged"]
       \/ device.fixture = "released" /\ device' = [device EXCEPT !.fixture = "beyond"]
    /\ UNCHANGED <<control, faults, mem, seen>>

\* validate_spans: no row may show a request at the cap before the boundary,
\* which is now, or the time of the first proof when it is repeated.
EarlyRow == device.fixture \in {"logged", "released", "beyond"} /\ device.early

ProveBytes ==
    /\ Now("prove-bytes")
    /\ mem' = [mem EXCEPT !.proved = ~EarlyRow]
    /\ Require(~EarlyRow, CLEANUP)
    /\ UNCHANGED <<device, seen>>

ProveAgain ==
    /\ Now("prove-again")
    /\ Require(mem.proved /\ ~EarlyRow, CLEANUP)
    /\ UNCHANGED <<device, mem, seen>>

\* release_owned_server: SIGUSR1 to the verified process, then its receipt.
ReleaseCap ==
    /\ Now("release-cap")
    /\ device' = [device EXCEPT !.fixture = "released"]
    /\ mem' = [mem EXCEPT !.released = TRUE]
    /\ Return
    /\ UNCHANGED seen

-----------------------------------------------------------------------------
(* The runner's loop.                                                      *)

\* The emulator is prepared, runs no such app yet, and gets the observer.
\* "evidence" is the directory the tool knows it made, with its files,
\* "directory" one that a mkdir made which timed out.
Prepare ==
    /\ Now("prepare")
    /\ IF device.app # 0 THEN Raise(CLEANUP) /\ NoFault /\ UNCHANGED device
       ELSE \E things \in {{}, {"directory"}, {"evidence"}, {"evidence", "observer"}} :
              /\ device' = [device EXCEPT !.owned = @ \cup things]
              /\ \/ things = {"evidence", "observer"} /\ Return
                 \/ Fault /\ Raise(CLEANUP)
    /\ UNCHANGED <<mem, seen>>

\* start_processes: logcat, then flutter drive, which starts the app.
StartProcesses ==
    /\ Now("start-processes")
    /\ \/ /\ device' = [device EXCEPT !.owned = @ \cup {"logcat", "driver"},
                                      !.driver = "running", !.app = 1]
          /\ Return
       \/ /\ Own("logcat")
          /\ Fault /\ Raise(CLEANUP)
    /\ UNCHANGED <<mem, seen>>

\* observe_checkpoint up to the phase's own calls.
ObserveCheckpoint ==
    /\ Now("loop") /\ device.queue # <<>>
    /\ LET c == Head(device.queue)
           teardownFailed == c.phase = "teardown-complete" /\ ~c.passed
           expected == mem.phase_index < Len(Phases) /\ c.phase = Phases[mem.phase_index + 1]
           same == c.pid = device.app /\ mem.android_pid \in {0, c.pid}
       IN IF expected /\ ~teardownFailed /\ same
          THEN /\ mem' = [mem EXCEPT !.phase_index = @ + 1, !.android_pid = c.pid]
               /\ seen' = [seen EXCEPT !.pids = @ \cup {c.pid}]
               /\ todo' = Handler(c.phase) \o todo
               /\ UNCHANGED <<mode, errors, failed>> /\ NoFault
          ELSE /\ mem' = [mem EXCEPT !.android_pid = IF same THEN c.pid ELSE @]
               /\ Raise(CLEANUP) /\ NoFault /\ UNCHANGED seen
    /\ device' = [device EXCEPT !.queue = Tail(@)]

\* flutter drive has exited, or logcat has, or 600 seconds have passed.
LoopEnds ==
    /\ Now("loop")
    /\ \/ device.driver = "exit0" /\ mem.phase_index = Len(Phases) /\ Return
       \/ Raise(CLEANUP) /\ NoFault
    /\ UNCHANGED <<device, mem, seen>>

\* validate_result and the last checks of run.
Validate ==
    /\ Now("validate")
    /\ Require(/\ mem.verified = 4 /\ mem.recordings = 4
               /\ mem.variant = "decoder_failure" => mem.proved /\ mem.released, CLEANUP)
    /\ UNCHANGED <<device, mem, seen>>

-----------------------------------------------------------------------------
(* The finally block.                                                      *)

StopDriver ==
    /\ Now("stop-driver")
    /\ device' = [device EXCEPT !.owned = @ \ {"driver"}, !.driver = "none"]
    /\ Return /\ UNCHANGED <<mem, seen>>

StopLogcat == Now("stop-logcat") /\ Drop("logcat") /\ Return /\ UNCHANGED <<mem, seen>>

\* A failed uninstall is excused when pm path prints nothing; it prints
\* nothing either when it fails itself.
RemoveObserver ==
    /\ Now("remove-observer")
    /\ \/ Drop("observer") /\ Return
       \/ ReturnUnheeded /\ UNCHANGED device
    /\ UNCHANGED <<mem, seen>>

\* A process that is not the one the checkpoints came from is left alone.
StopTestApp ==
    /\ Now("stop-app")
    /\ Require(mem.android_pid = 0 \/ device.app \in {0, mem.android_pid}, CLEANUP)
    /\ device' = [device EXCEPT !.app = IF @ = mem.android_pid THEN 0 ELSE @]
    /\ UNCHANGED <<mem, seen>>

RemoveAcks == Now("remove-acks") /\ Drop("ack") /\ Return /\ UNCHANGED <<mem, seen>>

\* rm and rmdir with check=False.
RemoveEvidence ==
    /\ Now("remove-evidence")
    /\ \/ Drop("evidence") /\ Return
       \/ ReturnUnheeded /\ UNCHANGED device
    /\ UNCHANGED <<mem, seen>>

\* SIGTERM or SIGINT raises in whatever runs; between two cleanup() calls it
\* leaves the finally block: the rest is never called, no report is written.
Signal ==
    /\ mode # "done" /\ Fault
    /\ \/ todo # <<>> /\ Raise(CLEANUP)
       \/ /\ mode = "cleanup" /\ mode' = "done" /\ errors' = TRUE
          /\ UNCHANGED <<todo, failed>>
    /\ UNCHANGED <<device, mem, seen>>

-----------------------------------------------------------------------------
(* The app under test and the emulator.                                    *)

\* The app has waited for the acknowledgement of the phase before; a row of
\* the fixture's log is not delayed past the next phase.
AppCheckpoint ==
    /\ device.app # 0 /\ device.driver = "running"
    /\ device.at <= Len(Phases) /\ mem.acks >= device.at - 1
    /\ Phases[device.at] = "offline-confirmed" => device.fixture # "reached"
    /\ \/ /\ device' = [device EXCEPT !.at = @ + 1, !.queue =
                 Append(@, [phase |-> Phases[device.at], pid |-> device.app, passed |-> TRUE])]
          /\ seen' = [seen EXCEPT !.online = @ \/ (Phases[device.at] \in Offline
                                                  /\ Radios(device) # Off)]
          /\ NoFault
       \/ /\ device' = [device EXCEPT !.at = 9, !.queue =
                 Append(@, [phase |-> "teardown-complete", pid |-> device.app, passed |-> FALSE])]
          /\ Fault /\ UNCHANGED seen
    /\ UNCHANGED <<control, mem>>

AppRestarts ==
    /\ device.app = 1 /\ Fault
    /\ device' = [device EXCEPT !.app = 2, !.at = 1]
    /\ UNCHANGED <<control, mem, seen>>

DriverExits ==
    /\ device.driver = "running"
    /\ \/ device.at > Len(Phases) /\ device' = [device EXCEPT !.driver = "exit0"] /\ NoFault
       \/ Fault /\ device' = [device EXCEPT !.driver = "exit1"]
    /\ UNCHANGED <<control, mem, seen>>

SetupAnr ==
    /\ device.window = "app" /\ Fault
    /\ device' = [device EXCEPT !.window = "setup-anr"]
    /\ UNCHANGED <<control, mem, seen>>

\* The framework turns a radio back on.
RadioReturns ==
    /\ Radios(device) = Off /\ Fault
    /\ device' = [device EXCEPT !.wifi = TRUE]
    /\ UNCHANGED <<control, mem, seen>>

-----------------------------------------------------------------------------

Init ==
    /\ Start(<<"capture-initial", "prepare", "start-processes", "loop", "validate">>)
    /\ \E w, d \in BOOLEAN, running \in {0, 3} :
         device = [wifi |-> w, data |-> d, app |-> running, at |-> 1, queue |-> <<>>,
                   driver |-> "none", window |-> "app", fixture |-> "below",
                   early |-> FALSE, owned |-> {}]
    /\ \E v \in Variants :
         mem = [variant |-> v, initial |-> Off, changed |-> FALSE, unready |-> FALSE,
                admitted |-> FALSE, phase_index |-> 0, android_pid |-> 0, acks |-> 0,
                recording |-> FALSE, recordings |-> 0, verified |-> 0, recoveries |-> 0,
                proved |-> FALSE, released |-> FALSE]
    /\ seen = [pids |-> {}, online |-> FALSE, taps |-> 0]

Ops == {"capture-initial", "validate", "capture", "require-off", "confirm-anr",
        "ack", "prove-bytes", "prove-again", "release-cap", "final-evidence",
        "stop-driver", "stop-logcat", "remove-observer", "stop-app", "remove-acks",
        "remove-evidence"}

Runner == \/ CaptureInitial \/ Prepare \/ StartProcesses \/ ObserveCheckpoint \/ LoopEnds
          \/ Validate \/ Capture \/ ConfirmAnr \/ TapAnr \/ FinalEvidence
          \/ Disable \/ RestoreWifiFirst \/ Restore \/ RequireOff
          \/ StartRecording \/ FinishRecording \/ Ack
          \/ ProveBytes \/ ProveAgain \/ ReleaseCap
          \/ StopDriver \/ StopLogcat \/ RemoveObserver \/ StopTestApp \/ RemoveAcks
          \/ RemoveEvidence
          \/ \E op \in Ops : Fails(op)
          \/ (EnterFinally(CLEANUP) \/ Report) /\ UNCHANGED <<device, mem, seen>>

Environment == \/ AppCheckpoint \/ AppRestarts \/ DriverExits \/ SetupAnr \/ RadioReturns
               \/ FixtureServe \/ Signal

Next == Runner \/ Environment

Spec == Init /\ [][Next]_vars

-----------------------------------------------------------------------------

\* What a passing report vouches for: one process went through every phase,
\* it was offline whenever it said so, and its media server had served all it
\* would only after that was proved.
Earned ==
    /\ mem.phase_index = Len(Phases) /\ seen.pids = {mem.android_pid}
    /\ ~seen.online /\ (mem.variant = "decoder_failure" => ~device.early)

\* What is left on the device, and the operation that should have removed it:
\* it failed, or a signal ended the clean-up before it was called.
Cleaner == [recorder |-> "finish-recording", driver |-> "stop-driver", logcat |-> "stop-logcat",
            observer |-> "remove-observer", ack |-> "remove-acks", evidence |-> "remove-evidence",
            directory |-> "prepare"]

Missed == failed \cup Range(todo)

Restored ==
    /\ \A thing \in device.owned : Cleaner[thing] \in Missed
    /\ (mem.changed /\ Radios(device) # mem.initial) => "restore" \in Missed
    /\ (mem.android_pid # 0 /\ device.app # 0) => "stop-app" \in Missed
=============================================================================
