--------------------------- MODULE NativeRecording ---------------------------
(***************************************************************************)
(* LifecycleRecording of tools/android_lifecycle_runtime/run.py, which the *)
(* runners share: one screenrecord on the emulator, started, watched,      *)
(* stopped, pulled and judged.  A caller wants one of three things:        *)
(*   "live"    a picture on file before it goes on;                        *)
(*   "action"  an action of its own before that, and what it shows first;  *)
(*   "finite"  an action whose whole effect is recorded at once.           *)
(* A live or action recording can be required to reach a last observation. *)
(*                                                                         *)
(* device.now is the emulator's elapsed clock; frames are known by the     *)
(* first and the last one, with a frame only when the picture changes.     *)
(***************************************************************************)
EXTENDS ToolRun

CONSTANTS Kinds,
          LIMIT,       \* screenrecord --time-limit
          READY,       \* the launch deadline of start
          Tolerance,   \* of validate_recording_duration
          MaxTime      \* bound on the clock

Recorder == {"off", "recording", "exited"}
Alive == device.recorder = "recording"
Deadline == mem.launched + READY

FINISH == <<"post-roll", "stop", "pull", "validate", "close">>
CLEANUP == <<"finish">>

\* start remembers that it failed; finish goes to its own finally block.
RaiseInStart == Raise(CLEANUP) /\ mem' = [mem EXCEPT !.status = "failed"]
RaiseInFinish ==
    /\ errors' = TRUE /\ failed' = failed \cup {Head(todo)}
    /\ mode' = "cleanup" /\ todo' = <<"close">>

-----------------------------------------------------------------------------
(* start *)

\* Another recorder is never replaced; then the shell starts screenrecord.
Launch ==
    /\ Now("launch")
    /\ IF device.foreign
       THEN RaiseInStart /\ NoFault /\ UNCHANGED device
       ELSE /\ device' = [device EXCEPT !.recorder = "recording", !.began = device.now,
                                        !.owned = {"recorder", "adb"}]
            /\ mem' = [mem EXCEPT !.process = TRUE, !.launched = device.now]
            /\ Return
    /\ UNCHANGED seen

\* The PID is the first thing the shell prints.
Identify ==
    /\ Now("identify")
    /\ \/ mem' = [mem EXCEPT !.pid = TRUE] /\ Return
       \/ RaiseInStart /\ Fault
    /\ UNCHANGED <<device, seen>>

\* The recorder is verified, the clock read, and the caller's action called
\* once; when it fails nobody knows whether it had its effect.
StartupAction ==
    /\ Now("action")
    /\ \/ /\ Alive /\ device.now < Deadline
          /\ seen' = [seen EXCEPT !.actions = @ + 1]
          /\ \/ /\ mem' = [mem EXCEPT !.trigger = device.now, !.action = "completed",
                              !.status = IF mem.kind = "finite" THEN "recording" ELSE @]
                /\ Return
             \/ /\ mem' = [mem EXCEPT !.trigger = device.now, !.action = "uncertain",
                                      !.status = "failed"]
                /\ Fault /\ Raise(CLEANUP)
       \/ /\ ~Alive \/ device.now >= Deadline
          /\ RaiseInStart /\ NoFault /\ UNCHANGED seen
    /\ UNCHANGED device

\* A complete picture in the file, and the device clock, before the deadline.
MediaReady ==
    /\ Now("ready")
    /\ \/ /\ Alive /\ device.first # 0 /\ device.now <= Deadline
          /\ mem' = [mem EXCEPT !.status = "recording", !.ready = device.now]
          /\ Return
       \/ /\ ~Alive \/ device.now > Deadline
          /\ RaiseInStart /\ NoFault
    /\ UNCHANGED <<device, seen>>

\* observe_startup_result.
ObserveStartup ==
    /\ Now("observe")
    /\ IF mem.kind = "finite" /\ device.now >= Deadline
       THEN Raise(CLEANUP) /\ NoFault /\ UNCHANGED mem
       ELSE Return /\ mem' = [mem EXCEPT !.observed = device.now]
    /\ UNCHANGED <<device, seen>>

-----------------------------------------------------------------------------
(* finish *)

Finish ==
    /\ Now("finish")
    /\ IF mem.finished \/ ~mem.process THEN Return ELSE Call(FINISH)
    /\ mem' = [mem EXCEPT !.finished = @ \/ mem.process]
    /\ UNCHANGED <<device, seen>>

\* post_roll: the clock to reach, then a bounded wait for a new picture.  What
\* goes wrong is kept for the end.
PostRollStart ==
    /\ Now("post-roll") /\ mem.required = 0
    /\ IF mem.kind = "finite" \/ ~mem.require
       THEN Return /\ UNCHANGED mem
       ELSE /\ mem' = [mem EXCEPT !.required = device.now]
            /\ UNCHANGED control /\ NoFault
    /\ UNCHANGED <<device, seen>>

PostRollEnd ==
    /\ Now("post-roll") /\ mem.required # 0
    /\ device.now > mem.required \/ ~Alive
    /\ mem' = [mem EXCEPT !.postRollFailed = ~(Alive /\ device.last > mem.required)]
    /\ Return
    /\ UNCHANGED <<device, seen>>

\* poll; the ownership of the PID; the clock; kill -2; wait.
Stop ==
    /\ Now("stop")
    /\ \/ /\ mem.pid \/ ~Alive
          /\ mem' = [mem EXCEPT !.exitedEarly = ~Alive, !.stopped = device.now]
          /\ device' = [device EXCEPT !.recorder = "exited", !.owned = @ \ {"recorder", "adb"}]
          /\ Return
       \/ /\ Alive /\ ~mem.pid
          /\ RaiseInFinish /\ NoFault /\ UNCHANGED <<device, mem>>
       \/ Fault /\ RaiseInFinish /\ UNCHANGED <<device, mem>>
    /\ UNCHANGED seen

\* device_file_receipt and adb pull.
Pull ==
    /\ Now("pull")
    /\ \/ mem' = [mem EXCEPT !.pulled = "same"] /\ Return
       \/ mem' = [mem EXCEPT !.pulled = "different"] /\ Fault
          /\ todo' = Tail(todo) /\ UNCHANGED <<mode, errors, failed>>
       \/ Fault /\ RaiseInFinish /\ UNCHANGED mem
    /\ UNCHANGED <<device, seen>>

\* require_recorded_observation.
Recorded(clock) == /\ device.first # 0 /\ device.first <= clock
                   /\ clock <= device.last /\ clock <= mem.stopped

\* validate_recording_duration.
DurationHolds == LET duration == device.last - device.first
                     elapsed == mem.stopped - mem.ready
                 IN /\ duration > 0 /\ elapsed > 0 /\ elapsed <= LIMIT
                    /\ duration + Tolerance >= elapsed

\* A finite transition: two frames, one of them after the trigger, and a
\* fresh observation before the stop.
FiniteHolds == /\ mem.action = "completed"
               /\ mem.trigger < mem.observed /\ mem.observed <= mem.stopped
               /\ mem.stopped - mem.trigger <= LIMIT
               /\ device.first < device.last /\ mem.trigger < device.last

LiveHolds == /\ mem.ready # 0
             /\ DurationHolds
             /\ mem.kind = "action" => mem.observed # 0 /\ Recorded(mem.observed)
             /\ mem.require => mem.required # 0 /\ Recorded(mem.required)

Validate ==
    /\ Now("validate")
    /\ IF /\ device.first # 0 /\ ~mem.exitedEarly
          /\ IF mem.kind = "finite" THEN FiniteHolds ELSE LiveHolds
          /\ ~mem.postRollFailed /\ mem.pulled = "same"
       THEN \/ Return /\ mem' = [mem EXCEPT !.status = "verified"]
            \/ Fault /\ RaiseInFinish /\ mem' = [mem EXCEPT !.status = "failed"]
       ELSE RaiseInFinish /\ NoFault /\ mem' = [mem EXCEPT !.status = "failed"]
    /\ UNCHANGED <<device, seen>>

\* The finally block of finish ends the local adb process only.
Close ==
    /\ Now("close")
    /\ device' = [device EXCEPT !.owned = @ \ {"adb"}]
    /\ mem' = [mem EXCEPT !.status = IF @ = "verified" THEN @ ELSE "failed"]
    /\ Return
    /\ UNCHANGED seen

-----------------------------------------------------------------------------
(* The emulator.                                                           *)

\* What passed before the launch does not matter.
Tick ==
    /\ mode # "done" /\ mem.process /\ device.now < MaxTime
    /\ \E frame \in BOOLEAN :
         LET now == device.now + 1
             shown == frame /\ Alive
             full == Alive /\ now - device.began >= LIMIT
         IN device' = [device EXCEPT !.now = now,
                          !.first = IF shown /\ @ = 0 THEN now ELSE @,
                          !.last = IF shown THEN now ELSE @,
                          !.recorder = IF full THEN "exited" ELSE @,
                          !.owned = IF full THEN @ \ {"recorder", "adb"} ELSE @]
    /\ UNCHANGED <<control, faults, mem, seen>>

RecorderExits ==
    /\ Alive /\ Fault
    /\ device' = [device EXCEPT !.recorder = "exited", !.owned = @ \ {"recorder", "adb"}]
    /\ UNCHANGED <<control, mem, seen>>

-----------------------------------------------------------------------------

Program(kind) ==
    <<"launch", "identify">>
    \o (IF kind = "live" THEN <<>> ELSE <<"action">>)
    \o (IF kind = "finite" THEN <<>> ELSE <<"ready">>)
    \o (IF kind = "live" THEN <<>> ELSE <<"observe">>)
    \o CLEANUP

Init ==
    \E kind \in Kinds, require, foreign \in BOOLEAN :
       /\ Start(Program(kind))
       /\ device = [now |-> 1, recorder |-> "off", began |-> 0, first |-> 0, last |-> 0,
                    foreign |-> foreign, owned |-> {}]
       /\ mem = [kind |-> kind, require |-> require, process |-> FALSE, pid |-> FALSE,
                 launched |-> 0, status |-> "not-started", action |-> "none", trigger |-> 0,
                 ready |-> 0, observed |-> 0, required |-> 0, postRollFailed |-> FALSE,
                 stopped |-> 0, exitedEarly |-> FALSE, pulled |-> "none", finished |-> FALSE]
       /\ seen = [actions |-> 0]

Runner == \/ Launch \/ Identify \/ StartupAction \/ MediaReady \/ ObserveStartup
          \/ Finish \/ PostRollStart \/ PostRollEnd \/ Stop \/ Pull \/ Validate \/ Close
          \/ (EnterFinally(CLEANUP) \/ Report) /\ UNCHANGED <<device, mem, seen>>

Next == Runner \/ Tick \/ RecorderExits

Spec == Init /\ [][Next]_vars

-----------------------------------------------------------------------------

\* A recording that counts shows everything observed while it ran: there are
\* frames on both sides of every observation, the recorder lived until it was
\* asked to stop, and the caller's action was called once.
Earned ==
    /\ mem.status = "verified"
    /\ seen.actions = (IF mem.kind = "live" THEN 0 ELSE 1)
    /\ ~mem.exitedEarly /\ device.last - device.began < LIMIT
    /\ mem.kind = "finite" => mem.trigger < device.last
    /\ mem.kind # "finite" =>
         \A clock \in {mem.observed, mem.required} \ {0} :
             device.first <= clock /\ clock <= device.last

Cleaner == [recorder |-> {"identify", "stop"}, adb |-> {"launch"}]

Restored == \A thing \in device.owned : Cleaner[thing] \cap failed # {}
=============================================================================
