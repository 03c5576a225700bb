--------------------------- MODULE ObserverCapture ---------------------------
(***************************************************************************)
(* tools/android_native_ui/observer.py: the NativeUiObserver the runners   *)
(* share.  A helper package is installed; each capture starts it through   *)
(* adb, reads its progress with a thread and a bounded queue, under a      *)
(* budget that one startup and one capture share, and believes the tree    *)
(* only if the app is still the process it was.                            *)
(*                                                                         *)
(* The caller is the polling loop of the runners (Runner.wait of           *)
(* android_lifecycle_runtime/run.py), which repeats what it may.           *)
(* device.now is the time since the capture was asked for.                 *)
(***************************************************************************)
EXTENDS ToolRun

CONSTANTS STARTUP, CAPTURE, RESULT,    \* the timeouts
          Capacity,                    \* of the queue
          MaxCaptures                  \* bound: the caller's deadline

TOTAL == STARTUP + CAPTURE + RESULT
CLEANUP == <<"cleanup">>
Least(a, b) == IF a <= b THEN a ELSE b

Unchanged == UNCHANGED <<device, mem, seen>>
Idle == [reader |-> "none", helper |-> "off", pipe |-> <<>>, chunks |-> <<>>,
         stopping |-> FALSE, response |-> "none"]
Proc == device.proc

-----------------------------------------------------------------------------
(* install.                                                                *)

InstallHelper ==
    /\ Now("install")
    /\ IF device.preexisting
       THEN Raise(CLEANUP) /\ NoFault /\ UNCHANGED <<device, mem>>
       ELSE \/ /\ Own("observer") /\ Return
               /\ mem' = [mem EXCEPT !.owns_package = TRUE, !.installed = TRUE]
            \/ /\ Own("observer") \/ UNCHANGED device
               /\ mem' = [mem EXCEPT !.owns_package = TRUE]
               /\ Fault /\ Raise(CLEANUP)
    /\ UNCHANGED seen

-----------------------------------------------------------------------------
(* observe.                                                                *)

\* What the caller may repeat until its own deadline.
Retry == IF mem.captures < MaxCaptures
         THEN todo' = <<"observe">> \o SubSeq(todo, Len(todo), Len(todo))
              /\ UNCHANGED <<mode, errors, failed>>
         ELSE Raise(CLEANUP)

\* production_pid, then the child process and its readers.
Observe ==
    /\ Now("observe")
    /\ IF device.app = 0
       THEN Raise(CLEANUP) /\ NoFault /\ UNCHANGED <<device, mem>>
       ELSE \E caller \in {STARTUP, TOTAL} :
              /\ mem' = [mem EXCEPT !.captures = @ + 1, !.before_pid = device.app,
                     !.total = Least(caller, TOTAL), !.deadline = Least(caller, STARTUP),
                     !.ready = FALSE, !.traversed = FALSE, !.finished = FALSE,
                     !.outcome = "none"]
              /\ device' = [device EXCEPT !.now = 0, !.owned = @ \cup {"helper", "adb", "reader"},
                     !.proc = [Idle EXCEPT !.reader = "reading", !.helper = "starting"]]
              /\ Call(<<"collect", "close", "judge">>)
    /\ UNCHANGED seen

\* The child's own thread reads and puts, and waits while the queue is full.
Reader ==
    /\ Proc.reader = "reading"
    /\ \/ /\ Proc.pipe # <<>> /\ Len(Proc.chunks) < Capacity /\ ~Proc.stopping
          /\ LET chunk == Head(Proc.pipe)
             IN device' = [device EXCEPT !.proc.chunks = Append(@, chunk), !.proc.pipe = Tail(@),
                             !.proc.reader = IF chunk.stage = "eof" THEN "ended" ELSE @,
                             !.owned = IF chunk.stage = "eof" THEN @ \ {"reader"} ELSE @]
       \/ /\ Proc.stopping
          /\ device' = [device EXCEPT !.proc.reader = "ended", !.owned = @ \ {"reader"}]
    /\ UNCHANGED <<control, faults, mem, seen>>

\* InstrumentationBudget.progress: the deadline moves twice, when the service
\* is ready and when the helper has finished.
Accepts(event) ==
    /\ ~mem.finished
    /\ event.stage \in (IF mem.ready THEN {"traverse_ready", "finish"} ELSE {"service_ready", "finish"})
    /\ event.stage = "traverse_ready" => event.at - mem.capture_uptime < CAPTURE

Progressed(event) ==
    CASE event.stage = "service_ready" ->
           [mem EXCEPT !.ready = TRUE, !.capture_uptime = event.at,
                       !.deadline = Least(mem.total, device.now + CAPTURE + RESULT)]
      [] event.stage = "traverse_ready" -> [mem EXCEPT !.traversed = TRUE]
      [] event.stage = "finish" ->
           [mem EXCEPT !.finished = TRUE, !.deadline = Least(@, device.now + RESULT)]

\* collect_instrumentation takes a chunk, or finds the time over.
Collect ==
    /\ Now("collect") /\ device.now < mem.deadline
    /\ Proc.chunks # <<>> /\ Head(Proc.chunks).stage # "eof"
    /\ device' = [device EXCEPT !.proc.chunks = Tail(@)]
    /\ LET event == Head(Proc.chunks)
       IN IF Accepts(event)
          THEN mem' = Progressed(event) /\ UNCHANGED todo
          ELSE mem' = [mem EXCEPT !.outcome = "integrity"] /\ todo' = Tail(todo)
    /\ UNCHANGED <<mode, errors, failed, faults, seen>>

CollectEnds ==
    /\ Now("collect")
    /\ \/ device.now >= mem.deadline /\ mem' = [mem EXCEPT !.outcome = "timeout"]
       \/ /\ device.now < mem.deadline
          /\ Proc.chunks # <<>> /\ Head(Proc.chunks).stage = "eof"
          /\ mem' = [mem EXCEPT !.outcome =
                IF /\ mem.finished /\ Proc.helper = "exited"
                   /\ Proc.response = "hierarchy" => mem.ready /\ mem.traversed
                THEN "returned" ELSE "integrity"]
    /\ Return
    /\ UNCHANGED <<device, seen>>

\* SIGTERM in the polling loop is one more RuntimeFailure.
Signal ==
    /\ Now("collect") /\ Fault
    /\ mem' = [mem EXCEPT !.outcome = "signal"]
    /\ todo' = Tail(todo)
    /\ UNCHANGED <<mode, errors, failed, device, seen>>

\* The finally block: no process but the child of this call is touched, and
\* the budget is forgotten.
NoBudget(m) == [m EXCEPT !.ready = FALSE, !.traversed = FALSE, !.finished = FALSE,
                         !.deadline = 0, !.capture_uptime = 0]

Close ==
    /\ Now("close")
    /\ device' = [device EXCEPT !.proc.stopping = TRUE, !.proc.pipe = <<>>, !.proc.chunks = <<>>,
                                !.owned = @ \ {"adb"}]
    /\ mem' = NoBudget(mem)
    /\ Return /\ UNCHANGED seen

\* The threads are joined; after a timeout or a bad answer only the helper is
\* stopped.
\* An expired capture is looked at again like any other failure.
JudgeRetries ==
    /\ Now("judge") /\ Proc.reader = "ended"
    /\ IF mem.outcome = "returned" THEN Call(<<"window", "pid-after", "response">>)
       ELSE Retry /\ NoFault
    /\ seen' = [seen EXCEPT !.expired = @ \/ mem.outcome = "timeout"]
    /\ UNCHANGED <<device, mem>>

Judge ==
    /\ Now("judge") /\ Proc.reader = "ended"
    /\ CASE mem.outcome = "returned" -> Call(<<"window", "pid-after", "response">>)
         [] mem.outcome \in {"timeout", "integrity"} -> Call(<<"stop-helper", "pid-again">>)
         [] mem.outcome = "signal" -> Retry /\ NoFault
    /\ seen' = [seen EXCEPT !.expired = @ \/ mem.outcome = "timeout"]
    /\ UNCHANGED <<device, mem>>

\* am force-stop can fail with a failure the caller may repeat.
StopHelper ==
    /\ Now("stop-helper")
    /\ \/ /\ device' = [device EXCEPT !.owned = @ \ {"helper"}, !.proc.helper = "exited"]
          /\ Return
       \/ Fault /\ Retry /\ UNCHANGED device
    /\ seen' = [seen EXCEPT !.masked = @ \/ faults' # faults]
    /\ UNCHANGED mem

\* The process has changed, or the first error is raised again; the question
\* itself can time out, and then that is what the caller sees.
PidAgain ==
    /\ Now("pid-again")
    /\ \/ Raise(CLEANUP) /\ NoFault /\ UNCHANGED seen
       \/ Retry /\ Fault /\ seen' = [seen EXCEPT !.masked = TRUE]
    /\ UNCHANGED <<device, mem>>

ReadWindow ==
    /\ Now("window")
    /\ IF device.now >= mem.total THEN Raise(CLEANUP) /\ NoFault
       ELSE Return \/ (Fault /\ Retry)
    /\ Unchanged

PidAfter ==
    /\ Now("pid-after")
    /\ Require(device.now < mem.total /\ device.app = mem.before_pid, CLEANUP)
    /\ Unchanged

\* parse_snapshot: a complete tree, or a failure that may be repeated.
Response ==
    /\ Now("response")
    /\ CASE Proc.response = "hierarchy" /\ device.now < mem.total ->
              /\ seen' = [seen EXCEPT !.trees = @ \cup {[pid |-> device.tree, before |-> mem.before_pid]}]
              /\ Return
         [] Proc.response = "retryable" -> Retry /\ NoFault /\ UNCHANGED seen
         [] OTHER -> Raise(CLEANUP) /\ NoFault /\ UNCHANGED seen
    /\ UNCHANGED <<device, mem>>

\* cleanup: a failed installation may have left nothing to uninstall, which
\* pm path says by printing nothing; it does so too when it fails itself.
CleanUp ==
    /\ Now("cleanup")
    /\ IF ~mem.owns_package THEN Return /\ UNCHANGED device
       ELSE \/ /\ device' = [device EXCEPT !.owned = @ \ {"observer", "helper"}]
               /\ Return
            \/ ReturnUnheeded /\ UNCHANGED device
            \/ Fault /\ Raise(CLEANUP) /\ UNCHANGED device
    /\ UNCHANGED <<mem, seen>>

-----------------------------------------------------------------------------
(* The helper, the app and the clock.                                      *)

\* A line carries the time it was written at; that of the tree matters.
Line(stage) == [stage |-> stage,
                at |-> IF stage \in {"service_ready", "traverse_ready"} THEN device.now ELSE 0]
Emit(stage) == IF Proc.stopping THEN <<>> ELSE Append(Proc.pipe, Line(stage))

Helper ==
    /\ Running /\ Proc.helper \notin {"off", "exited"}
    /\ \/ /\ Proc.helper = "starting"
          /\ device' = [device EXCEPT !.proc.helper = "capturing", !.proc.pipe = Emit("service_ready")]
          /\ NoFault
       \/ /\ Proc.helper = "capturing"
          /\ device' = [device EXCEPT !.proc.helper = "traversed", !.proc.pipe = Emit("traverse_ready"),
                                      !.proc.response = "hierarchy", !.tree = device.app]
          /\ NoFault
       \/ /\ Proc.helper \in {"starting", "capturing"}
          /\ \E response \in {"retryable", "native"} :
                device' = [device EXCEPT !.proc.helper = "traversed", !.proc.response = response]
          /\ Fault
       \/ /\ Proc.helper = "traversed"
          /\ device' = [device EXCEPT !.proc.helper = "exited", !.owned = @ \ {"helper"},
                                      !.proc.pipe = Emit("finish") \o <<Line("eof")>>]
          /\ NoFault
    /\ UNCHANGED <<control, mem, seen>>

AppRestarts == /\ Running /\ device.app \in 1..2 /\ Fault
               /\ device' = [device EXCEPT !.app = @ + 1]
               /\ UNCHANGED <<control, mem, seen>>

Tick == /\ mem.captures > 0 /\ device.now < TOTAL
        /\ \E op \in {"collect", "pid-after", "response"} : Now(op)
        /\ device' = [device EXCEPT !.now = @ + 1]
        /\ UNCHANGED <<control, faults, mem, seen>>

-----------------------------------------------------------------------------

Init ==
    /\ Start(<<"install", "observe">> \o <<"end">>)
    /\ \E preexisting \in BOOLEAN, app \in {0, 1} :
         device = [preexisting |-> preexisting, app |-> app, now |-> 0, tree |-> 0,
                   proc |-> Idle, owned |-> {}]
    /\ mem = [owns_package |-> FALSE, installed |-> FALSE, captures |-> 0, before_pid |-> 0,
              total |-> 0, deadline |-> 0, ready |-> FALSE, traversed |-> FALSE,
              finished |-> FALSE, capture_uptime |-> 0, outcome |-> "none"]
    /\ seen = [trees |-> {}, expired |-> FALSE, masked |-> FALSE]

Runner == \/ InstallHelper \/ Observe \/ Collect \/ CollectEnds \/ Close \/ Judge
          \/ StopHelper \/ PidAgain \/ ReadWindow \/ PidAfter \/ Response \/ CleanUp
          \/ (Now("end") /\ Return /\ Unchanged)
          \/ (EnterFinally(CLEANUP) \/ Report) /\ Unchanged

Next == Runner \/ Reader \/ Helper \/ Signal \/ AppRestarts \/ Tick

Spec == Init /\ [][Next]_vars

-----------------------------------------------------------------------------

\* A tree that is believed is one of the process the capture began with.
Earned == seen.trees # {} /\ \A tree \in seen.trees : tree.pid = tree.before

Cleaner == [observer |-> {"cleanup"}, helper |-> {"cleanup"}, adb |-> {}, reader |-> {}]

Restored == \A thing \in device.owned : Cleaner[thing] \cap failed # {}
=============================================================================
