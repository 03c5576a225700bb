------------------------------ MODULE ToolRun ------------------------------
(***************************************************************************)
(* What the Python runners under tools/ that drive a device have in        *)
(* common: operations in a try block, clean-up operations in its finally   *)
(* block, and a report.  An operation returns or raises.  In the try block *)
(* an exception abandons the rest; in the finally block most tools note    *)
(* one error more and go on with the next clean-up.                        *)
(*                                                                         *)
(* Each tool is a module of its own that extends this one.  device is the  *)
(* emulator and the host's processes as they really are, mem what the      *)
(* runner object remembers of them, seen a record kept for the properties. *)
(***************************************************************************)
EXTENDS Naturals, Sequences, FiniteSets

CONSTANT MaxFaults     \* bound: calls that fail and things that go wrong

VARIABLES todo,        \* operations still to be called
          mode,        \* "run": try; "cleanup": finally; "done"
          errors,      \* an error has been reported
          failed,      \* the operations that were called and failed
          faults,      \* faults so far
          device, mem, seen

control == <<todo, mode, errors, failed>>
vars == <<todo, mode, errors, failed, faults, device, mem, seen>>

Running == mode = "run"
Done == mode = "done"

Start(ops) == /\ todo = ops /\ mode = "run"
              /\ errors = FALSE /\ failed = {} /\ faults = 0

\* op is the operation that runs now.
Now(op) == mode # "done" /\ todo # <<>> /\ Head(todo) = op

\* Something outside the runner is to blame, or not.
Fault == faults < MaxFaults /\ faults' = faults + 1
NoFault == UNCHANGED faults

\* The operation returns, perhaps after calling others; or it raises a
\* RuntimeFailure, an AssertionError, an OSError, a subprocess.TimeoutExpired.
Call(ops) == todo' = ops \o Tail(todo) /\ UNCHANGED <<mode, errors, failed>> /\ NoFault
Return == Call(<<>>)

\* It failed, and nobody looks at how it ended (check=False).
ReturnUnheeded == /\ Fault /\ todo' = Tail(todo) /\ failed' = failed \cup {Head(todo)}
                  /\ UNCHANGED <<mode, errors>>

Raise(cleanup) ==
    /\ errors' = TRUE
    /\ failed' = failed \cup {Head(todo)}
    /\ mode' = "cleanup"
    /\ todo' = IF Running THEN cleanup ELSE Tail(todo)

\* Where nothing catches it in the finally block either: the rest is not tried.
RaiseOut == /\ errors' = TRUE /\ failed' = failed \cup {Head(todo)}
            /\ mode' = "cleanup" /\ todo' = <<>>

\* An if whose else raises; an operation that something makes raise.
Require(condition, cleanup) == IF condition THEN Return ELSE Raise(cleanup) /\ NoFault
ReturnOrFail(cleanup) == Return \/ (Fault /\ Raise(cleanup))

\* The try block is finished; the finally block.
EnterFinally(cleanup) == /\ Running /\ todo = <<>>
                         /\ mode' = "cleanup" /\ todo' = cleanup
                         /\ UNCHANGED <<errors, failed>> /\ NoFault
Report == /\ mode = "cleanup" /\ todo = <<>>
          /\ mode' = "done"
          /\ UNCHANGED <<todo, errors, failed>> /\ NoFault

Passed == Done /\ ~errors

\* device.owned: what the tool has brought into being.
Own(thing) == device' = [device EXCEPT !.owned = @ \cup {thing}]
Drop(thing) == device' = [device EXCEPT !.owned = @ \ {thing}]
=============================================================================
