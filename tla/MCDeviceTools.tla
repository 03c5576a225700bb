---------------------------- MODULE MCDeviceTools ----------------------------
(***************************************************************************)
(* The tools that drive a device, one per behaviour, and what they all     *)
(* promise: a verdict that was earned, a device as it was found, and an    *)
(* end.                                                                    *)
(***************************************************************************)
EXTENDS ScreenTools

CONSTANTS Variants, MAX_SYSTEM_ANR_RECOVERIES

ASSUME SystemAssumption == MAX_SYSTEM_ANR_RECOVERIES \in Nat

VARIABLE tool

Network == INSTANCE NetworkRun
Installation == INSTANCE InstallRun
Billing == INSTANCE BillingRelaunchRun

ToolInit ==
    \/ tool = "network" /\ Network!Init
    \/ tool = "recording" /\ Recording!Init
    \/ tool = "installation" /\ Installation!Init
    \/ tool = "observer" /\ Observer!Init
    \/ tool = "lifecycle" /\ Lifecycle!Init
    \/ tool = "fullscreen" /\ Fullscreen!Init
    \/ tool = "together focus" /\ TogetherFocus!Init
    \/ tool = "interruption" /\ Interruption!Init
    \/ tool = "billing" /\ Billing!Init

ToolNext ==
    /\ \/ tool = "network" /\ Network!Next
       \/ tool = "recording" /\ Recording!Next
       \/ tool = "installation" /\ Installation!Next
       \/ tool = "observer" /\ Observer!Next
       \/ tool = "lifecycle" /\ Lifecycle!Next
       \/ tool = "fullscreen" /\ Fullscreen!Next
       \/ tool = "together focus" /\ TogetherFocus!Next
       \/ tool = "interruption" /\ Interruption!Next
       \/ tool = "billing" /\ Billing!Next
    /\ UNCHANGED tool

\* The interpreter runs the program, and time passes.
Program ==
    /\ \/ tool = "network" /\ Network!Runner
       \/ tool = "recording" /\ Recording!Runner
       \/ tool = "installation" /\ Installation!Runner
       \/ tool = "observer" /\ Observer!Runner
       \/ tool = "lifecycle" /\ Lifecycle!Runner
       \/ tool = "fullscreen" /\ Fullscreen!Runner
       \/ tool = "together focus" /\ TogetherFocus!Runner
       \/ tool = "interruption" /\ Interruption!Runner
       \/ tool = "billing" /\ Billing!Runner
    /\ UNCHANGED tool

Time ==
    /\ \/ tool = "recording" /\ Recording!Tick
       \/ tool = "installation" /\ Installation!Expire
       \/ tool = "observer" /\ Observer!Tick
       \/ tool = "billing" /\ Billing!TimePasses
    /\ UNCHANGED tool

ReaderThread == tool = "observer" /\ Observer!Reader /\ UNCHANGED tool
DialogTimesOut == tool = "billing" /\ Billing!LookTimesOut /\ UNCHANGED tool

ToolsSpec ==
    /\ ToolInit /\ [][ToolNext]_<<vars, tool>>
    /\ WF_<<vars, tool>>(Program) /\ WF_<<vars, tool>>(Time) /\ WF_<<vars, tool>>(ReaderThread)
    /\ SF_<<vars, tool>>(DialogTimesOut)

-----------------------------------------------------------------------------

\* A run that reports a pass has seen what a pass stands for, whatever the
\* app, the device or a thread of the tool's own did between two operations
\* (each tool's Earned says what that is).
PassIsEarned ==
    CASE tool = "network" -> Passed => Network!Earned
      [] tool = "recording" -> Passed => Recording!Earned
      [] tool = "installation" -> Passed => Installation!Earned
      [] tool = "observer" -> Passed => Observer!Earned
      [] tool = "lifecycle" -> Passed => Lifecycle!Earned
      [] tool = "fullscreen" -> Passed => Fullscreen!Earned
      [] tool = "together focus" -> Passed => TogetherFocus!Earned
      [] tool = "interruption" -> Passed => Interruption!Earned
      [] tool = "billing" -> Billing!Succeeds => Billing!Earned

\* Wherever a run was interrupted, what it changed on the device or left
\* running on the host is undone at its end.  The exceptions are named in each
\* tool's Restored: an operation that undoes it was called and failed, with an
\* exception or in a way the code does not look at (check=False); one before
\* it failed with an exception that leaves the finally block; mkdir made the
\* directory, timed out and was never known to have made it; and in the
\* network tool, a signal ended the clean-up before the operation was called.
DeviceIsRestored ==
    Done => CASE tool = "network" -> Network!Restored
              [] tool = "recording" -> Recording!Restored
              [] tool = "installation" -> Installation!Restored
              [] tool = "observer" -> Observer!Restored
              [] tool = "lifecycle" -> Lifecycle!Restored
              [] tool = "fullscreen" -> Fullscreen!Restored
              [] tool = "together focus" -> TogetherFocus!Restored
              [] tool = "interruption" -> Interruption!Restored
              [] tool = "billing" -> Billing!Restored

\* A dialog of the system is tapped away no more often than the tool allows
\* itself over the whole run, though it is looked for again after every
\* failed look; in the billing tool a tap that raised is not counted.
TapsAreBounded ==
    /\ tool \in {"installation", "fullscreen"} => seen.taps <= 1
    /\ tool = "lifecycle" => seen.taps <= MAX_PREPARATION_ANR_RECOVERIES
    /\ tool = "billing" => seen.taps <= MAX_SYSTEM_ANR_RECOVERIES + faults

\* A capture of the screen that overran its time is the end of the caller's
\* wait: nothing but the observer's own last steps runs before the clean-up,
\* unless one of these raised another error, which the wait takes for a
\* failed look.
ExpiredCaptureEndsRun ==
    tool = "observer" /\ seen.expired /\ ~seen.masked =>
        Now("stop-helper") \/ Now("pid-again") \/ ~Running

\* However the device, the app and the threads behave, a run comes to its end.
EveryRunEnds == <>Done
=============================================================================
