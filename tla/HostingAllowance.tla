-------------------------- MODULE HostingAllowance --------------------------
(***************************************************************************)
(* What the hosting allowance promises, whatever the order of calls, the   *)
(* failures of storage and the restarts: started sessions are recorded one *)
(* at a time and for good, and of the free ones a day holds one at most.   *)
(***************************************************************************)

CONSTANTS
  Sessions,   \* persistent session identifiers of hosted rooms
  Days,       \* local calendar dates
  Absent      \* stands for the entry of a session that never started

VARIABLE started   \* session -> its entry in the ledger

FreeUsedOn(ledger, date) ==
  \E s \in Sessions :
    ledger[s] # Absent /\ ledger[s].date = date /\ ledger[s].free

Init == started = [s \in Sessions |-> Absent]

Start(s, date, free) ==
  /\ started[s] = Absent
  /\ free => ~FreeUsedOn(started, date)
  /\ started' = [started EXCEPT ![s] = [date |-> date, free |-> free]]

Next == \E s \in Sessions, date \in Days, free \in BOOLEAN : Start(s, date, free)

Spec == Init /\ [][Next]_started

=============================================================================
