--------------------------- MODULE MCHostingAccess ---------------------------
(* Two concurrent callers race for the allowance of two dates with two     *)
(* hosted rooms: enough for two sessions to contend for one day, or one    *)
(* session to be started twice.                                            *)
EXTENDS HostingAccess

CONSTANTS ui, player, roomA, roomB

MCCallers == {ui, player}
MCSessions == {roomA, roomB}
MCDays == {1, 2}
=============================================================================
