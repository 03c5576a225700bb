------------------------------- MODULE MCLinks -------------------------------
(***************************************************************************)
(* Three programs at the end of a connection that may fail, one per        *)
(* behaviour and without anything in common: the client's link to the room *)
(* server, and the two servers that the acceptance runs lean on, the       *)
(* meeting point of two devices and the store of the recordings.           *)
(***************************************************************************)
EXTENDS SyncplayConnection, Rendezvous, ShowcaseRecordings

VARIABLE link

LinksInit == /\ link \in {"room", "rendezvous", "recordings"}
             /\ Init /\ RendezvousInit /\ RecordingsInit

LinksNext ==
    \/ link = "room" /\ Next /\ UNCHANGED <<link, rendezvous, recordings>>
    \/ link = "rendezvous" /\ RendezvousNext /\ UNCHANGED <<link, vars, recordings>>
    \/ link = "recordings" /\ RecordingsNext /\ UNCHANGED <<link, vars, rendezvous>>

LinksVars == <<link, vars, rendezvous, recordings>>

\* Each program's fairness counts in the behaviours that are its own.
LinksSpec == /\ LinksInit /\ [][LinksNext]_LinksVars
             /\ link = "room" => Fairness
             /\ link = "recordings" => RecordingsFairness
=============================================================================
