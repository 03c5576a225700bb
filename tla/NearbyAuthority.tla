--------------------------- MODULE NearbyAuthority ---------------------------
(***************************************************************************)
(* NearbyAuthority over ProtectedNearbyStore: which phone may control the  *)
(* desktop.  Pairing turns one invitation into one stored credential once  *)
(* the user approves; authenticating with it takes the only controller     *)
(* lease.  Every handler is one step up to its first await: the store      *)
(* operation it awaits runs from a serial tail, and what it does with the  *)
(* answer is a step of its own, before which connections close, deadlines  *)
(* pass, tokens are revoked and sessions replaced.  What the server does   *)
(* with an accepted pairing, sending it or dropping it, is the last step.  *)
(*                                                                         *)
(* Deadlines are abstracted to whether they have passed.  Numbers that are *)
(* only compared with a captured value (the pairing generation and the     *)
(* session epoch) are abstracted to `outdated`: the awaiting connections   *)
(* whose captured value is no longer the current one.                      *)
(***************************************************************************)
EXTENDS Naturals, Sequences, FiniteSets

CONSTANTS Connections, Tokens, Invitations, None, MaxBadProofs, MaxPending

ASSUME AuthorityAssumption ==
  /\ None \notin Connections \cup Tokens \cup Invitations
  /\ MaxBadProofs \in Nat \ {0} /\ MaxPending \in Nat \ {0}

VARIABLES
  status,       \* _stopped and _storageFailed
  live,         \* the keys of _connections
  overdue,      \* connections whose expiresAt has passed
  stage,        \* how far each connection got
  held,         \* the token each connection deals with
  via,          \* the invitation each pairing attempt was made under
  invitation,   \* _invitation
  lapsed,       \* _invitationDeadline has passed
  badProofs,    \* _failedProofs
  lease,        \* the connection of _lease
  reservation,  \* _controllerReservation
  revoked,      \* _revoked
  task,         \* the store operation each connection's handler awaits
  reply,        \* its answer, once there
  outdated,     \* awaiting connections whose captured generation is old
  tail,         \* _storeTail: the store operations not yet run
  creds, tombs, \* on disk: desktopCredentials and revokedTokenIds
  opened, issued,   \* history: invitation and token ids drawn
  withdrawn,        \* history: invitations a cancelInvitation came after
  accepted,         \* history: <<invitation, token>> approvePairing returned
  acknowledged,     \* history: tokens whose revocation was receipted
  settled           \* history: tokens whose acceptance the server has sent,
                    \* and those lost before: the process died, the store
                    \* threw after writing them, the server could not send

door == <<invitation, lapsed, badProofs>>
control == <<lease, reservation>>
awaits == <<task, reply, tail>>
disk == <<creds, tombs>>
drawn == <<opened, issued>>
voided == <<outdated, withdrawn>>
history == <<accepted, acknowledged, settled>>
vars == <<status, live, overdue, stage, held, via, door, control, revoked,
          awaits, voided, disk, drawn, history>>

-----------------------------------------------------------------------------
Stages == {"closed", "open", "pairing", "approvable", "approving", "paired",
           "auth", "authenticating", "leased"}
Tasks == {"none", "storing", "sending", "reading", "touching", "acknowledging"}
Replies == {"none", "found", "missing", "done", "failed"}
Operations == [kind : {"read", "write", "revoke"}, token : Tokens,
               by : Connections \cup {None}]

Available == status = "running"

(* _connection: the connection is known and within its deadline.           *)
Reached(c) == Available /\ c \in live /\ c \notin overdue

(* Connections whose `pair` is not null.                                   *)
Pairing == {c \in live : stage[c] \in {"pairing", "approvable", "approving"}}
Awaiting(what) == {c \in Connections : task[c] = what}

(* (mutant: a connection closes without giving its reservation back)       *)
CloseKeepingReservation(S) ==
  /\ live' = live \ S
  /\ stage' = [c \in Connections |-> IF c \in S \cap live THEN "closed"
                                     ELSE stage[c]]
  /\ lease' = IF lease \in S \cap live THEN None ELSE lease
  /\ UNCHANGED reservation

(* closeConnection, for every connection of S.                             *)
Close(S) ==
  /\ live' = live \ S
  /\ stage' = [c \in Connections |-> IF c \in S \cap live THEN "closed"
                                     ELSE stage[c]]
  /\ lease' = IF lease \in S \cap live THEN None ELSE lease
  /\ reservation' = IF reservation \in S \cap live THEN None ELSE reservation

(* cancelInvitation, and the other connections S it is followed by.        *)
CancelAndClose(S) ==
  /\ Close(Pairing \cup S)
  /\ outdated' = outdated \cup Awaiting("storing")
  /\ withdrawn' = opened

Queue(kind, token, by) ==
  tail' = Append(tail, [kind |-> kind, token |-> token, by |-> by])

Await(c, what, kind, token) ==
  /\ task' = [task EXCEPT ![c] = what]
  /\ Queue(kind, token, c)
  /\ UNCHANGED reply

Proceed(c, next) ==
  /\ task' = [task EXCEPT ![c] = next]
  /\ reply' = [reply EXCEPT ![c] = "none"]

Resume(c) == Proceed(c, "none")

-----------------------------------------------------------------------------
OpenConnection(c) ==
  /\ Available /\ c \notin live /\ task[c] = "none"
  /\ live' = live \cup {c}
  /\ overdue' = overdue \ {c}
  /\ stage' = [stage EXCEPT ![c] = "open"]
  /\ held' = [held EXCEPT ![c] = None]
  /\ via' = [via EXCEPT ![c] = None]
  /\ outdated' = outdated \ {c}
  /\ UNCHANGED <<status, door, control, revoked, awaits, withdrawn, disk, drawn,
                 history>>

(* The socket failed, the peer left, or the server gave the peer up.       *)
Disconnect(c) ==
  /\ c \in live
  /\ Close({c})
  /\ UNCHANGED <<status, overdue, held, via, door, revoked, awaits, voided,
                 disk, drawn, history>>

Elapse(c) ==
  /\ c \in live \ overdue
  /\ overdue' = overdue \cup {c}
  /\ UNCHANGED <<status, live, stage, held, via, door, control, revoked,
                 awaits, voided, disk, drawn, history>>

(* An approval's deadline is never later than its invitation's.            *)
InvitationLapses ==
  /\ invitation # None /\ ~lapsed
  /\ lapsed' = TRUE
  /\ overdue' = overdue \cup {c \in live : stage[c] = "approvable"}
  /\ UNCHANGED <<status, live, stage, held, via, invitation, badProofs, control,
                 revoked, awaits, voided, disk, drawn, history>>

(* Whatever handler finds a connection past its deadline closes it.        *)
Retire(c) ==
  /\ Available /\ c \in live \cap overdue
  /\ Close({c})
  /\ UNCHANGED <<status, overdue, held, via, door, revoked, awaits, voided,
                 disk, drawn, history>>

(* expire, from the server's heartbeat timer.                              *)
Expire ==
  /\ (invitation # None /\ lapsed) \/ live \cap overdue # {}
  /\ IF invitation # None /\ lapsed
     THEN CancelAndClose(overdue) /\ invitation' = None
     ELSE Close(overdue) /\ UNCHANGED <<voided, invitation>>
  /\ UNCHANGED <<status, overdue, held, via, lapsed, badProofs, revoked, awaits,
                 disk, drawn, history>>

-----------------------------------------------------------------------------
OpenInvitation(i) ==
  /\ Available /\ i \notin opened
  /\ CancelAndClose({})
  /\ invitation' = i /\ lapsed' = FALSE /\ badProofs' = 0
  /\ opened' = opened \cup {i}
  /\ UNCHANGED <<status, overdue, held, via, revoked, awaits, disk, issued,
                 history>>

CancelInvitation ==
  /\ CancelAndClose({})
  /\ invitation' = None
  /\ UNCHANGED <<status, overdue, held, via, lapsed, badProofs, revoked, awaits,
                 disk, drawn, history>>

BeginPairing(c) ==
  LET expired == Pairing \cap overdue
  IN /\ Reached(c) /\ stage[c] = "open"
     /\ invitation # None /\ ~lapsed
     /\ Cardinality(Pairing \ expired) < MaxPending
     /\ live' = live \ expired
     /\ stage' = [d \in Connections |-> IF d = c THEN "pairing"
                                        ELSE IF d \in expired THEN "closed"
                                        ELSE stage[d]]
     /\ via' = [via EXCEPT ![c] = invitation]
     /\ UNCHANGED <<status, overdue, held, door, control, revoked, awaits,
                    voided, disk, drawn, history>>

VerifyPairingProof(c, good) ==
  /\ Reached(c) /\ stage[c] = "pairing"
  /\ LET current == via[c] = invitation /\ ~lapsed
     IN \/ /\ ~current
           /\ Close({c}) /\ UNCHANGED <<voided, invitation, badProofs>>
        \/ /\ current /\ good
           /\ stage' = [stage EXCEPT ![c] = "approvable"]
           /\ UNCHANGED <<live, control, voided, invitation, badProofs>>
        \/ /\ current /\ ~good /\ badProofs + 1 < MaxBadProofs
           /\ badProofs' = badProofs + 1
           /\ Close({c}) /\ UNCHANGED <<voided, invitation>>
        \/ /\ current /\ ~good /\ badProofs + 1 >= MaxBadProofs
           /\ badProofs' = badProofs + 1
           /\ CancelAndClose({c}) /\ invitation' = None
  /\ UNCHANGED <<status, overdue, held, via, lapsed, revoked, awaits, disk,
                 drawn, history>>

DenyPairing(c) ==
  /\ c \in live /\ stage[c] = "approvable"
  /\ Close({c})
  /\ UNCHANGED <<status, overdue, held, via, door, revoked, awaits, voided,
                 disk, drawn, history>>

(* (mutant: the invitation stays open until the credential is stored)      *)
ApproveKeepingInvitation(c, token) ==
  /\ Reached(c) /\ stage[c] = "approvable" /\ via[c] = invitation
  /\ token \notin issued
  /\ stage' = [stage EXCEPT ![c] = "approving"]
  /\ held' = [held EXCEPT ![c] = token]
  /\ issued' = issued \cup {token}
  /\ Await(c, "storing", "write", token)
  /\ UNCHANGED <<status, live, overdue, via, door, control, revoked, voided,
                 disk, opened, history>>

(* approvePairing up to its await: the invitation is spent first.          *)
ApprovePairing(c, token) ==
  /\ Reached(c) /\ stage[c] = "approvable" /\ via[c] = invitation
  /\ token \notin issued
  /\ invitation' = None
  /\ live' = live \ (Pairing \ {c})
  /\ stage' = [d \in Connections |-> IF d = c THEN "approving"
                                     ELSE IF d \in Pairing THEN "closed"
                                     ELSE stage[d]]
  /\ outdated' = (outdated \cup Awaiting("storing")) \ {c}
  /\ held' = [held EXCEPT ![c] = token]
  /\ issued' = issued \cup {token}
  /\ Await(c, "storing", "write", token)
  /\ UNCHANGED <<status, overdue, via, lapsed, badProofs, control, revoked,
                 withdrawn, disk, opened, history>>

(* revoke: the token is refused from here on, durably once the store ran.  *)
RevokeNow(token) ==
  /\ revoked' = revoked \cup {token}
  /\ IF lease # None /\ held[lease] = token
     THEN Close({lease}) ELSE UNCHANGED <<live, stage, control>>
  /\ Queue("revoke", token, None)

(* (mutant: nothing is checked again once the credential is stored)        *)
StoredUnchecked(c) ==
  /\ task[c] = "storing" /\ reply[c] # "none"
  /\ Proceed(c, "sending")
  /\ accepted' = accepted \cup {<<via[c], held[c]>>}
  /\ UNCHANGED <<status, live, stage, control, revoked, tail, overdue, held, via,
                 door, voided, disk, drawn, acknowledged,
                 settled>>

(* (mutant: an abandoned pairing leaves its credential in the store)       *)
StoredAndForgotten(c) ==
  LET wanted == c \in live /\ Available /\ c \notin outdated \cup overdue
  IN /\ task[c] = "storing" /\ reply[c] # "none"
     /\ IF reply[c] = "done" /\ wanted
        THEN /\ Proceed(c, "sending")
             /\ stage' = [stage EXCEPT ![c] = "paired"]
             /\ accepted' = accepted \cup {<<via[c], held[c]>>}
        ELSE Resume(c) /\ UNCHANGED <<stage, accepted>>
     /\ UNCHANGED <<status, live, control, revoked, tail, overdue, held, via,
                    door, voided, disk, drawn, acknowledged,
                 settled>>

(* approvePairing after its await: unless everything still holds, the      *)
(* credential that was just stored is revoked again.                       *)
StoredPairing(c) ==
  LET wanted == c \in live /\ Available /\ c \notin outdated \cup overdue
  IN /\ task[c] = "storing" /\ reply[c] # "none"
     /\ \/ /\ reply[c] = "failed" /\ Resume(c)
           /\ UNCHANGED <<live, stage, control, revoked, tail, accepted>>
        \/ /\ reply[c] = "done" /\ wanted /\ Proceed(c, "sending")
           /\ stage' = [stage EXCEPT ![c] = "paired"]
           /\ accepted' = accepted \cup {<<via[c], held[c]>>}
           /\ UNCHANGED <<live, control, revoked, tail>>
        \/ /\ reply[c] = "done" /\ ~wanted /\ Resume(c)
           /\ RevokeNow(held[c])
           /\ UNCHANGED accepted
     /\ UNCHANGED <<status, overdue, held, via, door, voided, disk, drawn,
                    acknowledged, settled>>

(* The server's _approve with the acceptance in hand: it goes out to the   *)
(* phone, or the socket is closed by now or fails, and it is dropped.      *)
SendAcceptance(c) ==
  /\ task[c] = "sending"
  /\ Resume(c)
  /\ \/ c \in live /\ UNCHANGED <<live, stage, control>>
     \/ Close({c})
  /\ settled' = settled \cup {held[c]}
  /\ UNCHANGED <<status, overdue, held, via, door, revoked, tail, voided, disk,
                 drawn, accepted, acknowledged>>

-----------------------------------------------------------------------------
BeginAuthentication(c) ==
  /\ Reached(c) /\ stage[c] = "open"
  /\ stage' = [stage EXCEPT ![c] = "auth"]
  /\ UNCHANGED <<status, live, overdue, held, via, door, control, revoked,
                 awaits, voided, disk, drawn, history>>

(* authenticate up to its first await: the challenge is consumed.          *)
Authenticate(c, token) ==
  /\ Reached(c) /\ stage[c] = "auth"
  /\ IF token \in revoked
     THEN Close({c}) /\ UNCHANGED <<held, awaits>>
     ELSE /\ stage' = [stage EXCEPT ![c] = "authenticating"]
          /\ held' = [held EXCEPT ![c] = token]
          /\ Await(c, "reading", "read", token)
          /\ UNCHANGED <<live, control>>
  /\ UNCHANGED <<status, overdue, via, door, revoked, voided, disk, drawn,
                 history>>

(* (mutant: _controllerReservation is not looked at)                       *)
ReadIgnoringReservation(c, sound) ==
  /\ task[c] = "reading" /\ reply[c] = "found" /\ sound
  /\ c \in live \ overdue /\ Available /\ held[c] \notin revoked
  /\ lease = None
  /\ reservation' = c
  /\ outdated' = outdated \ {c}
  /\ task' = [task EXCEPT ![c] = "touching"]
  /\ reply' = [reply EXCEPT ![c] = "none"]
  /\ Queue("write", held[c], c)
  /\ UNCHANGED <<status, live, stage, overdue, held, via, door, lease, revoked,
                 withdrawn, disk, drawn, history>>

(* (mutant: a revocation that came during the read is not noticed)         *)
ReadIgnoringRevoked(c, sound) ==
  /\ task[c] = "reading" /\ reply[c] = "found" /\ sound
  /\ c \in live \ overdue /\ Available
  /\ lease = None /\ reservation = None
  /\ reservation' = c
  /\ outdated' = outdated \ {c}
  /\ task' = [task EXCEPT ![c] = "touching"]
  /\ reply' = [reply EXCEPT ![c] = "none"]
  /\ Queue("write", held[c], c)
  /\ UNCHANGED <<status, live, stage, overdue, held, via, door, lease, revoked,
                 withdrawn, disk, drawn, history>>

(* The credential was read: refuse, report a busy desktop, or reserve the  *)
(* controller and store the time of use.  sound: the proof matches and the *)
(* credential was used in the last 30 days.                                *)
ReadCredential(c, sound) ==
  LET good == /\ c \in live /\ Available /\ c \notin overdue
              /\ reply[c] = "found" /\ held[c] \notin revoked /\ sound
  IN /\ task[c] = "reading" /\ reply[c] # "none"
     /\ \/ /\ reply[c] = "failed"
           /\ Resume(c) /\ UNCHANGED <<live, stage, control, voided, tail>>
        \/ /\ reply[c] # "failed"
           /\ ~good \/ lease # None \/ reservation # None
           /\ Close({c}) /\ Resume(c) /\ UNCHANGED <<voided, tail>>
        \/ /\ good /\ lease = None /\ reservation = None
           /\ reservation' = c
           /\ outdated' = outdated \ {c}
           /\ task' = [task EXCEPT ![c] = "touching"]
           /\ reply' = [reply EXCEPT ![c] = "none"]
           /\ Queue("write", held[c], c)
           /\ UNCHANGED <<live, stage, lease, withdrawn>>
     /\ UNCHANGED <<status, overdue, held, via, door, revoked, disk, drawn,
                    history>>

(* (mutant: a revocation that came during the write is not noticed)        *)
GrantToRevoked(c) ==
  /\ task[c] = "touching" /\ reply[c] = "done"
  /\ c \in live /\ Available /\ c \notin outdated \cup overdue
  /\ Resume(c)
  /\ lease' = c /\ stage' = [stage EXCEPT ![c] = "leased"]
  /\ reservation' = IF reservation = c THEN None ELSE reservation
  /\ UNCHANGED <<status, live, overdue, held, via, door, revoked, tail, voided,
                 disk, drawn, history>>

(* (mutant: the reservation is given back only on success)                 *)
GrantWithoutFinally(c) ==
  LET good == /\ c \in live /\ Available /\ held[c] \notin revoked
              /\ c \notin outdated \cup overdue
  IN /\ task[c] = "touching" /\ reply[c] # "none"
     /\ Resume(c)
     /\ IF reply[c] = "done" /\ good
        THEN /\ lease' = c /\ stage' = [stage EXCEPT ![c] = "leased"]
             /\ reservation' = IF reservation = c THEN None ELSE reservation
        ELSE UNCHANGED <<lease, stage, reservation>>
     /\ UNCHANGED <<status, live, overdue, held, via, door, revoked, tail,
                    voided, disk, drawn, history>>

(* The time of use was stored: grant the lease if everything still holds.  *)
GrantLease(c) ==
  LET good == /\ c \in live /\ Available /\ held[c] \notin revoked
              /\ c \notin outdated \cup overdue
  IN /\ task[c] = "touching" /\ reply[c] # "none"
     /\ Resume(c)
     /\ IF reply[c] = "done" /\ good
        THEN lease' = c /\ stage' = [stage EXCEPT ![c] = "leased"]
        ELSE UNCHANGED <<lease, stage>>
     /\ reservation' = IF reservation = c THEN None ELSE reservation
     /\ UNCHANGED <<status, live, overdue, held, via, door, revoked, tail,
                    voided, disk, drawn, history>>

(* requireLease                                                            *)
Leased(c) ==
  /\ Reached(c) /\ lease = c /\ held[c] \notin revoked /\ c \notin outdated

(* recordActivity, when an hour has passed since the last stored use: the  *)
(* previous write is long done.                                            *)
RecordActivity(c) ==
  /\ Leased(c)
  /\ \A n \in DOMAIN tail : tail[n].token # held[c] \/ tail[n].kind # "write"
  /\ Queue("write", held[c], None)
  /\ UNCHANGED <<status, live, overdue, stage, held, via, door, control, revoked,
                 task, reply, voided, disk, drawn, history>>

-----------------------------------------------------------------------------
(* The desktop's user removes a paired phone.                              *)
Revoke(token) ==
  /\ token \in issued \ revoked
  /\ RevokeNow(token)
  /\ UNCHANGED <<status, overdue, held, via, door, task, reply, voided, disk,
                 drawn, history>>

(* The phone forgets itself: its authority ends at once, its socket stays  *)
(* open for the receipt.                                                   *)
RevokeForAcknowledgement(c) ==
  /\ Leased(c) /\ task[c] = "none"
  /\ revoked' = revoked \cup {held[c]}
  /\ Close({c})
  /\ Await(c, "acknowledging", "revoke", held[c])
  /\ UNCHANGED <<status, overdue, held, via, door, voided, disk, drawn,
                 history>>

(* (mutant: the receipt does not wait for the store's answer)              *)
AcknowledgeAnyway(c) ==
  /\ task[c] = "acknowledging"
  /\ Resume(c)
  /\ acknowledged' = acknowledged \cup {held[c]}
  /\ UNCHANGED <<status, live, overdue, stage, held, via, door, control, revoked,
                 tail, voided, disk, drawn, accepted, settled>>

Acknowledge(c) ==
  /\ task[c] = "acknowledging" /\ reply[c] # "none"
  /\ Resume(c)
  /\ acknowledged' = IF reply[c] = "done" THEN acknowledged \cup {held[c]}
                     ELSE acknowledged
  /\ UNCHANGED <<status, live, overdue, stage, held, via, door, control, revoked,
                 tail, voided, disk, drawn, accepted, settled>>

(* The desktop changes rooms: every handle of the old session is void.     *)
ReplaceSession ==
  /\ outdated' = outdated \cup Awaiting("touching")
  /\ IF lease = None THEN UNCHANGED <<live, stage, control>> ELSE Close({lease})
  /\ UNCHANGED <<status, overdue, held, via, door, revoked, awaits, withdrawn,
                 disk, drawn, history>>

StopAs(how) ==
  /\ status' = IF Available THEN how ELSE status
  /\ IF Available
     THEN CancelAndClose(live) /\ invitation' = None
     ELSE UNCHANGED <<live, stage, control, voided, invitation>>

Stop ==
  /\ Available /\ StopAs("stopped")
  /\ UNCHANGED <<overdue, held, via, lapsed, badProofs, revoked, awaits, disk,
                 drawn, history>>

-----------------------------------------------------------------------------
Answer(operation, answer) ==
  /\ tail' = Tail(tail)
  /\ reply' = IF operation.by = None THEN reply
              ELSE [reply EXCEPT ![operation.by] = answer]

(* _storage and ProtectedNearbyStore: the operation at the tail's head.    *)
StoreRuns ==
  /\ tail # <<>>
  /\ LET operation == Head(tail)
         token == operation.token
     IN \/ /\ operation.kind = "read"
           /\ Answer(operation, IF token \in creds \ tombs THEN "found"
                                ELSE "missing")
           /\ UNCHANGED disk
        \/ /\ operation.kind = "write" /\ token \notin tombs
           /\ creds' = creds \cup {token}
           /\ Answer(operation, "done") /\ UNCHANGED tombs
        \/ /\ operation.kind = "revoke"
           /\ creds' = creds \ {token} /\ tombs' = tombs \cup {token}
           /\ Answer(operation, "done")
  /\ UNCHANGED <<status, live, overdue, stage, held, via, door, control, revoked,
                 task, voided, drawn, history>>

(* Storage fails, or refuses a revoked credential: the authority stops.    *)
(* The protected storage may throw after its write took effect.            *)
StoreFails ==
  /\ tail # <<>>
  /\ LET operation == Head(tail)
         token == operation.token
     IN /\ Answer(operation, "failed")
        /\ \/ UNCHANGED <<disk, settled>>
           \/ /\ operation.kind = "write" /\ token \notin tombs
              /\ creds' = creds \cup {token} /\ settled' = settled \cup {token}
              /\ UNCHANGED tombs
           \/ /\ operation.kind = "revoke"
              /\ creds' = creds \ {token} /\ tombs' = tombs \cup {token}
              /\ UNCHANGED settled
  /\ StopAs("failed")
  /\ UNCHANGED <<overdue, held, via, lapsed, badProofs, revoked, task, drawn,
                 accepted, acknowledged>>

(* The process dies and a new authority is made over the same store.       *)
Restart ==
  /\ status' = "running"
  /\ live' = {} /\ overdue' = {} /\ outdated' = {}
  /\ stage' = [c \in Connections |-> "closed"]
  /\ held' = [c \in Connections |-> None]
  /\ via' = [c \in Connections |-> None]
  /\ invitation' = None /\ lapsed' = FALSE /\ badProofs' = 0
  /\ lease' = None /\ reservation' = None
  /\ revoked' = {}
  /\ task' = [c \in Connections |-> "none"]
  /\ reply' = [c \in Connections |-> "none"]
  /\ tail' = <<>>
  /\ settled' = issued
  /\ UNCHANGED <<disk, withdrawn, drawn, accepted, acknowledged>>

Init ==
  /\ status = "running"
  /\ live = {} /\ overdue = {} /\ outdated = {}
  /\ stage = [c \in Connections |-> "closed"]
  /\ held = [c \in Connections |-> None]
  /\ via = [c \in Connections |-> None]
  /\ invitation = None /\ lapsed = FALSE /\ badProofs = 0
  /\ lease = None /\ reservation = None
  /\ revoked = {}
  /\ task = [c \in Connections |-> "none"]
  /\ reply = [c \in Connections |-> "none"]
  /\ tail = <<>>
  /\ creds = {} /\ tombs = {}
  /\ opened = {} /\ issued = {} /\ withdrawn = {}
  /\ accepted = {} /\ acknowledged = {} /\ settled = {}

Continuation(c) ==
  \/ StoredPairing(c) \/ SendAcceptance(c) \/ GrantLease(c) \/ Acknowledge(c)
  \/ \E sound \in BOOLEAN : ReadCredential(c, sound)

Peer(c) ==
  \/ OpenConnection(c) \/ Disconnect(c) \/ Elapse(c) \/ Retire(c)
  \/ BeginPairing(c) \/ DenyPairing(c) \/ BeginAuthentication(c)
  \/ \E good \in BOOLEAN : VerifyPairingProof(c, good)
  \/ \E token \in Tokens : ApprovePairing(c, token) \/ Authenticate(c, token)
  \/ RecordActivity(c) \/ RevokeForAcknowledgement(c)

Desktop ==
  \/ \E i \in Invitations : OpenInvitation(i)
  \/ CancelInvitation \/ InvitationLapses \/ Expire
  \/ \E token \in Tokens : Revoke(token)
  \/ ReplaceSession \/ Stop \/ Restart

Next ==
  \/ \E c \in Connections : Peer(c) \/ Continuation(c)
  \/ Desktop \/ StoreRuns \/ StoreFails

Spec == Init /\ [][Next]_vars

-----------------------------------------------------------------------------
(* Every variable stays in its range; a connection that has been handed to *)
(* a lease or a reservation is one of _connections.                        *)
TypeOK ==
  /\ status \in {"running", "stopped", "failed"}
  /\ live \subseteq Connections /\ overdue \subseteq Connections
  /\ outdated \subseteq Connections
  /\ stage \in [Connections -> Stages]
  /\ held \in [Connections -> Tokens \cup {None}]
  /\ via \in [Connections -> Invitations \cup {None}]
  /\ invitation \in Invitations \cup {None}
  /\ lapsed \in BOOLEAN /\ badProofs \in 0 .. MaxBadProofs
  /\ lease \in live \cup {None} /\ reservation \in live \cup {None}
  /\ revoked \subseteq Tokens
  /\ task \in [Connections -> Tasks] /\ reply \in [Connections -> Replies]
  /\ tail \in Seq(Operations)
  /\ creds \subseteq Tokens /\ tombs \subseteq Tokens
  /\ opened \subseteq Invitations /\ withdrawn \subseteq opened
  /\ issued \subseteq Tokens /\ accepted \subseteq opened \X Tokens
  /\ acknowledged \subseteq Tokens /\ settled \subseteq Tokens

(* The phone that holds the lease has a credential nobody revoked, not in  *)
(* this process and not in an earlier one, under the current session: a    *)
(* command that names the lease needs no other check.                      *)
LeaseIsCurrent ==
  lease # None =>
    /\ Available /\ stage[lease] = "leased" /\ lease \notin outdated
    /\ held[lease] \in Tokens \ (revoked \cup tombs)

(* A reservation is held only while its connection waits for the store: it *)
(* never outlives the attempt and leaves the desktop busy for everyone.    *)
ReservationIsInFlight ==
  reservation # None => task[reservation] = "touching"

(* "Concurrent approvals cannot both consume": an invitation is worth one  *)
(* credential, whatever races its approval.                                *)
OneCredentialPerInvitation ==
  \A p, q \in accepted : p[1] = q[1] => p = q

(* A revocation the phone saw receipted is durable: no restart and no      *)
(* write that was under way brings the credential back.                    *)
AcknowledgedIsDurable ==
  acknowledged \subseteq tombs \ creds

(* A credential on disk that no phone was sent is on its way to one, or    *)
(* revoked: an approval the authority takes back leaves nothing behind.    *)
(* Three things do leave one that only the desktop's user can remove, and  *)
(* settle it: the process dies first, the store throws after it wrote, or  *)
(* the server has the acceptance and cannot send it.                       *)
OrphanIsRevoked ==
  \A t \in creds \ (revoked \cup settled) :
    \E c \in Connections : task[c] \in {"storing", "sending"} /\ held[c] = t

(* The store refuses to write a revoked credential, and a refusal stops    *)
(* the whole authority; no order of handlers queues such a write.          *)
NoWriteAfterRevoke ==
  tail # <<>> /\ Head(tail).kind = "write" => Head(tail).token \notin tombs

(* The lease is given up before it is given away.                          *)
LeaseIsNotStolen ==
  [][lease # None /\ lease' # lease => lease' = None]_vars

(* An invitation that was cancelled, expired, replaced or guessed at too   *)
(* often is worth nothing from then on, even when a credential under it    *)
(* was being stored at that moment.                                        *)
WithdrawnIsWorthless ==
  [][\A p \in accepted' \ accepted : p[1] \notin withdrawn]_vars

=============================================================================
