------------------------ MODULE NearbyAuthority_proofs -----------------------
(***************************************************************************)
(* Proofs about NearbyAuthority, for any number of connections, tokens and *)
(* invitations.  Inv strengthens the checked invariants by what relates an *)
(* awaiting handler to the store operation it waits for (Wired), the disk  *)
(* to the tokens revoked in this process (Tombstones), the lease to the    *)
(* reservation (Controller), and spent invitations to the credentials      *)
(* still being stored (Spending).  CInv, in the second half, adds where    *)
(* every credential comes from and what withdrawing an invitation marks.   *)
(***************************************************************************)
EXTENDS NearbyAuthority, TLAPS

KindOf == [storing |-> "write", reading |-> "read", touching |-> "write",
           acknowledging |-> "revoke", sending |-> "none", none |-> "none"]

(* The stage of a connection whose handler awaits the store.               *)
Stationed ==
  \A c \in Connections :
    /\ reply[c] # "none" => task[c] # "none"
    /\ task[c] = "storing" => stage[c] \in {"closed", "approving"}
    /\ task[c] \in {"reading", "touching"} => stage[c] \in {"closed", "authenticating"}
    /\ task[c] = "acknowledging" => stage[c] = "closed"
    /\ task[c] = "sending" => stage[c] \in {"closed", "paired"}

(* The operations of the tail are the ones somebody awaits, one each.      *)
Matched ==
  /\ \A n \in DOMAIN tail :
       tail[n].by # None =>
         /\ task[tail[n].by] # "none" /\ reply[tail[n].by] = "none"
         /\ tail[n].token = held[tail[n].by]
         /\ tail[n].kind = KindOf[task[tail[n].by]]
  /\ \A m, n \in DOMAIN tail :
       m # n /\ tail[m].by = tail[n].by => tail[m].by = None

Wired == Stationed /\ Matched

(* A revocation that is queued is already known to the authority.          *)
RevokesKnown ==
  \A n \in DOMAIN tail : tail[n].kind = "revoke" => tail[n].token \in revoked

(* Connections that lead, or are about to lead, to a lease.                *)
Entitled(c) ==
  \/ task[c] = "touching" \/ c = lease
  \/ task[c] = "reading" /\ reply[c] = "found"

(* What the disk holds, and who may still think otherwise.                 *)
Buried ==
  /\ creds \cap tombs = {}
  /\ \A c \in Connections :
       /\ Entitled(c) => held[c] \in Tokens \ (tombs \ revoked)
       /\ task[c] = "acknowledging" /\ reply[c] = "done" => held[c] \in tombs
  /\ acknowledged \subseteq tombs

Tombstones == RevokesKnown /\ Buried

Controller ==
  /\ lease # None =>
       /\ Available /\ stage[lease] = "leased" /\ lease \notin outdated
       /\ held[lease] \notin revoked /\ reservation = None
  /\ reservation # None => task[reservation] = "touching"
  /\ \A c \in live : task[c] = "touching" => reservation = c

Spending ==
  /\ \A p \in accepted : p[1] # invitation
  /\ invitation \in opened \cup {None}
  /\ invitation # None => badProofs < MaxBadProofs
  /\ \A c \in Connections :
       /\ task[c] = "storing" \/ stage[c] \in {"pairing", "approvable"}
          => via[c] \in opened
       /\ task[c] = "storing" =>
            /\ held[c] \in Tokens /\ via[c] # invitation
            /\ \A p \in accepted : p[1] # via[c]
  /\ \A c, d \in Connections :
       task[c] = "storing" /\ task[d] = "storing" /\ c # d => via[c] # via[d]
  /\ \A c \in Connections : task[c] = "sending" => held[c] \in Tokens

Inv == TypeOK /\ Wired /\ Tombstones /\ Controller /\ Spending
         /\ OneCredentialPerInvitation

-----------------------------------------------------------------------------
(* Closing connections takes them, and whatever they held, out.            *)
LEMMA Closing ==
  ASSUME TypeOK, NEW S, Close(S)
  PROVE  /\ live' = live \ S
         /\ stage' \in [Connections -> Stages]
         /\ \A c \in Connections : stage'[c] \in {stage[c], "closed"}
         /\ \A c \in live' : stage'[c] = stage[c]
         /\ \A c \in S \cap live : stage'[c] = "closed"
         /\ lease' \in live' \cup {None} /\ lease' \in {lease, None}
         /\ reservation' \in live' \cup {None}
         /\ reservation' \in {reservation, None}
         /\ reservation \in live' => reservation' = reservation
<1> USE AuthorityAssumption
<1>1. live' \subseteq live /\ live \subseteq Connections /\ None \notin live
  BY DEF Close, TypeOK
<1>2. QED
  BY <1>1 DEF Close, TypeOK, Stages

(* Queueing a store operation adds it at the end of the tail.              *)
LEMMA Queueing ==
  ASSUME TypeOK, NEW kind \in {"read", "write", "revoke"}, NEW token \in Tokens,
         NEW by \in Connections \cup {None}, Queue(kind, token, by)
  PROVE  /\ tail' \in Seq(Operations)
         /\ DOMAIN tail' = DOMAIN tail \cup {Len(tail) + 1}
         /\ Len(tail) + 1 \notin DOMAIN tail
         /\ \A n \in DOMAIN tail : tail'[n] = tail[n]
         /\ tail'[Len(tail) + 1] = [kind |-> kind, token |-> token, by |-> by]
<1>1. [kind |-> kind, token |-> token, by |-> by] \in Operations
  BY DEF Operations
<1>2. QED
  BY <1>1 DEF TypeOK, Queue

(* The head of the tail is an operation, and the rest is a tail.           *)
LEMMA TailTypes ==
  ASSUME TypeOK, tail # <<>>
  PROVE  /\ Tail(tail) \in Seq(Operations) /\ Head(tail) \in Operations
         /\ 1 \in DOMAIN tail /\ Head(tail) = tail[1]
         /\ DOMAIN Tail(tail) = {n \in Nat : n >= 1 /\ n + 1 \in DOMAIN tail}
         /\ \A n \in DOMAIN Tail(tail) :
              n + 1 \in DOMAIN tail /\ n + 1 # 1 /\ Tail(tail)[n] = tail[n + 1]
  BY DEF TypeOK

(* What a handler awaits, and that it stopped awaiting.                    *)
LEMMA AwaitTypes ==
  ASSUME TypeOK, NEW c \in Connections, NEW what \in Tasks, NEW kind, NEW token,
         Await(c, what, kind, token)
  PROVE  /\ task' \in [Connections -> Tasks] /\ task'[c] = what
         /\ \A d \in Connections : d # c => task'[d] = task[d]
         /\ reply' = reply /\ Queue(kind, token, c)
  BY DEF TypeOK, Await

LEMMA ProceedTypes ==
  ASSUME TypeOK, NEW c \in Connections, NEW next \in Tasks, Proceed(c, next)
  PROVE  /\ task' \in [Connections -> Tasks] /\ task'[c] = next
         /\ reply' \in [Connections -> Replies] /\ reply'[c] = "none"
         /\ \A d \in Connections : d # c => task'[d] = task[d] /\ reply'[d] = reply[d]
  BY DEF TypeOK, Proceed, Replies

LEMMA ResumeTypes ==
  ASSUME TypeOK, NEW c \in Connections, Resume(c)
  PROVE  /\ task' \in [Connections -> Tasks] /\ task'[c] = "none"
         /\ reply' \in [Connections -> Replies] /\ reply'[c] = "none"
         /\ \A d \in Connections : d # c => task'[d] = task[d] /\ reply'[d] = reply[d]
  BY ProceedTypes DEF Resume, Tasks

(* The handler of an approval either ends or has an acceptance to send.    *)
LEMMA StoredTypes ==
  ASSUME TypeOK, NEW c \in Connections, StoredPairing(c)
  PROVE  /\ task' \in [Connections -> Tasks] /\ task'[c] \in {"none", "sending"}
         /\ reply' \in [Connections -> Replies] /\ reply'[c] = "none"
         /\ \A d \in Connections : d # c => task'[d] = task[d] /\ reply'[d] = reply[d]
         /\ task[c] = "storing" /\ reply[c] # "none"
<1>1. Resume(c) \/ Proceed(c, "sending")
  BY DEF StoredPairing
<1>2. "sending" \in Tasks
  BY DEF Tasks
<1> QED
  BY <1>1, <1>2, ResumeTypes, ProceedTypes DEF StoredPairing

LEMMA RevokeNowTypes ==
  ASSUME TypeOK, NEW token \in Tokens, RevokeNow(token)
  PROVE  /\ live' \subseteq live
         /\ stage' \in [Connections -> Stages]
         /\ \A c \in Connections : stage'[c] \in {stage[c], "closed"}
         /\ \A c \in live' : stage'[c] = stage[c]
         /\ lease' \in live' \cup {None} /\ lease' \in {lease, None}
         /\ lease' # None => held[lease] # token
         /\ reservation' \in live' \cup {None}
         /\ reservation' \in {reservation, None}
         /\ reservation \in live' => reservation' = reservation
         /\ revoked' = revoked \cup {token} /\ Queue("revoke", token, None)
<1>1. CASE lease # None /\ held[lease] = token
  <2>1. Close({lease})
    BY <1>1 DEF RevokeNow
  <2>2. lease' = None
    BY <2>1, <1>1 DEF Close, TypeOK
  <2>3. QED
    BY <2>1, <2>2, Closing DEF RevokeNow
<1>2. CASE ~(lease # None /\ held[lease] = token)
  BY <1>2 DEF RevokeNow, TypeOK, control
<1>3. QED
  BY <1>1, <1>2

LEMMA CancelTypes ==
  ASSUME TypeOK, NEW S, CancelAndClose(S)
  PROVE  /\ Close(Pairing \cup S)
         /\ outdated' \subseteq Connections /\ withdrawn' = opened
         /\ outdated' = outdated \cup {c \in Connections : task[c] = "storing"}
  BY DEF CancelAndClose, Awaiting, TypeOK

(* An answer reaches the handler that awaits the operation.                *)
LEMMA AnswerTypes ==
  ASSUME TypeOK, tail # <<>>, NEW answer \in Replies, Answer(Head(tail), answer)
  PROVE  /\ tail' = Tail(tail) /\ reply' \in [Connections -> Replies]
         /\ \A c \in Connections :
              reply'[c] = IF c = Head(tail).by THEN answer ELSE reply[c]
<1> USE AuthorityAssumption
<1>1. Head(tail).by \in Connections \cup {None}
  BY TailTypes DEF Operations
<1>2. QED
  BY <1>1 DEF Answer, TypeOK

LEMMA StopTypes ==
  ASSUME TypeOK, NEW how \in {"stopped", "failed"}, StopAs(how)
  PROVE  /\ status' \in {"running", "stopped", "failed"} /\ status' # "running"
         /\ outdated \subseteq outdated'
         /\ outdated' \subseteq Connections /\ withdrawn' \subseteq opened
         /\ invitation' \in {invitation, None}
         /\ live' \subseteq live /\ stage' \in [Connections -> Stages]
         /\ \A c \in Connections : stage'[c] \in {stage[c], "closed"}
         /\ \A c \in live' : stage'[c] = stage[c]
         /\ lease' \in live' \cup {None} /\ lease' \in {lease, None}
         /\ reservation' \in live' \cup {None}
         /\ reservation' \in {reservation, None}
         /\ reservation \in live' => reservation' = reservation
         /\ Available => live' = {}
<1>1. CASE Available
  <2>1. CancelAndClose(live) /\ invitation' = None /\ status' = how
    BY <1>1 DEF StopAs
  <2>2. Close(Pairing \cup live)
    BY <2>1, CancelTypes
  <2>3. /\ live' = live \ (Pairing \cup live) /\ outdated' \subseteq Connections
        /\ outdated \subseteq outdated' /\ withdrawn' = opened
    BY <2>1, <2>2, Closing, CancelTypes
  <2>4. QED
    BY <2>1, <2>2, <2>3, Closing
<1>2. CASE ~Available
  BY <1>2 DEF StopAs, TypeOK, Available, control, voided
<1>3. QED
  BY <1>1, <1>2

(* Neither the controller nor a connection on its way to become one is     *)
(* pairing.                                                                *)
LEMMA NotPairing ==
  ASSUME TypeOK, Wired, Controller
  PROVE  lease \notin Pairing /\ reservation \notin Pairing
<1> USE AuthorityAssumption
<1>1. ASSUME lease \in Pairing PROVE FALSE
  <2>1. lease # None /\ stage[lease] \in {"pairing", "approvable", "approving"}
    BY <1>1 DEF Pairing, TypeOK
  <2>2. QED
    BY <2>1 DEF Controller
<1>2. ASSUME reservation \in Pairing PROVE FALSE
  <2>1. /\ reservation # None /\ reservation \in Connections
        /\ stage[reservation] \in {"pairing", "approvable", "approving"}
    BY <1>2 DEF Pairing, TypeOK
  <2>2. task[reservation] = "touching"
    BY <2>1 DEF Controller
  <2>3. stage[reservation] \in {"closed", "authenticating"}
    BY <2>1, <2>2 DEF Wired, Stationed
  <2>4. QED
    BY <2>1, <2>3, <2>2
<1>3. QED
  BY <1>1, <1>2

LEMMA TailItems ==
  ASSUME TypeOK
  PROVE  \A n \in DOMAIN tail :
           tail[n].by \in Connections \cup {None} /\ tail[n].token \in Tokens
<1>1. \A n \in DOMAIN tail : tail[n] \in Operations
  BY DEF TypeOK
<1>2. QED
  BY <1>1 DEF Operations

(* Nothing is queued for a connection that awaits nothing, or whose answer *)
(* is there.                                                               *)
LEMMA NothingQueued ==
  ASSUME Matched, NEW c \in Connections, task[c] = "none" \/ reply[c] # "none"
  PROVE  \A n \in DOMAIN tail : tail[n].by # c
<1> USE AuthorityAssumption
<1>1. QED
  BY DEF Matched

LEMMA NothingToSend ==
  ASSUME TypeOK, Matched, NEW c \in Connections, task[c] = "sending"
  PROVE  \A n \in DOMAIN tail : tail[n].by # c
<1> USE AuthorityAssumption
<1>1. \A n \in DOMAIN tail : tail[n] \in Operations
  BY DEF TypeOK
<1>2. QED
  BY <1>1 DEF Matched, KindOf, Operations

(* A step keeps the operations matched if it leaves alone every connection *)
(* one of them is for.                                                     *)
LEMMA MatchedKeep ==
  ASSUME Matched, tail' = tail,
         \A n \in DOMAIN tail : tail[n].by # None =>
           /\ task'[tail[n].by] = task[tail[n].by]
           /\ reply'[tail[n].by] = reply[tail[n].by]
           /\ held'[tail[n].by] = held[tail[n].by]
  PROVE  Matched'
BY DEF Matched

LEMMA MatchedAdd ==
  ASSUME TypeOK, Matched,
         NEW kind \in {"read", "write", "revoke"}, NEW token \in Tokens,
         NEW by \in Connections \cup {None}, Queue(kind, token, by),
         \A n \in DOMAIN tail : tail[n].by # None =>
           /\ task'[tail[n].by] = task[tail[n].by]
           /\ reply'[tail[n].by] = reply[tail[n].by]
           /\ held'[tail[n].by] = held[tail[n].by],
         by # None =>
           /\ \A n \in DOMAIN tail : tail[n].by # by
           /\ task'[by] # "none" /\ reply'[by] = "none"
           /\ token = held'[by] /\ kind = KindOf[task'[by]]
  PROVE  Matched'
<1> DEFINE last == Len(tail) + 1
<1>1. /\ DOMAIN tail' = DOMAIN tail \cup {last} /\ last \notin DOMAIN tail
      /\ \A n \in DOMAIN tail : tail'[n] = tail[n]
      /\ tail'[last] = [kind |-> kind, token |-> token, by |-> by]
  BY Queueing
<1> HIDE DEF last
<1>0. tail'[last].kind = kind /\ tail'[last].token = token /\ tail'[last].by = by
  BY <1>1
<1>2. ASSUME NEW n \in DOMAIN tail', tail'[n].by # None
      PROVE  /\ task'[tail'[n].by] # "none" /\ reply'[tail'[n].by] = "none"
             /\ tail'[n].token = held'[tail'[n].by]
             /\ tail'[n].kind = KindOf[task'[tail'[n].by]]
  <2>1. CASE n \in DOMAIN tail
    BY <1>1, <1>2, <2>1 DEF Matched
  <2>2. CASE n = last
    BY <1>0, <1>2, <2>2
  <2>3. QED
    BY <1>1, <2>1, <2>2
<1>3. ASSUME NEW m \in DOMAIN tail', NEW n \in DOMAIN tail', m # n,
             tail'[m].by = tail'[n].by
      PROVE  tail'[m].by = None
  BY <1>0, <1>1, <1>3 DEF Matched
<1>4. QED
  BY <1>2, <1>3 DEF Matched

LEMMA MatchedDrop ==
  ASSUME TypeOK, Matched, tail # <<>>, NEW answer \in Replies,
         Answer(Head(tail), answer), task' = task, held' = held
  PROVE  Matched'
<1> DEFINE rest == Tail(tail)
<1>1. /\ tail' = rest /\ 1 \in DOMAIN tail /\ Head(tail) = tail[1]
      /\ \A n \in DOMAIN rest : n + 1 \in DOMAIN tail /\ n + 1 # 1 /\ rest[n] = tail[n + 1]
      /\ \A n \in DOMAIN rest : n \in Nat
  BY AnswerTypes, TailTypes
<1>2. \A n \in DOMAIN rest : rest[n].by # None => rest[n].by # Head(tail).by
  BY <1>1 DEF Matched
<1>3. \A c \in Connections : c # Head(tail).by => reply'[c] = reply[c]
  BY AnswerTypes
<1>4. \A n \in DOMAIN tail : tail[n].by \in Connections \cup {None}
  BY TailItems
<1>5. \A n \in DOMAIN rest : rest[n].by # None => reply'[rest[n].by] = reply[rest[n].by]
  BY <1>1, <1>2, <1>3, <1>4
<1>6. \A m, n \in DOMAIN rest : m # n => m + 1 # n + 1
  BY <1>1
<1>7. \A m, n \in DOMAIN rest : m # n /\ rest[m].by = rest[n].by => rest[m].by = None
  BY <1>1, <1>6 DEF Matched
<1>8. \A n \in DOMAIN rest : rest[n].by # None =>
        /\ task[rest[n].by] # "none" /\ reply'[rest[n].by] = "none"
        /\ rest[n].token = held[rest[n].by] /\ rest[n].kind = KindOf[task[rest[n].by]]
  BY <1>1, <1>5 DEF Matched
<1> HIDE DEF rest
<1>9. QED
  BY <1>1, <1>7, <1>8 DEF Matched


-----------------------------------------------------------------------------
(* Every step keeps the types.                                             *)
LEMMA TypeStep ==
  TypeOK /\ Wired /\ Tombstones /\ Controller /\ Spending /\ [Next]_vars => TypeOK'
<1> SUFFICES ASSUME TypeOK, Wired, Tombstones, Controller, Spending, [Next]_vars
    PROVE  TypeOK'
  OBVIOUS
<1> USE AuthorityAssumption

<1>1. ASSUME NEW c \in Connections, OpenConnection(c)
      PROVE  TypeOK'
  BY <1>1 DEF OpenConnection, TypeOK, Stages, Tasks, Replies, Operations,
         Pairing, Awaiting, Spending, Tombstones, Buried, Entitled, Available,
         door, control, awaits, disk, drawn, history
<1>2. ASSUME NEW c \in Connections, Disconnect(c)
      PROVE  TypeOK'
  BY <1>2, Closing DEF Disconnect, TypeOK, Stages, Tasks, Replies, Operations,
         Pairing, Awaiting, Spending, Tombstones, Buried, Entitled, Available,
         door, awaits, voided, disk, drawn, history
<1>3. ASSUME NEW c \in Connections, Elapse(c)
      PROVE  TypeOK'
  BY <1>3 DEF Elapse, TypeOK, Stages, Tasks, Replies, Operations, Pairing,
         Awaiting, Spending, Tombstones, Buried, Entitled, Available, door,
         control, awaits, voided, disk, drawn, history
<1>4. ASSUME NEW c \in Connections, Retire(c)
      PROVE  TypeOK'
  BY <1>4, Closing DEF Retire, TypeOK, Stages, Tasks, Replies, Operations,
         Pairing, Awaiting, Spending, Tombstones, Buried, Entitled, Available,
         door, awaits, voided, disk, drawn, history
<1>5. ASSUME NEW c \in Connections, BeginPairing(c)
      PROVE  TypeOK'
  <2>1. lease \notin Pairing /\ reservation \notin Pairing
    BY NotPairing
  <2>2. \A d \in Connections : stage'[d] \in Stages
    BY <1>5 DEF BeginPairing, TypeOK, Stages
  <2>3. live' \subseteq Connections /\ overdue' \subseteq Connections /\ status' \in {"running", "stopped", "failed"}
    BY <1>5, <2>1, <2>2 DEF BeginPairing, TypeOK, Reached, door, control,
           awaits, voided, disk, drawn, history
  <2>4. /\ stage' \in [Connections -> Stages]
        /\ held' \in [Connections -> Tokens \cup {None}]
        /\ via' \in [Connections -> Invitations \cup {None}]
    BY <1>5, <2>1, <2>2 DEF BeginPairing, TypeOK, Reached, door, control,
           awaits, voided, disk, drawn, history
  <2>5. /\ invitation' \in Invitations \cup {None} /\ lapsed' \in BOOLEAN
        /\ badProofs' \in 0 .. MaxBadProofs
    BY <1>5, <2>1, <2>2 DEF BeginPairing, TypeOK, Reached, door, control,
           awaits, voided, disk, drawn, history
  <2>6. lease' \in live' \cup {None} /\ reservation' \in live' \cup {None}
    BY <1>5, <2>1, <2>2 DEF BeginPairing, TypeOK, Reached, door, control,
           awaits, voided, disk, drawn, history
  <2>7. /\ task' \in [Connections -> Tasks] /\ reply' \in [Connections -> Replies]
        /\ tail' \in Seq(Operations)
    BY <1>5, <2>1, <2>2 DEF BeginPairing, TypeOK, Reached, door, control,
           awaits, voided, disk, drawn, history
  <2>8. /\ outdated' \subseteq Connections /\ withdrawn' \subseteq opened'
        /\ opened' \subseteq Invitations /\ issued' \subseteq Tokens
        /\ accepted' \subseteq opened' \X Tokens
    BY <1>5, <2>1, <2>2 DEF BeginPairing, TypeOK, Reached, door, control,
           awaits, voided, disk, drawn, history
  <2>9. /\ revoked' \subseteq Tokens /\ creds' \subseteq Tokens /\ tombs' \subseteq Tokens
        /\ acknowledged' \subseteq Tokens /\ settled' \subseteq Tokens
    BY <1>5, <2>1, <2>2 DEF BeginPairing, TypeOK, Reached, door, control,
           awaits, voided, disk, drawn, history
  <2>10. QED
    BY <2>3, <2>4, <2>5, <2>6, <2>7, <2>8, <2>9 DEF TypeOK
<1>6. ASSUME NEW c \in Connections, DenyPairing(c)
      PROVE  TypeOK'
  BY <1>6, Closing DEF DenyPairing, TypeOK, Stages, Tasks, Replies,
         Operations, Pairing, Awaiting, Spending, Tombstones, Buried,
         Entitled, Available, door, awaits, voided, disk, drawn, history
<1>7. ASSUME NEW c \in Connections, BeginAuthentication(c)
      PROVE  TypeOK'
  BY <1>7 DEF BeginAuthentication, Reached, TypeOK, Stages, Tasks, Replies,
         Operations, Pairing, Awaiting, Spending, Tombstones, Buried,
         Entitled, Available, door, control, awaits, voided, disk, drawn,
         history
<1>8. ASSUME NEW c \in Connections, NEW good \in BOOLEAN, VerifyPairingProof(c, good)
      PROVE  TypeOK'
  <2>0. MaxBadProofs \in Nat /\ (invitation # None => badProofs < MaxBadProofs)
    BY DEF Spending
  <2>1. via[c] # None
    BY <1>8 DEF VerifyPairingProof, Spending, TypeOK
  <2>2. /\ badProofs' \in 0 .. MaxBadProofs /\ invitation' \in {invitation, None}
        /\ \/ Close({c}) /\ UNCHANGED voided
           \/ /\ UNCHANGED <<live, control, voided>>
              /\ stage' = [stage EXCEPT ![c] = "approvable"]
           \/ CancelAndClose({c})
    BY <1>8, <2>0, <2>1 DEF VerifyPairingProof, TypeOK, voided
  <2>3. /\ live' \subseteq live /\ stage' \in [Connections -> Stages]
        /\ lease' \in live' \cup {None} /\ reservation' \in live' \cup {None}
        /\ outdated' \subseteq Connections /\ withdrawn' \subseteq opened
    <3>1. CASE Close({c}) /\ UNCHANGED voided
      BY <3>1, Closing DEF TypeOK, voided
    <3>2. CASE UNCHANGED <<live, control, voided>>
                 /\ stage' = [stage EXCEPT ![c] = "approvable"]
      BY <3>2 DEF TypeOK, voided, control, Stages
    <3>3. CASE CancelAndClose({c})
      BY <3>3, CancelTypes, Closing
    <3>4. QED
      BY <2>2, <3>1, <3>2, <3>3
  <2>4. QED
    BY <1>8, <2>2, <2>3 DEF VerifyPairingProof, TypeOK, awaits, disk, drawn,
           history
<1>9. ASSUME NEW c \in Connections, NEW token \in Tokens, ApprovePairing(c, token)
      PROVE  TypeOK'
  <2>1. /\ Queue("write", token, c) /\ task' \in [Connections -> Tasks]
        /\ reply' = reply /\ lease \notin Pairing /\ reservation \notin Pairing
    BY <1>9, AwaitTypes, NotPairing DEF ApprovePairing, Tasks
  <2>2. tail' \in Seq(Operations)
    BY <2>1, Queueing
  <2>3. live' \subseteq Connections /\ overdue' \subseteq Connections /\ status' \in {"running", "stopped", "failed"}
    BY <1>9, <2>1, <2>2 DEF ApprovePairing, TypeOK, Reached, Stages, Awaiting,
           door, control, awaits, voided, disk, drawn, history
  <2>4. /\ stage' \in [Connections -> Stages]
        /\ held' \in [Connections -> Tokens \cup {None}]
        /\ via' \in [Connections -> Invitations \cup {None}]
    BY <1>9, <2>1, <2>2 DEF ApprovePairing, TypeOK, Reached, Stages, Awaiting,
           door, control, awaits, voided, disk, drawn, history
  <2>5. /\ invitation' \in Invitations \cup {None} /\ lapsed' \in BOOLEAN
        /\ badProofs' \in 0 .. MaxBadProofs
    BY <1>9, <2>1, <2>2 DEF ApprovePairing, TypeOK, Reached, Stages, Awaiting,
           door, control, awaits, voided, disk, drawn, history
  <2>6. lease' \in live' \cup {None} /\ reservation' \in live' \cup {None}
    BY <1>9, <2>1, <2>2 DEF ApprovePairing, TypeOK, Reached, Stages, Awaiting,
           door, control, awaits, voided, disk, drawn, history
  <2>7. /\ task' \in [Connections -> Tasks] /\ reply' \in [Connections -> Replies]
        /\ tail' \in Seq(Operations)
    BY <1>9, <2>1, <2>2 DEF ApprovePairing, TypeOK, Reached, Stages, Awaiting,
           door, control, awaits, voided, disk, drawn, history
  <2>8. /\ outdated' \subseteq Connections /\ withdrawn' \subseteq opened'
        /\ opened' \subseteq Invitations /\ issued' \subseteq Tokens
        /\ accepted' \subseteq opened' \X Tokens
    BY <1>9, <2>1, <2>2 DEF ApprovePairing, TypeOK, Reached, Stages, Awaiting,
           door, control, awaits, voided, disk, drawn, history
  <2>9. /\ revoked' \subseteq Tokens /\ creds' \subseteq Tokens /\ tombs' \subseteq Tokens
        /\ acknowledged' \subseteq Tokens /\ settled' \subseteq Tokens
    BY <1>9, <2>1, <2>2 DEF ApprovePairing, TypeOK, Reached, Stages, Awaiting,
           door, control, awaits, voided, disk, drawn, history
  <2>10. QED
    BY <2>3, <2>4, <2>5, <2>6, <2>7, <2>8, <2>9 DEF TypeOK
<1>10. ASSUME NEW c \in Connections, NEW token \in Tokens, Authenticate(c, token)
      PROVE  TypeOK'
  <2>1. CASE token \in revoked
    BY <1>10, <2>1, Closing DEF Authenticate, TypeOK, door, awaits, voided,
           disk, drawn, history
  <2>2. CASE token \notin revoked
    <3>1. /\ Queue("read", token, c) /\ task' \in [Connections -> Tasks]
          /\ reply' = reply
      BY <1>10, <2>2, AwaitTypes DEF Authenticate, Tasks
    <3>2. tail' \in Seq(Operations)
      BY <3>1, Queueing
    <3>3. /\ stage' \in [Connections -> Stages]
          /\ held' \in [Connections -> Tokens \cup {None}]
      BY <1>10, <2>2 DEF Authenticate, TypeOK, Stages
    <3>4. QED
      BY <1>10, <2>2, <3>1, <3>2, <3>3 DEF Authenticate, TypeOK, door,
             control, voided, disk, drawn, history
  <2>3. QED
    BY <2>1, <2>2
<1>11. ASSUME NEW c \in Connections, RecordActivity(c)
      PROVE  TypeOK'
  BY <1>11, Queueing DEF RecordActivity, Leased, Reached, TypeOK, Stages,
         Tasks, Replies, Operations, Pairing, Awaiting, Spending, Tombstones,
         Buried, Entitled, Available, door, control, voided, disk, drawn,
         history
<1>12. ASSUME NEW c \in Connections, RevokeForAcknowledgement(c)
      PROVE  TypeOK'
  <2>1. held[c] \in Tokens
    BY <1>12 DEF RevokeForAcknowledgement, Leased, Tombstones, Buried, Entitled
  <2>2. /\ Queue("revoke", held[c], c) /\ task' \in [Connections -> Tasks]
        /\ reply' = reply
    BY <1>12, AwaitTypes DEF RevokeForAcknowledgement, Tasks
  <2>3. tail' \in Seq(Operations)
    BY <2>1, <2>2, Queueing
  <2>4. /\ live' \subseteq live /\ stage' \in [Connections -> Stages]
        /\ lease' \in live' \cup {None} /\ reservation' \in live' \cup {None}
    BY <1>12, Closing DEF RevokeForAcknowledgement
  <2>5. QED
    BY <1>12, <2>1, <2>2, <2>3, <2>4 DEF RevokeForAcknowledgement, TypeOK,
           door, voided, disk, drawn, history
<1>13. ASSUME NEW c \in Connections, StoredPairing(c)
      PROVE  TypeOK'
  <2>1. held[c] \in Tokens /\ via[c] \in opened
    BY <1>13 DEF StoredPairing, Spending
  <2>2. task' \in [Connections -> Tasks] /\ reply' \in [Connections -> Replies]
    BY <1>13, StoredTypes
  <2>3. CASE reply[c] = "failed"
    BY <1>13, <2>2, <2>3 DEF StoredPairing, TypeOK, door, control, voided,
           disk, drawn
  <2>4. CASE reply[c] = "done" /\ UNCHANGED tail
    <3>1. /\ stage' \in [Connections -> Stages] /\ accepted' \subseteq opened \X Tokens
          /\ UNCHANGED <<live, control, revoked>>
      BY <1>13, <2>1, <2>4 DEF StoredPairing, TypeOK, Stages, RevokeNow, Queue
    <3>2. QED
      BY <1>13, <2>2, <2>4, <3>1 DEF StoredPairing, TypeOK, door, control,
             voided, disk, drawn
  <2>5. CASE reply[c] = "done" /\ RevokeNow(held[c]) /\ UNCHANGED accepted
    <3>1. tail' \in Seq(Operations)
      BY <2>1, <2>5, RevokeNowTypes, Queueing
    <3>2. /\ live' \subseteq live /\ stage' \in [Connections -> Stages]
          /\ lease' \in live' \cup {None} /\ reservation' \in live' \cup {None}
          /\ revoked' = revoked \cup {held[c]}
      BY <2>1, <2>5, RevokeNowTypes
    <3>3. QED
      BY <1>13, <2>1, <2>2, <2>5, <3>1, <3>2 DEF StoredPairing, TypeOK, door,
             voided, disk, drawn
  <2>6. QED
    BY <1>13, <2>3, <2>4, <2>5 DEF StoredPairing
<1>14. ASSUME NEW c \in Connections, GrantLease(c)
      PROVE  TypeOK'
  BY <1>14, ResumeTypes DEF GrantLease, TypeOK, Stages, Tasks, Replies,
         Operations, Pairing, Awaiting, Spending, Tombstones, Buried,
         Entitled, Available, door, voided, disk, drawn, history
<1>15. ASSUME NEW c \in Connections, Acknowledge(c)
      PROVE  TypeOK'
  BY <1>15, ResumeTypes DEF Acknowledge, TypeOK, Stages, Tasks, Replies,
         Operations, Pairing, Awaiting, Spending, Tombstones, Buried,
         Entitled, Available, door, control, voided, disk, drawn
<1>16. ASSUME NEW c \in Connections, NEW sound \in BOOLEAN, ReadCredential(c, sound)
      PROVE  TypeOK'
  <2>1. CASE UNCHANGED <<live, stage, control, voided, tail>> /\ Resume(c)
    BY <1>16, <2>1, ResumeTypes DEF ReadCredential, TypeOK, door, control,
           voided, disk, drawn, history
  <2>2. CASE Close({c}) /\ Resume(c) /\ UNCHANGED <<voided, tail>>
    <3>1. task' \in [Connections -> Tasks] /\ reply' \in [Connections -> Replies]
      BY <2>2, ResumeTypes
    <3>2. /\ live' \subseteq live /\ stage' \in [Connections -> Stages]
          /\ lease' \in live' \cup {None} /\ reservation' \in live' \cup {None}
      BY <2>2, Closing
    <3>3. QED
      BY <1>16, <2>2, <3>1, <3>2 DEF ReadCredential, TypeOK, door, voided,
             disk, drawn, history
  <2>3. CASE reservation' = c /\ Queue("write", held[c], c)
    <3>1. held[c] \in Tokens /\ c \in live
      BY <1>16, <2>3 DEF ReadCredential, Tombstones, Buried, Entitled, Queue,
             Resume, Proceed
    <3>2. tail' \in Seq(Operations)
      BY <2>3, <3>1, Queueing
    <3>3. task' \in [Connections -> Tasks] /\ reply' \in [Connections -> Replies]
      BY <1>16, <2>3 DEF ReadCredential, TypeOK, Tasks, Replies, Resume, Proceed
    <3>4. /\ reservation' \in live' \cup {None} /\ lease' \in live' \cup {None}
          /\ stage' \in [Connections -> Stages] /\ live' \subseteq Connections
          /\ outdated' \subseteq Connections /\ withdrawn' = withdrawn
      BY <1>16, <2>3, <3>1 DEF ReadCredential, TypeOK, Close, control, voided
    <3>5. QED
      BY <1>16, <3>2, <3>3, <3>4 DEF ReadCredential, TypeOK, door, control,
             voided, disk, drawn, history
  <2>4. QED
    BY <1>16, <2>1, <2>2, <2>3 DEF ReadCredential
<1>17. ASSUME NEW i \in Invitations, OpenInvitation(i)
      PROVE  TypeOK'
  <2>1. /\ live' \subseteq live /\ stage' \in [Connections -> Stages]
        /\ lease' \in live' \cup {None} /\ reservation' \in live' \cup {None}
        /\ outdated' \subseteq Connections /\ withdrawn' = opened
    BY <1>17, CancelTypes, Closing DEF OpenInvitation
  <2>2. opened \subseteq opened' /\ opened' \subseteq Invitations
    BY <1>17 DEF OpenInvitation, TypeOK
  <2>3. accepted' \subseteq opened' \X Tokens
    BY <1>17, <2>2 DEF OpenInvitation, TypeOK, history
  <2>4. 0 \in 0 .. MaxBadProofs
    OBVIOUS
  <2>5. QED
    BY <1>17, <2>1, <2>2, <2>3, <2>4 DEF OpenInvitation, TypeOK, awaits, disk,
           history
<1>18. CASE CancelInvitation
  <2>1. /\ live' \subseteq live /\ stage' \in [Connections -> Stages]
        /\ lease' \in live' \cup {None} /\ reservation' \in live' \cup {None}
        /\ outdated' \subseteq Connections /\ withdrawn' = opened
    BY <1>18, CancelTypes, Closing DEF CancelInvitation
  <2>2. QED
    BY <1>18, <2>1 DEF CancelInvitation, TypeOK, awaits, disk, drawn, history
<1>19. CASE InvitationLapses
  BY <1>19 DEF InvitationLapses, TypeOK, Stages, Tasks, Replies, Operations,
         Pairing, Awaiting, Spending, Tombstones, Buried, Entitled, Available,
         control, awaits, voided, disk, drawn, history
<1>20. CASE Expire
  <2>1. CASE CancelAndClose(overdue) /\ invitation' = None
    <3>1. /\ live' \subseteq live /\ stage' \in [Connections -> Stages]
          /\ lease' \in live' \cup {None} /\ reservation' \in live' \cup {None}
          /\ outdated' \subseteq Connections /\ withdrawn' = opened
      BY <2>1, CancelTypes, Closing
    <3>2. QED
      BY <1>20, <2>1, <3>1 DEF Expire, TypeOK, awaits, disk, drawn, history
  <2>2. CASE Close(overdue) /\ UNCHANGED <<voided, invitation>>
    <3>1. /\ live' \subseteq live /\ stage' \in [Connections -> Stages]
          /\ lease' \in live' \cup {None} /\ reservation' \in live' \cup {None}
      BY <2>2, Closing
    <3>2. QED
      BY <1>20, <2>2, <3>1 DEF Expire, TypeOK, awaits, voided, disk, drawn,
             history
  <2>3. QED
    BY <1>20, <2>1, <2>2 DEF Expire
<1>21. ASSUME NEW token \in Tokens, Revoke(token)
      PROVE  TypeOK'
  <2>1. tail' \in Seq(Operations)
    BY <1>21, RevokeNowTypes, Queueing DEF Revoke
  <2>2. /\ live' \subseteq live /\ stage' \in [Connections -> Stages]
        /\ lease' \in live' \cup {None} /\ reservation' \in live' \cup {None}
        /\ revoked' = revoked \cup {token}
    BY <1>21, RevokeNowTypes DEF Revoke
  <2>3. QED
    BY <1>21, <2>1, <2>2 DEF Revoke, TypeOK, door, voided, disk, drawn, history
<1>22. CASE ReplaceSession
  BY <1>22, Closing DEF ReplaceSession, TypeOK, Stages, Tasks, Replies,
         Operations, Pairing, Awaiting, Spending, Tombstones, Buried,
         Entitled, Available, door, control, awaits, disk, drawn, history
<1>23. CASE Stop
  BY <1>23, StopTypes DEF Stop, TypeOK, Stages, Tasks, Replies, Operations,
         Pairing, Awaiting, Spending, Tombstones, Buried, Entitled, Available,
         awaits, disk, drawn, history
<1>24. CASE Restart
  <2>1. /\ stage' \in [Connections -> Stages]
        /\ held' \in [Connections -> Tokens \cup {None}]
        /\ via' \in [Connections -> Invitations \cup {None}]
    BY <1>24 DEF Restart, Stages
  <2>2. task' \in [Connections -> Tasks] /\ reply' \in [Connections -> Replies]
    BY <1>24 DEF Restart, Tasks, Replies
  <2>3. tail' \in Seq(Operations) /\ settled' \subseteq Tokens
    BY <1>24 DEF Restart, TypeOK
  <2>4. 0 \in 0 .. MaxBadProofs
    OBVIOUS
  <2>5. QED
    BY <1>24, <2>1, <2>2, <2>3, <2>4 DEF Restart, TypeOK, disk, drawn
<1>25. CASE StoreRuns
  <2>1. /\ Head(tail) \in Operations /\ Tail(tail) \in Seq(Operations)
        /\ Head(tail).token \in Tokens
    BY <1>25, TailTypes DEF StoreRuns, Operations
  <2>2. PICK answer \in {"found", "missing", "done"} : Answer(Head(tail), answer)
    BY <1>25 DEF StoreRuns
  <2>3. tail' \in Seq(Operations) /\ reply' \in [Connections -> Replies]
    BY <1>25, <2>1, <2>2, AnswerTypes DEF Replies, StoreRuns
  <2>4. creds' \subseteq Tokens /\ tombs' \subseteq Tokens
    BY <1>25, <2>1 DEF StoreRuns, TypeOK, disk
  <2>5. QED
    BY <1>25, <2>3, <2>4 DEF StoreRuns, TypeOK, door, control, voided, drawn,
           history
<1>26. CASE StoreFails
  <2>1. /\ tail' \in Seq(Operations) /\ reply' \in [Connections -> Replies]
    BY <1>26, AnswerTypes, TailTypes DEF Replies, StoreFails
  <2>2. StopAs("failed")
    BY <1>26 DEF StoreFails
  <2>3. /\ live' \subseteq live /\ stage' \in [Connections -> Stages]
        /\ lease' \in live' \cup {None} /\ reservation' \in live' \cup {None}
        /\ status' \in {"running", "stopped", "failed"}
        /\ outdated' \subseteq Connections /\ withdrawn' \subseteq opened
        /\ invitation' \in {invitation, None}
    BY <2>2, StopTypes
  <2>4. Head(tail).token \in Tokens
    BY <1>26, TailTypes DEF StoreFails, Operations
  <2>5. creds' \subseteq Tokens /\ tombs' \subseteq Tokens /\ settled' \subseteq Tokens
    BY <1>26, <2>4 DEF StoreFails, TypeOK, disk
  <2>6. QED
    BY <1>26, <2>1, <2>3, <2>5 DEF StoreFails, TypeOK, drawn
<1>27. CASE UNCHANGED vars
  BY <1>27 DEF TypeOK, Stages, Tasks, Replies, Operations, Pairing, Awaiting,
         Spending, Tombstones, Buried, Entitled, Available, vars, door,
         control, awaits, voided, disk, drawn, history
<1>29. ASSUME NEW c \in Connections, SendAcceptance(c)
      PROVE  TypeOK'
  <2>1. /\ live' \subseteq live /\ stage' \in [Connections -> Stages]
        /\ lease' \in live' \cup {None} /\ reservation' \in live' \cup {None}
    BY <1>29, Closing DEF SendAcceptance, TypeOK, control
  <2>2. task' \in [Connections -> Tasks] /\ reply' \in [Connections -> Replies]
    BY <1>29, ResumeTypes DEF SendAcceptance
  <2>3. held[c] \in Tokens
    BY <1>29 DEF SendAcceptance, Spending
  <2>4. QED
    BY <1>29, <2>1, <2>2, <2>3 DEF SendAcceptance, TypeOK, door, voided, disk, drawn
<1>28. QED
  BY <1>1, <1>2, <1>3, <1>4, <1>5, <1>6, <1>7, <1>8, <1>9, <1>10, <1>11,
     <1>12, <1>13, <1>14, <1>15, <1>16, <1>17, <1>18, <1>19, <1>20, <1>21,
     <1>22, <1>23, <1>24, <1>25, <1>26, <1>27, <1>29
     DEF Next, Peer, Continuation, Desktop

-----------------------------------------------------------------------------
(* Every step leaves the awaiting connections at a stage of waiting.       *)
LEMMA StationedStep ==
  TypeOK /\ Wired /\ Spending /\ [Next]_vars => Stationed'
<1> SUFFICES ASSUME TypeOK, Stationed, Wired, Spending, [Next]_vars
    PROVE  Stationed'
  BY DEF Wired
<1> USE AuthorityAssumption

<1>1. ASSUME NEW c \in Connections, OpenConnection(c)
      PROVE  Stationed'
  BY <1>1 DEF OpenConnection, TypeOK, Stationed, door, control, awaits, disk,
         drawn, history
<1>2. ASSUME NEW c \in Connections, Disconnect(c)
      PROVE  Stationed'
  BY <1>2, Closing DEF Disconnect, TypeOK, Stationed, door, awaits, voided,
         disk, drawn, history
<1>3. ASSUME NEW c \in Connections, Elapse(c)
      PROVE  Stationed'
  BY <1>3 DEF Elapse, TypeOK, Stationed, door, control, awaits, voided, disk,
         drawn, history
<1>4. ASSUME NEW c \in Connections, Retire(c)
      PROVE  Stationed'
  BY <1>4, Closing DEF Retire, TypeOK, Stationed, door, awaits, voided, disk,
         drawn, history
<1>5. ASSUME NEW c \in Connections, BeginPairing(c)
      PROVE  Stationed'
  BY <1>5 DEF BeginPairing, Reached, TypeOK, Stationed, door, control, awaits,
         voided, disk, drawn, history
<1>6. ASSUME NEW c \in Connections, DenyPairing(c)
      PROVE  Stationed'
  BY <1>6, Closing DEF DenyPairing, TypeOK, Stationed, door, awaits, voided,
         disk, drawn, history
<1>7. ASSUME NEW c \in Connections, BeginAuthentication(c)
      PROVE  Stationed'
  BY <1>7 DEF BeginAuthentication, Reached, TypeOK, Stationed, door, control,
         awaits, voided, disk, drawn, history
<1>8. ASSUME NEW c \in Connections, NEW good \in BOOLEAN, VerifyPairingProof(c, good)
      PROVE  Stationed'
  BY <1>8, CancelTypes, Closing DEF VerifyPairingProof, Reached, TypeOK,
         Stationed, control, awaits, voided, disk, drawn, history
<1>9. ASSUME NEW c \in Connections, NEW token \in Tokens, ApprovePairing(c, token)
      PROVE  Stationed'
  <2>1. /\ task' \in [Connections -> Tasks] /\ task'[c] = "storing" /\ reply' = reply
        /\ \A d \in Connections : d # c => task'[d] = task[d]
    BY <1>9, AwaitTypes DEF ApprovePairing, Tasks
  <2>2. /\ stage'[c] = "approving"
        /\ \A d \in Connections : d # c => stage'[d] \in {stage[d], "closed"}
    BY <1>9 DEF ApprovePairing, TypeOK
  <2>3. QED
    BY <2>1, <2>2 DEF Stationed
<1>10. ASSUME NEW c \in Connections, NEW token \in Tokens, Authenticate(c, token)
      PROVE  Stationed'
  <2>1. CASE token \in revoked
    BY <1>10, <2>1, Closing DEF Authenticate, Stationed, awaits
  <2>2. CASE token \notin revoked
    <3>1. /\ task'[c] = "reading" /\ reply' = reply
          /\ \A d \in Connections : d # c => task'[d] = task[d]
      BY <1>10, <2>2, AwaitTypes DEF Authenticate, Tasks
    <3>2. /\ stage'[c] = "authenticating"
          /\ \A d \in Connections : d # c => stage'[d] = stage[d]
      BY <1>10, <2>2 DEF Authenticate, TypeOK
    <3>3. QED
      BY <3>1, <3>2 DEF Stationed
  <2>3. QED
    BY <2>1, <2>2
<1>11. ASSUME NEW c \in Connections, RecordActivity(c)
      PROVE  Stationed'
  BY <1>11, SMTT(30) DEF RecordActivity, Leased, Reached, TypeOK, Stationed, door,
         control, voided, disk, drawn, history
<1>12. ASSUME NEW c \in Connections, RevokeForAcknowledgement(c)
      PROVE  Stationed'
  <2>1. /\ task'[c] = "acknowledging" /\ reply' = reply
        /\ \A d \in Connections : d # c => task'[d] = task[d]
    BY <1>12, AwaitTypes DEF RevokeForAcknowledgement, Tasks
  <2>2. Close({c}) /\ c \in live
    BY <1>12 DEF RevokeForAcknowledgement, Leased, Reached
  <2>3. /\ stage'[c] = "closed"
        /\ \A d \in Connections : stage'[d] \in {stage[d], "closed"}
    BY <2>2, Closing
  <2>4. QED
    BY <2>1, <2>3 DEF Stationed
<1>13. ASSUME NEW c \in Connections, StoredPairing(c)
      PROVE  Stationed'
  <2>1. /\ task'[c] \in {"none", "sending"} /\ reply'[c] = "none"
        /\ \A d \in Connections : d # c => task'[d] = task[d] /\ reply'[d] = reply[d]
    BY <1>13, StoredTypes
  <2>0. task'[c] = "sending" => stage'[c] = "paired"
    BY <1>13, ResumeTypes DEF StoredPairing, TypeOK
  <2>2. \A d \in Connections : d # c => stage'[d] \in {stage[d], "closed"}
    <3>1. CASE RevokeNow(held[c]) /\ held[c] \in Tokens
      BY <3>1, RevokeNowTypes
    <3>2. CASE ~RevokeNow(held[c])
      BY <1>13, <3>2 DEF StoredPairing, TypeOK
    <3>3. held[c] \in Tokens
      BY <1>13 DEF StoredPairing, Spending
    <3>4. QED
      BY <3>1, <3>2, <3>3
  <2>3. QED
    BY <2>0, <2>1, <2>2 DEF Stationed
<1>14. ASSUME NEW c \in Connections, GrantLease(c)
      PROVE  Stationed'
  BY <1>14, ResumeTypes DEF GrantLease, TypeOK, Stationed, door, voided, disk,
         drawn, history
<1>15. ASSUME NEW c \in Connections, Acknowledge(c)
      PROVE  Stationed'
  BY <1>15, ResumeTypes DEF Acknowledge, TypeOK, Stationed, door, control,
         voided, disk, drawn
<1>16. ASSUME NEW c \in Connections, NEW sound \in BOOLEAN, ReadCredential(c, sound)
      PROVE  Stationed'
  BY <1>16, ResumeTypes, Closing DEF ReadCredential, TypeOK, Stationed, door,
         control, voided, disk, drawn, history
<1>17. ASSUME NEW i \in Invitations, OpenInvitation(i)
      PROVE  Stationed'
  BY <1>17, CancelTypes, Closing DEF OpenInvitation, TypeOK, Stationed,
         awaits, disk, history
<1>18. CASE CancelInvitation
  BY <1>18, CancelTypes, Closing DEF CancelInvitation, TypeOK, Stationed,
         awaits, disk, drawn, history
<1>19. CASE InvitationLapses
  BY <1>19 DEF InvitationLapses, TypeOK, Stationed, control, awaits, voided,
         disk, drawn, history
<1>20. CASE Expire
  BY <1>20, CancelTypes, Closing DEF Expire, TypeOK, Stationed, awaits,
         voided, disk, drawn, history
<1>21. ASSUME NEW token \in Tokens, Revoke(token)
      PROVE  Stationed'
  BY <1>21, RevokeNowTypes DEF Revoke, TypeOK, Stationed, door, voided, disk,
         drawn, history
<1>22. CASE ReplaceSession
  BY <1>22, Closing DEF ReplaceSession, TypeOK, Stationed, door, control,
         awaits, disk, drawn, history
<1>23. CASE Stop
  BY <1>23, StopTypes DEF Stop, TypeOK, Stationed, awaits, disk, drawn, history
<1>24. CASE Restart
  BY <1>24 DEF Restart, TypeOK, Stationed, disk, drawn
<1>25. CASE StoreRuns
  <2>1. PICK answer \in Replies : Answer(Head(tail), answer)
    BY <1>25 DEF StoreRuns, Replies
  <2>2. /\ stage' = stage /\ task' = task
        /\ \A d \in Connections : reply'[d] # "none" => reply[d] # "none" \/ d = Head(tail).by
    BY <1>25, <2>1, AnswerTypes DEF StoreRuns
  <2>3. Head(tail).by # None => task[Head(tail).by] # "none"
    BY <1>25, TailTypes DEF StoreRuns, Wired, Matched
  <2>4. QED
    BY <2>2, <2>3 DEF Stationed
<1>26. CASE StoreFails
  <2>1. /\ task' = task
        /\ \A d \in Connections : reply'[d] # "none" => reply[d] # "none" \/ d = Head(tail).by
    BY <1>26, AnswerTypes DEF StoreFails, Replies
  <2>2. StopAs("failed")
    BY <1>26 DEF StoreFails
  <2>3. \A d \in Connections : stage'[d] \in {stage[d], "closed"}
    BY <2>2, StopTypes
  <2>4. Head(tail).by # None => task[Head(tail).by] # "none"
    BY <1>26, TailTypes DEF StoreFails, Wired, Matched
  <2>5. QED
    BY <2>1, <2>3, <2>4 DEF Stationed
<1>27. CASE UNCHANGED vars
  BY <1>27 DEF TypeOK, Stationed, vars, door, control, awaits, voided, disk,
         drawn, history
<1>29. ASSUME NEW c \in Connections, SendAcceptance(c)
      PROVE  Stationed'
  <2>1. \A d \in Connections : stage'[d] \in {stage[d], "closed"}
    BY <1>29, Closing DEF SendAcceptance, TypeOK
  <2>2. QED
    BY <1>29, <2>1, ResumeTypes DEF SendAcceptance, Stationed
<1>28. QED
  BY <1>1, <1>2, <1>3, <1>4, <1>5, <1>6, <1>7, <1>8, <1>9, <1>10, <1>11,
     <1>12, <1>13, <1>14, <1>15, <1>16, <1>17, <1>18, <1>19, <1>20, <1>21,
     <1>22, <1>23, <1>24, <1>25, <1>26, <1>27, <1>29
     DEF Next, Peer, Continuation, Desktop

(* Every step keeps the tail and the awaiting handlers matched.            *)
LEMMA MatchedStep ==
  TypeOK /\ Wired /\ Tombstones /\ Spending /\ [Next]_vars => Matched'
<1> SUFFICES ASSUME TypeOK, Stationed, Matched, Tombstones, Spending, [Next]_vars
    PROVE  Matched'
  BY DEF Wired
<1> USE AuthorityAssumption

<1>1. ASSUME NEW c \in Connections, OpenConnection(c)
      PROVE  Matched'
  <2>1. /\ task' = task /\ reply' = reply /\ tail' = tail
        /\ \A d \in Connections : d # c => held'[d] = held[d]
    BY <1>1 DEF OpenConnection, TypeOK, awaits
  <2>2. \A n \in DOMAIN tail : tail[n].by \in Connections \cup {None} /\ tail[n].by # c
    BY <1>1, NothingQueued, TailItems DEF OpenConnection
  <2>3. QED
    BY <2>1, <2>2, MatchedKeep
<1>2. ASSUME NEW c \in Connections, Disconnect(c)
      PROVE  Matched'
  BY <1>2, MatchedKeep DEF Disconnect, awaits
<1>3. ASSUME NEW c \in Connections, Elapse(c)
      PROVE  Matched'
  BY <1>3, MatchedKeep DEF Elapse, awaits
<1>4. ASSUME NEW c \in Connections, Retire(c)
      PROVE  Matched'
  BY <1>4, MatchedKeep DEF Retire, awaits
<1>5. ASSUME NEW c \in Connections, BeginPairing(c)
      PROVE  Matched'
  BY <1>5, MatchedKeep DEF BeginPairing, awaits
<1>6. ASSUME NEW c \in Connections, DenyPairing(c)
      PROVE  Matched'
  BY <1>6, MatchedKeep DEF DenyPairing, awaits
<1>7. ASSUME NEW c \in Connections, BeginAuthentication(c)
      PROVE  Matched'
  BY <1>7, MatchedKeep DEF BeginAuthentication, awaits
<1>8. ASSUME NEW c \in Connections, NEW good \in BOOLEAN, VerifyPairingProof(c, good)
      PROVE  Matched'
  BY <1>8, MatchedKeep DEF VerifyPairingProof, awaits
<1>9. ASSUME NEW c \in Connections, NEW token \in Tokens, ApprovePairing(c, token)
      PROVE  Matched'
  <2>1. /\ Queue("write", token, c) /\ task'[c] = "storing" /\ reply' = reply
        /\ \A d \in Connections : d # c => task'[d] = task[d]
    BY <1>9, AwaitTypes DEF ApprovePairing, Tasks
  <2>2. held'[c] = token /\ \A d \in Connections : d # c => held'[d] = held[d]
    BY <1>9 DEF ApprovePairing, TypeOK
  <2>3. task[c] = "none" /\ reply[c] = "none"
    BY <1>9 DEF ApprovePairing, Stationed, TypeOK, Tasks
  <2>4. \A n \in DOMAIN tail : tail[n].by \in Connections \cup {None} /\ tail[n].by # c
    BY <2>3, NothingQueued, TailItems
  <2>5. KindOf[task'[c]] = "write"
    BY <2>1 DEF KindOf
  <2>6. QED
    BY <2>1, <2>2, <2>3, <2>4, <2>5, MatchedAdd
<1>10. ASSUME NEW c \in Connections, NEW token \in Tokens, Authenticate(c, token)
      PROVE  Matched'
  <2>1. CASE token \in revoked
    BY <1>10, <2>1, MatchedKeep DEF Authenticate, awaits
  <2>2. CASE token \notin revoked
    <3>1. /\ Queue("read", token, c) /\ task'[c] = "reading" /\ reply' = reply
          /\ \A d \in Connections : d # c => task'[d] = task[d]
      BY <1>10, <2>2, AwaitTypes DEF Authenticate, Tasks
    <3>2. held'[c] = token /\ \A d \in Connections : d # c => held'[d] = held[d]
      BY <1>10, <2>2 DEF Authenticate, TypeOK
    <3>3. task[c] = "none" /\ reply[c] = "none"
      BY <1>10 DEF Authenticate, Stationed, TypeOK, Tasks
    <3>4. \A n \in DOMAIN tail : tail[n].by \in Connections \cup {None} /\ tail[n].by # c
      BY <3>3, NothingQueued, TailItems
    <3>5. KindOf[task'[c]] = "read"
      BY <3>1 DEF KindOf
    <3>6. QED
      BY <3>1, <3>2, <3>3, <3>4, <3>5, MatchedAdd
  <2>3. QED
    BY <2>1, <2>2
<1>11. ASSUME NEW c \in Connections, RecordActivity(c)
      PROVE  Matched'
  <2>1. Queue("write", held[c], None) /\ held[c] \in Tokens /\ UNCHANGED <<task, reply, held>>
    BY <1>11 DEF RecordActivity, Leased, Tombstones, Buried, Entitled
  <2>2. QED
    BY <2>1, MatchedAdd
<1>12. ASSUME NEW c \in Connections, RevokeForAcknowledgement(c)
      PROVE  Matched'
  <2>1. /\ Queue("revoke", held[c], c) /\ task'[c] = "acknowledging" /\ reply' = reply
        /\ \A d \in Connections : d # c => task'[d] = task[d]
    BY <1>12, AwaitTypes DEF RevokeForAcknowledgement, Tasks
  <2>2. held' = held /\ held[c] \in Tokens
    BY <1>12 DEF RevokeForAcknowledgement, Leased, Tombstones, Buried, Entitled
  <2>3. task[c] = "none" /\ reply[c] = "none"
    BY <1>12 DEF RevokeForAcknowledgement, Stationed
  <2>4. \A n \in DOMAIN tail : tail[n].by \in Connections \cup {None} /\ tail[n].by # c
    BY <2>3, NothingQueued, TailItems
  <2>5. KindOf[task'[c]] = "revoke"
    BY <2>1 DEF KindOf
  <2>6. QED
    BY <2>1, <2>2, <2>3, <2>4, <2>5, MatchedAdd
<1>13. ASSUME NEW c \in Connections, StoredPairing(c)
      PROVE  Matched'
  <2>1. /\ held' = held
        /\ \A d \in Connections : d # c => task'[d] = task[d] /\ reply'[d] = reply[d]
    BY <1>13, StoredTypes DEF StoredPairing
  <2>2. \A n \in DOMAIN tail : tail[n].by \in Connections \cup {None} /\ tail[n].by # c
    BY <1>13, NothingQueued, TailItems DEF StoredPairing
  <2>3. CASE tail' = tail
    BY <2>1, <2>2, <2>3, MatchedKeep
  <2>4. CASE RevokeNow(held[c])
    <3>1. Queue("revoke", held[c], None) /\ held[c] \in Tokens
      BY <1>13, <2>4 DEF RevokeNow, StoredPairing, Spending
    <3>2. QED
      BY <2>1, <2>2, <3>1, MatchedAdd
  <2>5. QED
    BY <1>13, <2>3, <2>4 DEF StoredPairing
<1>14. ASSUME NEW c \in Connections, GrantLease(c)
      PROVE  Matched'
  <2>1. /\ task'[c] = "none" /\ reply'[c] = "none" /\ held' = held
        /\ \A d \in Connections : d # c => task'[d] = task[d] /\ reply'[d] = reply[d]
    BY <1>14, ResumeTypes DEF GrantLease
  <2>2. \A n \in DOMAIN tail : tail[n].by \in Connections \cup {None} /\ tail[n].by # c
    BY <1>14, NothingQueued, TailItems DEF GrantLease
  <2>3. QED
    BY <1>14, <2>1, <2>2, MatchedKeep DEF GrantLease
<1>15. ASSUME NEW c \in Connections, Acknowledge(c)
      PROVE  Matched'
  <2>1. /\ task'[c] = "none" /\ reply'[c] = "none" /\ held' = held
        /\ \A d \in Connections : d # c => task'[d] = task[d] /\ reply'[d] = reply[d]
    BY <1>15, ResumeTypes DEF Acknowledge
  <2>2. \A n \in DOMAIN tail : tail[n].by \in Connections \cup {None} /\ tail[n].by # c
    BY <1>15, NothingQueued, TailItems DEF Acknowledge
  <2>3. QED
    BY <1>15, <2>1, <2>2, MatchedKeep DEF Acknowledge
<1>16. ASSUME NEW c \in Connections, NEW sound \in BOOLEAN, ReadCredential(c, sound)
      PROVE  Matched'
  <2>1. \A n \in DOMAIN tail : tail[n].by \in Connections \cup {None} /\ tail[n].by # c
    BY <1>16, NothingQueued, TailItems DEF ReadCredential
  <2>2. CASE Resume(c) /\ tail' = tail
    <3>1. /\ task'[c] = "none" /\ reply'[c] = "none" /\ held' = held
          /\ \A d \in Connections : d # c => task'[d] = task[d] /\ reply'[d] = reply[d]
      BY <1>16, <2>2, ResumeTypes DEF ReadCredential
    <3>2. QED
      BY <2>1, <2>2, <3>1, MatchedKeep
  <2>3. CASE /\ Queue("write", held[c], c)
             /\ task' = [task EXCEPT ![c] = "touching"]
             /\ reply' = [reply EXCEPT ![c] = "none"]
             /\ reply[c] = "found"
    <3>1. held[c] \in Tokens /\ held' = held
      BY <1>16, <2>3 DEF ReadCredential, Tombstones, Buried, Entitled
    <3>2. /\ task'[c] = "touching" /\ reply'[c] = "none"
          /\ \A d \in Connections : d # c => task'[d] = task[d] /\ reply'[d] = reply[d]
      BY <2>3 DEF TypeOK
    <3>3. KindOf[task'[c]] = "write"
      BY <3>2 DEF KindOf
    <3>4. QED
      BY <2>1, <2>3, <3>1, <3>2, <3>3, MatchedAdd
  <2>4. QED
    BY <1>16, <2>2, <2>3 DEF ReadCredential
<1>17. ASSUME NEW i \in Invitations, OpenInvitation(i)
      PROVE  Matched'
  BY <1>17, MatchedKeep DEF OpenInvitation, awaits
<1>18. CASE CancelInvitation
  BY <1>18, MatchedKeep DEF CancelInvitation, awaits
<1>19. CASE InvitationLapses
  BY <1>19, MatchedKeep DEF InvitationLapses, awaits
<1>20. CASE Expire
  BY <1>20, MatchedKeep DEF Expire, awaits
<1>21. ASSUME NEW token \in Tokens, Revoke(token)
      PROVE  Matched'
  <2>1. Queue("revoke", token, None) /\ UNCHANGED <<task, reply, held>>
    BY <1>21 DEF Revoke, RevokeNow
  <2>2. QED
    BY <2>1, MatchedAdd
<1>22. CASE ReplaceSession
  BY <1>22, MatchedKeep DEF ReplaceSession, awaits
<1>23. CASE Stop
  BY <1>23, MatchedKeep DEF Stop, awaits
<1>24. CASE Restart
  BY <1>24 DEF Restart, Matched
<1>25. CASE StoreRuns
  <2>1. PICK answer \in Replies : Answer(Head(tail), answer)
    BY <1>25 DEF StoreRuns, Replies
  <2>2. QED
    BY <1>25, <2>1, MatchedDrop DEF StoreRuns
<1>26. CASE StoreFails
  BY <1>26, MatchedDrop DEF StoreFails, Replies
<1>27. CASE UNCHANGED vars
  BY <1>27, MatchedKeep DEF vars, door, control, awaits, voided, disk, drawn,
         history
<1>29. ASSUME NEW c \in Connections, SendAcceptance(c)
      PROVE  Matched'
  <2>1. /\ UNCHANGED <<held, tail>>
        /\ \A d \in Connections : d # c => task'[d] = task[d] /\ reply'[d] = reply[d]
    BY <1>29, ResumeTypes DEF SendAcceptance
  <2>2. \A n \in DOMAIN tail : tail[n].by \in Connections \cup {None} /\ tail[n].by # c
    BY <1>29, NothingToSend, TailItems DEF SendAcceptance
  <2>3. QED
    BY <2>1, <2>2, MatchedKeep
<1>28. QED
  BY <1>1, <1>2, <1>3, <1>4, <1>5, <1>6, <1>7, <1>8, <1>9, <1>10, <1>11,
     <1>12, <1>13, <1>14, <1>15, <1>16, <1>17, <1>18, <1>19, <1>20, <1>21,
     <1>22, <1>23, <1>24, <1>25, <1>26, <1>27, <1>29
     DEF Next, Peer, Continuation, Desktop

-----------------------------------------------------------------------------
(* Which steps keep the queued revocations known, and the dead buried.     *)
LEMMA RevokesAdd ==
  ASSUME TypeOK, RevokesKnown, revoked \subseteq revoked',
         NEW kind \in {"read", "write", "revoke"}, NEW token \in Tokens,
         NEW by \in Connections \cup {None}, Queue(kind, token, by),
         kind = "revoke" => token \in revoked'
  PROVE  RevokesKnown'
<1>1. /\ DOMAIN tail' = DOMAIN tail \cup {Len(tail) + 1}
      /\ \A n \in DOMAIN tail : tail'[n] = tail[n]
      /\ tail'[Len(tail) + 1] = [kind |-> kind, token |-> token, by |-> by]
  BY Queueing
<1>2. SUFFICES ASSUME NEW n \in DOMAIN tail', tail'[n].kind = "revoke"
               PROVE  tail'[n].token \in revoked'
  BY DEF RevokesKnown
<1>3. CASE n \in DOMAIN tail
  BY <1>1, <1>2, <1>3 DEF RevokesKnown
<1>4. CASE n = Len(tail) + 1
  BY <1>1, <1>2, <1>4
<1>5. QED
  BY <1>1, <1>3, <1>4

LEMMA RevokesDrop ==
  ASSUME TypeOK, RevokesKnown, tail # <<>>, tail' = Tail(tail), revoked' = revoked
  PROVE  RevokesKnown'
BY TailTypes DEF RevokesKnown

LEMMA BuriedKeep ==
  ASSUME Buried, UNCHANGED <<disk, acknowledged>>, revoked \subseteq revoked',
         \A c \in Connections : Entitled(c)' => Entitled(c) /\ held'[c] = held[c],
         \A c \in Connections : task'[c] = "acknowledging" /\ reply'[c] = "done"
           => task[c] = "acknowledging" /\ reply[c] = "done" /\ held'[c] = held[c]
  PROVE  Buried'
BY DEF Buried, disk

(* Every step keeps the dead buried.                                       *)
LEMMA TombstonesStep ==
  TypeOK /\ Wired /\ Tombstones /\ Controller /\ Spending /\ [Next]_vars => Tombstones'
<1> SUFFICES ASSUME TypeOK, RevokesKnown, Buried, Stationed, Matched, Spending,
                    Controller, [Next]_vars
    PROVE  RevokesKnown' /\ Buried'
  BY DEF Wired, Tombstones
<1> USE AuthorityAssumption

<1>1. ASSUME NEW c \in Connections, OpenConnection(c)
      PROVE  RevokesKnown' /\ Buried'
  BY <1>1 DEF OpenConnection, TypeOK, RevokesKnown, Buried, Entitled,
         Stationed, Tasks, door, control, awaits, disk, drawn, history
<1>2. ASSUME NEW c \in Connections, Disconnect(c)
      PROVE  RevokesKnown' /\ Buried'
  BY <1>2, Closing DEF Disconnect, TypeOK, RevokesKnown, Buried, Entitled,
         Stationed, Tasks, door, awaits, voided, disk, drawn, history
<1>3. ASSUME NEW c \in Connections, Elapse(c)
      PROVE  RevokesKnown' /\ Buried'
  BY <1>3 DEF Elapse, TypeOK, RevokesKnown, Buried, Entitled, Stationed,
         Tasks, door, control, awaits, voided, disk, drawn, history
<1>4. ASSUME NEW c \in Connections, Retire(c)
      PROVE  RevokesKnown' /\ Buried'
  BY <1>4, Closing DEF Retire, TypeOK, RevokesKnown, Buried, Entitled,
         Stationed, Tasks, door, awaits, voided, disk, drawn, history
<1>5. ASSUME NEW c \in Connections, BeginPairing(c)
      PROVE  RevokesKnown' /\ Buried'
  BY <1>5 DEF BeginPairing, Reached, TypeOK, RevokesKnown, Buried, Entitled,
         Stationed, Tasks, door, control, awaits, voided, disk, drawn, history
<1>6. ASSUME NEW c \in Connections, DenyPairing(c)
      PROVE  RevokesKnown' /\ Buried'
  BY <1>6, Closing DEF DenyPairing, TypeOK, RevokesKnown, Buried, Entitled,
         Stationed, Tasks, door, awaits, voided, disk, drawn, history
<1>7. ASSUME NEW c \in Connections, BeginAuthentication(c)
      PROVE  RevokesKnown' /\ Buried'
  BY <1>7 DEF BeginAuthentication, Reached, TypeOK, RevokesKnown, Buried,
         Entitled, Stationed, Tasks, door, control, awaits, voided, disk,
         drawn, history
<1>8. ASSUME NEW c \in Connections, NEW good \in BOOLEAN, VerifyPairingProof(c, good)
      PROVE  RevokesKnown' /\ Buried'
  <2>1. /\ lease' \in {lease, None}
        /\ UNCHANGED <<tail, task, reply, held, revoked, disk, acknowledged>>
    BY <1>8, CancelTypes, Closing DEF VerifyPairingProof, awaits, history,
           control
  <2>2. Buried'
    BY <2>1, BuriedKeep DEF Entitled
  <2>3. QED
    BY <2>1, <2>2 DEF RevokesKnown
<1>9. ASSUME NEW c \in Connections, NEW token \in Tokens, ApprovePairing(c, token)
      PROVE  RevokesKnown' /\ Buried'
  <2>1. /\ task'[c] = "storing" /\ reply' = reply /\ Queue("write", token, c)
        /\ \A d \in Connections : d # c => task'[d] = task[d]
    BY <1>9, AwaitTypes DEF ApprovePairing, Tasks
  <2>2. /\ \A d \in Connections : d # c => held'[d] = held[d]
        /\ UNCHANGED <<disk, acknowledged, revoked, lease>>
    BY <1>9 DEF ApprovePairing, TypeOK, history, control
  <2>3. lease # c
    BY <1>9 DEF ApprovePairing, Controller, Reached, TypeOK
  <2>4. Buried'
    BY <2>1, <2>2, <2>3, BuriedKeep DEF Entitled
  <2>5. QED
    BY <2>1, <2>2, <2>4, RevokesAdd
<1>10. ASSUME NEW c \in Connections, NEW token \in Tokens, Authenticate(c, token)
      PROVE  RevokesKnown' /\ Buried'
  <2>1. CASE token \in revoked
    BY <1>10, <2>1, Closing, BuriedKeep DEF Authenticate, Entitled,
           RevokesKnown, awaits, history
  <2>2. CASE token \notin revoked
    <3>1. /\ task'[c] = "reading" /\ reply' = reply /\ Queue("read", token, c)
          /\ \A d \in Connections : d # c => task'[d] = task[d]
      BY <1>10, <2>2, AwaitTypes DEF Authenticate, Tasks
    <3>2. /\ \A d \in Connections : d # c => held'[d] = held[d]
          /\ UNCHANGED <<disk, acknowledged, revoked, lease>>
      BY <1>10, <2>2 DEF Authenticate, TypeOK, history, control
    <3>3. lease # c /\ reply[c] = "none"
      BY <1>10 DEF Authenticate, Controller, Reached, TypeOK, Stationed, Tasks
    <3>4. Buried'
      BY <3>1, <3>2, <3>3, BuriedKeep DEF Entitled
    <3>5. QED
      BY <3>1, <3>2, <3>4, RevokesAdd
  <2>3. QED
    BY <2>1, <2>2
<1>11. ASSUME NEW c \in Connections, RecordActivity(c)
      PROVE  RevokesKnown' /\ Buried'
  <2>1. /\ Queue("write", held[c], None) /\ held[c] \in Tokens
        /\ UNCHANGED <<task, reply, held, lease, revoked, disk, acknowledged>>
    BY <1>11 DEF RecordActivity, Leased, Buried, Entitled, history, control
  <2>2. Buried'
    BY <2>1, BuriedKeep DEF Entitled
  <2>3. QED
    BY <2>1, <2>2, RevokesAdd
<1>12. ASSUME NEW c \in Connections, RevokeForAcknowledgement(c)
      PROVE  RevokesKnown' /\ Buried'
  <2>1. /\ task'[c] = "acknowledging" /\ reply' = reply /\ Queue("revoke", held[c], c)
        /\ \A d \in Connections : d # c => task'[d] = task[d]
    BY <1>12, AwaitTypes DEF RevokeForAcknowledgement, Tasks
  <2>2. held[c] \in Tokens /\ reply[c] = "none"
    BY <1>12 DEF RevokeForAcknowledgement, Leased, Buried, Entitled, Stationed
  <2>3. /\ lease' \in {lease, None} /\ lease' # c
        /\ UNCHANGED <<held, disk, acknowledged>> /\ revoked' = revoked \cup {held[c]}
    BY <1>12 DEF RevokeForAcknowledgement, Close, Leased, Reached, TypeOK,
           history
  <2>4. Buried'
    BY <2>1, <2>2, <2>3, BuriedKeep DEF Entitled
  <2>5. QED
    BY <2>1, <2>2, <2>3, <2>4, RevokesAdd
<1>13. ASSUME NEW c \in Connections, StoredPairing(c)
      PROVE  RevokesKnown' /\ Buried'
  <2>1. /\ task'[c] \in {"none", "sending"} /\ task[c] = "storing"
        /\ UNCHANGED <<held, disk, acknowledged>>
        /\ \A d \in Connections : d # c => task'[d] = task[d] /\ reply'[d] = reply[d]
    BY <1>13, StoredTypes DEF StoredPairing
  <2>2. held[c] \in Tokens
    BY <2>1 DEF Spending
  <2>3. CASE RevokeNow(held[c])
    <3>1. /\ revoked' = revoked \cup {held[c]} /\ Queue("revoke", held[c], None)
          /\ lease' \in {lease, None}
      BY <2>2, <2>3, RevokeNowTypes
    <3>2. Buried'
      BY <2>1, <3>1, BuriedKeep DEF Entitled
    <3>3. QED
      BY <2>2, <3>1, <3>2, RevokesAdd
  <2>4. CASE ~RevokeNow(held[c])
    <3>1. UNCHANGED <<revoked, lease, tail>>
      BY <1>13, <2>4 DEF StoredPairing, control
    <3>2. Buried'
      BY <2>1, <3>1, BuriedKeep DEF Entitled
    <3>3. QED
      BY <3>1, <3>2 DEF RevokesKnown
  <2>5. QED
    BY <2>3, <2>4
<1>14. ASSUME NEW c \in Connections, GrantLease(c)
      PROVE  RevokesKnown' /\ Buried'
  BY <1>14, ResumeTypes DEF GrantLease, TypeOK, RevokesKnown, Buried,
         Entitled, Stationed, Tasks, door, voided, disk, drawn, history
<1>15. ASSUME NEW c \in Connections, Acknowledge(c)
      PROVE  RevokesKnown' /\ Buried'
  BY <1>15, ResumeTypes DEF Acknowledge, TypeOK, RevokesKnown, Buried,
         Entitled, Stationed, Tasks, door, control, voided, disk, drawn
<1>16. ASSUME NEW c \in Connections, NEW sound \in BOOLEAN, ReadCredential(c, sound)
      PROVE  RevokesKnown' /\ Buried'
  <2>1. UNCHANGED <<held, disk, acknowledged, revoked>>
    BY <1>16 DEF ReadCredential, history
  <2>2. CASE Resume(c) /\ tail' = tail
    <3>1. lease' \in {lease, None}
      BY <1>16, <2>2, Closing DEF ReadCredential, control, Queue, TypeOK
    <3>2. /\ task'[c] = "none" /\ reply'[c] = "none"
          /\ \A d \in Connections : d # c => task'[d] = task[d] /\ reply'[d] = reply[d]
      BY <1>16, <2>2, ResumeTypes DEF ReadCredential
    <3>3. lease' = c => lease = c
      BY <3>1 DEF TypeOK
    <3>4. Buried'
      BY <2>1, <3>1, <3>2, <3>3, BuriedKeep DEF Entitled
    <3>5. QED
      BY <2>1, <2>2, <3>4 DEF RevokesKnown
  <2>3. CASE /\ Queue("write", held[c], c)
             /\ task' = [task EXCEPT ![c] = "touching"]
             /\ reply' = [reply EXCEPT ![c] = "none"]
             /\ task[c] = "reading" /\ reply[c] = "found" /\ lease' = lease
    <3>1. /\ task'[c] = "touching" /\ reply'[c] = "none"
          /\ \A d \in Connections : d # c => task'[d] = task[d] /\ reply'[d] = reply[d]
      BY <2>3 DEF TypeOK
    <3>2. held[c] \in Tokens
      BY <2>3 DEF Buried, Entitled
    <3>3. Buried'
      BY <2>1, <2>3, <3>1, BuriedKeep DEF Entitled
    <3>4. QED
      BY <2>1, <2>3, <3>2, <3>3, RevokesAdd
  <2>4. QED
    BY <1>16, <2>2, <2>3 DEF ReadCredential
<1>17. ASSUME NEW i \in Invitations, OpenInvitation(i)
      PROVE  RevokesKnown' /\ Buried'
  <2>1. lease' \in {lease, None} /\ UNCHANGED <<tail, task, reply, held, revoked, disk, acknowledged>>
    BY <1>17, CancelTypes, Closing DEF OpenInvitation, awaits, history
  <2>2. Buried'
    BY <2>1, BuriedKeep DEF Entitled
  <2>3. QED
    BY <2>1, <2>2 DEF RevokesKnown
<1>18. CASE CancelInvitation
  <2>1. lease' \in {lease, None} /\ UNCHANGED <<tail, task, reply, held, revoked, disk, acknowledged>>
    BY <1>18, CancelTypes, Closing DEF CancelInvitation, awaits, history
  <2>2. Buried'
    BY <2>1, BuriedKeep DEF Entitled
  <2>3. QED
    BY <2>1, <2>2 DEF RevokesKnown
<1>19. CASE InvitationLapses
  BY <1>19 DEF InvitationLapses, TypeOK, RevokesKnown, Buried, Entitled,
         Stationed, Tasks, control, awaits, voided, disk, drawn, history
<1>20. CASE Expire
  <2>1. lease' \in {lease, None} /\ UNCHANGED <<tail, task, reply, held, revoked, disk, acknowledged>>
    BY <1>20, CancelTypes, Closing DEF Expire, awaits, history
  <2>2. Buried'
    BY <2>1, BuriedKeep DEF Entitled
  <2>3. QED
    BY <2>1, <2>2 DEF RevokesKnown
<1>21. ASSUME NEW token \in Tokens, Revoke(token)
      PROVE  RevokesKnown' /\ Buried'
  <2>1. /\ Queue("revoke", token, None) /\ revoked' = revoked \cup {token}
        /\ lease' \in {lease, None}
        /\ UNCHANGED <<task, reply, held, disk, acknowledged>>
    BY <1>21, RevokeNowTypes DEF Revoke, history
  <2>2. Buried'
    BY <2>1, BuriedKeep DEF Entitled
  <2>3. QED
    BY <2>1, <2>2, RevokesAdd
<1>22. CASE ReplaceSession
  BY <1>22, Closing DEF ReplaceSession, TypeOK, RevokesKnown, Buried,
         Entitled, Stationed, Tasks, door, control, awaits, disk, drawn,
         history
<1>23. CASE Stop
  BY <1>23, StopTypes DEF Stop, TypeOK, RevokesKnown, Buried, Entitled,
         Stationed, Tasks, awaits, disk, drawn, history
<1>24. CASE Restart
  BY <1>24 DEF Restart, TypeOK, RevokesKnown, Buried, Entitled, Stationed,
         Tasks, disk, drawn
<1>25. CASE StoreRuns
  <2> DEFINE operation == Head(tail)
  <2>1. /\ operation = tail[1] /\ 1 \in DOMAIN tail /\ operation \in Operations
        /\ operation.token \in Tokens /\ operation.by \in Connections \cup {None}
    BY <1>25, TailTypes DEF StoreRuns, Operations
  <2>2. PICK answer \in Replies :
          /\ Answer(operation, answer)
          /\ \/ operation.kind = "read" /\ UNCHANGED disk
                /\ (answer = "found" => operation.token \in creds \ tombs)
             \/ operation.kind = "write" /\ operation.token \notin tombs
                /\ creds' = creds \cup {operation.token} /\ UNCHANGED tombs
             \/ operation.kind = "revoke"
                /\ creds' = creds \ {operation.token}
                /\ tombs' = tombs \cup {operation.token}
          /\ answer = "done" => operation.kind \in {"write", "revoke"}
    BY <1>25 DEF StoreRuns, Replies
  <2>3. /\ tail' = Tail(tail)
        /\ \A c \in Connections :
             reply'[c] = IF c = operation.by THEN answer ELSE reply[c]
    BY <1>25, <2>2, AnswerTypes DEF StoreRuns
  <2>4. UNCHANGED <<task, held, revoked, lease, acknowledged>>
    BY <1>25 DEF StoreRuns, control, history
  <2>5. operation.by # None =>
          /\ operation.token = held[operation.by]
          /\ operation.kind = KindOf[task[operation.by]]
    BY <2>1 DEF Matched
  <2>6. operation.kind = "revoke" => operation.token \in revoked
    BY <2>1 DEF RevokesKnown
  <2> HIDE DEF operation
  <2>7. creds' \cap tombs' = {} /\ tombs \subseteq tombs' /\ tombs' \ revoked' \subseteq tombs \ revoked
    BY <2>2, <2>4, <2>6 DEF Buried, disk
  <2>8. ASSUME NEW c \in Connections, Entitled(c)'
        PROVE  held'[c] \in Tokens \ (tombs' \ revoked')
    <3>1. CASE Entitled(c)
      BY <2>4, <2>7, <3>1 DEF Buried
    <3>2. CASE ~Entitled(c)
      <4>1. /\ c = operation.by /\ answer = "found" /\ task[c] = "reading"
        BY <2>3, <2>4, <2>8, <3>2 DEF Entitled
      <4>2. operation.token = held[c] /\ operation.kind = "read"
        BY <2>5, <4>1 DEF KindOf
      <4>3. held[c] \in Tokens \ tombs /\ UNCHANGED disk
        BY <2>1, <2>2, <4>1, <4>2
      <4>4. QED
        BY <2>4, <4>3 DEF disk
    <3>3. QED
      BY <3>1, <3>2
  <2>9. ASSUME NEW c \in Connections, task'[c] = "acknowledging", reply'[c] = "done"
        PROVE  held'[c] \in tombs'
    <3>1. CASE c = operation.by
      <4>1. operation.token = held[c] /\ operation.kind = "revoke"
        BY <2>4, <2>5, <2>9, <3>1 DEF KindOf
      <4>2. QED
        BY <2>2, <2>4, <4>1
    <3>2. CASE c # operation.by
      BY <2>3, <2>4, <2>7, <2>9, <3>2 DEF Buried
    <3>3. QED
      BY <3>1, <3>2
  <2>10. Buried'
    BY <2>4, <2>7, <2>8, <2>9 DEF Buried
  <2>11. QED
    BY <1>25, <2>3, <2>4, <2>10, RevokesDrop DEF StoreRuns
<1>26. CASE StoreFails
  <2>1. /\ tail' = Tail(tail)
        /\ \A c \in Connections : reply'[c] \in {reply[c], "failed"}
    BY <1>26, AnswerTypes DEF StoreFails, Replies
  <2>2. StopAs("failed")
    BY <1>26 DEF StoreFails
  <2>3. lease' \in {lease, None}
    BY <2>2, StopTypes
  <2>4. UNCHANGED <<task, held, revoked, acknowledged>>
    BY <1>26 DEF StoreFails
  <2>7. /\ creds' \cap tombs' = {} /\ tombs \subseteq tombs'
        /\ tombs' \ revoked \subseteq tombs
    <3>1. Head(tail).kind = "revoke" => Head(tail).token \in revoked
      BY <1>26, TailTypes DEF StoreFails, RevokesKnown
    <3>2. QED
      BY <1>26, <3>1 DEF StoreFails, Buried, disk
  <2>5. Buried'
    BY <2>1, <2>3, <2>4, <2>7 DEF Buried, Entitled
  <2>6. QED
    BY <1>26, <2>1, <2>4, <2>5, RevokesDrop DEF StoreFails
<1>27. CASE UNCHANGED vars
  BY <1>27 DEF TypeOK, RevokesKnown, Buried, Entitled, Stationed, Tasks, vars,
         door, control, awaits, voided, disk, drawn, history
<1>29. ASSUME NEW c \in Connections, SendAcceptance(c)
      PROVE  RevokesKnown' /\ Buried'
  <2>1. /\ UNCHANGED <<held, disk, acknowledged, revoked, tail>>
        /\ lease' \in {lease, None}
        /\ \A d \in Connections : /\ d # c => task'[d] = task[d] /\ reply'[d] = reply[d]
                                 /\ task'[c] = "none"
    BY <1>29, ResumeTypes, Closing DEF SendAcceptance, control
  <2>2. Buried'
    BY <2>1, BuriedKeep DEF Entitled, TypeOK
  <2>3. QED
    BY <2>1, <2>2 DEF RevokesKnown
<1>28. QED
  BY <1>1, <1>2, <1>3, <1>4, <1>5, <1>6, <1>7, <1>8, <1>9, <1>10, <1>11,
     <1>12, <1>13, <1>14, <1>15, <1>16, <1>17, <1>18, <1>19, <1>20, <1>21,
     <1>22, <1>23, <1>24, <1>25, <1>26, <1>27, <1>29
     DEF Next, Peer, Continuation, Desktop

-----------------------------------------------------------------------------
(* Closing connections, or cancelling the invitation, leaves the           *)
(* controller in order.                                                    *)
LEMMA ControllerClose ==
  ASSUME TypeOK, Controller, NEW S, Close(S),
         UNCHANGED <<status, outdated, held, revoked, task>>
  PROVE  Controller'
BY Closing DEF Controller, TypeOK, Available

LEMMA ControllerCancel ==
  ASSUME TypeOK, Stationed, Controller, NEW S, CancelAndClose(S),
         UNCHANGED <<status, held, revoked, task>>
  PROVE  Controller'
<1> USE AuthorityAssumption
<1>1. Close(Pairing \cup S) /\ outdated' = outdated \cup {c \in Connections : task[c] = "storing"}
  BY CancelTypes
<1>2. lease # None => lease \notin outdated /\ task[lease] # "storing" /\ lease \in Connections
  BY DEF Controller, Stationed, TypeOK
<1>3. lease' # None => lease' = lease /\ lease \notin outdated'
  BY <1>1, <1>2, Closing
<1>4. QED
  BY <1>1, <1>3, Closing DEF Controller, TypeOK, Available

(* Every step leaves one controller at most, and in order.                 *)
LEMMA ControllerStep ==
  TypeOK /\ Wired /\ Tombstones /\ Controller /\ Spending /\ [Next]_vars => Controller'
<1> SUFFICES ASSUME TypeOK, Wired, Tombstones, Stationed, Controller, Spending, [Next]_vars
    PROVE  Controller'
  BY DEF Wired
<1> USE AuthorityAssumption

<1>1. ASSUME NEW c \in Connections, OpenConnection(c)
      PROVE  Controller'
  BY <1>1 DEF OpenConnection, TypeOK, Controller, Available, Stationed, Tasks,
         Awaiting, door, control, awaits, disk, drawn, history
<1>2. ASSUME NEW c \in Connections, Disconnect(c)
      PROVE  Controller'
  BY <1>2, Closing DEF Disconnect, TypeOK, Controller, Available, Stationed,
         Tasks, Awaiting, door, awaits, voided, disk, drawn, history
<1>3. ASSUME NEW c \in Connections, Elapse(c)
      PROVE  Controller'
  BY <1>3 DEF Elapse, TypeOK, Controller, Available, Stationed, Tasks,
         Awaiting, door, control, awaits, voided, disk, drawn, history
<1>4. ASSUME NEW c \in Connections, Retire(c)
      PROVE  Controller'
  BY <1>4, Closing DEF Retire, TypeOK, Controller, Available, Stationed,
         Tasks, Awaiting, door, awaits, voided, disk, drawn, history
<1>5. ASSUME NEW c \in Connections, BeginPairing(c)
      PROVE  Controller'
  BY <1>5, NotPairing DEF BeginPairing, Reached, TypeOK, Controller,
         Available, Stationed, Tasks, Awaiting, door, control, awaits, voided,
         disk, drawn, history
<1>6. ASSUME NEW c \in Connections, DenyPairing(c)
      PROVE  Controller'
  BY <1>6, Closing DEF DenyPairing, TypeOK, Controller, Available, Stationed,
         Tasks, Awaiting, door, awaits, voided, disk, drawn, history
<1>7. ASSUME NEW c \in Connections, BeginAuthentication(c)
      PROVE  Controller'
  BY <1>7 DEF BeginAuthentication, Reached, TypeOK, Controller, Available,
         Stationed, Tasks, Awaiting, door, control, awaits, voided, disk,
         drawn, history
<1>8. ASSUME NEW c \in Connections, NEW good \in BOOLEAN, VerifyPairingProof(c, good)
      PROVE  Controller'
  <2>1. CASE Close({c}) /\ UNCHANGED voided
    BY <1>8, <2>1, ControllerClose DEF VerifyPairingProof, awaits, voided
  <2>2. CASE UNCHANGED <<live, control, voided>> /\ stage' = [stage EXCEPT ![c] = "approvable"]
    BY <1>8, <2>2 DEF VerifyPairingProof, Controller, TypeOK, Available,
           awaits, voided, control
  <2>3. CASE CancelAndClose({c})
    BY <1>8, <2>3, ControllerCancel DEF VerifyPairingProof, awaits
  <2>4. QED
    BY <1>8, <2>1, <2>2, <2>3 DEF VerifyPairingProof, voided
<1>9. ASSUME NEW c \in Connections, NEW token \in Tokens, ApprovePairing(c, token)
      PROVE  Controller'
  BY <1>9, AwaitTypes, NotPairing DEF ApprovePairing, Reached, TypeOK,
         Controller, Available, Stationed, Tasks, Awaiting, control, disk,
         history
<1>10. ASSUME NEW c \in Connections, NEW token \in Tokens, Authenticate(c, token)
      PROVE  Controller'
  BY <1>10, AwaitTypes, Closing DEF Authenticate, Reached, TypeOK, Controller,
         Available, Stationed, Tasks, Awaiting, door, control, awaits, voided,
         disk, drawn, history
<1>11. ASSUME NEW c \in Connections, RecordActivity(c)
      PROVE  Controller'
  BY <1>11 DEF RecordActivity, Leased, Reached, TypeOK, Controller, Available,
         Stationed, Tasks, Awaiting, door, control, voided, disk, drawn,
         history
<1>12. ASSUME NEW c \in Connections, RevokeForAcknowledgement(c)
      PROVE  Controller'
  BY <1>12, AwaitTypes, Closing DEF RevokeForAcknowledgement, Leased, Reached,
         TypeOK, Controller, Available, Stationed, Tasks, Awaiting, door,
         voided, disk, drawn, history
<1>13. ASSUME NEW c \in Connections, StoredPairing(c)
      PROVE  Controller'
  <2>1. /\ task'[c] \in {"none", "sending"} /\ task[c] = "storing"
        /\ UNCHANGED <<status, held, outdated>>
        /\ \A d \in Connections : d # c => task'[d] = task[d]
    BY <1>13, StoredTypes DEF StoredPairing, voided
  <2>2. CASE RevokeNow(held[c])
    <3>1. held[c] \in Tokens
      BY <1>13 DEF StoredPairing, Spending
    <3>2. /\ live' \subseteq live /\ \A d \in live' : stage'[d] = stage[d]
          /\ lease' \in live' \cup {None} /\ lease' \in {lease, None}
          /\ lease' # None => held[lease] # held[c]
          /\ reservation' \in live' \cup {None}
          /\ reservation' \in {reservation, None}
          /\ reservation \in live' => reservation' = reservation
          /\ revoked' = revoked \cup {held[c]}
      BY <2>2, <3>1, RevokeNowTypes
    <3>3. QED
      BY <2>1, <3>2 DEF Controller, TypeOK, Available
  <2>3. CASE ~RevokeNow(held[c])
    <3>1. /\ UNCHANGED <<live, control, revoked>>
          /\ stage' = stage \/ stage' = [stage EXCEPT ![c] = "paired"]
      BY <1>13, <2>3 DEF StoredPairing
    <3>2. lease # None => lease # c /\ lease \in Connections
      BY <2>1 DEF TypeOK, Controller, Stationed
    <3>3. lease # None => stage'[lease] = stage[lease]
      BY <3>1, <3>2 DEF TypeOK
    <3>4. QED
      BY <2>1, <3>1, <3>3 DEF Controller, TypeOK, Available, control
  <2>4. QED
    BY <2>2, <2>3
<1>14. ASSUME NEW c \in Connections, GrantLease(c)
      PROVE  Controller'
  BY <1>14, ResumeTypes DEF GrantLease, TypeOK, Controller, Available,
         Stationed, Tasks, Awaiting, door, voided, disk, drawn, history
<1>15. ASSUME NEW c \in Connections, Acknowledge(c)
      PROVE  Controller'
  BY <1>15, ResumeTypes DEF Acknowledge, TypeOK, Controller, Available,
         Stationed, Tasks, Awaiting, door, control, voided, disk, drawn
<1>16. ASSUME NEW c \in Connections, NEW sound \in BOOLEAN, ReadCredential(c, sound)
      PROVE  Controller'
  BY <1>16, ResumeTypes, Closing DEF ReadCredential, TypeOK, Controller,
         Available, Stationed, Tasks, Awaiting, door, control, voided, disk,
         drawn, history
<1>17. ASSUME NEW i \in Invitations, OpenInvitation(i)
      PROVE  Controller'
  BY <1>17, ControllerCancel DEF OpenInvitation, awaits
<1>18. CASE CancelInvitation
  BY <1>18, ControllerCancel DEF CancelInvitation, awaits
<1>19. CASE InvitationLapses
  BY <1>19 DEF InvitationLapses, TypeOK, Controller, Available, Stationed,
         Tasks, Awaiting, control, awaits, voided, disk, drawn, history
<1>20. CASE Expire
  BY <1>20, ControllerCancel, ControllerClose DEF Expire, awaits, voided
<1>21. ASSUME NEW token \in Tokens, Revoke(token)
      PROVE  Controller'
  BY <1>21, RevokeNowTypes DEF Revoke, TypeOK, Controller, Available,
         Stationed, Tasks, Awaiting, door, voided, disk, drawn, history
<1>22. CASE ReplaceSession
  BY <1>22, Closing DEF ReplaceSession, TypeOK, Controller, Available,
         Stationed, Tasks, Awaiting, door, control, awaits, disk, drawn,
         history
<1>23. CASE Stop
  BY <1>23, StopTypes DEF Stop, TypeOK, Controller, Available, Stationed,
         Tasks, Awaiting, awaits, disk, drawn, history
<1>24. CASE Restart
  BY <1>24 DEF Restart, TypeOK, Controller, Available, Stationed, Tasks,
         Awaiting, disk, drawn
<1>25. CASE StoreRuns
  BY <1>25, AnswerTypes, TailTypes DEF StoreRuns, TypeOK, Controller,
         Available, Stationed, Tasks, Awaiting, door, control, voided, disk,
         drawn, history
<1>26. CASE StoreFails
  BY <1>26, StopTypes, AnswerTypes, TailTypes DEF StoreFails, TypeOK,
         Controller, Available, Stationed, Tasks, Awaiting, disk, drawn,
         history
<1>27. CASE UNCHANGED vars
  BY <1>27 DEF TypeOK, Controller, Available, Stationed, Tasks, Awaiting,
         vars, door, control, awaits, voided, disk, drawn, history
<1>29. ASSUME NEW c \in Connections, SendAcceptance(c)
      PROVE  Controller'
  <2>1. /\ UNCHANGED <<status, held, revoked, outdated>> /\ task[c] = "sending"
        /\ task'[c] = "none" /\ \A d \in Connections : d # c => task'[d] = task[d]
    BY <1>29, ResumeTypes DEF SendAcceptance, voided
  <2>2. CASE UNCHANGED <<live, stage, control>>
    BY <2>1, <2>2 DEF Controller, TypeOK, Available, control
  <2>3. CASE Close({c})
    BY <2>1, <2>3, Closing DEF Controller, TypeOK, Available
  <2>4. QED
    BY <1>29, <2>2, <2>3 DEF SendAcceptance
<1>28. QED
  BY <1>1, <1>2, <1>3, <1>4, <1>5, <1>6, <1>7, <1>8, <1>9, <1>10, <1>11,
     <1>12, <1>13, <1>14, <1>15, <1>16, <1>17, <1>18, <1>19, <1>20, <1>21,
     <1>22, <1>23, <1>24, <1>25, <1>26, <1>27, <1>29
     DEF Next, Peer, Continuation, Desktop

-----------------------------------------------------------------------------
(* A step that only closes connections, and closes the invitation or opens *)
(* a new one, spends nothing.                                              *)
LEMMA SpendingKeep ==
  ASSUME TypeOK, Spending, OneCredentialPerInvitation,
         \A c \in Connections : stage'[c] \in {stage[c], "closed"},
         UNCHANGED <<task, via, held, accepted>>, opened \subseteq opened',
         \/ UNCHANGED <<invitation, badProofs>> \/ invitation' = None
         \/ UNCHANGED invitation /\ badProofs' < MaxBadProofs
         \/ invitation' \in opened' \ opened /\ badProofs' < MaxBadProofs
  PROVE  Spending' /\ OneCredentialPerInvitation'
<1> USE AuthorityAssumption
<1>1. /\ \A p \in accepted : p[1] \in opened /\ p[1] # None
      /\ None \notin opened
      /\ \A c \in Connections : task[c] = "storing" => via[c] \in opened /\ via[c] # None
  BY DEF TypeOK, Spending
<1>2. /\ \A p \in accepted' : p[1] # invitation'
      /\ invitation' \in opened' \cup {None}
      /\ invitation' # None => badProofs' < MaxBadProofs
      /\ \A c \in Connections : task[c] = "storing" => via[c] # invitation'
  BY <1>1 DEF Spending
<1>3. \A c \in Connections :
        task[c] = "storing" \/ stage'[c] \in {"pairing", "approvable"} => via[c] \in opened'
  BY DEF Spending
<1>4. QED
  BY <1>2, <1>3 DEF Spending, OneCredentialPerInvitation

(* Every step spends an invitation at most once.                           *)
LEMMA SpendingStep ==
  /\ TypeOK /\ Wired /\ Tombstones /\ Spending /\ OneCredentialPerInvitation
  /\ [Next]_vars
  => Spending' /\ OneCredentialPerInvitation'
<1> SUFFICES ASSUME TypeOK, Wired, Tombstones, Stationed, Spending, OneCredentialPerInvitation, [Next]_vars
    PROVE  Spending' /\ OneCredentialPerInvitation'
  BY DEF Wired
<1> USE AuthorityAssumption

<1>1. ASSUME NEW c \in Connections, OpenConnection(c)
      PROVE  Spending' /\ OneCredentialPerInvitation'
  BY <1>1 DEF OpenConnection, TypeOK, Spending, OneCredentialPerInvitation,
         Stationed, Tasks, Awaiting, door, control, awaits, disk, drawn,
         history
<1>2. ASSUME NEW c \in Connections, Disconnect(c)
      PROVE  Spending' /\ OneCredentialPerInvitation'
  BY <1>2, Closing DEF Disconnect, TypeOK, Spending,
         OneCredentialPerInvitation, Stationed, Tasks, Awaiting, door, awaits,
         voided, disk, drawn, history
<1>3. ASSUME NEW c \in Connections, Elapse(c)
      PROVE  Spending' /\ OneCredentialPerInvitation'
  BY <1>3 DEF Elapse, TypeOK, Spending, OneCredentialPerInvitation, Stationed,
         Tasks, Awaiting, door, control, awaits, voided, disk, drawn, history
<1>4. ASSUME NEW c \in Connections, Retire(c)
      PROVE  Spending' /\ OneCredentialPerInvitation'
  BY <1>4, Closing DEF Retire, TypeOK, Spending, OneCredentialPerInvitation,
         Stationed, Tasks, Awaiting, door, awaits, voided, disk, drawn,
         history
<1>5. ASSUME NEW c \in Connections, BeginPairing(c)
      PROVE  Spending' /\ OneCredentialPerInvitation'
  BY <1>5 DEF BeginPairing, Reached, TypeOK, Spending,
         OneCredentialPerInvitation, Stationed, Tasks, Awaiting, door,
         control, awaits, voided, disk, drawn, history
<1>6. ASSUME NEW c \in Connections, DenyPairing(c)
      PROVE  Spending' /\ OneCredentialPerInvitation'
  BY <1>6, Closing DEF DenyPairing, TypeOK, Spending,
         OneCredentialPerInvitation, Stationed, Tasks, Awaiting, door, awaits,
         voided, disk, drawn, history
<1>7. ASSUME NEW c \in Connections, BeginAuthentication(c)
      PROVE  Spending' /\ OneCredentialPerInvitation'
  BY <1>7 DEF BeginAuthentication, Reached, TypeOK, Spending,
         OneCredentialPerInvitation, Stationed, Tasks, Awaiting, door,
         control, awaits, voided, disk, drawn, history
<1>8. ASSUME NEW c \in Connections, NEW good \in BOOLEAN, VerifyPairingProof(c, good)
      PROVE  Spending' /\ OneCredentialPerInvitation'
  <2>1. CASE stage' = [stage EXCEPT ![c] = "approvable"] /\ UNCHANGED <<invitation, badProofs>>
    BY <1>8, <2>1 DEF VerifyPairingProof, TypeOK, Spending,
           OneCredentialPerInvitation,
                   awaits, drawn, history
  <2>2. CASE Close({c}) \/ CancelAndClose({c})
    <3>1. \A d \in Connections : stage'[d] \in {stage[d], "closed"}
      BY <2>2, CancelTypes, Closing
    <3>2. \/ UNCHANGED <<invitation, badProofs>> \/ invitation' = None
          \/ UNCHANGED invitation /\ badProofs' < MaxBadProofs
      BY <1>8, <2>2 DEF VerifyPairingProof
    <3>3. QED
      BY <1>8, <3>1, <3>2, SpendingKeep DEF VerifyPairingProof, awaits,
             history, drawn
  <2>3. QED
    BY <1>8, <2>1, <2>2 DEF VerifyPairingProof
<1>9. ASSUME NEW c \in Connections, NEW token \in Tokens, ApprovePairing(c, token)
      PROVE  Spending' /\ OneCredentialPerInvitation'
  BY <1>9, AwaitTypes DEF ApprovePairing, Reached, TypeOK, Spending,
         OneCredentialPerInvitation, Stationed, Tasks, Awaiting, control,
         disk, history
<1>10. ASSUME NEW c \in Connections, NEW token \in Tokens, Authenticate(c, token)
      PROVE  Spending' /\ OneCredentialPerInvitation'
  BY <1>10, AwaitTypes, Closing DEF Authenticate, Reached, TypeOK, Spending,
         OneCredentialPerInvitation, Stationed, Tasks, Awaiting, door,
         control, awaits, voided, disk, drawn, history
<1>11. ASSUME NEW c \in Connections, RecordActivity(c)
      PROVE  Spending' /\ OneCredentialPerInvitation'
  BY <1>11 DEF RecordActivity, Leased, Reached, TypeOK, Spending,
         OneCredentialPerInvitation, Stationed, Tasks, Awaiting, door,
         control, voided, disk, drawn, history
<1>12. ASSUME NEW c \in Connections, RevokeForAcknowledgement(c)
      PROVE  Spending' /\ OneCredentialPerInvitation'
  BY <1>12, AwaitTypes, Closing DEF RevokeForAcknowledgement, Leased, Reached,
         TypeOK, Spending, OneCredentialPerInvitation, Stationed, Tasks,
         Awaiting, door, voided, disk, drawn, history
<1>13. ASSUME NEW c \in Connections, StoredPairing(c)
      PROVE  Spending' /\ OneCredentialPerInvitation'
  <2>1. /\ task'[c] \in {"none", "sending"} /\ task[c] = "storing"
        /\ UNCHANGED <<via, held, opened, invitation, badProofs>>
        /\ \A d \in Connections : d # c => task'[d] = task[d]
    BY <1>13, StoredTypes DEF StoredPairing, door, drawn
  <2>2. \A d \in Connections : stage'[d] \in {stage[d], "closed", "paired"}
    <3>1. CASE RevokeNow(held[c]) /\ held[c] \in Tokens
      BY <3>1, RevokeNowTypes
    <3>2. CASE ~RevokeNow(held[c])
      BY <1>13, <3>2 DEF StoredPairing, TypeOK
    <3>3. QED
      BY <2>1, <3>1, <3>2 DEF Spending
  <2>3. accepted' = accepted \/ accepted' = accepted \cup {<<via[c], held[c]>>}
    BY <1>13 DEF StoredPairing
  <2>4. /\ via[c] # invitation /\ \A p \in accepted : p[1] # via[c]
        /\ \A d \in Connections : task[d] = "storing" /\ d # c => via[d] # via[c]
    BY <2>1 DEF Spending
  <2>5. OneCredentialPerInvitation'
    BY <2>3, <2>4 DEF OneCredentialPerInvitation
  <2>6. /\ \A p \in accepted' : p[1] # invitation
        /\ \A d \in Connections : task'[d] = "storing" =>
             d # c /\ task[d] = "storing" /\ \A p \in accepted' : p[1] # via[d]
    BY <2>1, <2>3, <2>4 DEF Spending
  <2>7. QED
    BY <2>1, <2>2, <2>5, <2>6 DEF Spending
<1>14. ASSUME NEW c \in Connections, GrantLease(c)
      PROVE  Spending' /\ OneCredentialPerInvitation'
  BY <1>14, ResumeTypes DEF GrantLease, TypeOK, Spending,
         OneCredentialPerInvitation, Stationed, Tasks, Awaiting, door, voided,
         disk, drawn, history
<1>15. ASSUME NEW c \in Connections, Acknowledge(c)
      PROVE  Spending' /\ OneCredentialPerInvitation'
  BY <1>15, ResumeTypes DEF Acknowledge, TypeOK, Spending,
         OneCredentialPerInvitation, Stationed, Tasks, Awaiting, door,
         control, voided, disk, drawn
<1>16. ASSUME NEW c \in Connections, NEW sound \in BOOLEAN, ReadCredential(c, sound)
      PROVE  Spending' /\ OneCredentialPerInvitation'
  BY <1>16, ResumeTypes, Closing DEF ReadCredential, TypeOK, Spending,
         OneCredentialPerInvitation, Stationed, Tasks, Awaiting, door,
         control, voided, disk, drawn, history
<1>17. ASSUME NEW i \in Invitations, OpenInvitation(i)
      PROVE  Spending' /\ OneCredentialPerInvitation'
  <2>1. \A c \in Connections : stage'[c] \in {stage[c], "closed"}
    BY <1>17, CancelTypes, Closing DEF OpenInvitation
  <2>2. /\ invitation' \in opened' \ opened /\ badProofs' < MaxBadProofs
        /\ opened \subseteq opened'
    BY <1>17 DEF OpenInvitation
  <2>3. QED
    BY <1>17, <2>1, <2>2, SpendingKeep DEF OpenInvitation, awaits, history
<1>18. CASE CancelInvitation
  <2>1. \A c \in Connections : stage'[c] \in {stage[c], "closed"}
    BY <1>18, CancelTypes, Closing DEF CancelInvitation
  <2>2. QED
    BY <1>18, <2>1, SpendingKeep DEF CancelInvitation, awaits, history, drawn
<1>19. CASE InvitationLapses
  BY <1>19 DEF InvitationLapses, TypeOK, Spending, OneCredentialPerInvitation,
         Stationed, Tasks, Awaiting, control, awaits, voided, disk, drawn,
         history
<1>20. CASE Expire
  <2>1. \A c \in Connections : stage'[c] \in {stage[c], "closed"}
    BY <1>20, CancelTypes, Closing DEF Expire
  <2>2. QED
    BY <1>20, <2>1, SpendingKeep DEF Expire, awaits, history, drawn
<1>21. ASSUME NEW token \in Tokens, Revoke(token)
      PROVE  Spending' /\ OneCredentialPerInvitation'
  BY <1>21, RevokeNowTypes DEF Revoke, TypeOK, Spending,
         OneCredentialPerInvitation, Stationed, Tasks, Awaiting, door, voided,
         disk, drawn, history
<1>22. CASE ReplaceSession
  BY <1>22, Closing DEF ReplaceSession, TypeOK, Spending,
         OneCredentialPerInvitation, Stationed, Tasks, Awaiting, door,
         control, awaits, disk, drawn, history
<1>23. CASE Stop
  BY <1>23, StopTypes DEF Stop, TypeOK, Spending, OneCredentialPerInvitation,
         Stationed, Tasks, Awaiting, awaits, disk, drawn, history
<1>24. CASE Restart
  BY <1>24 DEF Restart, TypeOK, Spending, OneCredentialPerInvitation,
         Stationed, Tasks, Awaiting, disk, drawn
<1>25. CASE StoreRuns
  BY <1>25 DEF StoreRuns, TypeOK, Spending, OneCredentialPerInvitation,
         Stationed, Tasks, Awaiting, door, control, voided, disk, drawn,
         history
<1>26. CASE StoreFails
  BY <1>26, StopTypes DEF StoreFails, TypeOK, Spending,
         OneCredentialPerInvitation, Stationed, Tasks, Awaiting, disk, drawn,
         history
<1>27. CASE UNCHANGED vars
  BY <1>27 DEF TypeOK, Spending, OneCredentialPerInvitation, Stationed, Tasks,
         Awaiting, vars, door, control, awaits, voided, disk, drawn, history
<1>29. ASSUME NEW c \in Connections, SendAcceptance(c)
      PROVE  Spending' /\ OneCredentialPerInvitation'
  <2>1. \A d \in Connections : stage'[d] \in {stage[d], "closed"}
    BY <1>29, Closing DEF SendAcceptance, TypeOK
  <2>2. /\ UNCHANGED <<via, held, opened, accepted, invitation, badProofs>>
        /\ \A d \in Connections :
             task'[d] \in {"storing", "sending"} => task[d] = task'[d]
    BY <1>29, ResumeTypes DEF SendAcceptance, door, drawn
  <2>3. QED
    BY <2>1, <2>2 DEF Spending, OneCredentialPerInvitation
<1>28. QED
  BY <1>1, <1>2, <1>3, <1>4, <1>5, <1>6, <1>7, <1>8, <1>9, <1>10, <1>11,
     <1>12, <1>13, <1>14, <1>15, <1>16, <1>17, <1>18, <1>19, <1>20, <1>21,
     <1>22, <1>23, <1>24, <1>25, <1>26, <1>27, <1>29
     DEF Next, Peer, Continuation, Desktop

-----------------------------------------------------------------------------
(* Before anything happened nothing can be wrong.                          *)
LEMMA InvInit == Init => Inv
<1> SUFFICES ASSUME Init PROVE Inv
  OBVIOUS
<1> USE AuthorityAssumption
<1>1. /\ stage \in [Connections -> Stages]
      /\ task \in [Connections -> Tasks] /\ reply \in [Connections -> Replies]
      /\ held \in [Connections -> Tokens \cup {None}]
      /\ via \in [Connections -> Invitations \cup {None}]
  BY DEF Init, Stages, Tasks, Replies
<1>2. tail \in Seq(Operations) /\ DOMAIN tail = {} /\ 0 \in 0 .. MaxBadProofs
  BY DEF Init
<1>3. TypeOK
  BY <1>1, <1>2 DEF Init, TypeOK
<1>4. Wired
  BY <1>2 DEF Init, Wired, Stationed, Matched
<1>5. Tombstones
  <2>1. \A c \in Connections : c # None
    OBVIOUS
  <2>2. QED
    BY <1>2, <2>1 DEF Init, Tombstones, RevokesKnown, Buried, Entitled
<1>6. Controller /\ Spending /\ OneCredentialPerInvitation
  BY DEF Init, Controller, Spending, OneCredentialPerInvitation
<1>7. QED
  BY <1>3, <1>4, <1>5, <1>6 DEF Inv

LEMMA InvStep == Inv /\ [Next]_vars => Inv'
  BY TypeStep, StationedStep, MatchedStep, TombstonesStep, ControllerStep,
     SpendingStep
     DEF Inv, Wired

(* Inv is an invariant of every run of the authority.                      *)
THEOREM Invariance == Spec => []Inv
<1>1. Inv /\ UNCHANGED vars => Inv'
  BY InvStep
<1>2. QED
  BY InvInit, InvStep, <1>1, PTL DEF Spec

(* Every variable of the authority stays in its range.                     *)
THEOREM TypeCorrect == Spec => []TypeOK
<1>1. Inv => TypeOK
  BY DEF Inv
<1>2. QED
  BY <1>1, Invariance, PTL

(* However authentications, revocations, restarts and room changes race,   *)
(* the phone that holds the lease has a credential nobody revoked.         *)
THEOREM LeaseStaysCurrent == Spec => []LeaseIsCurrent
<1>1. Inv => LeaseIsCurrent
  <2> SUFFICES ASSUME Inv, lease # None PROVE LeaseIsCurrent
    BY DEF LeaseIsCurrent
  <2>1. lease \in Connections /\ Entitled(lease)
    BY DEF Inv, TypeOK, Entitled
  <2>2. held[lease] \in Tokens \ (tombs \ revoked) /\ held[lease] \notin revoked
    BY <2>1 DEF Inv, Tombstones, Buried, Controller
  <2>3. QED
    BY <2>2 DEF Inv, Controller, LeaseIsCurrent
<1>2. QED
  BY <1>1, Invariance, PTL

(* The desktop is never left busy by an attempt that has ended.            *)
THEOREM ReservationEnds == Spec => []ReservationIsInFlight
<1>1. Inv => ReservationIsInFlight
  BY DEF Inv, Controller, ReservationIsInFlight
<1>2. QED
  BY <1>1, Invariance, PTL

(* One invitation pairs one phone, for any number of racing connections.   *)
THEOREM InvitationSpentOnce == Spec => []OneCredentialPerInvitation
<1>1. Inv => OneCredentialPerInvitation
  BY DEF Inv
<1>2. QED
  BY <1>1, Invariance, PTL

(* A receipted revocation outlives every restart and every pending write.  *)
THEOREM RevocationIsDurable == Spec => []AcknowledgedIsDurable
<1>1. Inv => AcknowledgedIsDurable
  BY DEF Inv, Tombstones, Buried, AcknowledgedIsDurable
<1>2. QED
  BY <1>1, Invariance, PTL

(* The lease is never given to a second phone over the first one.          *)
THEOREM NoSteal == Spec => LeaseIsNotStolen
<1>1. Inv /\ [Next]_vars => (lease # None /\ lease' # lease => lease' = None)
  <2> SUFFICES ASSUME Inv, Next, lease # None PROVE lease' \in {lease, None}
    BY DEF vars, control
  <2>1. TypeOK /\ Controller /\ Spending
    BY DEF Inv
  <2>2. ASSUME NEW c \in Connections, GrantLease(c) PROVE lease' \in {lease, None}
    <3>1. task[c] = "touching" /\ reservation = None
      BY <2>1, <2>2 DEF Controller, GrantLease
    <3>2. c \notin live
      BY <2>1, <3>1, AuthorityAssumption DEF Controller, TypeOK
    <3>3. QED
      BY <2>2, <3>2 DEF GrantLease
  <2>3. ASSUME NEW c \in Connections, Peer(c) PROVE lease' \in {lease, None}
    BY <2>1, <2>3, Closing, CancelTypes
       DEF Peer, OpenConnection, Disconnect, Elapse, Retire, BeginPairing, DenyPairing,
           BeginAuthentication, VerifyPairingProof, ApprovePairing, Authenticate,
           RecordActivity, RevokeForAcknowledgement, control
  <2>4. ASSUME NEW c \in Connections, StoredPairing(c) PROVE lease' \in {lease, None}
    <3>1. held[c] \in Tokens
      BY <2>1, <2>4 DEF StoredPairing, Spending
    <3>2. QED
      BY <2>1, <2>4, <3>1, RevokeNowTypes DEF StoredPairing, control
  <2>5. ASSUME NEW c \in Connections,
               \/ Acknowledge(c) \/ SendAcceptance(c)
               \/ \E sound \in BOOLEAN : ReadCredential(c, sound)
        PROVE  lease' \in {lease, None}
    BY <2>1, <2>5, Closing DEF Acknowledge, SendAcceptance, ReadCredential, control
  <2>6. CASE Desktop
    BY <2>1, <2>6, Closing, CancelTypes, RevokeNowTypes, StopTypes
       DEF Desktop, OpenInvitation, CancelInvitation, InvitationLapses, Expire, Revoke,
           ReplaceSession, Stop, Restart, control
  <2>7. CASE StoreRuns \/ StoreFails
    <3>1. CASE StoreRuns
      BY <3>1 DEF StoreRuns, control
    <3>2. CASE StoreFails
      BY <2>1, <3>2, StopTypes DEF StoreFails
    <3>3. QED
      BY <2>7, <3>1, <3>2
  <2>8. QED
    BY <2>2, <2>3, <2>4, <2>5, <2>6, <2>7 DEF Next, Continuation
<1>2. QED
  BY <1>1, Invariance, PTL DEF Spec, LeaseIsNotStolen

-----------------------------------------------------------------------------
(* Credentials.  What the disk holds is accounted for, and no write comes  *)
(* behind a revocation (Provenance), because tokens are drawn once (Drawn),*)
(* because whoever writes or uses one found it stored or is the pairing it *)
(* was drawn for (Founded, Backed), and because the tail keeps its order   *)
(* (InOrder).  Withdrawing relates invitations to the pairings under way.  *)

(* A withdrawn invitation is not the current one, and a pairing that still *)
(* stores its credential under one is marked.                              *)
Withdrawing ==
  /\ invitation \notin withdrawn
  /\ \A c \in Connections : task[c] = "storing" /\ via[c] \in withdrawn => c \in outdated

(* Every token was issued, and to one pairing.                             *)
Drawn ==
  /\ creds \subseteq issued /\ tombs \subseteq issued /\ revoked \subseteq issued
  /\ \A c \in Connections : task[c] = "storing" => held[c] \in issued
  /\ \A c, d \in Connections :
       task[c] = "storing" /\ task[d] = "storing" /\ c # d => held[c] # held[d]

(* What is about to be written is on disk already, was revoked since, or   *)
(* belongs to the pairing that awaits the write.                           *)
Founded ==
  \A n \in DOMAIN tail : tail[n].kind = "write" =>
    \/ tail[n].token \in creds \cup revoked
    \/ tail[n].by # None /\ task[tail[n].by] = "storing"

(* Only a stored credential entitles to anything; a pairing's own one is   *)
(* on disk when its write is done, and not before, unless the store threw. *)
Backed ==
  \A c \in Connections :
    /\ Entitled(c) => held[c] \in creds \cup revoked
    /\ task[c] = "storing" /\ reply[c] # "done"
       => held[c] \notin creds \ (revoked \cup settled)

(* Nothing is written behind its own revocation.                           *)
InOrder ==
  \A n \in DOMAIN tail : tail[n].kind = "write" =>
    /\ tail[n].token \notin tombs
    /\ \A m \in DOMAIN tail :
         m < n /\ tail[m].kind = "revoke" => tail[m].token # tail[n].token

Provenance == Drawn /\ Founded /\ Backed /\ OrphanIsRevoked /\ InOrder

CInv == Inv /\ Withdrawing /\ Provenance

(* A step that leaves the credentials, and whoever deals with one, alone.  *)
Quiet ==
  /\ UNCHANGED <<creds, tombs, issued, settled, tail, revoked, accepted>>
  /\ opened \subseteq opened'
  /\ \A c \in Connections :
       /\ task'[c] = "storing" <=> task[c] = "storing"
       /\ task[c] = "storing" => held'[c] = held[c] /\ reply'[c] = reply[c]
       /\ task[c] = "sending" => task'[c] = "sending" /\ held'[c] = held[c]
       /\ Entitled(c)' => Entitled(c) /\ held'[c] = held[c]

-----------------------------------------------------------------------------

LEMMA QuietKeeps ==
  ASSUME TypeOK, Provenance, Quiet
  PROVE  Provenance'
<1> USE AuthorityAssumption
<1>1. Drawn' /\ Backed'
  BY DEF Provenance, Quiet, Drawn, Backed
<1>2. Founded' /\ InOrder'
  BY TailItems DEF Provenance, Quiet, Founded, InOrder
<1>3. OrphanIsRevoked'
  <2> SUFFICES ASSUME NEW t \in creds \ (revoked \cup settled)
               PROVE  \E c \in Connections : task'[c] \in {"storing", "sending"} /\ held'[c] = t
    BY DEF Quiet, OrphanIsRevoked
  <2>1. \E c \in Connections : task[c] \in {"storing", "sending"} /\ held[c] = t
    BY DEF Provenance, OrphanIsRevoked
  <2> QED
    BY <2>1 DEF Quiet
<1> QED
  BY <1>1, <1>2, <1>3 DEF Provenance

(* Most steps are quiet.                                                   *)
LEMMA QuietPeer ==
  ASSUME Inv, NEW c \in Connections,
         \/ OpenConnection(c) \/ Disconnect(c) \/ Elapse(c) \/ Retire(c)
         \/ BeginPairing(c) \/ DenyPairing(c) \/ BeginAuthentication(c)
         \/ \E good \in BOOLEAN : VerifyPairingProof(c, good)
  PROVE  Quiet
<1> USE AuthorityAssumption DEF Quiet, Entitled
<1>0. TypeOK
  BY DEF Inv
<1>1. CASE OpenConnection(c)
  BY <1>0, <1>1 DEF OpenConnection, TypeOK, control, awaits, disk, drawn, history
<1>2. CASE Disconnect(c) \/ Retire(c) \/ DenyPairing(c)
  BY <1>0, <1>2, Closing DEF Disconnect, Retire, DenyPairing, awaits, disk, drawn, history
<1>3. CASE Elapse(c) \/ BeginPairing(c) \/ BeginAuthentication(c)
  BY <1>0, <1>3 DEF Elapse, BeginPairing, BeginAuthentication, control, awaits, disk,
         drawn, history
<1>4. CASE \E good \in BOOLEAN : VerifyPairingProof(c, good)
  BY <1>0, <1>4, Closing, CancelTypes DEF VerifyPairingProof, control, awaits, disk, drawn,
         history
<1> QED
  BY <1>1, <1>2, <1>3, <1>4

LEMMA QuietDesktop ==
  ASSUME Inv,
         \/ \E i \in Invitations : OpenInvitation(i)
         \/ CancelInvitation \/ InvitationLapses \/ Expire \/ ReplaceSession \/ Stop
         \/ UNCHANGED vars
  PROVE  Quiet
<1> USE AuthorityAssumption DEF Quiet, Entitled
<1>0. TypeOK
  BY DEF Inv
<1>1. CASE \E i \in Invitations : OpenInvitation(i)
  BY <1>0, <1>1, Closing, CancelTypes DEF OpenInvitation, awaits, disk, history
<1>2. CASE CancelInvitation \/ Expire
  BY <1>0, <1>2, Closing, CancelTypes DEF CancelInvitation, Expire, awaits, disk, drawn,
         history
<1>3. CASE InvitationLapses \/ UNCHANGED vars
  BY <1>3 DEF InvitationLapses, vars, control, awaits, disk, drawn, history
<1>4. CASE ReplaceSession
  BY <1>0, <1>4, Closing DEF ReplaceSession, control, awaits, disk, drawn, history
<1>5. CASE Stop
  BY <1>0, <1>5, StopTypes DEF Stop, awaits, disk, drawn, history
<1> QED
  BY <1>1, <1>2, <1>3, <1>4, <1>5

LEMMA QuietAnswers ==
  ASSUME Inv, NEW c \in Connections, GrantLease(c) \/ Acknowledge(c)
  PROVE  Quiet
<1> USE AuthorityAssumption DEF Quiet, Entitled
<1>0. TypeOK
  BY DEF Inv
<1>1. CASE GrantLease(c)
  BY <1>0, <1>1, ResumeTypes DEF GrantLease, disk, drawn, history
<1>2. CASE Acknowledge(c)
  BY <1>0, <1>2, ResumeTypes DEF Acknowledge, control, disk, drawn
<1> QED
  BY <1>1, <1>2

-----------------------------------------------------------------------------
(* What queueing an operation does to the two rules about the tail.        *)
LEMMA FoundedAdd ==
  ASSUME TypeOK, Founded,
         NEW kind \in {"read", "write", "revoke"}, NEW token \in Tokens,
         NEW by \in Connections \cup {None}, Queue(kind, token, by),
         creds \cup revoked \subseteq creds' \cup revoked',
         \A n \in DOMAIN tail : tail[n].by # None /\ task[tail[n].by] = "storing"
                                  => task'[tail[n].by] = "storing",
         kind = "write" => \/ token \in creds' \cup revoked'
                           \/ by # None /\ task'[by] = "storing"
  PROVE  Founded'
<1> DEFINE last == Len(tail) + 1
<1>1. /\ DOMAIN tail' = DOMAIN tail \cup {last} /\ last \notin DOMAIN tail
      /\ \A n \in DOMAIN tail : tail'[n] = tail[n]
      /\ tail'[last] = [kind |-> kind, token |-> token, by |-> by]
  BY Queueing
<1> HIDE DEF last
<1>2. tail'[last].kind = kind /\ tail'[last].token = token /\ tail'[last].by = by
  BY <1>1
<1>3. ASSUME NEW n \in DOMAIN tail', tail'[n].kind = "write"
      PROVE  \/ tail'[n].token \in creds' \cup revoked'
             \/ tail'[n].by # None /\ task'[tail'[n].by] = "storing"
  <2>1. CASE n = last
    BY <1>2, <1>3, <2>1
  <2>2. CASE n \in DOMAIN tail
    BY <1>1, <1>3, <2>2 DEF Founded
  <2> QED
    BY <1>1, <2>1, <2>2
<1> QED
  BY <1>3 DEF Founded

LEMMA InOrderAdd ==
  ASSUME TypeOK, InOrder,
         NEW kind \in {"read", "write", "revoke"}, NEW token \in Tokens,
         NEW by \in Connections \cup {None}, Queue(kind, token, by),
         tombs' = tombs,
         kind = "write" => /\ token \notin tombs
                           /\ \A m \in DOMAIN tail : tail[m].kind = "revoke" => tail[m].token # token
  PROVE  InOrder'
<1> DEFINE last == Len(tail) + 1
<1>1. /\ DOMAIN tail' = DOMAIN tail \cup {last} /\ last \notin DOMAIN tail
      /\ \A n \in DOMAIN tail : tail'[n] = tail[n]
      /\ tail'[last] = [kind |-> kind, token |-> token, by |-> by]
  BY Queueing
<1>2. tail'[last].kind = kind /\ tail'[last].token = token
  BY <1>1
<1>3. ~(last < last) /\ \A n \in DOMAIN tail : ~(last < n)
  BY DEF TypeOK
<1> HIDE DEF last
<1>4. \A n \in DOMAIN tail' : ~(last < n)
  BY <1>1, <1>3
<1>5. ASSUME NEW n \in DOMAIN tail', tail'[n].kind = "write"
      PROVE  /\ tail'[n].token \notin tombs
             /\ \A m \in DOMAIN tail' :
                  m < n /\ tail'[m].kind = "revoke" => tail'[m].token # tail'[n].token
  <2>1. CASE n = last
    BY <1>1, <1>2, <1>4, <1>5, <2>1
  <2>2. CASE n \in DOMAIN tail
    BY <1>1, <1>4, <1>5, <2>2 DEF InOrder
  <2> QED
    BY <1>1, <2>1, <2>2
<1> QED
  BY <1>5 DEF InOrder

(* Another token is revoked, or the same one by its connection.            *)
LEMMA RevokingKeeps ==
  ASSUME Inv, Provenance, NEW token \in issued, NEW by \in Connections \cup {None},
         Queue("revoke", token, by), revoked' = revoked \cup {token},
         UNCHANGED <<creds, tombs, issued, settled, accepted, opened>>,
         \A c \in Connections :
           /\ task'[c] = "storing" => task[c] = "storing" /\ held'[c] = held[c]
                                      /\ reply'[c] = reply[c]
           /\ task[c] = "storing" /\ task'[c] # "storing" => held[c] = token /\ reply[c] # "none"
           /\ task[c] = "storing" => held'[c] = held[c]
           /\ task[c] = "sending" => task'[c] = "sending" /\ held'[c] = held[c]
           /\ Entitled(c)' => Entitled(c) /\ held'[c] = held[c]
  PROVE  Provenance'
<1> USE AuthorityAssumption
<1>0. TypeOK /\ Matched /\ issued \subseteq Tokens
  BY DEF Inv, Wired, TypeOK
<1>1. Drawn' /\ Backed'
  BY DEF Provenance, Drawn, Backed
<1>2. \A n \in DOMAIN tail : tail[n].by # None /\ task[tail[n].by] = "storing"
                               => task'[tail[n].by] = "storing"
  BY <1>0, TailItems, NothingQueued
<1>3. Founded'
  BY <1>0, <1>2, FoundedAdd DEF Provenance
<1>4. InOrder'
  BY <1>0, InOrderAdd DEF Provenance
<1>5. OrphanIsRevoked'
  BY DEF Provenance, OrphanIsRevoked
<1> QED
  BY <1>1, <1>3, <1>4, <1>5 DEF Provenance

LEMMA ApproveKeeps ==
  ASSUME Inv, Provenance, NEW c \in Connections, NEW token \in Tokens, ApprovePairing(c, token)
  PROVE  Provenance'
<1> USE AuthorityAssumption
<1>0. TypeOK /\ Matched /\ Stationed /\ RevokesKnown
  BY DEF Inv, Wired, Tombstones
<1>1. /\ task[c] # "storing" /\ task'[c] = "storing" /\ reply'[c] = "none" /\ held'[c] = token
      /\ c # lease /\ task[c] = "none" /\ reply' = reply
      /\ \A d \in Connections : d # c => task'[d] = task[d] /\ held'[d] = held[d]
      /\ Queue("write", token, c) /\ issued' = issued \cup {token} /\ token \notin issued
      /\ UNCHANGED <<creds, tombs, settled, accepted, opened, revoked, lease>>
  <2>1. Await(c, "storing", "write", token) /\ stage[c] = "approvable" /\ token \notin issued
        /\ held' = [held EXCEPT ![c] = token] /\ issued' = issued \cup {token}
        /\ UNCHANGED <<creds, tombs, settled, accepted, opened, revoked, lease>>
    BY DEF ApprovePairing, disk, history, control
  <2>2. task[c] = "none" /\ reply[c] = "none" /\ c # lease
    BY <1>0, <2>1 DEF Stationed, TypeOK, Tasks, Inv, Controller
  <2> QED
    BY <1>0, <2>1, <2>2, AwaitTypes DEF TypeOK, Tasks
<1>2. token \notin creds /\ token \notin tombs /\ token \notin revoked
  BY <1>1 DEF Provenance, Drawn
<1>3. Drawn'
  BY <1>1 DEF Provenance, Drawn
<1>4. Backed'
  BY <1>1, <1>2 DEF Provenance, Backed, Entitled
<1>5. \A n \in DOMAIN tail : tail[n].by # None => task'[tail[n].by] = task[tail[n].by]
  BY <1>0, <1>1, TailItems, NothingQueued
<1>6. Founded'
  BY <1>0, <1>1, <1>5, FoundedAdd DEF Provenance
<1>7. InOrder'
  BY <1>0, <1>1, <1>2, InOrderAdd DEF Provenance, RevokesKnown
<1>8. OrphanIsRevoked'
  BY <1>1 DEF Provenance, OrphanIsRevoked
<1> QED
  BY <1>3, <1>4, <1>6, <1>7, <1>8 DEF Provenance

LEMMA AuthenticateKeeps ==
  ASSUME Inv, Provenance, NEW c \in Connections, NEW token \in Tokens, Authenticate(c, token)
  PROVE  Provenance'
<1> USE AuthorityAssumption
<1>0. TypeOK /\ Matched /\ Stationed
  BY DEF Inv, Wired
<1>1. CASE token \in revoked
  <2>1. Quiet
    BY <1>0, <1>1, Closing DEF Authenticate, Quiet, Entitled, awaits, disk, drawn, history
  <2> QED
    BY <1>0, <2>1, QuietKeeps
<1>2. CASE token \notin revoked
  <2>1. /\ Await(c, "reading", "read", token) /\ stage[c] = "auth"
        /\ held' = [held EXCEPT ![c] = token]
        /\ UNCHANGED <<creds, tombs, settled, accepted, opened, issued, revoked, lease>>
    BY <1>2 DEF Authenticate, disk, history, control, drawn
  <2>2. task[c] = "none" /\ reply[c] = "none" /\ c # lease
    BY <1>0, <2>1 DEF Stationed, TypeOK, Tasks, Inv, Controller
  <2>3. /\ task'[c] = "reading" /\ reply' = reply
        /\ \A d \in Connections : d # c => task'[d] = task[d] /\ held'[d] = held[d]
        /\ Queue("read", token, c)
    BY <1>0, <2>1, AwaitTypes DEF TypeOK, Tasks
  <2>4. Drawn' /\ Backed'
    BY <2>1, <2>2, <2>3 DEF Provenance, Drawn, Backed, Entitled
  <2>5. \A n \in DOMAIN tail : tail[n].by # None => task'[tail[n].by] = task[tail[n].by]
    BY <1>0, <2>2, <2>3, TailItems, NothingQueued
  <2>6. Founded' /\ InOrder'
    BY <1>0, <2>1, <2>3, <2>5, FoundedAdd, InOrderAdd DEF Provenance
  <2>7. OrphanIsRevoked'
    BY <2>1, <2>2, <2>3 DEF Provenance, OrphanIsRevoked
  <2> QED
    BY <2>4, <2>6, <2>7 DEF Provenance
<1> QED
  BY <1>1, <1>2

LEMMA StoredKeeps ==
  ASSUME Inv, Provenance, NEW c \in Connections, StoredPairing(c)
  PROVE  Provenance'
<1> USE AuthorityAssumption
<1>0. TypeOK /\ Matched /\ Stationed /\ Spending
  BY DEF Inv, Wired
<1>1. /\ task[c] = "storing" /\ reply[c] # "none" /\ held[c] \in issued
      /\ via[c] \in opened /\ task'[c] \in {"none", "sending"}
      /\ \A d \in Connections : d # c => task'[d] = task[d] /\ reply'[d] = reply[d]
      /\ UNCHANGED <<held, creds, tombs, issued, opened, settled>>
  BY <1>0, StoredTypes DEF StoredPairing, Provenance, Drawn, disk, drawn, Spending
<1>2. CASE UNCHANGED <<control, revoked, tail>>
           /\ (reply[c] = "failed" \/ task'[c] = "sending")
  <2>1. Drawn' /\ Backed'
    BY <1>1, <1>2 DEF Provenance, Drawn, Backed, Entitled, control
  <2>2. \A n \in DOMAIN tail : tail[n].by # None => task'[tail[n].by] = task[tail[n].by]
    BY <1>0, <1>1, TailItems, NothingQueued
  <2>3. Founded' /\ InOrder'
    BY <1>1, <1>2, <2>2 DEF Provenance, Founded, InOrder
  <2>4. ASSUME NEW t \in creds \ (revoked \cup settled)
        PROVE  \E d \in Connections : task'[d] \in {"storing", "sending"} /\ held[d] = t
    <3>1. CASE t = held[c]
      <4>1. reply[c] # "failed"
        BY <1>1, <2>4, <3>1 DEF Provenance, Backed
      <4> QED
        BY <1>1, <1>2, <3>1, <4>1
    <3>2. CASE t # held[c]
      BY <1>1, <1>2, <2>4, <3>2 DEF Provenance, OrphanIsRevoked
    <3> QED
      BY <3>1, <3>2
  <2>5. OrphanIsRevoked'
    BY <1>1, <1>2, <2>4 DEF OrphanIsRevoked
  <2> QED
    BY <2>1, <2>3, <2>5 DEF Provenance
<1>3. CASE RevokeNow(held[c]) /\ UNCHANGED accepted /\ Resume(c)
  <2>1. held[c] \in Tokens
    BY <1>0, <1>1 DEF TypeOK
  <2>2. /\ Queue("revoke", held[c], None) /\ revoked' = revoked \cup {held[c]}
        /\ lease' \in {lease, None}
    BY <1>0, <1>3, <2>1, RevokeNowTypes
  <2>3. \A d \in Connections : Entitled(d)' => Entitled(d)
    BY <1>1, <2>2 DEF Entitled
  <2> QED
    BY <1>1, <1>3, <2>2, <2>3, RevokingKeeps
<1>4. Proceed(c, "sending") => task'[c] = "sending"
  BY <1>0 DEF Proceed, TypeOK
<1> QED
  BY <1>2, <1>3, <1>4 DEF StoredPairing

(* An acceptance that was sent, or dropped, settles its credential.        *)
LEMMA SentKeeps ==
  ASSUME Inv, Provenance, NEW c \in Connections, SendAcceptance(c)
  PROVE  Provenance'
<1> USE AuthorityAssumption
<1>0. TypeOK /\ Matched
  BY DEF Inv, Wired
<1>1. /\ task[c] = "sending" /\ task'[c] = "none" /\ lease' \in {lease, None}
      /\ \A d \in Connections : d # c => task'[d] = task[d] /\ reply'[d] = reply[d]
      /\ UNCHANGED <<held, creds, tombs, issued, opened, revoked, tail>>
      /\ settled' = settled \cup {held[c]}
  BY <1>0, ResumeTypes, Closing DEF SendAcceptance, disk, drawn, control
<1>2. \A n \in DOMAIN tail : tail[n].by # None => task'[tail[n].by] = task[tail[n].by]
  BY <1>0, <1>1, TailItems, NothingToSend
<1>3. Drawn' /\ Backed'
  BY <1>1 DEF Provenance, Drawn, Backed, Entitled
<1>4. Founded' /\ InOrder'
  BY <1>1, <1>2 DEF Provenance, Founded, InOrder
<1>5. OrphanIsRevoked'
  BY <1>1 DEF Provenance, OrphanIsRevoked
<1> QED
  BY <1>3, <1>4, <1>5 DEF Provenance

LEMMA ReadKeeps ==
  ASSUME Inv, Provenance, NEW c \in Connections, NEW sound \in BOOLEAN, ReadCredential(c, sound)
  PROVE  Provenance'
<1> USE AuthorityAssumption
<1>0. TypeOK /\ Matched /\ RevokesKnown /\ Buried
  BY DEF Inv, Wired, Tombstones
<1>1. task[c] = "reading" /\ UNCHANGED <<held, creds, tombs, issued, opened, settled, accepted, revoked>>
  BY DEF ReadCredential, disk, drawn, history
<1>2. CASE Resume(c) /\ tail' = tail /\ (UNCHANGED <<live, stage, control>> \/ Close({c}))
  <2>1. Quiet
    BY <1>0, <1>1, <1>2, ResumeTypes, Closing DEF Quiet, Entitled, control
  <2> QED
    BY <1>0, <2>1, QuietKeeps
<1>3. CASE /\ reply[c] = "found" /\ held[c] \notin revoked
           /\ task' = [task EXCEPT ![c] = "touching"] /\ reply' = [reply EXCEPT ![c] = "none"]
           /\ Queue("write", held[c], c) /\ UNCHANGED lease
  <2>1. Entitled(c)
    BY <1>1, <1>3 DEF Entitled
  <2>2. held[c] \in creds /\ held[c] \in Tokens \ tombs
    BY <1>0, <1>3, <2>1 DEF Provenance, Backed, Buried
  <2>3. \A d \in Connections : /\ d # c => task'[d] = task[d] /\ reply'[d] = reply[d]
                               /\ task'[c] = "touching"
    BY <1>0, <1>3 DEF TypeOK
  <2>4. Drawn' /\ Backed' /\ OrphanIsRevoked'
    BY <1>1, <1>3, <2>2, <2>3 DEF Provenance, Drawn, Backed, OrphanIsRevoked, Entitled
  <2>5. \A n \in DOMAIN tail : tail[n].by # None => task'[tail[n].by] = task[tail[n].by]
    BY <1>0, <1>3, <2>3, TailItems, NothingQueued
  <2>6. Founded'
    BY <1>0, <1>1, <1>3, <2>2, <2>5, FoundedAdd DEF Provenance
  <2>7. InOrder'
    BY <1>0, <1>1, <1>3, <2>2, InOrderAdd DEF Provenance, RevokesKnown
  <2> QED
    BY <2>4, <2>6, <2>7 DEF Provenance
<1> QED
  BY <1>2, <1>3 DEF ReadCredential

LEMMA ActivityKeeps ==
  ASSUME Inv, Provenance, NEW c \in Connections, RecordActivity(c)
  PROVE  Provenance'
<1> USE AuthorityAssumption
<1>0. TypeOK /\ RevokesKnown /\ Buried
  BY DEF Inv, Tombstones
<1>1. /\ Entitled(c) /\ held[c] \notin revoked /\ Queue("write", held[c], None)
      /\ UNCHANGED <<held, task, reply, creds, tombs, issued, opened, settled, accepted, revoked, lease>>
  BY DEF RecordActivity, Leased, Entitled, disk, drawn, history, control
<1>2. held[c] \in creds /\ held[c] \in Tokens \ tombs
  BY <1>0, <1>1 DEF Provenance, Backed, Buried
<1>3. Drawn' /\ Backed' /\ OrphanIsRevoked'
  BY <1>1 DEF Provenance, Drawn, Backed, OrphanIsRevoked, Entitled
<1>4. Founded'
  BY <1>0, <1>1, <1>2, FoundedAdd DEF Provenance
<1>5. InOrder'
  BY <1>0, <1>1, <1>2, InOrderAdd DEF Provenance, RevokesKnown
<1> QED
  BY <1>3, <1>4, <1>5 DEF Provenance

LEMMA RevokeKeeps ==
  ASSUME Inv, Provenance, NEW token \in Tokens, Revoke(token)
  PROVE  Provenance'
<1>0. TypeOK
  BY DEF Inv
<1>1. /\ token \in issued /\ RevokeNow(token)
      /\ UNCHANGED <<held, task, reply, creds, tombs, issued, opened, settled, accepted>>
  BY DEF Revoke, disk, drawn, history
<1>2. Queue("revoke", token, None) /\ revoked' = revoked \cup {token} /\ lease' \in {lease, None}
  BY <1>0, <1>1, RevokeNowTypes
<1>3. \A c \in Connections : Entitled(c)' => Entitled(c)
  BY <1>1, <1>2, AuthorityAssumption DEF Entitled
<1> QED
  BY <1>1, <1>2, <1>3, RevokingKeeps

LEMMA RevokeForKeeps ==
  ASSUME Inv, Provenance, NEW c \in Connections, RevokeForAcknowledgement(c)
  PROVE  Provenance'
<1> USE AuthorityAssumption
<1>0. TypeOK
  BY DEF Inv
<1>1. /\ Leased(c) /\ task[c] = "none" /\ revoked' = revoked \cup {held[c]} /\ Close({c})
      /\ Await(c, "acknowledging", "revoke", held[c])
      /\ UNCHANGED <<held, creds, tombs, issued, opened, settled, accepted>>
  BY DEF RevokeForAcknowledgement, disk, drawn, history
<1>2. Entitled(c) /\ lease' \in {lease, None}
  BY <1>0, <1>1, Closing DEF Leased, Entitled
<1>3. held[c] \in issued
  BY <1>2 DEF Provenance, Backed, Drawn
<1>4. /\ task'[c] = "acknowledging" /\ reply' = reply /\ Queue("revoke", held[c], c)
      /\ \A d \in Connections : d # c => task'[d] = task[d]
  BY <1>0, <1>1, AwaitTypes DEF Tasks
<1>5. \A d \in Connections : Entitled(d)' => Entitled(d)
  BY <1>1, <1>2, <1>4 DEF Entitled
<1> QED
  BY <1>1, <1>3, <1>4, <1>5, RevokingKeeps

(* The store runs the oldest operation.                                    *)
LEMMA StoreKeeps ==
  ASSUME Inv, Provenance, StoreRuns
  PROVE  Provenance'
<1> USE AuthorityAssumption
<1> DEFINE op == Head(tail)
<1>0. TypeOK /\ Matched /\ RevokesKnown
  BY DEF Inv, Wired, Tombstones
<1>1. /\ tail # <<>> /\ tail' = Tail(tail) /\ op \in Operations /\ op = tail[1] /\ 1 \in DOMAIN tail
      /\ \A n \in DOMAIN tail' : n \in Nat /\ n + 1 \in DOMAIN tail /\ 1 < n + 1 /\ tail'[n] = tail[n + 1]
      /\ \A m, n \in DOMAIN tail' : m < n => m + 1 < n + 1
  BY <1>0, TailTypes DEF StoreRuns, Answer
<1>2. UNCHANGED <<held, task, issued, opened, settled, accepted, revoked, lease>>
  BY DEF StoreRuns, drawn, history, control
<1>3. \A c \in Connections :
        /\ c # op.by => reply'[c] = reply[c]
        /\ c = op.by => op.token = held[c] /\ reply[c] = "none" /\ op.kind = KindOf[task[c]]
  BY <1>0, <1>1, AnswerTypes DEF StoreRuns, Matched, Replies
<1>4. CASE op.kind = "read"
  <2>1. /\ creds' = creds /\ tombs' = tombs
        /\ op.by \in Connections => task[op.by] = "reading" /\ (reply'[op.by] = "found" => op.token \in creds)
    BY <1>0, <1>1, <1>3, <1>4 DEF StoreRuns, disk, Answer, KindOf, TypeOK, Tasks, Operations
  <2>2. Drawn' /\ OrphanIsRevoked'
    BY <1>2, <2>1 DEF Provenance, Drawn, OrphanIsRevoked
  <2>3. Backed'
    BY <1>2, <1>3, <2>1 DEF Provenance, Backed, Entitled
  <2>4. Founded' /\ InOrder'
    BY <1>1, <1>2, <2>1 DEF Provenance, Founded, InOrder
  <2> QED
    BY <2>2, <2>3, <2>4 DEF Provenance
<1>5. CASE op.kind = "write"
  <2>1. /\ creds' = creds \cup {op.token} /\ tombs' = tombs
        /\ op.by \in Connections => task[op.by] # "reading" /\ reply'[op.by] = "done"
    BY <1>0, <1>1, <1>3, <1>5, AnswerTypes DEF StoreRuns, KindOf, TypeOK, Tasks, Replies
  <2>2. \/ op.token \in creds \cup revoked
        \/ op.by \in Connections /\ task[op.by] = "storing" /\ held[op.by] = op.token
    BY <1>1, <1>3, <1>5 DEF Provenance, Founded, Operations
  <2>3. Drawn' /\ OrphanIsRevoked'
    BY <1>2, <2>1, <2>2 DEF Provenance, Drawn, OrphanIsRevoked
  <2>4. Backed'
    BY <1>2, <1>3, <2>1, <2>2 DEF Provenance, Backed, Entitled, Drawn
  <2>5. Founded' /\ InOrder'
    BY <1>1, <1>2, <2>1 DEF Provenance, Founded, InOrder
  <2> QED
    BY <2>3, <2>4, <2>5 DEF Provenance
<1>6. CASE op.kind = "revoke"
  <2>0. creds' = creds \ {op.token} /\ tombs' = tombs \cup {op.token}
    BY <1>6 DEF StoreRuns
  <2>9. ASSUME op.by \in Connections
        PROVE  task[op.by] = "acknowledging"
    <3>1. KindOf[task[op.by]] = "revoke" /\ task[op.by] \in Tasks
      BY <1>0, <1>3, <1>6, <2>9 DEF TypeOK
    <3> QED
      BY <3>1 DEF KindOf, Tasks
  <2>1. op.token \in revoked /\ (op.by \in Connections => task[op.by] = "acknowledging")
    BY <1>0, <1>1, <1>6, <2>9 DEF RevokesKnown
  <2>2. Drawn' /\ OrphanIsRevoked'
    BY <1>2, <2>0, <2>1 DEF Provenance, Drawn, OrphanIsRevoked
  <2>3. Backed'
    BY <1>2, <1>3, <2>0, <2>1 DEF Provenance, Backed, Entitled
  <2>4. Founded' /\ InOrder'
    BY <1>1, <1>2, <1>6, <2>0, <2>1 DEF Provenance, Founded, InOrder
  <2> QED
    BY <2>2, <2>3, <2>4 DEF Provenance
<1> QED
  BY <1>1, <1>4, <1>5, <1>6 DEF Operations

LEMMA FailureKeeps ==
  ASSUME Inv, Provenance, StoreFails
  PROVE  Provenance'
<1> USE AuthorityAssumption
<1> DEFINE op == Head(tail)
<1>0. TypeOK /\ Matched /\ RevokesKnown
  BY DEF Inv, Wired, Tombstones
<1>1. /\ tail # <<>> /\ tail' = Tail(tail) /\ op \in Operations /\ op = tail[1] /\ 1 \in DOMAIN tail
      /\ \A n \in DOMAIN tail' : n \in Nat /\ n + 1 \in DOMAIN tail /\ 1 < n + 1 /\ tail'[n] = tail[n + 1]
      /\ \A m, n \in DOMAIN tail' : m < n => m + 1 < n + 1
  BY <1>0, TailTypes DEF StoreFails, Answer
<1>2. /\ UNCHANGED <<held, task, issued, opened, accepted, revoked>>
      /\ lease' \in {lease, None}
  BY <1>0, StopTypes DEF StoreFails, drawn
<1>3. \A c \in Connections : reply'[c] \in {reply[c], "failed"}
                             /\ (reply[c] = "done" => reply'[c] = reply[c])
  <2>1. \A c \in Connections : c = Head(tail).by => reply[c] = "none"
    BY <1>0, <1>1, TailTypes DEF Matched
  <2> QED
    BY <1>0, <1>1, <2>1, AnswerTypes DEF StoreFails, Replies
<1>4. CASE UNCHANGED <<disk, settled>>
  <2>1. Drawn' /\ Backed' /\ OrphanIsRevoked'
    BY <1>2, <1>3, <1>4 DEF Provenance, Drawn, Backed, OrphanIsRevoked, Entitled, disk
  <2>2. Founded' /\ InOrder'
    BY <1>1, <1>2, <1>4 DEF Provenance, Founded, InOrder, disk
  <2> QED
    BY <2>1, <2>2 DEF Provenance
<1>5. CASE /\ op.kind = "write" /\ tombs' = tombs
           /\ creds' = creds \cup {op.token} /\ settled' = settled \cup {op.token}
  <2>4. tail[1].by # None => held[tail[1].by] = tail[1].token
    BY <1>0, <1>1 DEF Matched
  <2>5. \/ tail[1].token \in creds \cup revoked
        \/ tail[1].by # None /\ task[tail[1].by] = "storing"
    BY <1>1, <1>5 DEF Provenance, Founded
  <2>6. op.by \in Connections \cup {None}
    BY <1>1 DEF Operations
  <2>1. op.token \in issued
    BY <1>1, <2>4, <2>5, <2>6 DEF Provenance, Drawn
  <2>2. Drawn' /\ Backed' /\ OrphanIsRevoked'
    BY <1>2, <1>3, <1>5, <2>1 DEF Provenance, Drawn, Backed, OrphanIsRevoked, Entitled
  <2>3. Founded' /\ InOrder'
    BY <1>1, <1>2, <1>5 DEF Provenance, Founded, InOrder
  <2> QED
    BY <2>2, <2>3 DEF Provenance
<1>6. CASE /\ op.kind = "revoke" /\ settled' = settled
           /\ creds' = creds \ {op.token} /\ tombs' = tombs \cup {op.token}
  <2>1. op.token \in revoked
    BY <1>0, <1>1, <1>6 DEF RevokesKnown
  <2>2. Drawn' /\ Backed' /\ OrphanIsRevoked'
    BY <1>2, <1>3, <1>6, <2>1 DEF Provenance, Drawn, Backed, OrphanIsRevoked, Entitled
  <2>3. Founded' /\ InOrder'
    BY <1>1, <1>2, <1>6, <2>1 DEF Provenance, Founded, InOrder
  <2> QED
    BY <2>2, <2>3 DEF Provenance
<1> QED
  BY <1>4, <1>5, <1>6 DEF StoreFails

(* A new process knows no handler; what was not sent by then is settled.   *)
LEMMA RestartKeeps ==
  ASSUME Inv, Provenance, Restart
  PROVE  Provenance'
<1> USE AuthorityAssumption
<1>1. /\ UNCHANGED <<creds, tombs, issued, opened, accepted>>
      /\ revoked' = {} /\ DOMAIN tail' = {} /\ lease' = None
      /\ \A c \in Connections : task'[c] = "none" /\ reply'[c] = "none"
      /\ settled' = issued
  BY DEF Restart, disk, drawn
<1>2. Drawn' /\ Backed' /\ Founded' /\ InOrder'
  BY <1>1 DEF Provenance, Drawn, Backed, Founded, InOrder, Entitled
<1>3. OrphanIsRevoked'
  BY <1>1 DEF Provenance, Drawn, OrphanIsRevoked
<1> QED
  BY <1>2, <1>3 DEF Provenance

LEMMA ProvenanceStep == Inv /\ Provenance /\ [Next]_vars => Provenance'
<1> SUFFICES ASSUME Inv, Provenance, [Next]_vars PROVE Provenance'
  OBVIOUS
<1>0. TypeOK
  BY DEF Inv
<1>1. ASSUME NEW c \in Connections, Peer(c) PROVE Provenance'
  BY <1>0, <1>1, QuietPeer, QuietKeeps, ApproveKeeps, AuthenticateKeeps, ActivityKeeps,
     RevokeForKeeps DEF Peer
<1>2. ASSUME NEW c \in Connections, Continuation(c) PROVE Provenance'
  BY <1>0, <1>2, QuietAnswers, QuietKeeps, StoredKeeps, SentKeeps, ReadKeeps DEF Continuation
<1>3. CASE Desktop
  BY <1>0, <1>3, QuietDesktop, QuietKeeps, RevokeKeeps, RestartKeeps DEF Desktop
<1>4. CASE UNCHANGED vars
  BY <1>0, <1>4, QuietDesktop, QuietKeeps
<1> QED
  BY <1>1, <1>2, <1>3, <1>4, StoreKeeps, FailureKeeps DEF Next

-----------------------------------------------------------------------------
(* A step that withdraws nothing keeps the marks of those still storing;   *)
(* one that does marks them all, and whatever begins later is under an     *)
(* invitation that was not withdrawn.                                      *)
LEMMA MarksKept ==
  ASSUME Withdrawing, withdrawn' = withdrawn, invitation' \in {invitation, None},
         None \notin withdrawn,
         \A c \in Connections : task'[c] = "storing" =>
           /\ task[c] = "storing" /\ via'[c] = via[c]
           /\ c \in outdated => c \in outdated'
  PROVE  Withdrawing'
  BY DEF Withdrawing

LEMMA MarksSet ==
  ASSUME TypeOK, NEW S, CancelAndClose(S), UNCHANGED <<task, via>>, invitation' \notin opened
  PROVE  Withdrawing'
  BY CancelTypes DEF Withdrawing

LEMMA WithdrawingStep == Inv /\ Withdrawing /\ [Next]_vars => Withdrawing'
<1> SUFFICES ASSUME Inv, Withdrawing, [Next]_vars PROVE Withdrawing'
  OBVIOUS
<1> USE AuthorityAssumption
<1>0. TypeOK /\ Stationed /\ Spending /\ None \notin opened /\ None \notin withdrawn
  BY DEF Inv, Wired, TypeOK
<1>1. ASSUME NEW c \in Connections,
             \/ OpenConnection(c) \/ Disconnect(c) \/ Elapse(c) \/ Retire(c)
             \/ BeginPairing(c) \/ DenyPairing(c) \/ BeginAuthentication(c)
      PROVE  Withdrawing'
  <2>1. UNCHANGED <<withdrawn, invitation, task>>
    BY <1>1 DEF OpenConnection, Disconnect, Elapse, Retire, BeginPairing, DenyPairing,
       BeginAuthentication, door, awaits, voided
  <2>2. ASSUME NEW d \in Connections, task[d] = "storing"
        PROVE  via'[d] = via[d] /\ (d \in outdated => d \in outdated')
    BY <1>0, <1>1, <2>2 DEF OpenConnection, Disconnect, Elapse, Retire, BeginPairing,
       DenyPairing, BeginAuthentication, voided, Stationed, TypeOK
  <2> QED
    BY <1>0, <2>1, <2>2, MarksKept
<1>2. ASSUME NEW c \in Connections, NEW good \in BOOLEAN, VerifyPairingProof(c, good)
      PROVE  Withdrawing'
  <2>1. UNCHANGED <<task, via>>
    BY <1>2 DEF VerifyPairingProof, awaits
  <2>2. CASE CancelAndClose({c}) /\ invitation' = None
    BY <1>0, <2>1, <2>2, MarksSet
  <2>3. CASE UNCHANGED <<voided, invitation>>
    BY <1>0, <2>1, <2>3, MarksKept DEF voided
  <2> QED
    BY <1>2, <2>2, <2>3 DEF VerifyPairingProof
<1>3. ASSUME NEW c \in Connections, NEW token \in Tokens, ApprovePairing(c, token)
      PROVE  Withdrawing'
  <2>1. /\ via' = via /\ via[c] = invitation /\ invitation' = None /\ withdrawn' = withdrawn
        /\ \A d \in Connections : d # c /\ d \in outdated => d \in outdated'
        /\ \A d \in Connections : d # c => task'[d] = task[d]
    BY <1>0, <1>3 DEF ApprovePairing, Await, TypeOK
  <2>2. via[c] \notin withdrawn
    BY <2>1 DEF Withdrawing
  <2> QED
    BY <1>0, <2>1, <2>2 DEF Withdrawing
<1>4. ASSUME NEW c \in Connections,
             \/ \E token \in Tokens : Authenticate(c, token)
             \/ RecordActivity(c) \/ RevokeForAcknowledgement(c)
      PROVE  Withdrawing'
  <2>1. /\ UNCHANGED <<withdrawn, outdated, invitation, via>>
        /\ \A d \in Connections : task'[d] = "storing" => task[d] = "storing"
    BY <1>0, <1>4 DEF Authenticate, RecordActivity, RevokeForAcknowledgement, Await, awaits,
       voided, door, TypeOK
  <2> QED
    BY <1>0, <2>1, MarksKept
<1>5. ASSUME NEW c \in Connections, Continuation(c) PROVE Withdrawing'
  <2>1. /\ UNCHANGED <<withdrawn, invitation, via>>
        /\ \A d \in Connections : task'[d] = "storing" =>
             task[d] = "storing" /\ (d \in outdated => d \in outdated')
    BY <1>0, <1>5 DEF Continuation, StoredPairing, SendAcceptance, GrantLease, Acknowledge,
       ReadCredential, Resume, Proceed, voided, door, TypeOK
  <2> QED
    BY <1>0, <2>1, MarksKept
<1>6. ASSUME NEW i \in Invitations, OpenInvitation(i) PROVE Withdrawing'
  BY <1>0, <1>6, MarksSet DEF OpenInvitation, awaits
<1>7. CASE CancelInvitation \/ Expire
  <2>1. UNCHANGED <<task, via>>
    BY <1>7 DEF CancelInvitation, Expire, awaits
  <2>2. CASE UNCHANGED <<voided, invitation>>
    BY <1>0, <2>1, <2>2, MarksKept DEF voided
  <2>3. CASE invitation' = None /\ (CancelAndClose({}) \/ CancelAndClose(overdue))
    BY <1>0, <2>1, <2>3, MarksSet
  <2> QED
    BY <1>7, <2>2, <2>3 DEF CancelInvitation, Expire
<1>8. ASSUME \/ InvitationLapses \/ ReplaceSession \/ StoreRuns \/ UNCHANGED vars
             \/ \E token \in Tokens : Revoke(token)
      PROVE  Withdrawing'
  <2>1. UNCHANGED <<withdrawn, invitation, via, task>> /\ outdated \subseteq outdated'
    BY <1>8 DEF InvitationLapses, ReplaceSession, StoreRuns, Revoke, vars, voided, door, awaits
  <2> QED
    BY <1>0, <2>1, MarksKept
<1>9. CASE Stop \/ StoreFails
  <2>1. PICK how \in {"stopped", "failed"} : StopAs(how) /\ UNCHANGED <<task, via>>
    BY <1>9 DEF Stop, StoreFails, awaits
  <2>2. CASE Available
    BY <1>0, <2>1, <2>2, MarksSet DEF StopAs
  <2>3. CASE ~Available
    BY <1>0, <2>1, <2>3, MarksKept DEF StopAs, voided
  <2> QED
    BY <2>2, <2>3
<1>10. CASE Restart
  BY <1>0, <1>10 DEF Restart, Withdrawing
<1> QED
  BY <1>1, <1>2, <1>3, <1>4, <1>5, <1>6, <1>7, <1>8, <1>9, <1>10 DEF Next, Peer, Desktop

-----------------------------------------------------------------------------
(* The results.                                                            *)

LEMMA CredentialsInit == Init => Withdrawing /\ Provenance
<1> SUFFICES ASSUME Init PROVE Withdrawing /\ Provenance
  OBVIOUS
<1> USE AuthorityAssumption
<1>1. DOMAIN tail = {} /\ \A c \in Connections : c # None /\ task[c] = "none"
  BY DEF Init
<1> QED
  BY <1>1 DEF Init, Withdrawing, Provenance, Drawn, Founded, Backed, OrphanIsRevoked, InOrder,
     Entitled

LEMMA Credentials == Spec => []CInv
<1>1. Init => CInv
  BY InvInit, CredentialsInit DEF CInv
<1>2. CInv /\ [Next]_vars => CInv'
  BY InvStep, WithdrawingStep, ProvenanceStep DEF CInv
<1> QED
  BY <1>1, <1>2, PTL DEF Spec

(* An approval the authority takes back leaves no credential behind: every *)
(* one on disk that no phone was sent still has its pairing at work, or is *)
(* revoked.  The exceptions are the property's: a death of the process, a  *)
(* store that throws after it wrote, an acceptance that cannot be sent.    *)
THEOREM NoOrphan == Spec => []OrphanIsRevoked
<1>1. CInv => OrphanIsRevoked
  BY DEF CInv, Provenance
<1> QED
  BY <1>1, Credentials, PTL

(* No write is ever refused because its credential was revoked before it.  *)
THEOREM WritesComeFirst == Spec => []NoWriteAfterRevoke
<1>1. CInv => NoWriteAfterRevoke
  <2> SUFFICES ASSUME CInv, tail # <<>>, Head(tail).kind = "write"
               PROVE  Head(tail).token \notin tombs
    BY DEF NoWriteAfterRevoke
  <2>1. 1 \in DOMAIN tail /\ Head(tail) = tail[1]
    BY TailTypes DEF CInv, Inv
  <2> QED
    BY <2>1 DEF CInv, Provenance, InOrder
<1> QED
  BY <1>1, Credentials, PTL

(* A withdrawn invitation never yields a credential, not even the one that *)
(* was being stored when it was withdrawn.                                 *)
THEOREM NothingFromWithdrawn == Spec => WithdrawnIsWorthless
<1>1. CInv /\ [Next]_vars => [\A p \in accepted' \ accepted : p[1] \notin withdrawn]_vars
  <2> SUFFICES ASSUME CInv, Next PROVE \A p \in accepted' \ accepted : p[1] \notin withdrawn
    BY DEF vars
  <2>1. ASSUME NEW c \in Connections, StoredPairing(c)
        PROVE  \A p \in accepted' \ accepted : p[1] \notin withdrawn
    <3>1. CASE accepted' = accepted
      BY <3>1
    <3>2. CASE accepted' = accepted \cup {<<via[c], held[c]>>} /\ c \notin outdated
      <4>1. task[c] = "storing"
        BY <2>1 DEF StoredPairing
      <4> QED
        BY <3>2, <4>1 DEF CInv, Withdrawing
    <3> QED
      BY <2>1, <3>1, <3>2 DEF StoredPairing
  <2>2. CASE accepted' = accepted
    BY <2>2
  <2>3. ASSUME NEW c \in Connections, Peer(c) PROVE accepted' = accepted
    BY <2>3 DEF Peer, OpenConnection, Disconnect, Elapse, Retire, BeginPairing, DenyPairing,
       BeginAuthentication, VerifyPairingProof, ApprovePairing, Authenticate, RecordActivity,
       RevokeForAcknowledgement, history
  <2>4. ASSUME NEW c \in Connections,
               \/ GrantLease(c) \/ Acknowledge(c) \/ SendAcceptance(c)
               \/ \E sound \in BOOLEAN : ReadCredential(c, sound)
        PROVE  accepted' = accepted
    BY <2>4 DEF GrantLease, Acknowledge, SendAcceptance, ReadCredential, history
  <2>5. CASE Desktop \/ StoreRuns \/ StoreFails
    <3>1. accepted' = accepted
      BY <2>5 DEF Desktop, OpenInvitation, CancelInvitation, InvitationLapses, Expire, Revoke,
         ReplaceSession, Stop, Restart, StoreRuns, StoreFails, history
    <3> QED
      BY <3>1
  <2> QED
    BY <2>1, <2>2, <2>3, <2>4, <2>5 DEF Next, Continuation
<1> QED
  BY <1>1, Credentials, PTL DEF Spec, WithdrawnIsWorthless
=============================================================================
