------------------------ MODULE HostingAccess_proofs ------------------------
(***************************************************************************)
(* Proofs about HostingAccess for any set of callers, sessions and dates.  *)
(* A running call holds the queue's head alone, so the ledger it read is   *)
(* still the committed one when it decides and when it writes (Books).     *)
(* Everything else follows from that.                                      *)
(***************************************************************************)
EXTENDS HostingAccess, TLAPS

(* The in-memory ledger of a running call against the committed one.       *)
Books ==
  \A c \in Callers :
    /\ pc[c] = "deciding" => book[c] = file
    /\ pc[c] = "writing" =>
         /\ call[c].session \in Sessions
         /\ file[call[c].session] = Absent
         /\ \E date \in Days, free \in BOOLEAN :
              /\ book[c] = [file EXCEPT ![call[c].session] =
                              [date |-> date, free |-> free]]
              /\ free => ~FreeUsedOn(file, date)
    /\ pc[c] = "committed" =>
         call[c].session \in Sessions /\ file[call[c].session] # Absent

Inv == TypeOK /\ Books /\ OneFreeSessionPerDay /\ GrantedIsCommitted

-----------------------------------------------------------------------------
(* NoCall and the empty ledger have their types.                           *)
LEMMA InitialTypes ==
  NoCall \in Calls /\ NothingStarted \in Ledgers
BY DEF NoCall, Calls, NothingStarted, Ledgers

(* Returning takes the head off the queue and leaves no call running.      *)
LEMMA ReturnType ==
  ASSUME TypeOK, NEW c \in Callers, Turn(c), NEW result \in Answers,
         Return(c, result)
  PROVE  /\ queue' \in Seq(Callers)
         /\ pc' \in [Callers -> {"idle", "queued"} \cup Running]
         /\ call' \in [Callers -> Calls]
         /\ book' \in [Callers -> Ledgers]
         /\ answer' \in Answers
         /\ \A other \in Callers : pc'[other] \notin Running
<1>1. \A other \in Callers : other # c => pc[other] \notin Running
  BY DEF TypeOK, Turn
<1>2. QED
  BY <1>1, InitialTypes DEF TypeOK, Turn, Return, Running

(* Continuing keeps the queue, so its head is still the only one running.  *)
LEMMA ContinueType ==
  ASSUME TypeOK, NEW c \in Callers, Turn(c), NEW where \in Running,
         Continue(c, where)
  PROVE  /\ queue' \in Seq(Callers)
         /\ pc' \in [Callers -> {"idle", "queued"} \cup Running]
         /\ call' \in [Callers -> Calls]
         /\ answer' \in Answers
         /\ \A other \in Callers : pc'[other] \in Running => Turn(other)'
BY DEF TypeOK, Turn, Continue, Running, Answers

(* The answers settled without the ledger are answers.                     *)
LEMMA AtOnceType == ASSUME NEW r PROVE AtOnce(r) \in Answers
BY DEF AtOnce, Answers

(* A call that records a session keeps its ledger well formed.             *)
LEMMA RecordType ==
  ASSUME TypeOK, NEW c \in Callers, Record(c)
  PROVE  book' \in [Callers -> Ledgers]
<1>1. [date |-> day, free |-> ~plus] \in Entries
  BY DEF TypeOK, Entries
<1>2. [book[c] EXCEPT ![call[c].session] = [date |-> day, free |-> ~plus]]
        \in Ledgers
  BY <1>1 DEF TypeOK, Ledgers
<1>3. QED
  BY <1>2 DEF TypeOK, Record

-----------------------------------------------------------------------------
(* Every step keeps the types and leaves at most the queue's head running. *)
LEMMA TypeStep == TypeOK /\ Books /\ [Next]_vars => TypeOK'
<1> SUFFICES ASSUME TypeOK, Books, [Next]_vars PROVE TypeOK'
  OBVIOUS
<1> USE HostingAssumption
<1>1. ASSUME NEW c \in Callers, Begin(c) PROVE TypeOK'
  <2>1. Turn(c)
    BY <1>1 DEF Begin
  <2>2. CASE AtOnce(call[c]) # "none" /\ Return(c, AtOnce(call[c])) /\ UNCHANGED granted
    <3>1. AtOnce(call[c]) \in Answers
      BY AtOnceType
    <3>2. QED
      BY <2>1, <2>2, <3>1, ReturnType DEF TypeOK, Return
  <2>3. CASE Continue(c, "reading") /\ UNCHANGED <<file, book>>
    BY <2>1, <2>3, ContinueType DEF TypeOK, Continue, Running
  <2>4. QED
    BY <1>1, <2>2, <2>3 DEF Begin
<1>2. ASSUME NEW c \in Callers, Read(c) PROVE TypeOK'
  <2>1. Turn(c)
    BY <1>2 DEF Read, TypeOK, Running
  <2>2. book' \in [Callers -> Ledgers]
    BY <1>2 DEF Read, TypeOK
  <2>3. QED
    BY <1>2, <2>1, <2>2, ContinueType DEF TypeOK, Read, Continue, Running
<1>3. ASSUME NEW c \in Callers, ReadFails(c) \/ WriteFails(c) PROVE TypeOK'
  <2>1. Turn(c)
    BY <1>3 DEF ReadFails, WriteFails, TypeOK, Running
  <2>2. Return(c, "error") /\ UNCHANGED granted
    BY <1>3 DEF ReadFails, WriteFails
  <2>3. "error" \in Answers
    BY DEF Answers
  <2>4. QED
    BY <2>1, <2>2, <2>3, ReturnType DEF TypeOK, Return
<1>4. ASSUME NEW c \in Callers, Inquire(c) PROVE TypeOK'
  <2>1. Turn(c)
    BY <1>4 DEF Inquire, TypeOK, Running
  <2>2. PICK result \in Answers : Return(c, result)
    BY <1>4 DEF Inquire, Answers
  <2>3. UNCHANGED granted
    BY <1>4 DEF Inquire
  <2>4. QED
    BY <2>1, <2>2, <2>3, ReturnType DEF TypeOK, Return
<1>5. ASSUME NEW c \in Callers, Refuse(c) PROVE TypeOK'
  <2>1. Turn(c)
    BY <1>5 DEF Refuse, TypeOK, Running
  <2>2. PICK result \in Answers : Return(c, result)
    BY <1>5 DEF Refuse, Answers
  <2>3. granted' \subseteq Sessions
    BY <1>5 DEF Refuse, Known, TypeOK
  <2>4. QED
    BY <2>1, <2>2, <2>3, ReturnType DEF TypeOK, Return
<1>6. ASSUME NEW c \in Callers, Record(c) PROVE TypeOK'
  <2>1. Turn(c)
    BY <1>6 DEF Record, TypeOK, Running
  <2>2. QED
    BY <1>6, <2>1, ContinueType, RecordType DEF TypeOK, Record, Continue, Running
<1>7. ASSUME NEW c \in Callers, Rename(c) PROVE TypeOK'
  <2>1. Turn(c)
    BY <1>7 DEF Rename, TypeOK, Running
  <2>2. QED
    BY <1>7, <2>1, ContinueType DEF TypeOK, Rename, Continue, Running
<1>8. ASSUME NEW c \in Callers, Grant(c) PROVE TypeOK'
  <2>1. Turn(c)
    BY <1>8 DEF Grant, TypeOK, Running
  <2>2. PICK result \in Answers : Return(c, result)
    BY <1>8 DEF Grant, Answers
  <2>3. granted' \subseteq Sessions
    BY <1>8 DEF Grant, Books, TypeOK
  <2>4. QED
    BY <2>1, <2>2, <2>3, ReturnType DEF TypeOK, Return
<1>9. ASSUME NEW c \in Callers, NEW r \in Calls, Ask(c, r) PROVE TypeOK'
  BY <1>9 DEF TypeOK, Ask, Turn, Running, Answers
<1>10. CASE Crash
  BY <1>10, InitialTypes DEF TypeOK, Crash, Turn, Running, Answers
<1>11. CASE PlusChanges \/ \E date \in Days : DateChanges(date)
  BY <1>11 DEF TypeOK, PlusChanges, DateChanges, Turn, Answers
<1>12. CASE UNCHANGED vars
  BY <1>12 DEF TypeOK, vars, Turn
<1>13. QED
  BY <1>1, <1>2, <1>3, <1>4, <1>5, <1>6, <1>7, <1>8, <1>9, <1>10, <1>11, <1>12
     DEF Next, Step

-----------------------------------------------------------------------------
(* Only the head of the queue runs, so no other call is in the middle of   *)
(* anything when c is.                                                     *)
LEMMA OthersWait ==
  ASSUME TypeOK, NEW c \in Callers, pc[c] \in Running,
         NEW other \in Callers, other # c
  PROVE  pc[other] \notin Running
BY DEF TypeOK, Turn

(* A step of a running call decides nothing for anybody else.              *)
LEMMA BooksOfCall ==
  ASSUME TypeOK, Books, NEW c \in Callers, pc[c] \in Running,
         \A other \in Callers : other # c => pc'[other] = pc[other],
         pc'[c] = "idle" \/ pc'[c] = "reading"
  PROVE  Books'
<1>1. \A other \in Callers : pc'[other] \notin {"deciding", "writing", "committed"}
  BY OthersWait DEF Running
<1>2. QED
  BY <1>1 DEF Books

(* A step that leaves the ledger and the books alone, and puts no call     *)
(* into a running state, leaves the running calls' books right.            *)
LEMMA BooksKept ==
  ASSUME Books, file' = file, book' = book,
         \A c \in Callers : pc'[c] \in {"deciding", "writing", "committed"}
                             => pc'[c] = pc[c] /\ call'[c] = call[c]
  PROVE  Books'
<1> SUFFICES ASSUME NEW c \in Callers
    PROVE  /\ pc'[c] = "deciding" => book'[c] = file'
           /\ pc'[c] = "writing" =>
                /\ call'[c].session \in Sessions
                /\ file'[call'[c].session] = Absent
                /\ \E date \in Days, free \in BOOLEAN :
                     /\ book'[c] = [file' EXCEPT ![call'[c].session] =
                                      [date |-> date, free |-> free]]
                     /\ free => ~FreeUsedOn(file', date)
           /\ pc'[c] = "committed" =>
                call'[c].session \in Sessions /\ file'[call'[c].session] # Absent
  BY DEF Books, FreeUsedOn
<1>1. ASSUME pc'[c] = "deciding" PROVE book'[c] = file'
  BY <1>1 DEF Books
<1>2. ASSUME pc'[c] = "committed"
      PROVE  call'[c].session \in Sessions /\ file'[call'[c].session] # Absent
  BY <1>2 DEF Books
<1>3. ASSUME pc'[c] = "writing"
      PROVE  /\ call'[c].session \in Sessions
             /\ file'[call'[c].session] = Absent
             /\ \E date \in Days, free \in BOOLEAN :
                  /\ book'[c] = [file' EXCEPT ![call'[c].session] =
                                   [date |-> date, free |-> free]]
                  /\ free => ~FreeUsedOn(file', date)
  <2>1. pc[c] = "writing" /\ call'[c] = call[c]
    BY <1>3
  <2>2. PICK date \in Days, free \in BOOLEAN :
           /\ book[c] = [file EXCEPT ![call[c].session] =
                            [date |-> date, free |-> free]]
           /\ free => ~FreeUsedOn(file, date)
    BY <2>1 DEF Books
  <2>3. free => ~FreeUsedOn(file', date)
    BY <2>2
  <2>4. QED
    BY <2>1, <2>2, <2>3 DEF Books
<1>4. QED
  BY <1>1, <1>2, <1>3

LEMMA BooksStep == TypeOK /\ Books /\ [Next]_vars => Books'
<1> SUFFICES ASSUME TypeOK, Books, [Next]_vars PROVE Books'
  OBVIOUS
<1> USE HostingAssumption
<1>1. ASSUME NEW c \in Callers, Begin(c) PROVE Books'
  <2>1. \A other \in Callers : pc[other] \notin Running
    BY <1>1 DEF Begin, TypeOK, Turn, Running
  <2>2. \A other \in Callers : pc'[other] \notin {"deciding", "writing", "committed"}
    BY <1>1, <2>1 DEF Begin, Return, Continue, TypeOK, Running
  <2>3. QED
    BY <2>2 DEF Books
<1>2. ASSUME NEW c \in Callers, Read(c) PROVE Books'
  <2>1. pc[c] \in Running
    BY <1>2 DEF Read, Running
  <2>2. \A other \in Callers : other # c => pc'[other] \notin Running
    BY <1>2, <2>1, OthersWait DEF Read, Continue, TypeOK
  <2>3. pc'[c] = "deciding" /\ book'[c] = file'
    BY <1>2 DEF Read, Continue, TypeOK
  <2>4. QED
    BY <2>2, <2>3 DEF Books, Running
<1>3. ASSUME NEW c \in Callers,
             ReadFails(c) \/ WriteFails(c) \/ Inquire(c) \/ Refuse(c) \/ Grant(c)
      PROVE  Books'
  <2>1. pc[c] \in Running
    BY <1>3 DEF ReadFails, WriteFails, Inquire, Refuse, Grant, Running
  <2>2. PICK result : Return(c, result)
    BY <1>3 DEF ReadFails, WriteFails, Inquire, Refuse, Grant
  <2>3. pc'[c] = "idle" /\ \A other \in Callers : other # c => pc'[other] = pc[other]
    BY <2>2 DEF Return, TypeOK
  <2>4. QED
    BY <2>1, <2>3, BooksOfCall
<1>4. ASSUME NEW c \in Callers, Record(c) PROVE Books'
  <2>1. pc[c] \in Running /\ book[c] = file
    BY <1>4 DEF Record, Running, Books
  <2>2. \A other \in Callers : other # c => pc'[other] \notin Running
    BY <1>4, <2>1, OthersWait DEF Record, Continue, TypeOK
  <2>3. /\ pc'[c] = "writing" /\ file' = file /\ call' = call
        /\ book'[c] = [file EXCEPT ![call[c].session] = [date |-> day, free |-> ~plus]]
    BY <1>4, <2>1 DEF Record, Continue, TypeOK
  <2>4. /\ call[c].session \in Sessions /\ file[call[c].session] = Absent
        /\ day \in Days /\ (~plus) \in BOOLEAN
        /\ ~plus => ~FreeUsedOn(file, day)
    BY <1>4, <2>1 DEF Record, Known, TypeOK
  <2>5. \E date \in Days, free \in BOOLEAN :
           /\ book'[c] = [file EXCEPT ![call[c].session] = [date |-> date, free |-> free]]
           /\ free => ~FreeUsedOn(file, date)
    BY <2>3, <2>4
  <2>6. QED
    BY <2>2, <2>3, <2>4, <2>5 DEF Books, Running, FreeUsedOn
<1>5. ASSUME NEW c \in Callers, Rename(c) PROVE Books'
  <2>1. pc[c] \in Running /\ pc[c] = "writing"
    BY <1>5 DEF Rename, Running
  <2>2. \A other \in Callers : other # c => pc'[other] \notin Running
    BY <1>5, <2>1, OthersWait DEF Rename, Continue, TypeOK
  <2>3. PICK date \in Days, free \in BOOLEAN :
           book[c] = [file EXCEPT ![call[c].session] = [date |-> date, free |-> free]]
    BY <2>1 DEF Books
  <2>4. [date |-> date, free |-> free] # Absent
    OBVIOUS
  <2>5. /\ pc'[c] = "committed" /\ call' = call
        /\ file'[call[c].session] = [date |-> date, free |-> free]
    BY <1>5, <2>1, <2>3 DEF Rename, Continue, TypeOK, Ledgers, Books
  <2>6. QED
    BY <2>1, <2>2, <2>4, <2>5 DEF Books, Running
<1>6. ASSUME NEW c \in Callers, NEW r \in Calls, Ask(c, r) PROVE Books'
  <2>1. /\ file' = file /\ book' = book
        /\ \A other \in Callers :
             pc'[other] \in Running => pc'[other] = pc[other] /\ call'[other] = call[other]
    BY <1>6 DEF Ask, TypeOK, Running
  <2>2. QED
    BY <2>1, BooksKept DEF Running
<1>7. CASE Crash
  BY <1>7 DEF Crash, Books
<1>8. CASE PlusChanges \/ (\E date \in Days : DateChanges(date)) \/ UNCHANGED vars
  <2>1. file' = file /\ book' = book /\ pc' = pc /\ call' = call
    BY <1>8 DEF PlusChanges, DateChanges, vars
  <2>2. QED
    BY <2>1, BooksKept
<1>9. QED
  BY <1>1, <1>2, <1>3, <1>4, <1>5, <1>6, <1>7, <1>8 DEF Next, Step

-----------------------------------------------------------------------------
(* The ledger moves only at a rename, and then by exactly one session that *)
(* was not there, free only when the date's allowance was untouched: a     *)
(* step of the abstract allowance.                                         *)
LEMMA LedgerStep == TypeOK /\ Books /\ [Next]_vars => [Allowance!Next]_file
<1> SUFFICES ASSUME TypeOK, Books, Next, file' # file PROVE Allowance!Next
  BY DEF vars
<1>1. PICK c \in Callers : Rename(c)
  BY DEF Next, Step, Begin, Read, ReadFails, Inquire, Refuse, Record, WriteFails,
         Grant, Ask, Crash, PlusChanges, DateChanges, Return, Continue
<1>2. PICK date \in Days, free \in BOOLEAN :
         /\ book[c] = [file EXCEPT ![call[c].session] = [date |-> date, free |-> free]]
         /\ free => ~FreeUsedOn(file, date)
  BY <1>1 DEF Rename, Books
<1>3. call[c].session \in Sessions /\ file[call[c].session] = Absent /\ file' = book[c]
  BY <1>1 DEF Rename, Books
<1>4. Allowance!Start(call[c].session, date, free)
  BY <1>2, <1>3 DEF Allowance!Start, Allowance!FreeUsedOn, FreeUsedOn
<1>5. QED
  BY <1>3, <1>4 DEF Allowance!Next

(* The abstract allowance never gives a date two free sessions.            *)
LEMMA AllowanceKeepsDates ==
  ASSUME TypeOK, OneFreeSessionPerDay, [Allowance!Next]_file
  PROVE  OneFreeSessionPerDay'
<1>1. CASE UNCHANGED file
  BY <1>1 DEF OneFreeSessionPerDay
<1>2. CASE Allowance!Next
  <2>1. PICK s \in Sessions, date \in Days, free \in BOOLEAN :
           Allowance!Start(s, date, free)
    BY <1>2 DEF Allowance!Next
  <2>2. /\ free => ~FreeUsedOn(file, date)
        /\ file' = [file EXCEPT ![s] = [date |-> date, free |-> free]]
    BY <2>1 DEF Allowance!Start, Allowance!FreeUsedOn, FreeUsedOn
  <2>3. SUFFICES ASSUME NEW t \in Sessions, NEW u \in Sessions,
                        file'[t] # Absent, file'[u] # Absent,
                        file'[t].free, file'[u].free,
                        file'[t].date = file'[u].date, t # u
                 PROVE  FALSE
    BY DEF OneFreeSessionPerDay
  <2>4. file \in Ledgers
    BY DEF TypeOK
  <2>5. CASE t # s /\ u # s
    BY <2>2, <2>3, <2>4, <2>5 DEF OneFreeSessionPerDay, Ledgers
  <2>6. CASE t = s \/ u = s
    <3>1. PICK v \in Sessions : v # s /\ (v = t \/ v = u)
      BY <2>3, <2>6
    <3>2. file'[s] = [date |-> date, free |-> free] /\ file'[v] = file[v]
      BY <2>2, <2>4, <3>1 DEF Ledgers
    <3>3. free /\ file[v] # Absent /\ file[v].free /\ file[v].date = date
      BY <2>3, <2>6, <3>1, <3>2
    <3>4. QED
      BY <2>2, <3>1, <3>3 DEF FreeUsedOn
  <2>7. QED
    BY <2>5, <2>6
<1>3. QED
  BY <1>1, <1>2

(* The abstract allowance never forgets a session.                         *)
LEMMA AllowanceRemembers ==
  ASSUME TypeOK, [Allowance!Next]_file, NEW s \in Sessions, file[s] # Absent
  PROVE  file'[s] = file[s]
BY DEF TypeOK, Ledgers, Allowance!Next, Allowance!Start

(* A session is only ever granted when the committed ledger holds it.      *)
LEMMA GrantStep ==
  ASSUME TypeOK, Books, GrantedIsCommitted, [Next]_vars
  PROVE  GrantedIsCommitted'
<1>1. [Allowance!Next]_file
  BY LedgerStep
<1>2. \A s \in granted : file'[s] = file[s] /\ file[s] # Absent
  BY <1>1, AllowanceRemembers DEF GrantedIsCommitted, TypeOK
<1>3. ASSUME NEW c \in Callers, Refuse(c) PROVE GrantedIsCommitted'
  <2>1. file' = file /\ book[c] = file
    BY <1>3 DEF Refuse, Return, Books
  <2>2. \A s \in granted' : s \in granted \/ file[s] # Absent
    BY <1>3, <2>1 DEF Refuse, Known
  <2>3. QED
    BY <1>2, <2>1, <2>2 DEF GrantedIsCommitted
<1>4. ASSUME NEW c \in Callers, Grant(c) PROVE GrantedIsCommitted'
  <2>1. file' = file /\ file[call[c].session] # Absent
    BY <1>4 DEF Grant, Return, Books
  <2>2. QED
    BY <1>2, <1>4, <2>1 DEF GrantedIsCommitted, Grant
<1>5. CASE granted' = granted
  BY <1>2, <1>5 DEF GrantedIsCommitted
<1>6. QED
  BY <1>3, <1>4, <1>5
     DEF Next, Step, Begin, Read, ReadFails, Inquire, Record, Rename, WriteFails,
         Ask, Crash, PlusChanges, DateChanges, Return, Continue, vars

LEMMA InvInit == Init => Inv
<1> SUFFICES ASSUME Init PROVE Inv
  OBVIOUS
<1>1. TypeOK
  BY InitialTypes DEF Init, TypeOK, Running, Answers
<1>2. Books
  BY DEF Init, Books
<1>3. OneFreeSessionPerDay /\ GrantedIsCommitted
  BY DEF Init, NothingStarted, OneFreeSessionPerDay, GrantedIsCommitted
<1>4. QED
  BY <1>1, <1>2, <1>3 DEF Inv

LEMMA InvStep == Inv /\ [Next]_vars => Inv'
BY TypeStep, BooksStep, LedgerStep, AllowanceKeepsDates, GrantStep DEF Inv

(* The inductive invariant holds of every execution.                       *)
THEOREM Invariance == Spec => []Inv
BY InvInit, InvStep, PTL DEF Spec

-----------------------------------------------------------------------------
(* recordSessionStarted: the types, and one running call at a time.        *)
THEOREM TypeCorrect == Spec => []TypeOK
<1>1. Inv => TypeOK
  BY DEF Inv
<1>2. QED
  BY <1>1, Invariance, PTL

(* recordSessionStarted: no date ever holds two free hosted sessions.      *)
THEOREM OneFreePerDay == Spec => []OneFreeSessionPerDay
<1>1. Inv => OneFreeSessionPerDay
  BY DEF Inv
<1>2. QED
  BY <1>1, Invariance, PTL

(* recordSessionStarted: what a creator was told survives any restart.     *)
THEOREM GrantsAreDurable == Spec => []GrantedIsCommitted
<1>1. Inv => GrantedIsCommitted
  BY DEF Inv
<1>2. QED
  BY <1>1, Invariance, PTL

(* canHostNow, remainingFreeHostsToday: no answer from a stale ledger.     *)
THEOREM NoStaleAnswer == Spec => AvailableIsTrue
<1>1. ASSUME Inv, [Next]_vars, NEW c \in Callers,
             pc[c] = "deciding", pc'[c] = "idle", answer' = "yes"
      PROVE  \/ ~FreeUsedOn(file, day)
             \/ call[c].kind = "canHost" /\ Known(file, call[c].session)
  <2>1. book[c] = file /\ TypeOK
    BY <1>1 DEF Inv, Books
  <2>2. \A other \in Callers : other # c => pc[other] \notin Running
    BY <1>1, <2>1, OthersWait DEF Running
  <2>3. Inquire(c)
    BY <1>1, <2>1, <2>2
       DEF Next, Step, Begin, Read, ReadFails, Inquire, Refuse, Record, Rename,
           WriteFails, Grant, Ask, Crash, PlusChanges, DateChanges, Return,
           Continue, vars, TypeOK, Running, Known
  <2>4. QED
    BY <1>1, <2>1, <2>3 DEF Inquire, Return
<1>2. Inv /\ [Next]_vars =>
        [\A c \in Callers :
           (pc[c] = "deciding" /\ pc'[c] = "idle" /\ answer' = "yes")
             => \/ ~FreeUsedOn(file, day)
                \/ call[c].kind = "canHost" /\ Known(file, call[c].session)]_vars
  BY <1>1
<1>3. QED
  BY <1>2, Invariance, PTL DEF Spec, AvailableIsTrue

(* LocalHostingAccessPolicy implements the allowance it promises.          *)
THEOREM Refinement == Spec => ImplementsAllowance
<1>1. Init => Allowance!Init
  BY DEF Init, Allowance!Init, NothingStarted
<1>2. Inv /\ [Next]_vars => [Allowance!Next]_file
  BY LedgerStep DEF Inv
<1>3. QED
  BY <1>1, <1>2, Invariance, PTL DEF Spec, ImplementsAllowance, Allowance!Spec

=============================================================================
