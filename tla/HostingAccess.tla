---------------------------- MODULE HostingAccess ----------------------------
(***************************************************************************)
(* LocalHostingAccessPolicy over FileHostingQuotaStore: which hosted       *)
(* sessions may start.  Callers are the pending calls of one app process.  *)
(* Each is an asynchronous closure run in the order of the calls; it reads *)
(* the whole ledger file, decides, and commits by writing a pending file   *)
(* that is renamed over the ledger.  The process may die at any moment.    *)
(* The date is the device's own and may move both ways.                    *)
(***************************************************************************)
EXTENDS Sequences

CONSTANTS Callers, Sessions, Days, Absent,
  NoSession   \* canHostNow's null session, and a blank identifier

ASSUME HostingAssumption ==
  /\ Absent \notin [date : Days, free : BOOLEAN]
  /\ NoSession \notin Sessions

VARIABLES
  file,       \* the committed ledger: session -> its entry, or Absent
  queue,      \* _pending: the calls that have not been answered, in order
  pc,         \* where each call stands
  call,       \* the arguments of each call
  book,       \* the _Ledger each running call holds in memory
  day, plus,  \* the device's date and the Plus entitlement
  answer,     \* the result this step returned to a caller, if any
  granted     \* history: sessions whose creator was told they started

vars == <<file, queue, pc, call, book, day, plus, answer, granted>>

-----------------------------------------------------------------------------
Entries == [date : Days, free : BOOLEAN]
Ledgers == [Sessions -> Entries \cup {Absent}]
NothingStarted == [s \in Sessions |-> Absent]

Call(kind, session, creator, ready) ==
  [kind |-> kind, session |-> session, creator |-> creator, ready |-> ready]

(* ready: somebody has joined, and playback or an explicit start is on.    *)
Calls ==
  {Call("canHost", s, FALSE, FALSE) : s \in Sessions \cup {NoSession}}
    \cup {Call("remaining", NoSession, FALSE, FALSE)}
    \cup {Call("start", NoSession, FALSE, TRUE)}
    \cup {Call("start", s, TRUE, ready) : s \in Sessions \cup {NoSession},
                                         ready \in BOOLEAN}

NoCall == Call("remaining", NoSession, FALSE, FALSE)

Running == {"reading", "deciding", "writing", "committed"}
Answers == {"none", "yes", "no", "error", "guest", "notStarted",
            "freeStarted", "plusStarted", "alreadyStarted", "quotaExceeded"}

FreeUsedOn(ledger, date) ==
  \E s \in Sessions :
    ledger[s] # Absent /\ ledger[s].date = date /\ ledger[s].free

Known(ledger, session) == session \in Sessions /\ ledger[session] # Absent

(* (mutant: calls are not serialized)                                      *)
AnyTurn(c) == queue # <<>>

(* _serial: a call runs once every earlier one has been answered.          *)
Turn(c) == queue # <<>> /\ Head(queue) = c

Return(c, result) ==
  /\ pc' = [pc EXCEPT ![c] = "idle"]
  /\ queue' = Tail(queue)
  /\ call' = [call EXCEPT ![c] = NoCall]
  /\ book' = [book EXCEPT ![c] = NothingStarted]
  /\ answer' = result
  /\ UNCHANGED <<file, day, plus>>

Continue(c, where) ==
  /\ pc' = [pc EXCEPT ![c] = where]
  /\ answer' = "none"
  /\ UNCHANGED <<queue, call, day, plus, granted>>

-----------------------------------------------------------------------------
(* (mutant: a call starts without waiting for the earlier ones)            *)
AskAtOnce(c, arguments) ==
  /\ pc[c] = "idle"
  /\ pc' = [pc EXCEPT ![c] = IF queue = <<>> THEN "queued" ELSE "reading"]
  /\ call' = [call EXCEPT ![c] = arguments]
  /\ queue' = Append(queue, c)
  /\ answer' = "none"
  /\ UNCHANGED <<file, book, day, plus, granted>>

Ask(c, arguments) ==
  /\ pc[c] = "idle"
  /\ pc' = [pc EXCEPT ![c] = "queued"]
  /\ call' = [call EXCEPT ![c] = arguments]
  /\ queue' = Append(queue, c)
  /\ answer' = "none"
  /\ UNCHANGED <<file, book, day, plus, granted>>

(* What the arguments and the entitlement settle without the ledger.       *)
AtOnce(r) ==
  CASE r.kind = "canHost" /\ plus                    -> "yes"
    [] r.kind = "start" /\ ~r.creator                -> "guest"
    [] r.kind = "start" /\ r.creator /\ r.session = NoSession -> "error"
    [] r.kind = "start" /\ r.creator /\ r.session # NoSession
                        /\ ~r.ready                  -> "notStarted"
    [] OTHER                                         -> "none"

Begin(c) ==
  /\ pc[c] = "queued" /\ Turn(c)
  /\ \/ /\ AtOnce(call[c]) # "none"
        /\ Return(c, AtOnce(call[c])) /\ UNCHANGED granted
     \/ /\ AtOnce(call[c]) = "none"
        /\ Continue(c, "reading") /\ UNCHANGED <<file, book>>

(* FileHostingQuotaStore.read; a missing file is an empty ledger.          *)
Read(c) ==
  /\ pc[c] = "reading"
  /\ book' = [book EXCEPT ![c] = file]
  /\ Continue(c, "deciding")
  /\ UNCHANGED file

(* (mutant: a storage error leaves the failed call at the queue's head)    *)
ReadFailsAndBlocks(c) ==
  /\ pc[c] = "reading"
  /\ Continue(c, "failed")
  /\ UNCHANGED <<file, book>>

(* Storage fails, or the committed ledger does not parse.                  *)
ReadFails(c) ==
  /\ pc[c] = "reading"
  /\ Return(c, "error")
  /\ UNCHANGED granted

Inquire(c) ==
  /\ pc[c] = "deciding" /\ call[c].kind # "start"
  /\ LET known == call[c].kind = "canHost" /\ Known(book[c], call[c].session)
     IN Return(c, IF known \/ ~FreeUsedOn(book[c], day) THEN "yes" ELSE "no")
  /\ UNCHANGED granted

Refuse(c) ==
  /\ pc[c] = "deciding" /\ call[c].kind = "start"
  /\ \/ /\ Known(book[c], call[c].session)
        /\ Return(c, "alreadyStarted")
        /\ granted' = granted \cup {call[c].session}
     \/ /\ ~Known(book[c], call[c].session)
        /\ ~plus /\ FreeUsedOn(book[c], day)
        /\ Return(c, "quotaExceeded")
        /\ UNCHANGED granted

(* (mutant: a session of a Plus host takes the day's free one)             *)
RecordPlusAsFree(c) ==
  /\ pc[c] = "deciding" /\ call[c].kind = "start"
  /\ call[c].session \in Sessions /\ ~Known(book[c], call[c].session)
  /\ plus \/ ~FreeUsedOn(book[c], day)
  /\ book' = [book EXCEPT ![c] =
                [@ EXCEPT ![call[c].session] = [date |-> day, free |-> TRUE]]]
  /\ Continue(c, "writing")
  /\ UNCHANGED file

(* The session enters the ledger in memory; nothing is granted yet.        *)
Record(c) ==
  /\ pc[c] = "deciding" /\ call[c].kind = "start"
  /\ call[c].session \in Sessions /\ ~Known(book[c], call[c].session)
  /\ plus \/ ~FreeUsedOn(book[c], day)
  /\ book' = [book EXCEPT ![c] =
                [@ EXCEPT ![call[c].session] = [date |-> day, free |-> ~plus]]]
  /\ Continue(c, "writing")
  /\ UNCHANGED file

(* (mutant: a commit keeps today's entries only)                           *)
RenamePruned(c) ==
  /\ pc[c] = "writing"
  /\ file' = [s \in Sessions |->
                IF book[c][s] # Absent /\ book[c][s].date # day
                THEN Absent ELSE book[c][s]]
  /\ Continue(c, "committed")
  /\ UNCHANGED book

(* FileHostingQuotaStore.write: until the rename a crash or an error       *)
(* leaves the ledger as it was.                                            *)
Rename(c) ==
  /\ pc[c] = "writing"
  /\ file' = book[c]
  /\ Continue(c, "committed")
  /\ UNCHANGED book

(* (mutant: a failed write does not stop the session)                      *)
WriteFailsGranted(c) ==
  /\ pc[c] = "writing"
  /\ Return(c, "freeStarted")
  /\ granted' = granted \cup {call[c].session}

WriteFails(c) ==
  /\ pc[c] = "writing"
  /\ Return(c, "error")
  /\ UNCHANGED granted

Grant(c) ==
  /\ pc[c] = "committed"
  /\ Return(c, IF book[c][call[c].session].free THEN "freeStarted"
               ELSE "plusStarted")
  /\ granted' = granted \cup {call[c].session}

-----------------------------------------------------------------------------
(* The process dies; only the ledger file survives.                        *)
Crash ==
  /\ queue' = <<>>
  /\ pc' = [c \in Callers |-> "idle"]
  /\ call' = [c \in Callers |-> NoCall]
  /\ book' = [c \in Callers |-> NothingStarted]
  /\ answer' = "none"
  /\ UNCHANGED <<file, day, plus, granted>>

DateChanges(date) ==
  /\ day' = date /\ answer' = "none"
  /\ UNCHANGED <<file, queue, pc, call, book, plus, granted>>

PlusChanges ==
  /\ plus' = ~plus /\ answer' = "none"
  /\ UNCHANGED <<file, queue, pc, call, book, day, granted>>

Init ==
  /\ file = NothingStarted
  /\ queue = <<>>
  /\ pc = [c \in Callers |-> "idle"]
  /\ call = [c \in Callers |-> NoCall]
  /\ book = [c \in Callers |-> NothingStarted]
  /\ day \in Days /\ plus \in BOOLEAN
  /\ answer = "none"
  /\ granted = {}

Step(c) ==
  \/ Begin(c) \/ Read(c) \/ ReadFails(c) \/ Inquire(c) \/ Refuse(c)
  \/ Record(c) \/ Rename(c) \/ WriteFails(c) \/ Grant(c)

Next ==
  \/ \E c \in Callers : Step(c) \/ \E r \in Calls : Ask(c, r)
  \/ Crash \/ PlusChanges
  \/ \E date \in Days : DateChanges(date)

(* The isolate runs the queue and the file system answers; nobody has to   *)
(* call, and nothing is assumed of the clock, the store or the process.    *)
Spec == Init /\ [][Next]_vars /\ \A c \in Callers : WF_vars(Step(c))

-----------------------------------------------------------------------------
(* Every variable stays in its range, and only the head of the queue runs. *)
TypeOK ==
  /\ file \in Ledgers
  /\ queue \in Seq(Callers)
  /\ pc \in [Callers -> {"idle", "queued"} \cup Running]
  /\ call \in [Callers -> Calls]
  /\ book \in [Callers -> Ledgers]
  /\ day \in Days /\ plus \in BOOLEAN
  /\ answer \in Answers
  /\ granted \subseteq Sessions
  /\ \A c \in Callers : pc[c] \in Running => Turn(c)

(* One free hosted session per calendar date, however many calls raced for *)
(* it, whatever crashed, and wherever the clock was moved.                 *)
OneFreeSessionPerDay ==
  \A s, t \in Sessions :
    (/\ file[s] # Absent /\ file[t] # Absent
     /\ file[s].free /\ file[t].free
     /\ file[s].date = file[t].date) => s = t

(* "Grant only after durable commit": a session its creator was told had   *)
(* started is in the ledger a restart finds, so it stays resumable.        *)
GrantedIsCommitted == \A s \in granted : file[s] # Absent

(* "A caller never sees an allowance before a previously requested         *)
(* consumption is committed": an inquiry is not answered from a stale read.*)
AvailableIsTrue ==
  [][\A c \in Callers :
       (pc[c] = "deciding" /\ pc'[c] = "idle" /\ answer' = "yes")
         => \/ ~FreeUsedOn(file, day)
            \/ call[c].kind = "canHost" /\ Known(file, call[c].session)]_vars

(* "A failed write cannot poison the queue": every call is answered.       *)
EveryCallIsAnswered == \A c \in Callers : pc[c] = "queued" ~> pc[c] = "idle"

(* The ledger only ever changes the way the allowance promises.            *)
Allowance == INSTANCE HostingAllowance WITH started <- file
ImplementsAllowance == Allowance!Spec

=============================================================================
