------------------------- MODULE ShowcaseRecordings -------------------------
(***************************************************************************)
(* The local showcase server (tools/showcase/server.py) and the pages that *)
(* record into it (tools/showcase/app.js).  A page uploads the chunks of   *)
(* its MediaRecorder one at a time, each up to three times; the server     *)
(* appends a chunk to the recording file and then replaces the manifest.   *)
(* The two are separate durable writes: the server process may die, or the *)
(* disk refuse, after either of them.  Requests that a page has given up   *)
(* on can still arrive.                                                    *)
(*                                                                         *)
(* Times are reduced to one bit per session: whether GAP_AFTER_SECONDS     *)
(* have passed since the server last heard from the page.                  *)
(***************************************************************************)
EXTENDS Naturals, Sequences, FiniteSets, SequencesExt

CONSTANTS Pages,        \* pages, each with the one session it starts
          MaxChunks,    \* bound: chunks a page produces; the k-th contains k
          MaxNet,       \* bound: requests on their way
          MaxFaults     \* bound: disk errors and crashes together

ASSUME RecordingsAssumption == MaxChunks \in Nat /\ MaxNet \in Nat /\ MaxFaults \in Nat

VARIABLES page,         \* what app.js keeps
          net,          \* requests on their way to the server
          mem,          \* ShowcaseState.sessions
          silent,       \* last_seen_monotonic is GAP_AFTER_SECONDS old
          job,          \* the append that holds ShowcaseState.lock
          disk,         \* the manifest files
          file,         \* the recording files
          monitor,      \* the gap_monitor thread is running
          up,           \* the server process is running
          faults        \* disk errors and crashes so far

serverVars == <<mem, silent, job, monitor, up>>
recordings == <<page, net, mem, silent, job, disk, file, monitor, up, faults>>

NoSession == [state |-> "none", ended |-> FALSE, unflushed |-> FALSE,
              chunks |-> <<>>, gaps |-> <<>>]
\* A gap is "open" or "closed"; Torn is what a failed write leaves.
Torn == 0
Attempts == 3
Message(op, p, seq, try) == [op |-> op, page |-> p, seq |-> seq, try |-> try]
NoJob == Message("none", "none", 0, 0)

-----------------------------------------------------------------------------
(* The server.  Every operator below runs under ShowcaseState.lock, which  *)
(* an append keeps between its two writes (job).                           *)

\* A handler's bookkeeping: the session, the manifest file, and whether the
\* caller gets an answer.  An OSError from write_json leaves the old manifest.
Persist(p, session, saved) ==
    /\ mem' = [mem EXCEPT ![p] = session]
    /\ saved \/ faults < MaxFaults
    /\ disk' = IF saved THEN [disk EXCEPT ![p] = session] ELSE disk
    /\ faults' = IF saved THEN faults ELSE faults + 1

\* gaps.append: of the gaps before it only whether one is open matters later.
AddGap(gaps, gap) ==
    IF \E i \in DOMAIN gaps : gaps[i] = "open" THEN <<"open", gap>> ELSE <<gap>>

CloseLast(gaps) ==
    IF gaps # <<>> /\ Last(gaps) = "open"
    THEN [gaps EXCEPT ![Len(gaps)] = "closed"] ELSE gaps

CloseGap(session) ==
    [session EXCEPT !.gaps = CloseLast(@),
                    !.state = IF session.ended THEN @ ELSE "recording"]

\* append_chunk up to the write: a replay is acknowledged, anything else but
\* the next chunk is refused, and so is a file that is not as long as the
\* chunks accepted so far.
IsReplay(p, seq) == seq <= Len(mem[p].chunks) /\ mem[p].chunks[seq] = page[p].produced[seq]

\* The size of the file is not looked at.
MayAppendAnywhere(p, seq) == seq = Len(mem[p].chunks) + 1 /\ ~mem[p].ended

MayAppend(p, seq) == /\ seq = Len(mem[p].chunks) + 1
                     /\ ~mem[p].ended
                     /\ Len(file[p]) = Len(mem[p].chunks)

AppendFails(p) ==
    /\ faults < MaxFaults
    /\ faults' = faults + 1
    /\ \E cut \in {<<>>, <<Torn>>} : file' = [file EXCEPT ![p] = @ \o cut]

\* append_chunk after the write.
Appended(session, blob) ==
    CloseGap([session EXCEPT !.chunks = Append(@, blob)])

EndSession(session) ==
    [CloseGap(session) EXCEPT !.ended = TRUE, !.state = "ended", !.unflushed = FALSE]

InterruptSession(session) ==
    [session EXCEPT !.gaps = AddGap(CloseLast(@), "closed"),
                    !.ended = TRUE, !.state = "interrupted", !.unflushed = TRUE]

MarkStale(session) ==
    [session EXCEPT !.gaps = AddGap(@, "open"), !.state = "gap"]

\* _recover_interrupted_manifests for one manifest.
RecoverManifest(m) ==
    IF m.ended \/ m.state \notin {"recording", "gap"} THEN m
    ELSE [m EXCEPT !.gaps = IF @ = <<>> \/ Last(@) # "open"
                            THEN AddGap(@, "closed") ELSE CloseLast(@),
                   !.state = "interrupted", !.ended = TRUE, !.unflushed = TRUE]

-----------------------------------------------------------------------------
(* The page: app.js.                                                       *)

\* uploading is the chunk of uploadChain in flight (0: none), done the
\* chunks confirmed, produced those the recorder has handed over.
NewPage == [phase |-> "off", produced |-> <<>>, done |-> 0, uploading |-> 0,
            try |-> 0, healthy |-> TRUE, stopped |-> FALSE]

\* failRecording, and every other way to sendInterrupt.
Interrupted(p) == Message("interrupt", p, 0, 0)

Send(r) == /\ net' = net \cup {r}
           /\ Cardinality(net') <= MaxNet

\* An upload on its way goes on, and is repeated; no other one begins.
Fail(p) == [page[p] EXCEPT !.healthy = FALSE, !.stopped = TRUE]

StartRecording(p) ==
    /\ page[p].phase = "off" /\ up /\ job = NoJob
    /\ \E saved \in BOOLEAN :
         /\ Persist(p, [NoSession EXCEPT !.state = "recording"], saved)
         /\ page' = [page EXCEPT ![p].phase = IF saved THEN "recording" ELSE "gone"]
    /\ silent' = [silent EXCEPT ![p] = FALSE]
    /\ UNCHANGED <<net, job, file, monitor, up>>

DataAvailable(p) ==
    /\ page[p].phase = "recording" /\ ~page[p].stopped
    /\ Len(page[p].produced) < MaxChunks
    /\ page' = [page EXCEPT ![p].produced = Append(@, Len(@) + 1)]
    /\ UNCHANGED <<net, serverVars, disk, file, faults>>

\* enqueueChunk at MAX_QUEUED_CHUNKS, a MediaRecorder error.
RecorderFails(p) ==
    /\ page[p].phase = "recording" /\ page[p].healthy
    /\ page' = [page EXCEPT ![p] = Fail(p)]
    /\ Send(Interrupted(p))
    /\ UNCHANGED <<serverVars, disk, file, faults>>

UploadChunk(p) ==
    LET pg == page[p] IN
    /\ pg.phase \in {"recording", "finishing"} /\ pg.healthy
    /\ pg.uploading = 0 /\ pg.done < Len(pg.produced)
    /\ page' = [page EXCEPT ![p].uploading = pg.done + 1, ![p].try = 1]
    /\ Send(Message("chunk", p, pg.done + 1, 1))
    /\ UNCHANGED <<serverVars, disk, file, faults>>

\* AbortSignal.timeout, a refused connection: the next attempt, or the end.
AttemptFails(p) ==
    LET pg == page[p] IN
    /\ pg.uploading # 0
    /\ IF pg.try < Attempts
       THEN /\ page' = [page EXCEPT ![p].try = @ + 1]
            /\ Send(Message("chunk", p, pg.uploading, pg.try + 1))
       ELSE /\ page' = [page EXCEPT ![p] = [Fail(p) EXCEPT !.uploading = 0]]
            /\ Send(Interrupted(p))
    /\ UNCHANGED <<serverVars, disk, file, faults>>

\* Every five seconds, and still after an end that failed.
SendHeartbeat(p) ==
    /\ page[p].phase \in {"recording", "finishing", "ending", "failed"} /\ page[p].healthy
    /\ Send(Message("heartbeat", p, 0, 0))
    /\ Message("heartbeat", p, 0, 0) \notin net
    /\ UNCHANGED <<page, serverVars, disk, file, faults>>

StopGracefully(p) ==
    /\ page[p].phase = "recording" /\ page[p].healthy
    /\ \E last \in {<<>>, <<Len(page[p].produced) + 1>>} :
         /\ Len(page[p].produced \o last) <= MaxChunks
         /\ page' = [page EXCEPT ![p].phase = "finishing", ![p].stopped = TRUE,
                                 ![p].produced = @ \o last]
    /\ UNCHANGED <<net, serverVars, disk, file, faults>>

\* The end is sent when the recorder has stopped.
SendEndEarly(p) ==
    /\ page[p].phase = "finishing" /\ page[p].healthy
    /\ page' = [page EXCEPT ![p].phase = "ending"]
    /\ Send(Message("end", p, 0, 0))
    /\ UNCHANGED <<serverVars, disk, file, faults>>

\* uploadChain has settled: every chunk is confirmed.
SendEnd(p) ==
    LET pg == page[p] IN
    /\ pg.phase = "finishing" /\ pg.healthy
    /\ pg.uploading = 0 /\ pg.done = Len(pg.produced)
    /\ page' = [page EXCEPT ![p].phase = "ending"]
    /\ Send(Message("end", p, 0, 0))
    /\ UNCHANGED <<serverVars, disk, file, faults>>

\* The catch block of stopRecordingGracefully: the end was refused, or an
\* upload failed before it.
EndFails(p) ==
    /\ \/ page[p].phase = "ending"
       \/ page[p].phase = "finishing" /\ ~page[p].healthy /\ page[p].uploading = 0
    /\ page' = [page EXCEPT ![p].phase = "failed"]
    /\ Send(Interrupted(p))
    /\ UNCHANGED <<serverVars, disk, file, faults>>

\* markPageInterruption.
PageHide(p) ==
    /\ page[p].phase \in {"recording", "finishing", "ending", "failed"}
    /\ page' = [page EXCEPT ![p].phase = "gone", ![p].uploading = 0]
    /\ Send(Interrupted(p))
    /\ UNCHANGED <<serverVars, disk, file, faults>>

-----------------------------------------------------------------------------
(* Requests reach do_POST in any order; a request may also be lost, or be  *)
(* refused before it changes anything.                                     *)

Lose(r) ==
    /\ r \in net
    /\ net' = net \ {r}
    /\ UNCHANGED <<page, serverVars, disk, file, faults>>

\* The answer reaches the page only while it awaits this very attempt.
Answered(r) ==
    LET pg == page[r.page] IN
    page' = IF r.op = "chunk" /\ pg.uploading = r.seq /\ pg.try = r.try
            THEN [page EXCEPT ![r.page].done = r.seq, ![r.page].uploading = 0]
            ELSE IF r.op = "end" /\ pg.phase = "ending"
                 THEN [page EXCEPT ![r.page].phase = "saved"] ELSE page

\* authenticate_session finds the session.
Receive(r) == /\ up /\ job = NoJob
              /\ r \in net /\ net' = net \ {r}
              /\ mem[r.page] # NoSession

BlobOf(r) == page[r.page].produced[r.seq]

HandleReplay(r) ==
    /\ Receive(r) /\ r.op = "chunk"
    /\ IsReplay(r.page, r.seq)
    /\ Answered(r)
    /\ UNCHANGED <<serverVars, disk, file, faults>>

\* The chunk is in the file and nothing else knows it: the lock is held.
HandleChunk(r) ==
    /\ Receive(r) /\ r.op = "chunk"
    /\ MayAppend(r.page, r.seq)
    /\ file' = [file EXCEPT ![r.page] = Append(@, BlobOf(r))]
    /\ job' = r
    /\ UNCHANGED <<page, mem, silent, disk, monitor, up, faults>>

HandleChunkFails(r) ==
    /\ Receive(r) /\ r.op = "chunk"
    /\ MayAppend(r.page, r.seq)
    /\ AppendFails(r.page)
    /\ UNCHANGED <<page, serverVars, disk>>

CommitChunk ==
    /\ up /\ job # NoJob
    /\ \E saved \in BOOLEAN :
         /\ Persist(job.page, Appended(mem[job.page], BlobOf(job)), saved)
         /\ \/ saved /\ Answered(job)
            \/ UNCHANGED page
    /\ silent' = [silent EXCEPT ![job.page] = FALSE]
    /\ job' = NoJob
    /\ UNCHANGED <<net, file, monitor, up>>

HandleHeartbeat(r) ==
    /\ Receive(r) /\ r.op = "heartbeat"
    /\ ~mem[r.page].ended
    /\ \E saved \in BOOLEAN : Persist(r.page, CloseGap(mem[r.page]), saved)
    /\ silent' = [silent EXCEPT ![r.page] = FALSE]
    /\ UNCHANGED <<page, job, file, monitor, up>>

HandleEnd(r) ==
    /\ Receive(r) /\ r.op = "end"
    /\ ~mem[r.page].ended
    /\ \E saved \in BOOLEAN :
         /\ Persist(r.page, EndSession(mem[r.page]), saved)
         /\ \/ saved /\ Answered(r)
            \/ UNCHANGED page
    /\ UNCHANGED <<silent, job, file, monitor, up>>

\* An interruption counts at any time.
HandleInterruptAlways(r) ==
    /\ Receive(r) /\ r.op = "interrupt"
    /\ \E saved \in BOOLEAN : Persist(r.page, InterruptSession(mem[r.page]), saved)
    /\ UNCHANGED <<page, silent, job, file, monitor, up>>

HandleInterrupt(r) ==
    /\ Receive(r) /\ r.op = "interrupt"
    /\ ~mem[r.page].ended
    /\ \E saved \in BOOLEAN : Persist(r.page, InterruptSession(mem[r.page]), saved)
    /\ UNCHANGED <<page, silent, job, file, monitor, up>>

\* heartbeat, end_session and interrupt_session return early.
HandleAfterEnd(r) ==
    /\ Receive(r) /\ r.op # "chunk"
    /\ mem[r.page].ended
    /\ IF r.op = "end" THEN Answered(r) ELSE UNCHANGED page
    /\ UNCHANGED <<serverVars, disk, file, faults>>

-----------------------------------------------------------------------------
(* Time, the monitor thread, the process.                                  *)

FallSilent(p) ==
    /\ up /\ mem[p] # NoSession /\ ~silent[p]
    /\ silent' = [silent EXCEPT ![p] = TRUE]
    /\ UNCHANGED <<page, net, mem, job, disk, file, monitor, up, faults>>

\* mark_stale_sessions visits the sessions one after the other under one
\* lock; an OSError leaves the thread's loop, and nothing starts it again.
IsStale(p) == mem[p].state = "recording" /\ silent[p]

\* Only the first silence of a session is noticed.
MonitorOnce ==
    /\ up /\ monitor /\ job = NoJob
    /\ \E p \in Pages : IsStale(p) /\ mem[p].gaps = <<>>
    /\ mem' = [p \in Pages |-> IF IsStale(p) THEN MarkStale(mem[p]) ELSE mem[p]]
    /\ disk' = [p \in Pages |-> IF IsStale(p) THEN mem'[p] ELSE disk[p]]
    /\ UNCHANGED <<page, net, silent, job, file, monitor, up, faults>>

Monitor ==
    /\ up /\ monitor /\ job = NoJob
    /\ \E p \in Pages : IsStale(p)
    /\ \/ /\ mem' = [p \in Pages |-> IF IsStale(p) THEN MarkStale(mem[p]) ELSE mem[p]]
          /\ disk' = [p \in Pages |-> IF IsStale(p) THEN mem'[p] ELSE disk[p]]
          /\ UNCHANGED <<monitor, faults>>
       \/ \E p \in Pages, marked \in SUBSET {q \in Pages : IsStale(q)} :
            /\ IsStale(p) /\ p \notin marked
            /\ mem' = [q \in Pages |-> IF q \in marked \cup {p} THEN MarkStale(mem[q]) ELSE mem[q]]
            /\ disk' = [q \in Pages |-> IF q \in marked THEN mem'[q] ELSE disk[q]]
            /\ faults < MaxFaults /\ faults' = faults + 1
            /\ monitor' = FALSE
    /\ UNCHANGED <<page, net, silent, job, file, up>>

Crash ==
    /\ up /\ faults < MaxFaults
    /\ up' = FALSE /\ monitor' = FALSE
    /\ mem' = [p \in Pages |-> NoSession]
    /\ job' = NoJob
    /\ faults' = faults + 1
    /\ UNCHANGED <<page, net, silent, disk, file>>

\* main: the manifests are recovered before the socket opens; the sessions
\* of earlier pages are gone, and so is the token they were given.
Restart ==
    /\ ~up
    /\ up' = TRUE /\ monitor' = TRUE
    /\ disk' = [p \in Pages |-> RecoverManifest(disk[p])]
    /\ silent' = [p \in Pages |-> FALSE]
    /\ UNCHANGED <<page, net, mem, job, file, faults>>

-----------------------------------------------------------------------------

RecordingsInit ==
    /\ page = [p \in Pages |-> NewPage]
    /\ net = {}
    /\ mem = [p \in Pages |-> NoSession]
    /\ silent = [p \in Pages |-> FALSE]
    /\ job = NoJob
    /\ disk = [p \in Pages |-> NoSession]
    /\ file = [p \in Pages |-> <<>>]
    /\ monitor = TRUE /\ up = TRUE /\ faults = 0

PageStep(p) == \/ StartRecording(p) \/ DataAvailable(p) \/ RecorderFails(p)
               \/ UploadChunk(p) \/ AttemptFails(p) \/ SendHeartbeat(p)
               \/ StopGracefully(p) \/ SendEnd(p) \/ EndFails(p) \/ PageHide(p)

Handle(r) == \/ Lose(r) \/ HandleReplay(r) \/ HandleChunk(r) \/ HandleChunkFails(r)
             \/ HandleHeartbeat(r) \/ HandleEnd(r) \/ HandleInterrupt(r)
             \/ HandleAfterEnd(r)

RecordingsNext ==
    \/ \E p \in Pages : PageStep(p) \/ FallSilent(p)
    \/ \E r \in net : Handle(r)
    \/ CommitChunk \/ Monitor \/ Crash \/ Restart

\* The monitor's loop and a handler that holds the lock keep running.
RecordingsFairness == WF_recordings(Monitor) /\ WF_recordings(CommitChunk)

RecordingsSpec == RecordingsInit /\ [][RecordingsNext]_recordings /\ RecordingsFairness

-----------------------------------------------------------------------------

Requests == [op : {"chunk", "heartbeat", "end", "interrupt"}, page : Pages,
             seq : Nat, try : Nat]

Sessions == [state : {"none", "recording", "gap", "ended", "interrupted"},
             ended : BOOLEAN, unflushed : BOOLEAN,
             chunks : Seq(Nat), gaps : Seq({"open", "closed"})]

PageStates ==
    [phase : {"off", "recording", "finishing", "ending", "saved", "failed", "gone"},
     produced : Seq(Nat), done : Nat, uploading : Nat, try : Nat,
     healthy : BOOLEAN, stopped : BOOLEAN]

RecordingsTypeOK ==
    /\ page \in [Pages -> PageStates]
    /\ net \subseteq Requests
    /\ job \in Requests \cup {NoJob}
    /\ mem \in [Pages -> Sessions] /\ disk \in [Pages -> Sessions]
    /\ silent \in [Pages -> BOOLEAN]
    /\ file \in [Pages -> Seq(Nat)]
    /\ monitor \in BOOLEAN /\ up \in BOOLEAN /\ faults \in Nat

(* A manifest never lists a chunk that the recording file does not hold at *)
(* that place: whatever fails between the two writes, the file is ahead.   *)
FileHoldsManifest == \A p \in Pages : IsPrefix(disk[p].chunks, file[p])

(* A manifest that says a recording ended, and not that it was interrupted,*)
(* describes the whole of it: every chunk the recorder handed over is in   *)
(* the file, once and in order, though uploads were repeated, arrived late *)
(* or were lost.                                                           *)
EndedIsWhole ==
    \A p \in Pages : disk[p].state = "ended" =>
        /\ ~disk[p].unflushed
        /\ file[p] = page[p].produced /\ disk[p].chunks = file[p]

(* A finished manifest is final and has no open gap: late requests, a      *)
(* restart and the monitor leave it as it is.                              *)
FinishedIsFinal ==
    [][\A p \in Pages : disk[p].ended =>
          disk'[p] = disk[p] /\ \A i \in DOMAIN disk[p].gaps : disk[p].gaps[i] # "open"]_recordings

(* While the monitor thread lives, a page that stays silent is recorded as *)
(* a gap, unless it is heard again, its session ends or the server stops.  *)
SilenceBecomesGap ==
    \A p \in Pages : IsStale(p) ~> (~IsStale(p) \/ ~monitor)
=============================================================================
