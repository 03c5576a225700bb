---------------------- MODULE ShowcaseRecordings_proofs ----------------------
(***************************************************************************)
(* Proofs about ShowcaseRecordings, for any pages and any bounds.          *)
(*                                                                         *)
(* None of the three safety properties is inductive by itself: what the    *)
(* manifest says depends on the session in memory, that on the append that *)
(* holds the lock, and what the page counts as confirmed on both; and a    *)
(* request may come long after the page has stopped.                       *)
(***************************************************************************)
EXTENDS ShowcaseRecordings, TLAPS

\* s is <<1, 2, 3, ...>>: chunks once and in order.
Counting(s) == \A i \in 1..Len(s) : s[i] = i

\* The pages that neither record nor upload.
Over == {"ending", "saved", "failed", "gone"}

\* What a session or a manifest says is consistent: only the last gap can be
\* open, and none of one that is over.
Sound(session) ==
    /\ Counting(session.chunks)
    /\ session.ended <=> session.state \in {"ended", "interrupted"}
    /\ session.state = "ended" => ~session.unflushed
    /\ \A i \in 1..Len(session.gaps) :
          session.gaps[i] = "open" => i = Len(session.gaps) /\ session.state = "gap"
    /\ session.state = "none" => session = NoSession

Tidy == \A p \in Pages : Sound(mem[p]) /\ Sound(disk[p])

\* A page that has not begun is unknown to everybody.
Unknown ==
    \A p \in Pages : page[p].phase = "off" =>
        /\ page[p].produced = <<>> /\ page[p].done = 0
        /\ mem[p] = NoSession /\ disk[p] = NoSession /\ file[p] = <<>>
        /\ \A r \in net : r.page # p

\* The page's own counters.
Counted ==
    \A p \in Pages :
        /\ Counting(page[p].produced)
        /\ Len(page[p].produced) <= MaxChunks
        /\ page[p].done <= Len(page[p].produced)
        /\ page[p].uploading <= Len(page[p].produced)
        /\ page[p].phase \in Over \cup {"off"} => page[p].uploading = 0
        /\ page[p].phase \in {"ending", "saved"} => page[p].done = Len(page[p].produced)

\* A request names a chunk there is, and an end means that all were confirmed.
Sent ==
    \A r \in net :
        /\ r.op = "chunk" => r.seq \in 1..Len(page[r.page].produced)
        /\ r.op = "end" => /\ page[r.page].phase \in Over
                           /\ page[r.page].done = Len(page[r.page].produced)

\* The append that holds the lock has put just the next chunk in the file.
Appending ==
    job # NoJob =>
        /\ up /\ job.op = "chunk"
        /\ mem[job.page] # NoSession /\ ~mem[job.page].ended
        /\ job.seq = Len(mem[job.page].chunks) + 1
        /\ job.seq = Len(file[job.page]) /\ file[job.page][job.seq] = job.seq
        /\ job.seq <= Len(page[job.page].produced)

\* The file holds what the session in memory lists, and more only while a
\* chunk is still to come; the session lists what the page counts as confirmed.
Ahead ==
    \A p \in Pages : mem[p] # NoSession =>
        /\ up
        /\ page[p].done <= Len(mem[p].chunks)
        /\ Len(mem[p].chunks) <= Len(page[p].produced)
        /\ Len(mem[p].chunks) <= Len(file[p])
        /\ \A i \in 1..Len(mem[p].chunks) : file[p][i] = i
        /\ Len(mem[p].chunks) < Len(file[p]) => Len(mem[p].chunks) < Len(page[p].produced)
        /\ disk[p].ended => mem[p].ended

\* The same of the manifest, whoever remembers the session.
Listed ==
    \A p \in Pages :
        /\ Len(disk[p].chunks) <= Len(file[p])
        /\ \A i \in 1..Len(disk[p].chunks) : file[p][i] = i
        /\ disk[p].state = "ended" =>
              /\ page[p].phase \in Over
              /\ Len(disk[p].chunks) = Len(page[p].produced)
              /\ Len(file[p]) = Len(page[p].produced)

IInv == /\ RecordingsTypeOK
        /\ Tidy /\ Unknown /\ Counted /\ Sent /\ Appending /\ Ahead /\ Listed

-----------------------------------------------------------------------------
(* Types.                                                                  *)

LEMMA CloseLastIsTyped ==
    ASSUME NEW gaps \in Seq({"open", "closed"})
    PROVE  CloseLast(gaps) \in Seq({"open", "closed"})
<1>1. CASE gaps # <<>> /\ Last(gaps) = "open"
  <2>1. CloseLast(gaps) \in [1..Len(gaps) -> {"open", "closed"}]
    BY <1>1 DEF CloseLast
  <2> QED
    BY <2>1
<1>2. CASE ~(gaps # <<>> /\ Last(gaps) = "open")
  BY <1>2 DEF CloseLast
<1> QED
  BY <1>1, <1>2

LEMMA AddGapIsTyped ==
    ASSUME NEW gaps, NEW gap \in {"open", "closed"}
    PROVE  AddGap(gaps, gap) \in Seq({"open", "closed"})
<1>1. <<gap>> \in Seq({"open", "closed"})
  OBVIOUS
<1>2. <<"open", gap>> \in Seq({"open", "closed"})
  OBVIOUS
<1> QED
  BY <1>1, <1>2 DEF AddGap

LEMMA NewSessionsAreTyped ==
    NoSession \in Sessions /\ [NoSession EXCEPT !.state = "recording"] \in Sessions
<1>1. <<>> \in Seq(Nat) /\ <<>> \in Seq({"open", "closed"})
  OBVIOUS
<1>2. NoSession \in Sessions
  BY <1>1 DEF NoSession, Sessions
<1>3. \A s \in Sessions : [s EXCEPT !.state = "recording"] \in Sessions
  BY DEF Sessions
<1> QED
  BY <1>2, <1>3

LEMMA SessionsAreTyped ==
    ASSUME NEW s \in Sessions, NEW blob \in Nat
    PROVE  /\ CloseGap(s) \in Sessions
           /\ Appended(s, blob) \in Sessions
           /\ EndSession(s) \in Sessions
           /\ InterruptSession(s) \in Sessions
           /\ MarkStale(s) \in Sessions
           /\ RecoverManifest(s) \in Sessions
<1>2. ASSUME NEW t \in Sessions PROVE CloseGap(t) \in Sessions
  <2>1. CloseLast(t.gaps) \in Seq({"open", "closed"})
    BY CloseLastIsTyped DEF Sessions
  <2> QED
    BY <2>1 DEF CloseGap, Sessions
<1>3. Appended(s, blob) \in Sessions
  <2>1. Append(s.chunks, blob) \in Seq(Nat)
    BY DEF Sessions
  <2>2. [s EXCEPT !.chunks = Append(@, blob)] \in Sessions
    BY <2>1 DEF Sessions
  <2> QED
    BY <2>2, <1>2 DEF Appended
<1>4. EndSession(s) \in Sessions
  BY <1>2 DEF EndSession, Sessions
<1>5. InterruptSession(s) \in Sessions
  <2>1. AddGap(CloseLast(s.gaps), "closed") \in Seq({"open", "closed"})
    BY AddGapIsTyped
  <2> QED
    BY <2>1 DEF InterruptSession, Sessions
<1>6. MarkStale(s) \in Sessions
  <2>1. AddGap(s.gaps, "open") \in Seq({"open", "closed"})
    BY AddGapIsTyped
  <2> QED
    BY <2>1 DEF MarkStale, Sessions
<1>7. RecoverManifest(s) \in Sessions
  <2>1. AddGap(s.gaps, "closed") \in Seq({"open", "closed"})
    BY AddGapIsTyped
  <2>2. CloseLast(s.gaps) \in Seq({"open", "closed"})
    BY CloseLastIsTyped DEF Sessions
  <2> QED
    BY <2>1, <2>2 DEF RecoverManifest, Sessions
<1> QED
  BY <1>2, <1>3, <1>4, <1>5, <1>6, <1>7

\* What becomes of a page when an answer reaches it.
LEMMA AnsweredIsTyped ==
    ASSUME RecordingsTypeOK, NEW r \in Requests, Answered(r)
    PROVE  page' \in [Pages -> PageStates]
<1> DEFINE p == r.page
<1> DEFINE pg == page[r.page]
<1>0. page \in [Pages -> PageStates] /\ p \in Pages /\ pg \in PageStates /\ r.seq \in Nat
  BY DEF RecordingsTypeOK, Requests
<1>1. [[pg EXCEPT !.done = r.seq] EXCEPT !.uploading = 0] \in PageStates
  BY <1>0 DEF PageStates
<1>2. [pg EXCEPT !.phase = "saved"] \in PageStates
  BY <1>0 DEF PageStates
<1>3. \/ page' = [page EXCEPT ![p] = [[pg EXCEPT !.done = r.seq] EXCEPT !.uploading = 0]]
      \/ page' = [page EXCEPT ![p] = [pg EXCEPT !.phase = "saved"]]
      \/ page' = page
  BY DEF Answered
<1> QED
  BY <1>0, <1>1, <1>2, <1>3

LEMMA PersistIsTyped ==
    ASSUME RecordingsTypeOK, NEW p \in Pages, NEW session \in Sessions, NEW saved \in BOOLEAN,
           Persist(p, session, saved)
    PROVE  /\ mem' \in [Pages -> Sessions] /\ disk' \in [Pages -> Sessions]
           /\ faults' \in Nat
BY DEF RecordingsTypeOK, Persist

LEMMA TypeStep ==
    ASSUME RecordingsTypeOK, Counted, Sent, Appending, [RecordingsNext]_recordings
    PROVE  RecordingsTypeOK'
<1> USE RecordingsAssumption DEF RecordingsTypeOK
<1>1. CASE UNCHANGED recordings
  BY <1>1 DEF recordings
<1>2. ASSUME NEW p \in Pages, PageStep(p) PROVE RecordingsTypeOK'
  <2> DEFINE pg == page[p]
  <2>0. page[p] \in PageStates /\ pg.produced \in Seq(Nat)
    BY DEF PageStates
  <2>a. ASSUME NEW op \in {"chunk", "heartbeat", "end", "interrupt"},
               NEW seq \in Nat, NEW try \in Nat,
               Send(Message(op, p, seq, try))
        PROVE  net' \subseteq Requests
    BY <2>a DEF Send, Message, Requests
  <2>b. ASSUME Send(Interrupted(p)) PROVE net' \subseteq Requests
    BY <2>a, <2>b DEF Interrupted, Attempts
  <2>c. Fail(p) \in PageStates /\ [Fail(p) EXCEPT !.uploading = 0] \in PageStates
    BY <2>0 DEF Fail, PageStates
  <2>1. CASE StartRecording(p)
    <3>1. PICK saved \in BOOLEAN :
             /\ Persist(p, [NoSession EXCEPT !.state = "recording"], saved)
             /\ page' = [page EXCEPT ![p].phase = IF saved THEN "recording" ELSE "gone"]
      BY <2>1 DEF StartRecording
    <3>2. [NoSession EXCEPT !.state = "recording"] \in Sessions
      BY NewSessionsAreTyped
    <3>3. page' \in [Pages -> PageStates]
      BY <3>1, <2>0 DEF PageStates
    <3> QED
      BY <2>1, <3>1, <3>2, <3>3, PersistIsTyped DEF StartRecording
  <2>2. CASE DataAvailable(p)
    <3>1. Append(pg.produced, Len(pg.produced) + 1) \in Seq(Nat)
      BY <2>0
    <3> QED
      BY <2>2, <3>1, <2>0 DEF DataAvailable, PageStates, serverVars
  <2>3. CASE RecorderFails(p)
    BY <2>3, <2>b, <2>c DEF RecorderFails, serverVars
  <2>4. CASE UploadChunk(p)
    <3>1. pg.done + 1 \in Nat
      BY <2>4, <2>0 DEF UploadChunk, Counted, PageStates, Attempts
    <3>2. net' \subseteq Requests
      BY <2>4, <3>1, <2>a DEF UploadChunk
    <3> QED
      BY <2>4, <3>1, <3>2, <2>0 DEF UploadChunk, PageStates, serverVars
  <2>5. CASE AttemptFails(p)
    <3>1. CASE pg.try < Attempts
      <4>1. pg.uploading \in Nat /\ pg.try + 1 \in Nat
        BY <3>1, <2>0 DEF PageStates, Attempts
      <4>2. Send(Message("chunk", p, pg.uploading, pg.try + 1))
        BY <2>5, <3>1 DEF AttemptFails
      <4>3. net' \subseteq Requests
        BY <4>1, <4>2, <2>a
      <4>4. [pg EXCEPT !.try = pg.try + 1] \in PageStates
        BY <4>1, <2>0 DEF PageStates
      <4>5. page' = [page EXCEPT ![p] = [pg EXCEPT !.try = pg.try + 1]]
        BY <2>5, <3>1 DEF AttemptFails
      <4>6. page' \in [Pages -> PageStates]
        BY <4>4, <4>5
      <4> QED
        BY <2>5, <4>3, <4>6 DEF AttemptFails, serverVars
    <3>2. CASE ~(pg.try < Attempts)
      BY <2>5, <3>2, <2>b, <2>c DEF AttemptFails, serverVars
    <3> QED
      BY <3>1, <3>2
  <2>6. CASE SendHeartbeat(p)
    <3>1. net' \subseteq Requests
      BY <2>6, <2>a DEF SendHeartbeat, Attempts
    <3> QED
      BY <2>6, <3>1 DEF SendHeartbeat, serverVars
  <2>7. CASE StopGracefully(p)
    <3>1. PICK last \in {<<>>, <<Len(pg.produced) + 1>>} :
             page' = [page EXCEPT ![p].phase = "finishing", ![p].stopped = TRUE,
                                  ![p].produced = @ \o last]
      BY <2>7 DEF StopGracefully
    <3>2. last \in Seq(Nat)
      <4>1. Len(pg.produced) + 1 \in Nat
        BY <2>0
      <4>2. <<>> \in Seq(Nat) /\ <<Len(pg.produced) + 1>> \in Seq(Nat)
        BY <4>1
      <4> QED
        BY <4>2
    <3>3. pg.produced \o last \in Seq(Nat)
      BY <2>0, <3>2
    <3>4. [[[pg EXCEPT !.phase = "finishing"] EXCEPT !.stopped = TRUE]
              EXCEPT !.produced = pg.produced \o last] \in PageStates
      BY <2>0, <3>3 DEF PageStates
    <3>5. page' = [page EXCEPT ![p] = [[[pg EXCEPT !.phase = "finishing"] EXCEPT !.stopped = TRUE]
                                         EXCEPT !.produced = pg.produced \o last]]
      BY <3>1
    <3>6. page' \in [Pages -> PageStates]
      BY <3>4, <3>5
    <3> QED
      BY <2>7, <3>6 DEF StopGracefully, serverVars
  <2>8. CASE SendEnd(p)
    <3>0. Send(Message("end", p, 0, 0))
      BY <2>8 DEF SendEnd
    <3>1. net' \subseteq Requests
      BY <3>0, <2>a
    <3> QED
      BY <2>8, <3>1, <2>0 DEF SendEnd, PageStates, serverVars
  <2>9. CASE EndFails(p)
    BY <2>9, <2>b, <2>0 DEF EndFails, PageStates, serverVars
  <2>10. CASE PageHide(p)
    BY <2>10, <2>b, <2>0 DEF PageHide, PageStates, serverVars
  <2> QED
    BY <1>2, <2>1, <2>2, <2>3, <2>4, <2>5, <2>6, <2>7, <2>8, <2>9, <2>10 DEF PageStep
<1>3. ASSUME NEW r \in net, Handle(r) PROVE RecordingsTypeOK'
  <2>0. r \in Requests /\ r.page \in Pages /\ mem[r.page] \in Sessions
    BY DEF Requests
  <2>a. Receive(r) => net' \subseteq Requests
    BY DEF Receive
  <2>1. CASE Lose(r)
    BY <2>1 DEF Lose, serverVars
  <2>2. CASE HandleReplay(r)
    BY <2>2, <2>0, <2>a, AnsweredIsTyped DEF HandleReplay, serverVars
  <2>3. CASE HandleChunk(r)
    <3>1. BlobOf(r) \in Nat
      <4>1. r.seq \in 1..Len(page[r.page].produced)
        BY <2>3 DEF HandleChunk, Sent
      <4>2. page[r.page].produced \in Seq(Nat)
        BY <2>0 DEF PageStates
      <4>3. \A q \in Seq(Nat) : \A i \in 1..Len(q) : q[i] \in Nat
        OBVIOUS
      <4> QED
        BY <4>1, <4>2, <4>3 DEF BlobOf
    <3> QED
      BY <2>3, <2>0, <2>a, <3>1 DEF HandleChunk
  <2>4. CASE HandleChunkFails(r)
    <3>0. PICK cut \in {<<>>, <<Torn>>} : file' = [file EXCEPT ![r.page] = @ \o cut]
      BY <2>4 DEF HandleChunkFails, AppendFails
    <3>a. <<>> \in Seq(Nat) /\ <<Torn>> \in Seq(Nat)
      BY DEF Torn
    <3>b. cut \in Seq(Nat) /\ file[r.page] \in Seq(Nat)
      BY <3>a, <2>0
    <3>c. file[r.page] \o cut \in Seq(Nat)
      BY <3>b
    <3>d. file' \in [Pages -> Seq(Nat)]
      BY <3>0, <3>c
    <3>e. faults' \in Nat
      BY <2>4 DEF HandleChunkFails, AppendFails
    <3>1. file' \in [Pages -> Seq(Nat)] /\ faults' \in Nat
      BY <3>d, <3>e
    <3> QED
      BY <2>4, <2>0, <2>a, <3>1 DEF HandleChunkFails, serverVars
  <2>5. CASE HandleHeartbeat(r)
    <3>1. PICK saved \in BOOLEAN : Persist(r.page, CloseGap(mem[r.page]), saved)
      BY <2>5 DEF HandleHeartbeat
    <3>2. CloseGap(mem[r.page]) \in Sessions
      BY <2>0, SessionsAreTyped
    <3>3. silent' \in [Pages -> BOOLEAN]
      BY <2>5, <2>0 DEF HandleHeartbeat
    <3> QED
      BY <2>5, <2>0, <2>a, <3>1, <3>2, <3>3, PersistIsTyped DEF HandleHeartbeat
  <2>6. CASE HandleEnd(r)
    <3>1. PICK saved \in BOOLEAN :
             /\ Persist(r.page, EndSession(mem[r.page]), saved)
             /\ \/ saved /\ Answered(r)
                \/ UNCHANGED page
      BY <2>6 DEF HandleEnd
    <3>2. EndSession(mem[r.page]) \in Sessions
      BY <2>0, SessionsAreTyped
    <3>3. page' \in [Pages -> PageStates]
      BY <3>1, <2>0, AnsweredIsTyped
    <3> QED
      BY <2>6, <2>0, <2>a, <3>1, <3>2, <3>3, PersistIsTyped DEF HandleEnd
  <2>7. CASE HandleInterrupt(r)
    <3>1. PICK saved \in BOOLEAN : Persist(r.page, InterruptSession(mem[r.page]), saved)
      BY <2>7 DEF HandleInterrupt
    <3>2. InterruptSession(mem[r.page]) \in Sessions
      BY <2>0, SessionsAreTyped
    <3> QED
      BY <2>7, <2>0, <2>a, <3>1, <3>2, PersistIsTyped DEF HandleInterrupt
  <2>8. CASE HandleAfterEnd(r)
    <3>1. page' \in [Pages -> PageStates]
      BY <2>8, <2>0, AnsweredIsTyped DEF HandleAfterEnd
    <3> QED
      BY <2>8, <2>a, <3>1 DEF HandleAfterEnd, serverVars
  <2> QED
    BY <1>3, <2>1, <2>2, <2>3, <2>4, <2>5, <2>6, <2>7, <2>8 DEF Handle
<1>4. ASSUME NEW p \in Pages, FallSilent(p) PROVE RecordingsTypeOK'
  BY <1>4 DEF FallSilent
<1>5. CASE CommitChunk
  <2>1. job \in Requests /\ job.page \in Pages /\ mem[job.page] \in Sessions
    BY <1>5 DEF CommitChunk, Requests
  <2>2. PICK saved \in BOOLEAN :
           /\ Persist(job.page, Appended(mem[job.page], BlobOf(job)), saved)
           /\ \/ saved /\ Answered(job)
              \/ UNCHANGED page
    BY <1>5 DEF CommitChunk
  <2>3. Appended(mem[job.page], BlobOf(job)) \in Sessions
    <3>1. BlobOf(job) \in Nat
      <4>1. job.seq \in 1..Len(page[job.page].produced)
        <5>1. job.seq \in Nat /\ job.seq >= 1 /\ job.seq <= Len(page[job.page].produced)
          BY <1>5, <2>1 DEF CommitChunk, Appending, Sessions
        <5>2. page[job.page].produced \in Seq(Nat)
          BY <2>1 DEF PageStates
        <5> QED
          BY <5>1, <5>2
      <4>2. page[job.page].produced \in Seq(Nat)
        BY <2>1 DEF PageStates
      <4>3. \A q \in Seq(Nat) : \A i \in 1..Len(q) : q[i] \in Nat
        OBVIOUS
      <4> QED
        BY <4>1, <4>2, <4>3 DEF BlobOf
    <3> QED
      BY <2>1, <3>1, SessionsAreTyped
  <2>4. page' \in [Pages -> PageStates]
    BY <2>1, <2>2, AnsweredIsTyped
  <2> QED
    BY <1>5, <2>1, <2>2, <2>3, <2>4, PersistIsTyped DEF CommitChunk
<1>6. CASE Monitor
  <2>1. \A p \in Pages : MarkStale(mem[p]) \in Sessions
    BY SessionsAreTyped
  <2>2. mem' \in [Pages -> Sessions]
    BY <1>6, <2>1 DEF Monitor
  <2>3. disk' \in [Pages -> Sessions]
    BY <1>6, <2>2 DEF Monitor
  <2> QED
    <3>1. monitor' \in BOOLEAN
      BY <1>6 DEF Monitor
    <3>2. faults' = faults \/ faults' = faults + 1
      BY <1>6 DEF Monitor
    <3> QED
      BY <1>6, <2>2, <2>3, <3>1, <3>2 DEF Monitor
<1>7. CASE Crash
  <2>1. mem' \in [Pages -> Sessions]
    BY <1>7, NewSessionsAreTyped DEF Crash
  <2>2. faults' \in Nat
    BY <1>7 DEF Crash
  <2> QED
    BY <1>7, <2>1, <2>2 DEF Crash
<1>8. CASE Restart
  <2>1. \A p \in Pages : RecoverManifest(disk[p]) \in Sessions
    BY SessionsAreTyped
  <2> QED
    BY <1>8, <2>1 DEF Restart
<1> QED
  BY <1>1, <1>2, <1>3, <1>4, <1>5, <1>6, <1>7, <1>8 DEF RecordingsNext

-----------------------------------------------------------------------------
(* What the handlers make of a session.                                    *)

\* No gap is open.
AllClosed(session) == \A i \in 1..Len(session.gaps) : session.gaps[i] # "open"

LEMMA CloseLastCloses ==
    ASSUME NEW s \in Sessions, Sound(s)
    PROVE  \A i \in 1..Len(CloseLast(s.gaps)) : CloseLast(s.gaps)[i] # "open"
<1>0. s.gaps \in Seq({"open", "closed"})
  BY DEF Sessions
<1>1. CASE s.gaps # <<>> /\ Last(s.gaps) = "open"
  <2>1. CloseLast(s.gaps) = [s.gaps EXCEPT ![Len(s.gaps)] = "closed"]
    BY <1>1 DEF CloseLast
  <2>2. Len(CloseLast(s.gaps)) = Len(s.gaps)
    BY <2>1, <1>0
  <2> QED
    BY <1>0, <2>1, <2>2 DEF Sound
<1>2. CASE ~(s.gaps # <<>> /\ Last(s.gaps) = "open")
  <2>1. CloseLast(s.gaps) = s.gaps
    BY <1>2 DEF CloseLast
  <2>2. s.gaps = <<>> \/ s.gaps[Len(s.gaps)] # "open"
    BY <1>2 DEF Last
  <2> QED
    BY <1>0, <2>1, <2>2 DEF Sound
<1> QED
  BY <1>1, <1>2

LEMMA CloseGapSays ==
    ASSUME NEW s \in Sessions, Sound(s)
    PROVE  /\ AllClosed(CloseGap(s))
           /\ CloseGap(s).chunks = s.chunks /\ CloseGap(s).ended = s.ended
           /\ CloseGap(s).unflushed = s.unflushed
           /\ s.ended => CloseGap(s).state = s.state
           /\ ~s.ended => CloseGap(s).state = "recording"
<1>1. /\ CloseGap(s).chunks = s.chunks /\ CloseGap(s).ended = s.ended
      /\ CloseGap(s).unflushed = s.unflushed
      /\ CloseGap(s).gaps = CloseLast(s.gaps)
      /\ CloseGap(s).state = IF s.ended THEN s.state ELSE "recording"
  BY DEF CloseGap, Sessions
<1> QED
  BY <1>1, CloseLastCloses DEF AllClosed

LEMMA HeartbeatSays ==
    ASSUME NEW s \in Sessions, Sound(s), ~s.ended
    PROVE  /\ Sound(CloseGap(s)) /\ CloseGap(s).chunks = s.chunks
           /\ ~CloseGap(s).ended /\ CloseGap(s).state = "recording"
<1>1. CloseGap(s) \in Sessions
  BY SessionsAreTyped
<1> QED
  BY <1>1, CloseGapSays DEF Sound, AllClosed

LEMMA AppendedSays ==
    ASSUME NEW s \in Sessions, Sound(s), ~s.ended, NEW blob \in Nat,
           blob = Len(s.chunks) + 1
    PROVE  /\ Sound(Appended(s, blob)) /\ Appended(s, blob).chunks = Append(s.chunks, blob)
           /\ ~Appended(s, blob).ended /\ Appended(s, blob).state = "recording"
<1> DEFINE t == [s EXCEPT !.chunks = Append(@, blob)]
<1>0. s.chunks \in Seq(Nat) /\ Append(s.chunks, blob) \in Seq(Nat)
  BY DEF Sessions
<1>1. t \in Sessions
  BY <1>0 DEF Sessions
<1>2. /\ t.chunks = Append(s.chunks, blob) /\ t.state = s.state /\ t.ended = s.ended
      /\ t.unflushed = s.unflushed /\ t.gaps = s.gaps
  BY DEF Sessions
<1>3. Counting(t.chunks)
  BY <1>0, <1>2 DEF Counting, Sound
<1>4. CloseLast(t.gaps) = CloseLast(s.gaps)
  BY <1>2
<1>5. /\ CloseGap(t).chunks = t.chunks /\ CloseGap(t).ended = t.ended
      /\ CloseGap(t).unflushed = t.unflushed
      /\ CloseGap(t).gaps = CloseLast(t.gaps)
      /\ CloseGap(t).state = IF t.ended THEN t.state ELSE "recording"
  BY <1>1 DEF CloseGap, Sessions
<1>6. AllClosed(CloseGap(t))
  BY <1>4, <1>5, CloseLastCloses DEF AllClosed
<1>7. Sound(CloseGap(t))
  BY <1>2, <1>3, <1>5, <1>6 DEF Sound, AllClosed
<1> QED
  BY <1>2, <1>5, <1>7 DEF Appended

LEMMA EndSays ==
    ASSUME NEW s \in Sessions, Sound(s)
    PROVE  /\ Sound(EndSession(s)) /\ EndSession(s).chunks = s.chunks
           /\ EndSession(s).ended /\ EndSession(s).state = "ended"
<1>1. CloseGap(s) \in Sessions
  BY SessionsAreTyped
<1>2. /\ EndSession(s).chunks = CloseGap(s).chunks /\ EndSession(s).ended = TRUE
      /\ EndSession(s).state = "ended" /\ EndSession(s).unflushed = FALSE
      /\ EndSession(s).gaps = CloseGap(s).gaps
  BY <1>1 DEF EndSession, Sessions
<1>3. AllClosed(EndSession(s))
  BY <1>2, CloseGapSays DEF AllClosed
<1> QED
  BY <1>2, <1>3, CloseGapSays DEF Sound, AllClosed

LEMMA AddGapAdds ==
    ASSUME NEW gaps \in Seq({"open", "closed"}), NEW gap \in {"open", "closed"},
           \A i \in 1..Len(gaps) : gaps[i] # "open"
    PROVE  AddGap(gaps, gap) = <<gap>>
BY DEF AddGap

LEMMA InterruptSays ==
    ASSUME NEW s \in Sessions, Sound(s)
    PROVE  /\ Sound(InterruptSession(s)) /\ InterruptSession(s).chunks = s.chunks
           /\ InterruptSession(s).ended /\ InterruptSession(s).state = "interrupted"
<1>0. CloseLast(s.gaps) \in Seq({"open", "closed"})
  BY CloseLastIsTyped DEF Sessions
<1>1. AddGap(CloseLast(s.gaps), "closed") = <<"closed">>
  BY <1>0, CloseLastCloses, AddGapAdds
<1>2. /\ InterruptSession(s).chunks = s.chunks /\ InterruptSession(s).ended = TRUE
      /\ InterruptSession(s).state = "interrupted"
      /\ InterruptSession(s).gaps = <<"closed">>
  BY <1>1 DEF InterruptSession, Sessions
<1> QED
  BY <1>2 DEF Sound

LEMMA StaleSays ==
    ASSUME NEW s \in Sessions, Sound(s), s.state = "recording"
    PROVE  /\ Sound(MarkStale(s)) /\ MarkStale(s).chunks = s.chunks
           /\ ~MarkStale(s).ended /\ MarkStale(s).state = "gap"
<1>0. s.gaps \in Seq({"open", "closed"})
  BY DEF Sessions
<1>1. AddGap(s.gaps, "open") = <<"open">>
  BY <1>0, AddGapAdds DEF Sound
<1>2. /\ MarkStale(s).chunks = s.chunks /\ MarkStale(s).ended = s.ended
      /\ MarkStale(s).state = "gap" /\ MarkStale(s).gaps = <<"open">>
  BY <1>1 DEF MarkStale, Sessions
<1> QED
  BY <1>2 DEF Sound

LEMMA RecoverSays ==
    ASSUME NEW s \in Sessions, Sound(s)
    PROVE  /\ Sound(RecoverManifest(s)) /\ RecoverManifest(s).chunks = s.chunks
           /\ s.ended => RecoverManifest(s) = s
           /\ RecoverManifest(s).state = "ended" => s.state = "ended"
           /\ s.state = "none" => RecoverManifest(s) = s
<1>1. CASE s.ended \/ s.state \notin {"recording", "gap"}
  BY <1>1 DEF RecoverManifest
<1>2. CASE ~(s.ended \/ s.state \notin {"recording", "gap"})
  <2> DEFINE g == IF s.gaps = <<>> \/ Last(s.gaps) # "open"
                  THEN AddGap(s.gaps, "closed") ELSE CloseLast(s.gaps)
  <2>0. s.gaps \in Seq({"open", "closed"})
    BY DEF Sessions
  <2>1. /\ RecoverManifest(s).chunks = s.chunks /\ RecoverManifest(s).ended = TRUE
        /\ RecoverManifest(s).state = "interrupted" /\ RecoverManifest(s).gaps = g
    BY <1>2 DEF RecoverManifest, Sessions
  <2>2. \A i \in 1..Len(g) : g[i] # "open"
    <3>1. CASE s.gaps = <<>> \/ Last(s.gaps) # "open"
      <4>1. \A i \in 1..Len(s.gaps) : s.gaps[i] # "open"
        BY <3>1, <2>0 DEF Sound, Last
      <4>2. g = <<"closed">>
        BY <3>1, <4>1, <2>0, AddGapAdds
      <4> QED
        BY <4>2
    <3>2. CASE ~(s.gaps = <<>> \/ Last(s.gaps) # "open")
      BY <3>2, CloseLastCloses
    <3> QED
      BY <3>1, <3>2
  <2> QED
    BY <1>2, <2>1, <2>2 DEF Sound
<1> QED
  BY <1>1, <1>2

LEMMA NewSays ==
    /\ Sound(NoSession) /\ Sound([NoSession EXCEPT !.state = "recording"])
    /\ NoSession.chunks = <<>> /\ [NoSession EXCEPT !.state = "recording"].chunks = <<>>
    /\ ~NoSession.ended /\ ~[NoSession EXCEPT !.state = "recording"].ended
    /\ NoSession.state = "none"
    /\ [NoSession EXCEPT !.state = "recording"].state = "recording"
BY DEF NoSession, Sound, Counting

-----------------------------------------------------------------------------
(* The page.                                                               *)

\* A page goes forward: it forgets no chunk and counts no answer as another
\* one's, and when it is over it stays as it is.
Forward ==
    \A p \in Pages :
        /\ Len(page'[p].produced) >= Len(page[p].produced)
        /\ page[p].phase \in Over => /\ page'[p].phase \in Over
                                     /\ page'[p].produced = page[p].produced
                                     /\ page'[p].done = page[p].done
        /\ page'[p].phase = "off" => page'[p] = page[p]

\* What a page counts as confirmed from now on is in the session's list.
Confirmed ==
    \A p \in Pages : \/ page'[p].done = page[p].done
                     \/ page'[p].done <= Len(mem'[p].chunks)

LEMMA StillPage ==
    ASSUME UNCHANGED page, RecordingsTypeOK, Counted
    PROVE  Counted' /\ Forward /\ Confirmed
<1>1. \A p \in Pages : Len(page[p].produced) \in Nat
  BY DEF RecordingsTypeOK, PageStates
<1> QED
  BY <1>1 DEF Counted, Forward, Confirmed

\* One page of several moves from old to new.
Moves(p, old, new) ==
    /\ page' = [page EXCEPT ![p] = new]
    /\ Counting(new.produced) /\ Len(new.produced) \in Nat
    /\ Len(old.produced) <= Len(new.produced)
    /\ Len(new.produced) <= MaxChunks
    /\ new.done <= Len(new.produced)
    /\ new.uploading <= Len(new.produced)
    /\ new.phase \in Over \cup {"off"} => new.uploading = 0
    /\ new.phase \in {"ending", "saved"} => new.done = Len(new.produced)
    /\ old.phase \in Over => /\ new.phase \in Over
                             /\ new.produced = old.produced
                             /\ new.done = old.done
    /\ new.phase # "off"
    /\ new.done = old.done \/ new.done <= Len(mem'[p].chunks)

LEMMA OnePage ==
    ASSUME RecordingsTypeOK, Counted, NEW p \in Pages, NEW new, Moves(p, page[p], new)
    PROVE  Counted' /\ Forward /\ Confirmed
<1>1. \A q \in Pages : page'[q] = IF q = p THEN new ELSE page[q]
  BY DEF RecordingsTypeOK, Moves
<1>2. \A q \in Pages : Len(page[q].produced) \in Nat
  BY DEF RecordingsTypeOK, PageStates
<1> QED
  BY <1>1, <1>2 DEF Moves, Counted, Forward, Confirmed

LEMMA PageStepForward ==
    ASSUME RecordingsTypeOK, Counted, Unknown, NEW p \in Pages, PageStep(p)
    PROVE  Counted' /\ Forward /\ Confirmed
<1> DEFINE pg == page[p]
<1>0. /\ page \in [Pages -> PageStates] /\ pg \in PageStates
      /\ pg.produced \in Seq(Nat) /\ Len(pg.produced) \in Nat /\ pg.done \in Nat
      /\ pg.uploading \in Nat
  BY DEF RecordingsTypeOK, PageStates
<1>a. /\ Counting(pg.produced) /\ Len(pg.produced) <= MaxChunks
      /\ pg.done <= Len(pg.produced) /\ pg.uploading <= Len(pg.produced)
      /\ pg.phase \in Over \cup {"off"} => pg.uploading = 0
      /\ pg.phase \in {"ending", "saved"} => pg.done = Len(pg.produced)
  BY DEF Counted
<1>1. CASE StartRecording(p)
  <2>1. PICK ph \in {"recording", "gone"} : page' = [page EXCEPT ![p].phase = ph]
    BY <1>1 DEF StartRecording
  <2> DEFINE new == [pg EXCEPT !.phase = ph]
  <2>2. /\ new.produced = pg.produced /\ new.done = pg.done /\ new.uploading = pg.uploading
        /\ new.phase = ph
    BY <1>0 DEF PageStates
  <2>3. pg.phase = "off"
    BY <1>1 DEF StartRecording
  <2>4. page' = [page EXCEPT ![p] = new]
    BY <2>1
  <2> HIDE DEF new
  <2>5. Moves(p, pg, new)
    BY <1>0, <1>a, <2>2, <2>3, <2>4, RecordingsAssumption DEF Over, Moves
  <2> QED
    BY <2>5, OnePage
<1>2. CASE DataAvailable(p)
  <2> DEFINE new == [pg EXCEPT !.produced = Append(pg.produced, Len(pg.produced) + 1)]
  <2>1. /\ new.produced = Append(pg.produced, Len(pg.produced) + 1) /\ new.done = pg.done
        /\ new.uploading = pg.uploading /\ new.phase = pg.phase
    BY <1>0 DEF PageStates
  <2>2. /\ Counting(new.produced) /\ Len(new.produced) = Len(pg.produced) + 1
    BY <2>1, <1>0, <1>a DEF Counting
  <2>3. pg.phase = "recording" /\ Len(pg.produced) < MaxChunks
    BY <1>2 DEF DataAvailable
  <2>4. page' = [page EXCEPT ![p] = new]
    BY <1>2 DEF DataAvailable
  <2>5. Len(new.produced) <= MaxChunks
    BY <2>2, <2>3, <1>0, RecordingsAssumption
  <2> HIDE DEF new
  <2>6. Moves(p, pg, new)
    BY <1>0, <1>a, <2>1, <2>2, <2>3, <2>4, <2>5, RecordingsAssumption DEF Over, Moves
  <2> QED
    BY <2>6, OnePage
<1>b. ASSUME NEW new, page' = [page EXCEPT ![p] = new], pg.phase \notin Over \cup {"off"},
             new = Fail(p) \/ new = [Fail(p) EXCEPT !.uploading = 0]
      PROVE  Counted' /\ Forward /\ Confirmed
  <2>1. /\ new.produced = pg.produced /\ new.done = pg.done
        /\ new.uploading = pg.uploading \/ new.uploading = 0
        /\ new.phase = pg.phase
    BY <1>0, <1>b DEF PageStates, Fail
  <2>3. Moves(p, pg, new)
    BY <1>0, <1>a, <1>b, <2>1, RecordingsAssumption DEF Over, Moves
  <2> QED
    BY <2>3, OnePage
<1>3. CASE RecorderFails(p)
  BY <1>3, <1>b DEF RecorderFails, Over
<1>4. CASE UploadChunk(p)
  <2> DEFINE new == [[pg EXCEPT !.uploading = pg.done + 1] EXCEPT !.try = 1]
  <2>1. /\ new.produced = pg.produced /\ new.done = pg.done /\ new.uploading = pg.done + 1
        /\ new.phase = pg.phase
    BY <1>0 DEF PageStates
  <2>2. pg.phase \in {"recording", "finishing"} /\ pg.done < Len(pg.produced)
    BY <1>4 DEF UploadChunk
  <2>3. page' = [page EXCEPT ![p] = new]
    BY <1>4 DEF UploadChunk
  <2> HIDE DEF new
  <2>4. Moves(p, pg, new)
    BY <1>0, <1>a, <2>1, <2>2, <2>3, RecordingsAssumption DEF Over, Moves
  <2> QED
    BY <2>4, OnePage
<1>5. CASE AttemptFails(p)
  <2>0. pg.phase \notin Over \cup {"off"}
    BY <1>5, <1>a DEF AttemptFails
  <2>1. CASE pg.try < Attempts
    <3> DEFINE new == [pg EXCEPT !.try = pg.try + 1]
    <3>1. /\ new.produced = pg.produced /\ new.done = pg.done
          /\ new.uploading = pg.uploading /\ new.phase = pg.phase
      BY <1>0 DEF PageStates
    <3>2. page' = [page EXCEPT ![p] = new]
      BY <1>5, <2>1 DEF AttemptFails
    <3> HIDE DEF new
    <3>3. Moves(p, pg, new)
      BY <1>0, <1>a, <2>0, <3>1, <3>2, RecordingsAssumption DEF Over, Moves
    <3> QED
      BY <3>3, OnePage
  <2>2. CASE ~(pg.try < Attempts)
    BY <1>5, <2>0, <2>2, <1>b DEF AttemptFails
  <2> QED
    BY <2>1, <2>2
<1>6. CASE SendHeartbeat(p)
  BY <1>6, StillPage DEF SendHeartbeat
<1>7. CASE StopGracefully(p)
  <2>1. PICK last \in {<<>>, <<Len(pg.produced) + 1>>} :
           /\ Len(pg.produced \o last) <= MaxChunks
           /\ page' = [page EXCEPT ![p].phase = "finishing", ![p].stopped = TRUE,
                                   ![p].produced = @ \o last]
    BY <1>7 DEF StopGracefully
  <2> DEFINE new == [[[pg EXCEPT !.phase = "finishing"] EXCEPT !.stopped = TRUE]
                        EXCEPT !.produced = pg.produced \o last]
  <2>2. /\ new.produced = pg.produced \o last /\ new.done = pg.done
        /\ new.uploading = pg.uploading /\ new.phase = "finishing"
    BY <1>0 DEF PageStates
  <2>3. /\ Counting(pg.produced \o last) /\ Len(pg.produced \o last) \in Nat
        /\ Len(pg.produced) <= Len(pg.produced \o last)
    <3>1. CASE last = <<>>
      <4>1. pg.produced \o last = pg.produced
        BY <1>0, <3>1
      <4> QED
        BY <4>1, <1>0, <1>a
    <3>2. CASE last = <<Len(pg.produced) + 1>>
      <4>1. pg.produced \o last = Append(pg.produced, Len(pg.produced) + 1)
        BY <1>0, <3>2
      <4> QED
        BY <4>1, <1>0, <1>a DEF Counting
    <3> QED
      BY <3>1, <3>2
  <2>4. page' = [page EXCEPT ![p] = new]
    BY <2>1
  <2>5. pg.phase = "recording"
    BY <1>7 DEF StopGracefully
  <2>6. /\ pg.done <= Len(pg.produced \o last)
        /\ pg.uploading <= Len(pg.produced \o last)
    BY <1>0, <1>a, <2>3
  <2> HIDE DEF new
  <2>7. Moves(p, pg, new)
    BY <2>1, <2>2, <2>3, <2>4, <2>5, <2>6 DEF Over, Moves
  <2> QED
    BY <2>7, OnePage
<1>c. ASSUME NEW ph \in Over, page' = [page EXCEPT ![p].phase = ph], pg.phase # "off",
             pg.uploading = 0, ph \in {"ending", "saved"} => pg.done = Len(pg.produced)
      PROVE  Counted' /\ Forward /\ Confirmed
  <2> DEFINE new == [pg EXCEPT !.phase = ph]
  <2>1. /\ new.produced = pg.produced /\ new.done = pg.done /\ new.uploading = 0
        /\ new.phase = ph
    BY <1>0, <1>c DEF PageStates
  <2>2. page' = [page EXCEPT ![p] = new]
    BY <1>c
  <2> HIDE DEF new
  <2>3. ph \in Over /\ (ph \in {"ending", "saved"} => new.done = Len(new.produced))
    BY <1>c, <2>1
  <2>4. /\ Counting(new.produced) /\ Len(new.produced) \in Nat
        /\ Len(new.produced) <= MaxChunks /\ 0 <= Len(new.produced)
    BY <1>0, <1>a, <2>1
  <2>5. Len(pg.produced) <= Len(new.produced) /\ new.done <= Len(new.produced)
    BY <1>0, <1>a, <2>1
  <2>6. Moves(p, pg, new)
    BY <2>1, <2>2, <2>3, <2>4, <2>5 DEF Over, Moves
  <2> QED
    BY <2>6, OnePage
<1>8. CASE SendEnd(p)
  BY <1>8, <1>c DEF SendEnd, Over
<1>9. CASE EndFails(p)
  BY <1>9, <1>a, <1>c DEF EndFails, Over
<1>10. CASE PageHide(p)
  <2> DEFINE new == [[pg EXCEPT !.phase = "gone"] EXCEPT !.uploading = 0]
  <2>1. /\ new.produced = pg.produced /\ new.done = pg.done /\ new.uploading = 0
        /\ new.phase = "gone"
    BY <1>0 DEF PageStates
  <2>2. page' = [page EXCEPT ![p] = new]
    BY <1>10 DEF PageHide
  <2> HIDE DEF new
  <2>3. Moves(p, pg, new)
    BY <1>0, <1>a, <2>1, <2>2, RecordingsAssumption DEF Over, Moves
  <2> QED
    BY <2>3, OnePage
<1> QED
  BY <1>1, <1>2, <1>3, <1>4, <1>5, <1>6, <1>7, <1>8, <1>9, <1>10 DEF PageStep

\* An answer moves only a page that waits for it.
LEMMA AnsweredForward ==
    ASSUME RecordingsTypeOK, Counted, NEW r \in Requests, Answered(r),
           r.op = "chunk" => /\ r.seq \in 1..Len(page[r.page].produced)
                             /\ r.seq <= Len(mem'[r.page].chunks)
    PROVE  Counted' /\ Forward /\ Confirmed
<1> DEFINE p == r.page
           pg == page[p]
<1>0. /\ page \in [Pages -> PageStates] /\ p \in Pages /\ pg \in PageStates
      /\ pg.produced \in Seq(Nat) /\ Len(pg.produced) \in Nat /\ pg.done \in Nat
      /\ pg.uploading \in Nat /\ r.seq \in Nat
  BY DEF RecordingsTypeOK, PageStates, Requests
<1>a. /\ Counting(pg.produced) /\ Len(pg.produced) <= MaxChunks
      /\ pg.done <= Len(pg.produced) /\ pg.uploading <= Len(pg.produced)
      /\ pg.phase \in Over \cup {"off"} => pg.uploading = 0
      /\ pg.phase \in {"ending", "saved"} => pg.done = Len(pg.produced)
  BY <1>0 DEF Counted
<1>1. CASE r.op = "chunk" /\ pg.uploading = r.seq /\ pg.try = r.try
  <2> DEFINE new == [[pg EXCEPT !.done = r.seq] EXCEPT !.uploading = 0]
  <2>1. /\ new.produced = pg.produced /\ new.done = r.seq /\ new.uploading = 0
        /\ new.phase = pg.phase
    BY <1>0 DEF PageStates
  <2>2. page' = [page EXCEPT ![p] = new]
    BY <1>1 DEF Answered
  <2>3. /\ pg.phase \notin Over \cup {"off"}
        /\ r.seq <= Len(pg.produced) /\ r.seq <= Len(mem'[p].chunks)
    BY <1>0, <1>a, <1>1
  <2> HIDE DEF new
  <2>4. Moves(p, pg, new)
    BY <1>0, <1>a, <2>1, <2>2, <2>3 DEF Over, Moves
  <2> QED
    BY <1>0, <2>4, OnePage
<1>2. CASE ~(r.op = "chunk" /\ pg.uploading = r.seq /\ pg.try = r.try)
           /\ r.op = "end" /\ pg.phase = "ending"
  <2> DEFINE new == [pg EXCEPT !.phase = "saved"]
  <2>1. /\ new.produced = pg.produced /\ new.done = pg.done
        /\ new.uploading = pg.uploading /\ new.phase = "saved"
    BY <1>0 DEF PageStates
  <2>2. page' = [page EXCEPT ![p] = new]
    BY <1>2 DEF Answered
  <2> HIDE DEF new
  <2>3. Moves(p, pg, new)
    BY <1>0, <1>a, <1>2, <2>1, <2>2 DEF Over, Moves
  <2> QED
    BY <1>0, <2>3, OnePage
<1>3. CASE ~(r.op = "chunk" /\ pg.uploading = r.seq /\ pg.try = r.try)
           /\ ~(r.op = "end" /\ pg.phase = "ending")
  BY <1>3, StillPage DEF Answered
<1> QED
  BY <1>1, <1>2, <1>3

LEMMA PagesStep ==
    ASSUME IInv, [RecordingsNext]_recordings
    PROVE  Counted' /\ Forward /\ Confirmed
<1> USE DEF IInv
<1>1. CASE UNCHANGED recordings
  BY <1>1, StillPage DEF recordings
<1>2. ASSUME NEW p \in Pages, PageStep(p) PROVE Counted' /\ Forward /\ Confirmed
  BY <1>2, PageStepForward
<1>3. ASSUME NEW r \in net, Handle(r) PROVE Counted' /\ Forward /\ Confirmed
  <2>0. r \in Requests
    BY DEF RecordingsTypeOK
  <2>1. CASE HandleReplay(r)
    BY <2>0, <2>1, AnsweredForward DEF HandleReplay, serverVars, IsReplay, Sent
  <2>2. CASE HandleEnd(r)
    <3>1. CASE Answered(r)
      BY <2>0, <2>2, <3>1, AnsweredForward DEF HandleEnd
    <3> QED
      BY <2>2, <3>1, StillPage DEF HandleEnd
  <2>3. CASE HandleAfterEnd(r)
    <3>1. CASE r.op = "end"
      BY <2>0, <2>3, <3>1, AnsweredForward DEF HandleAfterEnd
    <3> QED
      BY <2>3, <3>1, StillPage DEF HandleAfterEnd
  <2>4. CASE \/ Lose(r) \/ HandleChunk(r) \/ HandleChunkFails(r)
             \/ HandleHeartbeat(r) \/ HandleInterrupt(r)
    BY <2>4, StillPage
       DEF Lose, HandleChunk, HandleChunkFails, HandleHeartbeat, HandleInterrupt
  <2> QED
    BY <1>3, <2>1, <2>2, <2>3, <2>4 DEF Handle
<1>4. ASSUME NEW p \in Pages, FallSilent(p) PROVE Counted' /\ Forward /\ Confirmed
  BY <1>4, StillPage DEF FallSilent
<1>5. CASE CommitChunk
  <2> DEFINE p == job.page
  <2>0. job \in Requests /\ p \in Pages /\ mem[p] \in Sessions /\ page[p] \in PageStates
    BY <1>5 DEF CommitChunk, Requests, RecordingsTypeOK
  <2>1. PICK saved \in BOOLEAN :
           /\ Persist(p, Appended(mem[p], BlobOf(job)), saved)
           /\ \/ saved /\ Answered(job)
              \/ UNCHANGED page
    BY <1>5 DEF CommitChunk
  <2>2. /\ ~mem[p].ended /\ job.seq = Len(mem[p].chunks) + 1
        /\ job.seq <= Len(page[p].produced) /\ job.op = "chunk"
    BY <1>5 DEF CommitChunk, Appending
  <2>3. job.seq \in 1..Len(page[p].produced) /\ BlobOf(job) = job.seq
    BY <2>0, <2>2 DEF Counted, Counting, BlobOf, Sessions, PageStates
  <2>4. Appended(mem[p], BlobOf(job)).chunks = Append(mem[p].chunks, BlobOf(job))
    BY <2>0, <2>2, <2>3, AppendedSays DEF Tidy, Sessions
  <2>5. mem'[p].chunks = Append(mem[p].chunks, BlobOf(job))
    BY <2>0, <2>1, <2>4 DEF Persist, RecordingsTypeOK
  <2>6. job.seq <= Len(mem'[p].chunks)
    BY <2>0, <2>2, <2>3, <2>5 DEF Sessions
  <2>7. CASE Answered(job)
    BY <2>0, <2>2, <2>3, <2>6, <2>7, AnsweredForward
  <2> QED
    BY <2>1, <2>7, StillPage
<1>6. CASE Monitor \/ Crash \/ Restart
  BY <1>6, StillPage DEF Monitor, Crash, Restart
<1> QED
  BY <1>1, <1>2, <1>3, <1>4, <1>5, <1>6 DEF RecordingsNext

-----------------------------------------------------------------------------
(* Sessions and manifests stay consistent.                                 *)

LEMMA PersistTidy ==
    ASSUME RecordingsTypeOK, Tidy, NEW p \in Pages, NEW session, NEW saved \in BOOLEAN,
           Persist(p, session, saved), Sound(session)
    PROVE  Tidy'
<1>1. \A q \in Pages : /\ mem'[q] = IF q = p THEN session ELSE mem[q]
                       /\ disk'[q] = IF q = p /\ saved THEN session ELSE disk[q]
  BY DEF Persist, RecordingsTypeOK
<1> QED
  BY <1>1 DEF Tidy, Sound

LEMMA TidyStep ==
    ASSUME IInv, [RecordingsNext]_recordings
    PROVE  Tidy'
<1> USE DEF IInv
<1>a. UNCHANGED <<mem, disk>> => Tidy'
  BY DEF Tidy
<1>b. \A p \in Pages : mem[p] \in Sessions /\ disk[p] \in Sessions
  BY DEF RecordingsTypeOK
<1>c. \A r \in net : r.page \in Pages
  BY DEF RecordingsTypeOK, Requests
<1>1. CASE UNCHANGED recordings
  BY <1>1, <1>a DEF recordings
<1>2. ASSUME NEW p \in Pages, PageStep(p) PROVE Tidy'
  <2>1. CASE StartRecording(p)
    BY <2>1, PersistTidy, NewSays DEF StartRecording
  <2>2. CASE ~StartRecording(p)
    BY <1>2, <2>2, <1>a
       DEF PageStep, DataAvailable, RecorderFails, UploadChunk, AttemptFails, SendHeartbeat,
           StopGracefully, SendEnd, EndFails, PageHide, serverVars
  <2> QED
    BY <2>1, <2>2
<1>3. ASSUME NEW r \in net, Handle(r) PROVE Tidy'
  <2>1. CASE HandleHeartbeat(r)
    <3>1. Sound(CloseGap(mem[r.page]))
      BY <2>1, <1>b, <1>c, HeartbeatSays DEF HandleHeartbeat, Tidy
    <3> QED
      BY <2>1, <3>1, <1>c, PersistTidy DEF HandleHeartbeat
  <2>2. CASE HandleEnd(r)
    <3>1. Sound(EndSession(mem[r.page]))
      BY <1>b, <1>c, EndSays DEF Tidy
    <3> QED
      BY <2>2, <3>1, <1>c, PersistTidy DEF HandleEnd
  <2>3. CASE HandleInterrupt(r)
    <3>1. Sound(InterruptSession(mem[r.page]))
      BY <1>b, <1>c, InterruptSays DEF Tidy
    <3> QED
      BY <2>3, <3>1, <1>c, PersistTidy DEF HandleInterrupt
  <2>4. CASE \/ Lose(r) \/ HandleReplay(r) \/ HandleChunk(r) \/ HandleChunkFails(r)
             \/ HandleAfterEnd(r)
    BY <2>4, <1>a
       DEF Lose, HandleReplay, HandleChunk, HandleChunkFails, HandleAfterEnd, serverVars
  <2> QED
    BY <1>3, <2>1, <2>2, <2>3, <2>4 DEF Handle
<1>4. ASSUME NEW p \in Pages, FallSilent(p) PROVE Tidy'
  BY <1>4, <1>a DEF FallSilent
<1>5. CASE CommitChunk
  <2> DEFINE p == job.page
  <2>0. p \in Pages /\ page[p] \in PageStates /\ job.seq \in Nat
    BY <1>5 DEF CommitChunk, Requests, RecordingsTypeOK
  <2>1. /\ ~mem[p].ended /\ job.seq = Len(mem[p].chunks) + 1
        /\ job.seq <= Len(page[p].produced)
    BY <1>5 DEF CommitChunk, Appending
  <2>2. BlobOf(job) = job.seq
    BY <2>0, <2>1, <1>b DEF Counted, Counting, BlobOf, Sessions, PageStates
  <2>3. Sound(Appended(mem[p], BlobOf(job)))
    BY <2>0, <2>1, <2>2, <1>b, AppendedSays DEF Tidy
  <2> QED
    BY <1>5, <2>0, <2>3, PersistTidy DEF CommitChunk
<1>6. CASE Monitor
  <2>1. \A p \in Pages : IsStale(p) => Sound(MarkStale(mem[p]))
    BY <1>b, StaleSays DEF IsStale, Tidy
  <2>2. /\ \A p \in Pages : mem'[p] = mem[p] \/ (IsStale(p) /\ mem'[p] = MarkStale(mem[p]))
        /\ \A p \in Pages : disk'[p] = disk[p] \/ disk'[p] = mem'[p]
    BY <1>6 DEF Monitor
  <2> QED
    BY <2>1, <2>2 DEF Tidy, Sound
<1>7. CASE Crash
  BY <1>7, NewSays DEF Crash, Tidy, Sound
<1>8. CASE Restart
  <2>1. \A p \in Pages : Sound(RecoverManifest(disk[p]))
    BY <1>b, RecoverSays DEF Tidy
  <2> QED
    BY <1>8, <2>1 DEF Restart, Tidy, Sound
<1> QED
  BY <1>1, <1>2, <1>3, <1>4, <1>5, <1>6, <1>7, <1>8 DEF RecordingsNext

-----------------------------------------------------------------------------
(* Requests.                                                               *)

LEMMA SentKept ==
    ASSUME RecordingsTypeOK, Sent, Forward, RecordingsTypeOK',
           \A r \in net' \ net :
              /\ r.op = "chunk" => r.seq \in 1..Len(page'[r.page].produced)
              /\ r.op = "end" => /\ page'[r.page].phase \in Over
                                 /\ page'[r.page].done = Len(page'[r.page].produced)
    PROVE  Sent'
<1>1. \A p \in Pages : Len(page[p].produced) \in Nat /\ Len(page'[p].produced) \in Nat
  BY DEF RecordingsTypeOK, PageStates
<1>2. \A r \in net \cap net' : r.page \in Pages /\ r.seq \in Nat
  BY DEF RecordingsTypeOK, Requests
<1>3. ASSUME NEW r \in net \cap net'
      PROVE  /\ r.op = "chunk" => r.seq \in 1..Len(page'[r.page].produced)
             /\ r.op = "end" => /\ page'[r.page].phase \in Over
                                /\ page'[r.page].done = Len(page'[r.page].produced)
  BY <1>1, <1>2 DEF Sent, Forward
<1> QED
  BY <1>3 DEF Sent

LEMMA SentStep ==
    ASSUME IInv, [RecordingsNext]_recordings, RecordingsTypeOK', Forward
    PROVE  Sent'
<1> USE DEF IInv
<1>a. net' \subseteq net => Sent'
  BY SentKept
<1>b. ASSUME NEW op \in {"heartbeat", "interrupt"}, NEW p \in Pages,
             net' = net \cup {Message(op, p, 0, 0)}
      PROVE  Sent'
  BY <1>b, SentKept DEF Message
<1>1. CASE UNCHANGED recordings
  BY <1>1, <1>a DEF recordings
<1>2. ASSUME NEW p \in Pages, PageStep(p) PROVE Sent'
  <2> DEFINE pg == page[p]
  <2>0. /\ page \in [Pages -> PageStates] /\ pg \in PageStates
        /\ pg.produced \in Seq(Nat) /\ Len(pg.produced) \in Nat /\ pg.done \in Nat
        /\ pg.uploading \in Nat /\ pg.uploading <= Len(pg.produced)
    BY DEF RecordingsTypeOK, PageStates, Counted
  <2>1. CASE StartRecording(p) \/ DataAvailable(p) \/ StopGracefully(p)
    BY <2>1, <1>a DEF StartRecording, DataAvailable, StopGracefully
  <2>2. CASE RecorderFails(p) \/ EndFails(p) \/ PageHide(p)
    BY <2>2, <1>b DEF RecorderFails, EndFails, PageHide, Send, Interrupted
  <2>3. CASE SendHeartbeat(p)
    BY <2>3, <1>b DEF SendHeartbeat, Send
  <2>c. ASSUME NEW seq \in Nat, NEW try, seq >= 1, seq <= Len(pg.produced),
               net' = net \cup {Message("chunk", p, seq, try)},
               page'[p].produced = pg.produced
        PROVE  Sent'
    <3> DEFINE m == Message("chunk", p, seq, try)
    <3>1. m.op = "chunk" /\ m.page = p /\ m.seq = seq
      BY DEF Message
    <3>2. seq \in 1..Len(page'[p].produced)
      BY <2>c, <2>0
    <3>3. \A r \in net' \ net : r = m
      BY <2>c
    <3> HIDE DEF m
    <3> QED
      BY <3>1, <3>2, <3>3, SentKept
  <2>4. CASE UploadChunk(p)
    <3>1. page'[p].produced = pg.produced
      BY <2>4, <2>0 DEF UploadChunk, PageStates
    <3> DEFINE seq == pg.done + 1
    <3>2. /\ net' = net \cup {Message("chunk", p, seq, 1)}
          /\ seq \in Nat /\ seq >= 1 /\ seq <= Len(pg.produced)
      BY <2>4, <2>0 DEF UploadChunk, Send
    <3> HIDE DEF seq
    <3> QED
      BY <2>c, <3>1, <3>2
  <2>5. CASE AttemptFails(p)
    <3>1. CASE pg.try < Attempts
      <4>1. page'[p].produced = pg.produced
        BY <2>5, <3>1, <2>0 DEF AttemptFails, PageStates
      <4> DEFINE seq == pg.uploading
                 try == pg.try + 1
      <4>2. /\ net' = net \cup {Message("chunk", p, seq, try)}
            /\ seq \in Nat /\ seq >= 1 /\ seq <= Len(pg.produced)
        BY <2>5, <3>1, <2>0 DEF AttemptFails, Send
      <4> HIDE DEF seq, try
      <4> QED
        BY <2>c, <4>1, <4>2
    <3>2. CASE ~(pg.try < Attempts)
      BY <2>5, <3>2, <1>b DEF AttemptFails, Send, Interrupted
    <3> QED
      BY <3>1, <3>2
  <2>6. CASE SendEnd(p)
    <3> DEFINE m == Message("end", p, 0, 0)
    <3>1. m.op = "end" /\ m.page = p
      BY DEF Message
    <3>2. \A r \in net' \ net : r = m
      BY <2>6 DEF SendEnd, Send
    <3>3. /\ page'[p].phase = "ending" /\ page'[p].done = pg.done
          /\ page'[p].produced = pg.produced /\ pg.done = Len(pg.produced)
      BY <2>6, <2>0 DEF SendEnd, PageStates
    <3> HIDE DEF m
    <3> QED
      BY <3>1, <3>2, <3>3, SentKept DEF Over
  <2> QED
    BY <1>2, <2>1, <2>2, <2>3, <2>4, <2>5, <2>6 DEF PageStep
<1>3. ASSUME NEW r \in net, Handle(r) PROVE Sent'
  BY <1>3, <1>a
     DEF Handle, Lose, HandleReplay, HandleChunk, HandleChunkFails, HandleHeartbeat,
         HandleEnd, HandleInterrupt, HandleAfterEnd, Receive
<1>4. CASE (\E p \in Pages : FallSilent(p)) \/ CommitChunk \/ Monitor \/ Crash \/ Restart
  BY <1>4, <1>a DEF FallSilent, CommitChunk, Monitor, Crash, Restart
<1> QED
  BY <1>1, <1>2, <1>3, <1>4 DEF RecordingsNext

-----------------------------------------------------------------------------
(* The manifest, the session in memory and the file.                       *)

\* Persist, entry by entry.
LEMMA PersistSays ==
    ASSUME RecordingsTypeOK, NEW p \in Pages, NEW session, NEW saved \in BOOLEAN,
           Persist(p, session, saved)
    PROVE  \A q \in Pages : /\ mem'[q] = IF q = p THEN session ELSE mem[q]
                            /\ disk'[q] = IF q = p /\ saved THEN session ELSE disk[q]
BY DEF Persist, RecordingsTypeOK

\* Whoever is known has begun.
LEMMA KnownHasBegun ==
    ASSUME Unknown, NEW p \in Pages,
           mem[p] # NoSession \/ disk[p] # NoSession \/ \E r \in net : r.page = p
    PROVE  page[p].phase # "off"
BY DEF Unknown

LEMMA UnknownKept ==
    ASSUME Unknown, Forward,
           \A p \in Pages : page[p].phase = "off" /\ page'[p].phase = "off" =>
              /\ mem'[p] \in {mem[p], NoSession} /\ disk'[p] = disk[p] /\ file'[p] = file[p]
              /\ \A r \in net' \ net : r.page # p
    PROVE  Unknown'
<1> SUFFICES ASSUME NEW p \in Pages, page'[p].phase = "off"
             PROVE  /\ page'[p].produced = <<>> /\ page'[p].done = 0
                    /\ mem'[p] = NoSession /\ disk'[p] = NoSession /\ file'[p] = <<>>
                    /\ \A r \in net' : r.page # p
  BY DEF Unknown
<1>1. page'[p] = page[p]
  BY DEF Forward
<1> QED
  BY <1>1 DEF Unknown

LEMMA UnknownStep ==
    ASSUME IInv, [RecordingsNext]_recordings, Forward
    PROVE  Unknown'
<1> USE DEF IInv
<1>1. CASE UNCHANGED recordings
  BY <1>1, UnknownKept DEF recordings
<1>2. ASSUME NEW p \in Pages, PageStep(p) PROVE Unknown'
  <2>0. page \in [Pages -> PageStates] /\ page[p] \in PageStates
    BY DEF RecordingsTypeOK
  <2>1. CASE StartRecording(p)
    <3>1. page'[p].phase # "off"
      BY <2>0, <2>1 DEF StartRecording, PageStates
    <3>2. \A q \in Pages \ {p} : mem'[q] = mem[q] /\ disk'[q] = disk[q]
      BY <2>1, PersistSays DEF StartRecording
    <3> QED
      BY <2>1, <3>1, <3>2, UnknownKept DEF StartRecording
  <2>2. CASE ~StartRecording(p)
    <3>1. page[p].phase # "off"
      BY <1>2, <2>2
         DEF PageStep, DataAvailable, RecorderFails, UploadChunk, AttemptFails,
             SendHeartbeat, StopGracefully, SendEnd, EndFails, PageHide, Counted
    <3>2. \A r \in net' \ net : r.page = p
      BY <1>2, <2>2
         DEF PageStep, DataAvailable, RecorderFails, UploadChunk, AttemptFails,
             SendHeartbeat, StopGracefully, SendEnd, EndFails, PageHide, Send,
             Interrupted, Message
    <3>3. UNCHANGED <<mem, disk, file>>
      BY <1>2, <2>2
         DEF PageStep, DataAvailable, RecorderFails, UploadChunk, AttemptFails,
             SendHeartbeat, StopGracefully, SendEnd, EndFails, PageHide, serverVars
    <3> QED
      BY <3>1, <3>2, <3>3, UnknownKept
  <2> QED
    BY <2>1, <2>2
<1>3. ASSUME NEW r \in net, Handle(r) PROVE Unknown'
  <2>0. r.page \in Pages /\ page[r.page].phase # "off"
    BY KnownHasBegun DEF RecordingsTypeOK, Requests
  <2>1. net' \subseteq net
    BY <1>3 DEF Handle, Lose, HandleReplay, HandleChunk, HandleChunkFails, HandleHeartbeat,
                HandleEnd, HandleInterrupt, HandleAfterEnd, Receive
  <2>2. \A q \in Pages \ {r.page} : mem'[q] = mem[q] /\ disk'[q] = disk[q] /\ file'[q] = file[q]
    <3>1. CASE HandleHeartbeat(r) \/ HandleEnd(r) \/ HandleInterrupt(r)
      BY <2>0, <3>1, PersistSays DEF HandleHeartbeat, HandleEnd, HandleInterrupt
    <3>2. CASE HandleChunk(r) \/ HandleChunkFails(r)
      BY <2>0, <3>2
         DEF HandleChunk, HandleChunkFails, AppendFails, serverVars, RecordingsTypeOK
    <3>3. CASE Lose(r) \/ HandleReplay(r) \/ HandleAfterEnd(r)
      BY <3>3 DEF Lose, HandleReplay, HandleAfterEnd, serverVars
    <3> QED
      BY <1>3, <3>1, <3>2, <3>3 DEF Handle
  <2> QED
    BY <2>0, <2>1, <2>2, UnknownKept
<1>4. ASSUME NEW p \in Pages, FallSilent(p) PROVE Unknown'
  BY <1>4, UnknownKept DEF FallSilent
<1>5. CASE CommitChunk
  <2>0. job.page \in Pages /\ page[job.page].phase # "off"
    BY <1>5, KnownHasBegun DEF CommitChunk, Requests, RecordingsTypeOK, Appending
  <2>1. \A q \in Pages \ {job.page} : mem'[q] = mem[q] /\ disk'[q] = disk[q]
    BY <1>5, <2>0, PersistSays DEF CommitChunk
  <2> QED
    BY <1>5, <2>0, <2>1, UnknownKept DEF CommitChunk
<1>6. CASE Monitor
  <2>1. \A p \in Pages : IsStale(p) => page[p].phase # "off"
    BY KnownHasBegun, NewSays DEF IsStale
  <2>2. \A p \in Pages : ~IsStale(p) => mem'[p] = mem[p] /\ disk'[p] = disk[p]
    BY <1>6 DEF Monitor
  <2> QED
    BY <1>6, <2>1, <2>2, UnknownKept DEF Monitor
<1>7. CASE Crash
  BY <1>7, UnknownKept DEF Crash
<1>8. CASE Restart
  <2>1. \A p \in Pages : page[p].phase = "off" => disk'[p] = disk[p]
    BY <1>8, NewSays DEF Restart, Unknown, RecoverManifest
  <2> QED
    BY <1>8, <2>1, UnknownKept DEF Restart
<1> QED
  BY <1>1, <1>2, <1>3, <1>4, <1>5, <1>6, <1>7, <1>8 DEF RecordingsNext

LEMMA AppendingStep ==
    ASSUME IInv, [RecordingsNext]_recordings, Forward, RecordingsTypeOK'
    PROVE  Appending'
<1> USE DEF IInv
<1>a. ASSUME UNCHANGED <<mem, file, up, job>> PROVE Appending'
  <2>1. job # NoJob => job.page \in Pages /\ job.seq \in Nat
    BY DEF RecordingsTypeOK, Requests
  <2>2. \A p \in Pages : Len(page[p].produced) \in Nat /\ Len(page'[p].produced) \in Nat
    BY DEF RecordingsTypeOK, PageStates
  <2> QED
    BY <1>a, <2>1, <2>2 DEF Appending, Forward
<1>b. job' = NoJob => Appending'
  BY DEF Appending
<1>1. CASE UNCHANGED recordings
  BY <1>1, <1>a DEF recordings
<1>2. ASSUME NEW p \in Pages, PageStep(p) PROVE Appending'
  BY <1>2, <1>a, <1>b
     DEF PageStep, StartRecording, DataAvailable, RecorderFails, UploadChunk, AttemptFails,
         SendHeartbeat, StopGracefully, SendEnd, EndFails, PageHide, serverVars
<1>3. ASSUME NEW r \in net, Handle(r) PROVE Appending'
  <2>1. CASE HandleChunk(r)
    <3> DEFINE p == r.page
    <3>0. /\ r \in Requests /\ p \in Pages /\ file[p] \in Seq(Nat) /\ page[p] \in PageStates
          /\ mem[p] \in Sessions
      BY DEF RecordingsTypeOK, Requests
    <3>1. /\ r.op = "chunk" /\ mem[p] # NoSession /\ up
          /\ r.seq = Len(mem[p].chunks) + 1 /\ ~mem[p].ended
          /\ Len(file[p]) = Len(mem[p].chunks)
      BY <2>1 DEF HandleChunk, MayAppend, Receive
    <3>2. r.seq \in 1..Len(page[p].produced) /\ BlobOf(r) = r.seq
      BY <3>0, <3>1 DEF Sent, Counted, Counting, BlobOf, PageStates
    <3>3. file'[p] = Append(file[p], r.seq)
      BY <2>1, <3>0, <3>2 DEF HandleChunk, RecordingsTypeOK
    <3>4. /\ mem' = mem /\ up' = up /\ page' = page /\ job' = r
      BY <2>1 DEF HandleChunk
    <3>5. Len(file'[p]) = r.seq /\ file'[p][r.seq] = r.seq
      BY <3>0, <3>1, <3>3 DEF Sessions
    <3> QED
      BY <3>1, <3>2, <3>4, <3>5, <3>0 DEF Appending, PageStates
  <2>2. CASE ~HandleChunk(r)
    BY <1>3, <2>2, <1>a, <1>b
       DEF Handle, Lose, HandleReplay, HandleChunkFails, HandleHeartbeat, HandleEnd,
           HandleInterrupt, HandleAfterEnd, Receive, serverVars
  <2> QED
    BY <2>1, <2>2
<1>4. CASE \/ \E p \in Pages : FallSilent(p)
           \/ CommitChunk \/ Monitor \/ Crash \/ Restart
  <2>1. CASE Restart
    <3>1. job = NoJob
      BY <2>1 DEF Restart, Appending
    <3> QED
      BY <2>1, <3>1, <1>b DEF Restart
  <2>2. CASE ~Restart
    BY <1>4, <2>2, <1>a, <1>b DEF FallSilent, CommitChunk, Monitor, Crash
  <2> QED
    BY <2>1, <2>2
<1> QED
  BY <1>1, <1>2, <1>3, <1>4 DEF RecordingsNext

\* The sizes that Ahead and Listed compare.
LEMMA Sizes ==
    ASSUME RecordingsTypeOK, NEW p \in Pages
    PROVE  /\ mem[p].chunks \in Seq(Nat) /\ Len(mem[p].chunks) \in Nat
           /\ disk[p].chunks \in Seq(Nat) /\ Len(disk[p].chunks) \in Nat
           /\ file[p] \in Seq(Nat) /\ Len(file[p]) \in Nat
           /\ page[p].produced \in Seq(Nat) /\ Len(page[p].produced) \in Nat
           /\ page[p].done \in Nat
BY DEF RecordingsTypeOK, Sessions, PageStates

\* Ahead of one page.
AheadAt(p) ==
    mem[p] # NoSession =>
        /\ up
        /\ page[p].done <= Len(mem[p].chunks)
        /\ Len(mem[p].chunks) <= Len(page[p].produced)
        /\ Len(mem[p].chunks) <= Len(file[p])
        /\ \A i \in 1..Len(mem[p].chunks) : file[p][i] = i
        /\ Len(mem[p].chunks) < Len(file[p]) => Len(mem[p].chunks) < Len(page[p].produced)
        /\ disk[p].ended => mem[p].ended

\* The session of a page keeps its chunks, and so does the file.
LEMMA AheadAtKept ==
    ASSUME IInv, Forward, Confirmed, RecordingsTypeOK', NEW p \in Pages,
           mem[p] # NoSession, up', file'[p] = file[p],
           mem'[p].chunks = mem[p].chunks,
           disk'[p].ended => mem'[p].ended
    PROVE  AheadAt(p)'
<1>1. AheadAt(p)
  BY DEF IInv, Ahead, AheadAt
<1>2. /\ Len(mem[p].chunks) \in Nat /\ Len(file[p]) \in Nat
      /\ Len(page[p].produced) \in Nat /\ page[p].done \in Nat
  BY Sizes DEF IInv
<1>3. /\ Len(page'[p].produced) \in Nat /\ page'[p].done \in Nat
  BY DEF RecordingsTypeOK, PageStates
<1> QED
  BY <1>1, <1>2, <1>3 DEF AheadAt, Forward, Confirmed

LEMMA AheadAtStill ==
    ASSUME IInv, Forward, Confirmed, RecordingsTypeOK', NEW p \in Pages,
           up' = up, file'[p] = file[p], mem'[p] = mem[p], disk'[p] = disk[p]
    PROVE  AheadAt(p)'
<1>1. CASE mem[p] # NoSession
  BY <1>1, AheadAtKept DEF IInv, Ahead
<1>2. CASE mem[p] = NoSession
  BY <1>2 DEF AheadAt
<1> QED
  BY <1>1, <1>2

\* A handler that keeps the list of chunks.
LEMMA AheadPersist ==
    ASSUME IInv, Forward, Confirmed, RecordingsTypeOK', NEW p \in Pages,
           NEW session, NEW saved \in BOOLEAN, Persist(p, session, saved),
           mem[p] # NoSession, ~mem[p].ended, session.chunks = mem[p].chunks,
           UNCHANGED <<file, up>>
    PROVE  Ahead'
<1>1. \A q \in Pages : /\ mem'[q] = IF q = p THEN session ELSE mem[q]
                       /\ disk'[q] = IF q = p /\ saved THEN session ELSE disk[q]
  BY PersistSays DEF IInv
<1>2. up /\ ~disk[p].ended
  BY DEF IInv, Ahead
<1>3. ASSUME NEW q \in Pages PROVE AheadAt(q)'
  <2>1. CASE q = p
    BY <1>1, <1>2, <2>1, AheadAtKept
  <2>2. CASE q # p
    BY <1>1, <2>2, AheadAtStill
  <2> QED
    BY <2>1, <2>2
<1> QED
  BY <1>3 DEF Ahead, AheadAt

LEMMA AheadStep ==
    ASSUME IInv, [RecordingsNext]_recordings, Forward, Confirmed, RecordingsTypeOK'
    PROVE  Ahead'
<1>a. RecordingsTypeOK /\ Tidy /\ Unknown /\ Counted /\ Sent /\ Appending /\ Ahead
  BY DEF IInv
<1>b. UNCHANGED <<mem, disk, file, up>> => Ahead'
  BY AheadAtStill DEF Ahead, AheadAt
<1>c. \A p \in Pages : mem[p] \in Sessions /\ Sound(mem[p])
  BY <1>a DEF RecordingsTypeOK, Tidy
<1>d. \A r \in net : r.page \in Pages /\ r \in Requests
  BY <1>a DEF RecordingsTypeOK, Requests
<1>1. CASE UNCHANGED recordings
  BY <1>1, <1>b DEF recordings
<1>2. ASSUME NEW p \in Pages, PageStep(p) PROVE Ahead'
  <2>1. CASE StartRecording(p)
    <3> DEFINE fresh == [NoSession EXCEPT !.state = "recording"]
    <3>1. PICK saved \in BOOLEAN : Persist(p, fresh, saved)
      BY <2>1 DEF StartRecording
    <3>2. \A q \in Pages : /\ mem'[q] = IF q = p THEN fresh ELSE mem[q]
                           /\ disk'[q] = IF q = p /\ saved THEN fresh ELSE disk[q]
      BY <1>a, <3>1, PersistSays
    <3>3. /\ page[p].produced = <<>> /\ page[p].done = 0 /\ file[p] = <<>> /\ up
          /\ disk[p] = NoSession
      BY <1>a, <2>1 DEF Unknown, StartRecording
    <3>4. fresh.chunks = <<>> /\ ~fresh.ended /\ ~NoSession.ended
      BY NewSays
    <3>5. file' = file /\ up' = up
      BY <2>1 DEF StartRecording
    <3>6. page'[p].done = 0
      BY <1>a, <2>1, <3>3 DEF StartRecording, RecordingsTypeOK, PageStates
    <3> HIDE DEF fresh
    <3>7. AheadAt(p)'
      <4>1. Len(page'[p].produced) \in Nat
        BY DEF RecordingsTypeOK, PageStates
      <4> QED
        BY <4>1, <3>2, <3>3, <3>4, <3>5, <3>6 DEF AheadAt
    <3>8. \A q \in Pages \ {p} : AheadAt(q)'
      BY <3>2, <3>5, AheadAtStill
    <3> QED
      BY <3>7, <3>8 DEF Ahead, AheadAt
  <2>2. CASE ~StartRecording(p)
    BY <1>2, <2>2, <1>b
       DEF PageStep, DataAvailable, RecorderFails, UploadChunk, AttemptFails, SendHeartbeat,
           StopGracefully, SendEnd, EndFails, PageHide, serverVars
  <2> QED
    BY <2>1, <2>2
<1>3. ASSUME NEW r \in net, Handle(r) PROVE Ahead'
  <2> DEFINE p == r.page
  <2>0. /\ p \in Pages /\ r \in Requests /\ r.seq \in Nat
    BY <1>d DEF Requests
  <2>1. CASE HandleChunk(r) \/ HandleChunkFails(r)
    <3>1. PICK cut \in Seq(Nat) : file' = [file EXCEPT ![p] = @ \o cut]
      <4>1. CASE HandleChunk(r)
        <5>1. r.seq \in 1..Len(page[p].produced)
          BY <1>a, <4>1 DEF HandleChunk, Sent
        <5>2. BlobOf(r) \in Nat
          BY <5>1, <1>a, <2>0, Sizes DEF BlobOf
        <5>3. Append(file[p], BlobOf(r)) = file[p] \o <<BlobOf(r)>> /\ <<BlobOf(r)>> \in Seq(Nat)
          BY <1>a, <2>0, <5>2, Sizes
        <5> QED
          BY <4>1, <5>3 DEF HandleChunk
      <4>2. CASE HandleChunkFails(r)
        <5>1. PICK cut \in {<<>>, <<Torn>>} : file' = [file EXCEPT ![p] = @ \o cut]
          BY <4>2 DEF HandleChunkFails, AppendFails
        <5>2. <<>> \in Seq(Nat) /\ <<Torn>> \in Seq(Nat)
          BY DEF Torn
        <5> QED
          BY <5>1, <5>2
      <4> QED
        BY <2>1, <4>1, <4>2
    <3>2. /\ r.seq = Len(mem[p].chunks) + 1 /\ r.seq <= Len(page[p].produced)
          /\ ~mem[p].ended /\ mem[p] # NoSession
      BY <1>a, <2>0, <2>1, Sizes DEF HandleChunk, HandleChunkFails, MayAppend, Receive, Sent
    <3>3. UNCHANGED <<page, mem, disk, up>>
      BY <2>1 DEF HandleChunk, HandleChunkFails, serverVars
    <3>4. AheadAt(p)'
      <4>1. file'[p] = file[p] \o cut
        BY <1>a, <2>0, <3>1 DEF RecordingsTypeOK
      <4>2. /\ Len(file[p]) <= Len(file'[p]) /\ Len(file'[p]) \in Nat
            /\ \A i \in 1..Len(file[p]) : file'[p][i] = file[p][i]
        BY <4>1, <1>a, <2>0, Sizes
      <4>3. /\ Len(mem[p].chunks) \in Nat /\ Len(file[p]) \in Nat
            /\ Len(page[p].produced) \in Nat
        BY <1>a, <2>0, Sizes
      <4>4. AheadAt(p)
        BY <1>a, <2>0 DEF Ahead, AheadAt
      <4>5. Len(mem[p].chunks) < Len(page[p].produced)
        BY <3>2, <4>3
      <4>6. \A i \in 1..Len(mem[p].chunks) : file'[p][i] = i
        BY <3>2, <4>2, <4>3, <4>4 DEF AheadAt
      <4> QED
        BY <3>2, <3>3, <4>2, <4>3, <4>4, <4>5, <4>6 DEF AheadAt
    <3>5. \A q \in Pages \ {p} : AheadAt(q)'
      <4>1. \A q \in Pages \ {p} : file'[q] = file[q]
        BY <1>a, <3>1 DEF RecordingsTypeOK
      <4> QED
        BY <3>3, <4>1, AheadAtStill
    <3> QED
      BY <3>4, <3>5 DEF Ahead, AheadAt
  <2>2. CASE HandleHeartbeat(r)
    <3>1. /\ mem[p] # NoSession /\ ~mem[p].ended /\ UNCHANGED <<file, up>>
          /\ \E saved \in BOOLEAN : Persist(p, CloseGap(mem[p]), saved)
      BY <2>2 DEF HandleHeartbeat, Receive
    <3>2. CloseGap(mem[p]).chunks = mem[p].chunks
      BY <1>c, <2>0, CloseGapSays
    <3> QED
      BY <2>0, <3>1, <3>2, AheadPersist
  <2>3. CASE HandleEnd(r)
    <3>1. /\ mem[p] # NoSession /\ ~mem[p].ended /\ UNCHANGED <<file, up>>
          /\ \E saved \in BOOLEAN : Persist(p, EndSession(mem[p]), saved)
      BY <2>3 DEF HandleEnd, Receive
    <3>2. EndSession(mem[p]).chunks = mem[p].chunks
      BY <1>c, <2>0, EndSays
    <3> QED
      BY <2>0, <3>1, <3>2, AheadPersist
  <2>4. CASE HandleInterrupt(r)
    <3>1. /\ mem[p] # NoSession /\ ~mem[p].ended /\ UNCHANGED <<file, up>>
          /\ \E saved \in BOOLEAN : Persist(p, InterruptSession(mem[p]), saved)
      BY <2>4 DEF HandleInterrupt, Receive
    <3>2. InterruptSession(mem[p]).chunks = mem[p].chunks
      BY <1>c, <2>0, InterruptSays
    <3> QED
      BY <2>0, <3>1, <3>2, AheadPersist
  <2>5. CASE Lose(r) \/ HandleReplay(r) \/ HandleAfterEnd(r)
    BY <2>5, <1>b DEF Lose, HandleReplay, HandleAfterEnd, serverVars
  <2> QED
    BY <1>3, <2>1, <2>2, <2>3, <2>4, <2>5 DEF Handle
<1>4. ASSUME NEW p \in Pages, FallSilent(p) PROVE Ahead'
  BY <1>4, <1>b DEF FallSilent
<1>5. CASE CommitChunk
  <2>a. PICK p \in Pages : p = job.page
    BY <1>5, <1>a DEF CommitChunk, Requests, RecordingsTypeOK
  <2> DEFINE session == Appended(mem[p], BlobOf(job))
  <2>0. p \in Pages /\ job.seq \in Nat
    BY <1>5, <1>a DEF CommitChunk, Requests, RecordingsTypeOK
  <2>1. /\ ~mem[p].ended /\ job.seq = Len(mem[p].chunks) + 1 /\ up /\ mem[p] # NoSession
        /\ job.seq <= Len(page[p].produced)
        /\ job.seq = Len(file[p]) /\ file[p][job.seq] = job.seq
    BY <1>5, <1>a, <2>a DEF CommitChunk, Appending
  <2>2. BlobOf(job) = job.seq
    <3>1. Len(page[p].produced) \in Nat /\ Len(mem[p].chunks) \in Nat
      BY <1>a, Sizes
    <3>2. job.seq \in 1..Len(page[p].produced)
      BY <2>0, <2>1, <3>1
    <3> QED
      BY <1>a, <2>a, <3>2 DEF Counted, Counting, BlobOf
  <2>3. session.chunks = Append(mem[p].chunks, job.seq) /\ ~session.ended
    BY <2>0, <2>1, <2>2, <1>c, AppendedSays
  <2>4. PICK saved \in BOOLEAN : Persist(p, session, saved)
    BY <1>5, <2>a DEF CommitChunk
  <2>5. \A q \in Pages : /\ mem'[q] = IF q = p THEN session ELSE mem[q]
                         /\ disk'[q] = IF q = p /\ saved THEN session ELSE disk[q]
    BY <1>a, <2>0, <2>4, PersistSays
  <2>6. file' = file /\ up' = up
    BY <1>5 DEF CommitChunk
  <2> HIDE DEF session
  <2>7. AheadAt(p)'
    <3>1. /\ mem[p].chunks \in Seq(Nat) /\ Len(mem[p].chunks) \in Nat /\ page[p].done \in Nat
          /\ Len(page[p].produced) \in Nat
      BY <1>a, <2>0, Sizes
    <3>2. Len(page'[p].produced) \in Nat /\ page'[p].done \in Nat
      BY <2>0 DEF RecordingsTypeOK, PageStates
    <3>3. Len(mem'[p].chunks) = job.seq
      BY <2>0, <2>1, <2>3, <2>5, <3>1
    <3>4. AheadAt(p)
      BY <1>a, <2>0 DEF Ahead, AheadAt
    <3>5. page'[p].done <= job.seq
      BY <2>0, <2>1, <3>1, <3>2, <3>3, <3>4 DEF AheadAt, Confirmed
    <3>6. job.seq <= Len(page'[p].produced)
      BY <2>0, <2>1, <3>1, <3>2 DEF Forward
    <3>7. \A i \in 1..job.seq : file[p][i] = i
      BY <2>0, <2>1, <3>1, <3>4 DEF AheadAt
    <3>8. ~disk'[p].ended
      BY <2>0, <2>1, <2>3, <2>5, <3>4 DEF AheadAt
    <3> QED
      BY <2>0, <2>1, <2>6, <3>3, <3>5, <3>6, <3>7, <3>8 DEF AheadAt
  <2>8. \A q \in Pages \ {p} : AheadAt(q)'
    BY <2>5, <2>6, AheadAtStill
  <2> QED
    BY <2>7, <2>8 DEF Ahead, AheadAt
<1>6. CASE Monitor
  <2>1. ASSUME NEW p \in Pages PROVE AheadAt(p)'
    <3>1. CASE mem'[p] = mem[p]
      <4>1. disk'[p] = disk[p] \/ disk'[p] = mem[p]
        BY <1>6, <3>1 DEF Monitor
      <4>2. disk'[p].ended /\ mem[p] # NoSession => mem[p].ended
        BY <4>1, <1>a DEF Ahead
      <4>3. CASE mem[p] # NoSession
        BY <1>6, <3>1, <4>2, <4>3, AheadAtKept DEF Monitor
      <4> QED
        BY <3>1, <4>3 DEF AheadAt
    <3>2. CASE mem'[p] # mem[p]
      <4>1. IsStale(p) /\ mem'[p] = MarkStale(mem[p]) /\ disk'[p] \in {disk[p], mem'[p]}
        BY <1>6, <3>2 DEF Monitor
      <4>2. mem'[p].chunks = mem[p].chunks /\ ~mem'[p].ended
        BY <4>1, <1>c, StaleSays DEF IsStale
      <4>3. mem[p] # NoSession /\ ~mem[p].ended
        BY <4>1, <1>c, NewSays DEF IsStale, Sound
      <4>4. ~disk[p].ended
        BY <4>3, <1>a DEF Ahead
      <4> QED
        BY <1>6, <4>1, <4>2, <4>3, <4>4, AheadAtKept DEF Monitor
    <3> QED
      BY <3>1, <3>2
  <2> QED
    BY <2>1 DEF Ahead, AheadAt
<1>7. CASE Crash
  BY <1>7 DEF Crash, Ahead
<1>8. CASE Restart
  <2>1. \A p \in Pages : mem'[p] = NoSession
    BY <1>8, <1>a DEF Restart, Ahead
  <2> QED
    BY <2>1 DEF Ahead
<1> QED
  BY <1>1, <1>2, <1>3, <1>4, <1>5, <1>6, <1>7, <1>8 DEF RecordingsNext

\* A file only grows, and not under a manifest that says the recording ended.
FileKept(p) ==
    /\ Len(file[p]) <= Len(file'[p])
    /\ \A i \in 1..Len(file[p]) : file'[p][i] = file[p][i]
    /\ disk[p].state = "ended" => file'[p] = file[p]

LEMMA FileStep ==
    ASSUME IInv, [RecordingsNext]_recordings, NEW p \in Pages
    PROVE  FileKept(p)
<1>a. RecordingsTypeOK /\ Tidy /\ Unknown /\ Ahead
  BY DEF IInv
<1>b. file'[p] = file[p] => FileKept(p)
  BY <1>a, Sizes DEF FileKept
<1>1. ASSUME NEW r \in net, HandleChunk(r) \/ HandleChunkFails(r) PROVE FileKept(p)
  <2>1. CASE r.page = p
    <3>1. mem[p] # NoSession /\ ~mem[p].ended
      BY <1>1, <2>1 DEF HandleChunk, HandleChunkFails, Receive, MayAppend
    <3>2. disk[p].state # "ended"
      BY <1>a, <3>1 DEF Ahead, Tidy, Sound
    <3>3. \/ \E x : file' = [file EXCEPT ![p] = Append(@, x)]
          \/ \E cut \in {<<>>, <<Torn>>} : file' = [file EXCEPT ![p] = @ \o cut]
      BY <1>1, <2>1 DEF HandleChunk, HandleChunkFails, AppendFails
    <3>4. \/ \E x : file'[p] = Append(file[p], x)
          \/ \E cut \in {<<>>, <<Torn>>} : file'[p] = file[p] \o cut
      BY <1>a, <3>3 DEF RecordingsTypeOK
    <3>5. \/ \E x : file'[p] = Append(file[p], x)
          \/ file'[p] = file[p]
      <4>1. file[p] \o <<>> = file[p] /\ file[p] \o <<Torn>> = Append(file[p], Torn)
        BY <1>a, Sizes DEF Torn
      <4> QED
        BY <3>4, <4>1
    <3>6. /\ Len(file[p]) <= Len(file'[p])
          /\ \A i \in 1..Len(file[p]) : file'[p][i] = file[p][i]
      BY <1>a, <3>5, Sizes
    <3> QED
      BY <3>2, <3>6 DEF FileKept
  <2>2. CASE r.page # p
    BY <1>a, <1>1, <2>2, <1>b
       DEF HandleChunk, HandleChunkFails, AppendFails, RecordingsTypeOK
  <2> QED
    BY <2>1, <2>2
<1>2. CASE ~\E r \in net : HandleChunk(r) \/ HandleChunkFails(r)
  BY <1>2, <1>b
     DEF RecordingsNext, recordings, PageStep, StartRecording, DataAvailable, RecorderFails,
         UploadChunk, AttemptFails, SendHeartbeat, StopGracefully, SendEnd, EndFails,
         PageHide, Handle, Lose, HandleReplay, HandleHeartbeat, HandleEnd,
         HandleInterrupt, HandleAfterEnd, FallSilent, CommitChunk, Monitor, Crash, Restart
<1> QED
  BY <1>1, <1>2

\* Listed of one page.
ListedAt(p) ==
    /\ Len(disk[p].chunks) <= Len(file[p])
    /\ \A i \in 1..Len(disk[p].chunks) : file[p][i] = i
    /\ disk[p].state = "ended" =>
          /\ page[p].phase \in Over
          /\ Len(disk[p].chunks) = Len(page[p].produced)
          /\ Len(file[p]) = Len(page[p].produced)

\* The manifest keeps its list.
LEMMA ListedAtKept ==
    ASSUME IInv, Forward, NEW p \in Pages, FileKept(p), RecordingsTypeOK',
           disk'[p].chunks = disk[p].chunks,
           disk'[p].state = "ended" => disk[p].state = "ended"
    PROVE  ListedAt(p)'
<1>1. ListedAt(p)
  BY DEF IInv, Listed, ListedAt
<1>2. /\ Len(disk[p].chunks) \in Nat /\ Len(file[p]) \in Nat /\ Len(file'[p]) \in Nat
  BY Sizes DEF IInv, RecordingsTypeOK
<1> QED
  BY <1>1, <1>2 DEF ListedAt, FileKept, Forward

\* The manifest is written anew from the session in memory.
LEMMA ListedAtWritten ==
    ASSUME Ahead', NEW p \in Pages, mem'[p] # NoSession,
           disk'[p].chunks = mem'[p].chunks, disk'[p].state # "ended"
    PROVE  ListedAt(p)'
BY DEF Ahead, ListedAt

LEMMA ListedStep ==
    ASSUME IInv, [RecordingsNext]_recordings, Forward, Ahead', RecordingsTypeOK'
    PROVE  Listed'
<1>a. RecordingsTypeOK /\ Tidy /\ Unknown /\ Counted /\ Sent /\ Appending /\ Ahead
  BY DEF IInv
<1>b. \A p \in Pages : disk'[p] = disk[p] => ListedAt(p)'
  BY FileStep, ListedAtKept
<1>c. \A p \in Pages : mem[p] \in Sessions /\ Sound(mem[p])
  BY <1>a DEF RecordingsTypeOK, Tidy
<1>d. \A p \in Pages : disk[p] \in Sessions /\ Sound(disk[p])
  BY <1>a DEF RecordingsTypeOK, Tidy
<1>e. ASSUME NEW p \in Pages, NEW session, NEW saved \in BOOLEAN, Persist(p, session, saved),
             session.state \notin {"none", "ended"}
      PROVE  Listed'
  <2>1. \A q \in Pages : /\ mem'[q] = IF q = p THEN session ELSE mem[q]
                         /\ disk'[q] = IF q = p /\ saved THEN session ELSE disk[q]
    BY <1>a, <1>e, PersistSays
  <2>2. session # NoSession
    BY <1>e, NewSays
  <2>3. ASSUME NEW q \in Pages PROVE ListedAt(q)'
    <3>1. CASE disk'[q] = disk[q]
      BY <3>1, <1>b
    <3>2. CASE disk'[q] # disk[q]
      BY <1>e, <2>1, <2>2, <3>2, ListedAtWritten
    <3> QED
      BY <3>1, <3>2
  <2> QED
    BY <2>3 DEF Listed, ListedAt
<1>f. UNCHANGED disk => Listed'
  BY <1>b DEF Listed, ListedAt
<1>1. CASE UNCHANGED recordings
  BY <1>1, <1>f DEF recordings
<1>2. ASSUME NEW p \in Pages, PageStep(p) PROVE Listed'
  <2>1. CASE StartRecording(p)
    BY <2>1, <1>e, NewSays DEF StartRecording
  <2>2. CASE ~StartRecording(p)
    BY <1>2, <2>2, <1>f
       DEF PageStep, DataAvailable, RecorderFails, UploadChunk, AttemptFails, SendHeartbeat,
           StopGracefully, SendEnd, EndFails, PageHide, serverVars
  <2> QED
    BY <2>1, <2>2
<1>3. ASSUME NEW r \in net, Handle(r) PROVE Listed'
  <2>0. r.page \in Pages
    BY <1>a DEF RecordingsTypeOK, Requests
  <2>1. CASE HandleHeartbeat(r)
    <3>1. CloseGap(mem[r.page]).state = "recording"
      BY <1>c, <2>0, <2>1, HeartbeatSays DEF HandleHeartbeat
    <3> QED
      BY <2>0, <2>1, <3>1, <1>e DEF HandleHeartbeat
  <2>2. CASE HandleInterrupt(r)
    <3>1. InterruptSession(mem[r.page]).state = "interrupted"
      BY <1>c, <2>0, InterruptSays
    <3> QED
      BY <2>0, <2>2, <3>1, <1>e DEF HandleInterrupt
  <2>3. CASE HandleEnd(r)
    <3> DEFINE p == r.page
    <3>1. PICK saved \in BOOLEAN : Persist(p, EndSession(mem[p]), saved)
      BY <2>3 DEF HandleEnd
    <3>2. \A q \in Pages :
             disk'[q] = IF q = p /\ saved THEN EndSession(mem[p]) ELSE disk[q]
      BY <1>a, <2>0, <3>1, PersistSays
    <3>3. EndSession(mem[p]).chunks = mem[p].chunks
      BY <1>c, <2>0, EndSays
    <3>4. /\ mem[p] # NoSession /\ file' = file /\ r.op = "end"
      BY <2>3 DEF HandleEnd, Receive
    <3>5. page[p].phase \in Over /\ page[p].done = Len(page[p].produced)
      BY <1>a, <3>4 DEF Sent
    <3>6. /\ Len(mem[p].chunks) = Len(page[p].produced)
          /\ Len(file[p]) = Len(page[p].produced)
          /\ \A i \in 1..Len(mem[p].chunks) : file[p][i] = i
      <4>1. /\ Len(mem[p].chunks) \in Nat /\ Len(file[p]) \in Nat
            /\ Len(page[p].produced) \in Nat
        BY <1>a, <2>0, Sizes
      <4>2. AheadAt(p)
        BY <1>a, <2>0 DEF Ahead, AheadAt
      <4> QED
        BY <3>4, <3>5, <4>1, <4>2 DEF AheadAt
    <3>7. page'[p].phase \in Over /\ page'[p].produced = page[p].produced
      BY <2>0, <3>5 DEF Forward
    <3>8. disk'[p] = EndSession(mem[p]) => ListedAt(p)'
      BY <3>3, <3>4, <3>6, <3>7 DEF ListedAt
    <3>9. \A q \in Pages : ListedAt(q)'
      BY <1>b, <2>0, <3>2, <3>8
    <3> QED
      BY <3>9 DEF Listed, ListedAt
  <2>4. CASE \/ Lose(r) \/ HandleReplay(r) \/ HandleChunk(r) \/ HandleChunkFails(r)
             \/ HandleAfterEnd(r)
    BY <2>4, <1>f
       DEF Lose, HandleReplay, HandleChunk, HandleChunkFails, HandleAfterEnd, serverVars
  <2> QED
    BY <1>3, <2>1, <2>2, <2>3, <2>4 DEF Handle
<1>4. ASSUME NEW p \in Pages, FallSilent(p) PROVE Listed'
  BY <1>4, <1>f DEF FallSilent
<1>5. CASE CommitChunk
  <2>a. PICK p \in Pages : p = job.page
    BY <1>5, <1>a DEF CommitChunk, Requests, RecordingsTypeOK
  <2>1. /\ ~mem[p].ended /\ job.seq = Len(mem[p].chunks) + 1
        /\ job.seq <= Len(page[p].produced)
    BY <1>5, <1>a, <2>a DEF CommitChunk, Appending
  <2>2. BlobOf(job) = job.seq /\ job.seq \in Nat
    <3>1. Len(page[p].produced) \in Nat /\ Len(mem[p].chunks) \in Nat
      BY <1>a, Sizes
    <3>2. job.seq \in 1..Len(page[p].produced)
      BY <2>1, <3>1
    <3> QED
      BY <1>a, <2>a, <3>2 DEF Counted, Counting, BlobOf
  <2>3. Appended(mem[p], BlobOf(job)).state = "recording"
    BY <2>1, <2>2, <1>c, AppendedSays
  <2> QED
    BY <1>5, <2>a, <2>3, <1>e DEF CommitChunk
<1>6. CASE Monitor
  <2>1. ASSUME NEW p \in Pages PROVE ListedAt(p)'
    <3>1. CASE disk'[p] = disk[p]
      BY <3>1, <1>b
    <3>2. CASE disk'[p] # disk[p]
      <4>1. IsStale(p) /\ disk'[p] = mem'[p] /\ mem'[p] = MarkStale(mem[p])
        BY <1>6, <3>2 DEF Monitor
      <4>2. mem'[p].state = "gap"
        BY <4>1, <1>c, StaleSays DEF IsStale
      <4> QED
        BY <4>1, <4>2, NewSays, ListedAtWritten
    <3> QED
      BY <3>1, <3>2
  <2> QED
    BY <2>1 DEF Listed, ListedAt
<1>7. CASE Crash
  BY <1>7, <1>f DEF Crash
<1>8. CASE Restart
  <2>1. ASSUME NEW p \in Pages PROVE ListedAt(p)'
    <3>1. disk'[p] = RecoverManifest(disk[p])
      BY <1>8 DEF Restart
    <3>2. /\ disk'[p].chunks = disk[p].chunks
          /\ disk'[p].state = "ended" => disk[p].state = "ended"
      BY <1>d, <3>1, RecoverSays
    <3> QED
      BY <3>2, FileStep, ListedAtKept
  <2> QED
    BY <2>1 DEF Listed, ListedAt
<1> QED
  BY <1>1, <1>2, <1>3, <1>4, <1>5, <1>6, <1>7, <1>8 DEF RecordingsNext

-----------------------------------------------------------------------------
(* The theorems.                                                           *)

LEMMA InitIsRight == RecordingsInit => IInv
<1> SUFFICES ASSUME RecordingsInit PROVE IInv
  OBVIOUS
<1> USE DEF RecordingsInit
<1>1. NewPage \in PageStates
  <2>1. <<>> \in Seq(Nat)
    OBVIOUS
  <2> QED
    BY <2>1 DEF NewPage, PageStates
<1>2. RecordingsTypeOK
  <2>1. <<>> \in Seq(Nat)
    OBVIOUS
  <2> QED
    BY <1>1, <2>1, NewSessionsAreTyped DEF RecordingsTypeOK
<1>3. /\ NewPage.produced = <<>> /\ NewPage.done = 0 /\ NewPage.uploading = 0
      /\ NewPage.phase = "off"
  BY DEF NewPage
<1>4. Tidy
  BY NewSays DEF Tidy
<1>5. Unknown /\ Sent /\ Appending /\ Ahead
  BY <1>3 DEF Unknown, Sent, Appending, Ahead
<1>6. Counted
  BY <1>3, RecordingsAssumption DEF Counted, Counting
<1>7. Listed
  BY NewSays DEF Listed
<1> QED
  BY <1>2, <1>4, <1>5, <1>6, <1>7 DEF IInv

LEMMA NextKeeps == IInv /\ [RecordingsNext]_recordings => IInv'
<1> SUFFICES ASSUME IInv, [RecordingsNext]_recordings PROVE IInv'
  OBVIOUS
<1>1. RecordingsTypeOK'
  BY TypeStep DEF IInv
<1>2. Counted' /\ Forward /\ Confirmed
  BY PagesStep
<1>3. Tidy' /\ Unknown' /\ Sent' /\ Appending'
  BY <1>1, <1>2, TidyStep, UnknownStep, SentStep, AppendingStep
<1>4. Ahead'
  BY <1>1, <1>2, AheadStep
<1>5. Listed'
  BY <1>1, <1>2, <1>4, ListedStep
<1> QED
  BY <1>1, <1>2, <1>3, <1>4, <1>5 DEF IInv

LEMMA Inductive == RecordingsSpec => []IInv
BY InitIsRight, NextKeeps, PTL DEF RecordingsSpec

(* Every variable of the server, the pages and the disk keeps its type.    *)
THEOREM TypeCorrect == RecordingsSpec => []RecordingsTypeOK
<1>1. IInv => RecordingsTypeOK
  BY DEF IInv
<1> QED
  BY <1>1, Inductive, PTL

\* What the manifest lists is what the file begins with.
LEMMA PrefixOfFile ==
    ASSUME IInv, NEW p \in Pages
    PROVE  IsPrefix(disk[p].chunks, file[p])
<1> DEFINE d == disk[p].chunks
           f == file[p]
<1>1. d \in Seq(Nat) /\ f \in Seq(Nat) /\ Len(d) \in Nat /\ Len(f) \in Nat
  BY Sizes DEF IInv
<1>2. Len(d) <= Len(f) /\ \A i \in 1..Len(d) : d[i] = i /\ f[i] = i
  BY DEF IInv, Listed, Tidy, Sound, Counting
<1> HIDE DEF d, f
<1>3. SubSeq(d, 1, Len(d)) = SubSeq(f, 1, Len(d))
  BY <1>1, <1>2
<1> QED
  BY <1>2, <1>3 DEF d, f, IsPrefix

(* FileHoldsManifest: a manifest never lists a chunk that the file does    *)
(* not hold at that place, whatever fails between the two writes.          *)
THEOREM ManifestIsHeld == RecordingsSpec => []FileHoldsManifest
<1>1. IInv => FileHoldsManifest
  BY PrefixOfFile DEF FileHoldsManifest
<1> QED
  BY <1>1, Inductive, PTL

(* EndedIsWhole: a manifest that says a recording ended describes every    *)
(* chunk the recorder handed over, once and in order.                      *)
THEOREM EndIsWhole == RecordingsSpec => []EndedIsWhole
<1>1. ASSUME IInv, NEW p \in Pages, disk[p].state = "ended"
      PROVE  /\ ~disk[p].unflushed
             /\ file[p] = page[p].produced /\ disk[p].chunks = file[p]
  <2> DEFINE d == disk[p].chunks
             f == file[p]
             c == page[p].produced
  <2>1. d \in Seq(Nat) /\ f \in Seq(Nat) /\ c \in Seq(Nat)
    BY <1>1, Sizes DEF IInv
  <2>2. Len(d) = Len(c) /\ Len(f) = Len(c)
    BY <1>1 DEF IInv, Listed
  <2>3. \A i \in 1..Len(c) : d[i] = i /\ f[i] = i /\ c[i] = i
    BY <1>1, <2>2 DEF IInv, Listed, Tidy, Sound, Counted, Counting
  <2>4. ~disk[p].unflushed
    BY <1>1 DEF IInv, Tidy, Sound
  <2> HIDE DEF d, f, c
  <2>5. f = c /\ d = f
    <3>1. \A a, b \in Seq(Nat) :
            /\ Len(a) = Len(b)
            /\ \A i \in 1..Len(a) : a[i] = b[i]
            => a = b
      OBVIOUS
    <3>2. f = c
      BY <2>1, <2>2, <2>3, <3>1
    <3>3. d = c
      BY <2>1, <2>2, <2>3, <3>1
    <3> QED
      BY <3>2, <3>3
  <2> QED
    BY <2>4, <2>5 DEF d, f, c
<1>2. IInv => EndedIsWhole
  BY <1>1 DEF EndedIsWhole
<1> QED
  BY <1>2, Inductive, PTL

\* What was finished is not written again.
LEMMA FinishedStep ==
    ASSUME IInv, [RecordingsNext]_recordings, NEW p \in Pages, disk[p].ended
    PROVE  disk'[p] = disk[p]
<1>a. /\ RecordingsTypeOK /\ Tidy /\ Unknown /\ Appending
      /\ mem[p] = NoSession \/ mem[p].ended
  BY DEF IInv, Ahead
<1>b. disk[p] # NoSession
  BY NewSays
<1>c. ASSUME NEW q \in Pages, NEW session, NEW saved \in BOOLEAN, Persist(q, session, saved),
             q # p
      PROVE  disk'[p] = disk[p]
  BY <1>a, <1>c, PersistSays
<1>d. disk' = disk => disk'[p] = disk[p]
  OBVIOUS
<1>1. CASE UNCHANGED recordings
  BY <1>1 DEF recordings
<1>2. ASSUME NEW q \in Pages, PageStep(q) PROVE disk'[p] = disk[p]
  <2>1. CASE StartRecording(q)
    <3>1. q # p
      BY <1>a, <1>b, <2>1 DEF StartRecording, Unknown
    <3> QED
      BY <2>1, <3>1, <1>c DEF StartRecording
  <2>2. CASE ~StartRecording(q)
    BY <1>2, <2>2, <1>d
       DEF PageStep, DataAvailable, RecorderFails, UploadChunk, AttemptFails, SendHeartbeat,
           StopGracefully, SendEnd, EndFails, PageHide, serverVars
  <2> QED
    BY <2>1, <2>2
<1>3. ASSUME NEW r \in net, Handle(r) PROVE disk'[p] = disk[p]
  <2>0. r.page \in Pages
    BY <1>a DEF RecordingsTypeOK, Requests
  <2>1. CASE HandleHeartbeat(r) \/ HandleEnd(r) \/ HandleInterrupt(r)
    <3>1. r.page # p
      BY <1>a, <2>1 DEF HandleHeartbeat, HandleEnd, HandleInterrupt, Receive
    <3> QED
      BY <2>0, <2>1, <3>1, <1>c DEF HandleHeartbeat, HandleEnd, HandleInterrupt
  <2>2. CASE \/ Lose(r) \/ HandleReplay(r) \/ HandleChunk(r) \/ HandleChunkFails(r)
             \/ HandleAfterEnd(r)
    BY <2>2
       DEF Lose, HandleReplay, HandleChunk, HandleChunkFails, HandleAfterEnd, serverVars
  <2> QED
    BY <1>3, <2>1, <2>2 DEF Handle
<1>4. ASSUME NEW q \in Pages, FallSilent(q) PROVE disk'[p] = disk[p]
  BY <1>4 DEF FallSilent
<1>5. CASE CommitChunk
  <2>1. job.page \in Pages /\ job.page # p
    BY <1>5, <1>a DEF CommitChunk, Requests, RecordingsTypeOK, Appending
  <2> QED
    BY <1>5, <2>1, <1>c DEF CommitChunk
<1>6. CASE Monitor
  <2>1. ~IsStale(p)
    BY <1>a, NewSays DEF IsStale, Tidy, Sound
  <2> QED
    BY <1>6, <2>1 DEF Monitor
<1>7. CASE Crash
  BY <1>7 DEF Crash
<1>8. CASE Restart
  BY <1>8 DEF Restart, RecoverManifest
<1> QED
  BY <1>1, <1>2, <1>3, <1>4, <1>5, <1>6, <1>7, <1>8 DEF RecordingsNext

(* FinishedIsFinal: a finished manifest is final and has no open gap, also *)
(* after late requests, a restart and the monitor's next round.            *)
THEOREM FinalStays == RecordingsSpec => FinishedIsFinal
<1>1. ASSUME IInv, NEW p \in Pages, disk[p].ended
      PROVE  \A i \in DOMAIN disk[p].gaps : disk[p].gaps[i] # "open"
  <2>1. disk[p].gaps \in Seq({"open", "closed"}) /\ Sound(disk[p])
    BY <1>1 DEF IInv, RecordingsTypeOK, Sessions, Tidy
  <2>2. DOMAIN disk[p].gaps = 1..Len(disk[p].gaps)
    BY <2>1
  <2> QED
    BY <1>1, <2>1, <2>2 DEF Sound
<1>2. IInv /\ [RecordingsNext]_recordings
        => [\A p \in Pages : disk[p].ended =>
              disk'[p] = disk[p] /\ \A i \in DOMAIN disk[p].gaps : disk[p].gaps[i] # "open"]_recordings
  BY <1>1, FinishedStep
<1> QED
  BY <1>2, Inductive, PTL DEF RecordingsSpec, FinishedIsFinal

=============================================================================
