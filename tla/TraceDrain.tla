------------------------------ MODULE TraceDrain ------------------------------
(***************************************************************************)
(* The TRAM drain (components/dap_probe/dap_trace.c: trace_begin,          *)
(* dap_trace_poll, drain_to, publish_flags, dap_trace_finish) against the  *)
(* target's trace unit, which keeps writing a ring of Total paragraphs     *)
(* while the probe reads it word by word over the DAP.                     *)
(*                                                                         *)
(* The trace unit numbers the words it writes; a word of the TRAM is       *)
(* represented by its number, so a paragraph that was overwritten while it *)
(* was read, or one from another lap, shows.  The probe sees the write     *)
(* pointer only as a paragraph of the TRAM (a number % Total).             *)
(*                                                                         *)
(* The output ring is a queue of records here; TraceRing shows that the    *)
(* bytes underneath keep that promise.                                     *)
(***************************************************************************)
EXTENDS Integers, Sequences, FiniteSets

CONSTANTS
  Total,       \* total_par: paragraphs in the TRAM
  Words,       \* words of a paragraph (TRACE_WORDS_PER_PAR)
  Margin,      \* TRACE_MARGIN
  NowEvery,    \* TRACE_NOW_EVERY
  ChainPars,   \* TRACE_CHAIN_PARS
  RingRecords, \* records the output ring holds
  PaceLimit,   \* paragraphs the writer moves at most between two looks at FIFONOW
  MaxWords,    \* bound: words the trace unit writes
  MaxFails     \* bound: block reads that fail

ASSUME DrainAssumption ==
  /\ {Total, Words, Margin, NowEvery, ChainPars, RingRecords, MaxWords} \subseteq Nat \ {0}
  /\ {PaceLimit, MaxFails} \subseteq Nat
  /\ 3 <= Total /\ Margin <= Total

VARIABLES
  wrote,       \* target: words written so far
  tracing,     \* target: tracing is on (FIFOCTL SET turns it off)
  pc,          \* drain: "poll", "read", "judge", "final"; "stopped" is its end
  finishing,   \* drain: this pass is dap_trace_finish's
  nextPar,     \* s_next_par
  pendingLost, \* s_pending_lost
  seq,         \* s_seq
  pass,        \* the locals of drain_to
  buf,         \* words[]: the words of the chain, in order
  samples,     \* words[]: the FIFONOW words of the chain, as written paragraphs
  ring,        \* the output ring: records not yet read
  last,        \* the record the host received last
  fails,       \* block reads that failed so far
  look,        \* history: the paragraph FIFONOW was in when last read
  asleep,      \* history: a read failed since then (vTaskDelay(1): twice a TRAM lap)
  nextAbs,     \* history: the number of the paragraph nextPar stands for
  accounted,   \* history: s_stats.paragraphs + lost + dropped paragraphs
  overtaken    \* history: the pointer moved a lap or more between two looks

target == <<wrote, tracing>>
chain == <<buf, samples>>
seen == <<look, asleep>>
vars == <<target, pc, finishing, nextPar, pendingLost, seq, pass, chain, ring, last,
          fails, seen, nextAbs, accounted, overtaken>>

Least(a, b) == IF a < b THEN a ELSE b

(* FIFONOW's paragraph, the one being written, by its number. *)
NowPar == wrote \div Words

NoWord == MaxWords   \* a TRAM word not written in this trace

(* The word at place w of TRAM paragraph p: the last one written there. *)
TramWord(p, w) ==
  LET written == {x \in 0 .. wrote - 1 : x % Words = w /\ (x \div Words) % Total = p}
  IN IF written = {} THEN NoWord ELSE CHOOSE x \in written : \A y \in written : y <= x

NoPass == [lost |-> 0, toRead |-> 0, margin |-> 0, moved |-> 0, prev |-> 0,
           i |-> 0, k |-> 0, batch |-> 0, now |-> 0]

(* A record of the stream; num, the paragraph's number, is history. *)
NoRecord == [seq |-> 0, par |-> 0, lost |-> 0, final |-> FALSE, words |-> <<>>, num |-> 0]

(***************************************************************************)
(* trace_begin: the drain starts at the pointer's own paragraph.           *)
(***************************************************************************)
Init ==
  /\ wrote = 0 /\ tracing = TRUE
  /\ pc = "poll" /\ finishing = FALSE
  /\ nextPar = NowPar % Total /\ pendingLost = 0 /\ seq = 0
  /\ pass = NoPass /\ buf = <<>> /\ samples = <<>>
  /\ ring = <<>> /\ last = NoRecord /\ fails = 0
  /\ look = NowPar /\ asleep = FALSE
  /\ nextAbs = NowPar /\ accounted = 0 /\ overtaken = FALSE

(***************************************************************************)
(* The target.                                                             *)
(***************************************************************************)
WriteWord ==
  /\ tracing /\ wrote < MaxWords
  /\ wrote' = wrote + 1
  /\ asleep \/ NowPar' <= look + PaceLimit
  /\ UNCHANGED <<tracing, pc, finishing, nextPar, pendingLost, seq, pass, chain, ring,
                 last, fails, seen, nextAbs, accounted, overtaken>>

(* dap_mcds_stop's flush. *)
Flush ==
  /\ tracing
  /\ tracing' = FALSE
  /\ UNCHANGED <<wrote, pc, finishing, nextPar, pendingLost, seq, pass, chain, ring,
                 last, fails, seen, nextAbs, accounted, overtaken>>

(* The paragraph n further in the TRAM. *)
ParAfter(n) == (nextPar + n) % Total

(***************************************************************************)
(* drain_to up to its reads: what waits for the pointer `now`, what the    *)
(* lap test gives up, and what the margin gives up.                        *)
(***************************************************************************)
(* Mutant: a pointer behind the drain counts as nothing waiting. *)
AvailableNoWrap(now) == IF now % Total >= nextPar THEN (now % Total) - nextPar ELSE 0

Available(now) == ((now % Total) + Total - nextPar) % Total

Lapped(now) == Available(now) >= Total - 1 /\ Available(now) # 0

(* Paragraphs skipped as lost before anything is read. *)
SkipLap(now) == IF Lapped(now) THEN Available(now) ELSE 0
SkipMargin(now) ==
  LET a == Available(now) - SkipLap(now)
  IN IF a + Margin > Total THEN a + Margin - Total ELSE 0

StartPass(now) ==
  LET skipped == SkipLap(now) + SkipMargin(now)
      toRead == Available(now) - skipped
      lost == pendingLost + skipped
      there == overtaken \/ now - nextAbs >= Total
  IN
  /\ overtaken' = there
  /\ look' = now /\ asleep' = FALSE
  /\ nextPar' = ParAfter(skipped)
  /\ nextAbs' = nextAbs + skipped
  /\ accounted' = accounted + skipped
  /\ pass' = [NoPass EXCEPT !.lost = lost, !.toRead = toRead, !.margin = Total - toRead,
                            !.prev = now % Total, !.now = now,
                            !.batch = Least(toRead, ChainPars)]
  /\ IF toRead = 0
     THEN /\ pendingLost' = lost
          /\ pc' = IF finishing' THEN "final" ELSE "poll"
     ELSE /\ pc' = "read"
          /\ UNCHANGED pendingLost
  /\ buf' = <<>> /\ samples' = <<>>
  /\ UNCHANGED <<target, seq, ring, last, fails>>

(* dap_trace_poll, in the drain task. *)
Poll ==
  /\ pc = "poll" /\ ~finishing
  /\ finishing' = FALSE
  /\ StartPass(NowPar)

(* dap_trace_stop between two passes, then dap_trace_finish. *)
Finish ==
  /\ pc = "poll" /\ ~finishing /\ ~tracing
  /\ finishing' = TRUE
  /\ StartPass(NowPar)

(* At a 100 Hz tick dap_trace_stop does not wait, and the finish may come   *)
(* upon the task's own pass: two drains then share s_next_par and words[].  *)
(* What these do to the stream is left open, so the drain ends here;        *)
(* TraceSession has how they meet (OneDrainer).                             *)
FinishBeside ==
  /\ pc \in {"read", "judge"} /\ ~finishing /\ ~tracing
  /\ finishing' = TRUE /\ pc' = "stopped"
  /\ pass' = NoPass /\ buf' = <<>> /\ samples' = <<>>
  /\ UNCHANGED <<target, nextPar, pendingLost, seq, ring, last, fails, seen, nextAbs,
                 accounted, overtaken>>

(* FIFONOW itself cannot be read: the task sleeps a tick, or the finish     *)
(* publishes nothing.                                                       *)
NowFail ==
  /\ pc = "poll" /\ fails < MaxFails
  /\ fails' = fails + 1 /\ asleep' = TRUE
  /\ pc' \in IF tracing THEN {"poll"} ELSE {"poll", "stopped"}
  /\ UNCHANGED <<target, finishing, nextPar, pendingLost, seq, pass, chain, ring, last,
                 look, nextAbs, accounted, overtaken>>

(***************************************************************************)
(* The chain of block reads: paragraphs word by word, and FIFONOW after    *)
(* every NowEvery-th and after the last.                                   *)
(***************************************************************************)
FullPars == Len(buf) \div Words

NowDue ==
  /\ Len(buf) % Words = 0 /\ FullPars > 0
  /\ FullPars % NowEvery = 0 \/ FullPars = pass.batch
  /\ Len(samples) * NowEvery < FullPars

ReadWord ==
  /\ pc = "read" /\ ~NowDue /\ FullPars < pass.batch
  /\ buf' = Append(buf, TramWord(ParAfter(FullPars), Len(buf) % Words))
  /\ UNCHANGED <<target, pc, finishing, nextPar, pendingLost, seq, pass, samples, ring,
                 last, fails, seen, nextAbs, accounted, overtaken>>

ReadNow ==
  /\ pc = "read" /\ NowDue
  /\ samples' = Append(samples, NowPar)
  /\ look' = NowPar
  /\ overtaken' = (overtaken \/ NowPar - look >= Total)
  /\ pc' = IF FullPars = pass.batch THEN "judge" ELSE "read"
  /\ UNCHANGED <<target, finishing, nextPar, pendingLost, seq, pass, buf, ring, last,
                 fails, asleep, nextAbs, accounted>>

(***************************************************************************)
(* publish_flags: a record, or a sequence number spent on a dropped one.   *)
(***************************************************************************)
Publish(record) ==
  /\ seq' = seq + 1
  /\ ring' = IF Len(ring) < RingRecords THEN Append(ring, record) ELSE ring

(* Mutant: a loss not yet on a record is dropped. *)
EndPassForgets(lost) ==
  /\ pendingLost' = 0
  /\ pc' = IF finishing THEN "final" ELSE "poll"
  /\ pass' = [NoPass EXCEPT !.now = pass.now] /\ buf' = <<>> /\ samples' = <<>>

(* The end of a pass: losses not yet on a record wait for the next one. *)
EndPass(lost) ==
  /\ pendingLost' = lost
  /\ pc' = IF finishing THEN "final" ELSE "poll"
  /\ pass' = [NoPass EXCEPT !.now = pass.now] /\ buf' = <<>> /\ samples' = <<>>

(* dap_probe_blockread_many fails: nothing of the chain is published. *)
ReadFail ==
  /\ pc = "read" /\ fails < MaxFails
  /\ fails' = fails + 1 /\ asleep' = TRUE
  /\ EndPass(pass.lost)
  /\ UNCHANGED <<target, finishing, nextPar, seq, ring, last, look, nextAbs, accounted,
                 overtaken>>

(***************************************************************************)
(* The paragraphs of the chain, judged one by one: torn if the writer had  *)
(* reached it by the FIFONOW read after its group.                         *)
(***************************************************************************)
GroupNow == samples[pass.k \div NowEvery + 1]

Moved ==
  IF pass.k % NowEvery = 0
  THEN pass.moved + (((GroupNow % Total) + Total - pass.prev) % Total)
  ELSE pass.moved

(* Mutant: the margin is one too generous. *)
TornLate == Moved > pass.margin + pass.i

Torn == Moved >= pass.margin + pass.i

(* The rest of the pass is lost; the drain resumes at the pointer. *)
LostToTear == pass.toRead - pass.i

ResumeAtPointer == nextPar' = GroupNow % Total /\ nextAbs' = GroupNow

GiveUp ==
  /\ pc = "judge" /\ Torn
  /\ ResumeAtPointer
  /\ accounted' = accounted + LostToTear
  /\ EndPass(pass.lost + LostToTear)
  /\ UNCHANGED <<target, finishing, seq, ring, last, fails, seen, overtaken>>

PublishPar ==
  /\ pc = "judge" /\ ~Torn
  /\ Publish([seq |-> seq, par |-> nextPar, lost |-> pass.lost, final |-> FALSE,
              words |-> SubSeq(buf, pass.k * Words + 1, (pass.k + 1) * Words),
              num |-> nextAbs])
  /\ nextPar' = ParAfter(1)
  /\ nextAbs' = nextAbs + 1
  /\ accounted' = accounted + 1
  /\ IF pass.i + 1 = pass.toRead
     THEN EndPass(0)
     ELSE LET more == [pass EXCEPT !.lost = 0, !.moved = Moved, !.prev = GroupNow % Total,
                                   !.i = @ + 1, !.k = @ + 1]
          IN /\ IF more.k < pass.batch
                THEN /\ pass' = more
                     /\ UNCHANGED <<pc, chain>>
                ELSE /\ pass' = [more EXCEPT !.k = 0, !.batch = Least(more.toRead - more.i, ChainPars)]
                     /\ pc' = "read" /\ buf' = <<>> /\ samples' = <<>>
             /\ UNCHANGED pendingLost
  /\ UNCHANGED <<target, finishing, last, fails, seen, overtaken>>

(***************************************************************************)
(* The end of dap_trace_finish: the paragraph the pointer was in, as the   *)
(* record with the FINAL flag; not sent if its block read fails.           *)
(***************************************************************************)
PublishFinal ==
  /\ pc = "final"
  /\ Publish([seq |-> seq, par |-> pass.now % Total, lost |-> 0, final |-> TRUE,
              words |-> [w \in 1 .. Words |-> TramWord(pass.now % Total, w - 1)],
              num |-> pass.now])
  /\ pc' = "stopped"
  /\ UNCHANGED <<target, finishing, nextPar, pendingLost, pass, chain, last, fails,
                 seen, nextAbs, accounted, overtaken>>

FinalFail ==
  /\ pc = "final" /\ fails < MaxFails
  /\ fails' = fails + 1
  /\ pc' = "stopped"
  /\ UNCHANGED <<target, finishing, nextPar, pendingLost, seq, pass, chain, ring, last,
                 seen, nextAbs, accounted, overtaken>>

(* The host takes the next record from the stream. *)
Receive ==
  /\ ring # <<>>
  /\ last' = Head(ring) /\ ring' = Tail(ring)
  /\ UNCHANGED <<target, pc, finishing, nextPar, pendingLost, seq, pass, chain, fails, seen,
                 nextAbs, accounted, overtaken>>

Drain == Poll \/ ReadWord \/ ReadNow \/ GiveUp \/ PublishPar \/ PublishFinal

Next ==
  \/ WriteWord \/ Flush
  \/ Poll \/ Finish \/ FinishBeside \/ NowFail
  \/ ReadWord \/ ReadNow \/ ReadFail
  \/ GiveUp \/ PublishPar
  \/ PublishFinal \/ FinalFail
  \/ Receive

(* The drain task busy-polls above everything else on its core, and the     *)
(* sender keeps reading the ring.                                           *)
Spec == Init /\ [][Next]_vars /\ WF_vars(Drain) /\ WF_vars(Receive)

(***************************************************************************)
(* Properties.                                                             *)
(***************************************************************************)
Paragraphs == 0 .. Total - 1

(* The drain's locals and the stream keep their types; the paragraph index  *)
(* stays inside the TRAM, so no block read leaves it.                       *)
TypeOK ==
  /\ wrote \in 0 .. MaxWords /\ tracing \in BOOLEAN
  /\ pc \in {"poll", "read", "judge", "final", "stopped"} /\ finishing \in BOOLEAN
  /\ nextPar \in Paragraphs /\ pendingLost \in Nat /\ seq \in Nat
  /\ pass.toRead \in Paragraphs /\ pass.i \in 0 .. pass.toRead
  /\ pass.batch \in 0 .. ChainPars /\ Len(buf) <= pass.batch * Words
  /\ Len(ring) <= RingRecords

(* What the host has or will get, in order. *)
Stream == (IF last = NoRecord THEN <<>> ELSE <<last>>) \o ring

(* The number of the paragraph a record carries. *)
ParOf(r) == r.words[1] \div Words

(* No torn paragraph is published (the margin and the FIFONOW reads of      *)
(* drain_to): every record but the final one holds the words of one whole   *)
(* paragraph, in order, unless the writer lapped between two looks.         *)
PublishedIntact ==
  overtaken \/
    \A j \in 1 .. Len(Stream) :
      LET r == Stream[j] IN
      ~r.final =>
        /\ \A w \in 1 .. Words : r.words[w] = ParOf(r) * Words + w - 1
        /\ ParOf(r) < NowPar

(* What the host takes for a gap before s, the record after r (decode.py,   *)
(* session.py): the GAP flag or a jump of the sequence number.              *)
GapSeen(r, s) == s.lost > 0 \/ s.seq # r.seq + 1

Follows(r, s) == ParOf(s) = ParOf(r) + 1 \/ GapSeen(r, s)

(* Lost paragraphs are never silent: two records in a row carry neighbouring *)
(* paragraphs, or the host is told of a gap, through lap, tear, back-off and *)
(* a full ring alike, unless the writer lapped between two looks.            *)
NoSilentGap ==
  overtaken \/
    \A j \in 1 .. Len(Stream) - 1 :
      ~Stream[j].final /\ ~Stream[j + 1].final => Follows(Stream[j], Stream[j + 1])

(* The same with no excuse: a lap is always told from an empty TRAM.        *)
LapFlagged ==
  \A j \in 1 .. Len(Stream) - 1 :
    ~Stream[j].final /\ ~Stream[j + 1].final => Follows(Stream[j], Stream[j + 1])

(* The same for the FINAL record of dap_trace_finish.                       *)
FinalFlagsGap ==
  overtaken \/
    \A j \in 1 .. Len(Stream) - 1 :
      Stream[j + 1].final =>
        Stream[j + 1].num = Stream[j].num + 1 \/ GapSeen(Stream[j], Stream[j + 1])

(* "paragraph sequence number, gaps included in the count" (dap_trace.h):    *)
(* the numbers of two records differ by as much as their paragraphs do.      *)
SeqCountsGaps ==
  overtaken \/
    \A j \in 1 .. Len(Stream) - 1 :
      Stream[j + 1].seq - Stream[j].seq = Stream[j + 1].num - Stream[j].num

(* The pointer's step between two looks is unambiguous at every look, that  *)
(* of the next pass included, which measures from where the pass before     *)
(* began reading (available), not from its last look.                       *)
NeverOvertaken == ~overtaken

(* The statistics account for every paragraph the drain passed: published,  *)
(* dropped at the ring, or lost, "overwritten before they could be read".    *)
LostCounted == overtaken \/ accounted = nextAbs

(* Once the target stops writing, the drain catches up with its pointer, or *)
(* dap_trace_finish ends the trace: no pass loops on a lap, a tear, a full  *)
(* ring or a failed read.                                                   *)
CatchesUp == ~tracing ~> (nextPar = NowPar % Total \/ pc = "stopped")
=============================================================================
