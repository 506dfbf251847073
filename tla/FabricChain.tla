----------------------------- MODULE FabricChain -----------------------------
(***************************************************************************)
(* A transfer between the ESP32-S3 (components/dap_probe/dap_phy_fpga.c)   *)
(* and the fabric of the FPGA (fpga/dap_master/rtl/dap_top.v,              *)
(* reply_fifo.v): single exchanges, block writes out of the write FIFO,    *)
(* and chains of block reads whose words come back through the reply FIFO  *)
(* while the next block is already queued.  The two run on clocks of their *)
(* own; the host sees the fabric only through register reads, over one     *)
(* line (STATUS, then the two bytes of LEVEL) or over two (a prefix with   *)
(* the level and the flags).  A transfer between the two chips itself does *)
(* not fail.                                                               *)
(*                                                                         *)
(* The FIFO holds words instead of bytes, so LEVEL's low digit wraps at    *)
(* Base words.  A word is named by the operation it belongs to and its     *)
(* place in the chain.                                                     *)
(***************************************************************************)
EXTENDS Integers, Sequences

CONSTANTS
  NBlocks,    \* blocks of a chain
  Count,      \* words of a block
  Depth,      \* words the reply FIFO takes before the fabric stops for room
  Base,       \* values of LEVEL's low digit
  Chunk,      \* DRAIN_CHUNK
  TakeMax,    \* DRAIN_MAX
  MaxOps,     \* bound: operations
  MaxFaults   \* bound: parcels the target never sends, and deadlines

ASSUME ChainAssumption ==
  /\ {NBlocks, Count, Depth, Base, Chunk, TakeMax, MaxOps} \subseteq Nat \ {0}
  /\ MaxFaults \in Nat
  /\ Chunk <= TakeMax /\ Chunk <= Depth
  /\ Base > 1

Total == NBlocks * Count

VARIABLES
  \* the fabric
  q,        \* the sequencer: "idle", "tx", "rx", "parcel", "store", "wack", "wfetch"
  pend,     \* r_block_pend: a block read is queued
  frame,    \* the frame registers: [op, block]; no block is an exchange or a write
  cur,      \* what the sequencer runs
  left,     \* parcels_left
  wfifo,    \* the write FIFO
  mem,      \* the target: words written since the operation began
  fifo,     \* the reply FIFO
  fresh,    \* words pushed that the reader's side may not count yet
  done, timedOut, overrun,  \* STATUS
  reply,    \* the operation s_reply belongs to
  \* the host
  pc,       \* where the operation is
  op,       \* number of the operation
  dual,     \* s_dual_ok: the FIFO is drained over two lines
  got,      \* words received
  next,     \* blocks queued
  ask,      \* words the next dual read asks for
  empties,  \* idle_empty
  seen,     \* the registers as the last read gave them
  res,      \* what the last operation returned
  \* history
  wrong,    \* a word received was not the one asked for
  faults,   \* parcels missing and deadlines so far
  runOn,    \* what the fabric runs was given up by the host
  tainted   \* the operation began while it still ran

writes == <<wfifo, mem>>
fabric == <<q, pend, frame, cur, left, fifo, fresh, done, timedOut, overrun, reply, writes>>
host == <<pc, op, dual, got, next, ask, empties, seen, res, wrong, tainted>>
vars == <<fabric, host, faults, runOn>>

Busy == q # "idle" \/ pend
NoSeen == [busy |-> TRUE, timedOut |-> FALSE, overrun |-> FALSE, queued |-> FALSE, level |-> 0]
Flags == [NoSeen EXCEPT !.busy = Busy, !.timedOut = timedOut, !.overrun = overrun, !.queued = pend]
Least(a, b) == IF a < b THEN a ELSE b

(* Instead of the number of a block. *)
AnExchange == 0
AWrite == NBlocks + 1

Init ==
  /\ q = "idle" /\ pend = FALSE /\ frame = [op |-> 0, block |-> AnExchange] /\ cur = frame
  /\ wfifo = <<>> /\ mem = <<>>
  /\ left = 0 /\ fifo = <<>> /\ fresh = 0
  /\ done = FALSE /\ timedOut = FALSE /\ overrun = FALSE /\ reply = 0
  /\ pc = "idle" /\ op = 0 /\ dual \in BOOLEAN
  /\ got = 0 /\ next = 1 /\ ask = Chunk /\ empties = 0 /\ seen = NoSeen /\ res = "none"
  /\ wrong = FALSE /\ faults = 0 /\ runOn = FALSE /\ tainted = FALSE

-----------------------------------------------------------------------------
(* The fabric. *)

(* The held start is taken the moment the sequencer is idle, and as a      *)
(* block read, whatever the frame registers hold by then.  TIMED_OUT stays *)
(* until the command is out.                                               *)
Take ==
  /\ q = "idle" /\ pend
  /\ q' = "tx" /\ pend' = FALSE
  /\ cur' = (IF frame.block \in 1 .. NBlocks THEN frame ELSE [frame EXCEPT !.block = 1])
  /\ left' = Count
  /\ done' = FALSE /\ overrun' = FALSE
  /\ UNCHANGED <<frame, fifo, fresh, timedOut, reply, writes, host, faults, runOn>>

Sent ==
  /\ q = "tx"
  /\ q' = CASE cur.block = AnExchange -> "rx" [] cur.block = AWrite -> "wack" [] OTHER -> "parcel"
  /\ timedOut' = FALSE
  /\ UNCHANGED <<pend, frame, cur, left, fifo, fresh, done, overrun, reply, writes, host,
                 faults, runOn>>

Reply ==
  /\ q = "rx"
  /\ reply' = cur.op /\ q' = "idle" /\ done' = TRUE /\ runOn' = (runOn /\ pend)
  /\ UNCHANGED <<pend, frame, cur, left, fifo, fresh, timedOut, overrun, writes, host,
                 faults>>

Room == Len(fifo) < Depth

Word == [op |-> cur.op, k |-> (cur.block - 1) * Count + (Count - left)]

(* At most one word arrives in the byte time between LEVEL's two digits.   *)
Paced == pc = "high" => Len(fifo) = seen.level

Push ==
  /\ Paced
  /\ fifo' = Append(fifo, Word)
  /\ fresh' = Least(fresh + 1, Len(fifo) + 1)
  /\ left' = left - 1
  /\ IF left = 1 THEN q' = "idle" /\ done' = TRUE /\ runOn' = (runOn /\ pend)
                 ELSE q' = "parcel" /\ UNCHANGED <<done, runOn>>

(* A parcel is streamed into the FIFO, or waits in Q_STORE for room, with  *)
(* the clock stopped.                                                      *)
Parcel ==
  /\ q = "parcel"
  /\ \/ Room /\ Push
     \/ ~Room /\ q' = "store" /\ UNCHANGED <<left, fifo, fresh, done, runOn>>
  /\ UNCHANGED <<pend, frame, cur, timedOut, overrun, reply, writes, host, faults>>

Store ==
  /\ q = "store" /\ Room
  /\ Push
  /\ UNCHANGED <<pend, frame, cur, timedOut, overrun, reply, writes, host, faults>>

(* A block write waits for an acknowledge of the command, then of every    *)
(* parcel.                                                                 *)
WriteAck ==
  /\ q = "wack"
  /\ IF left = 0 THEN q' = "idle" /\ done' = TRUE /\ runOn' = (runOn /\ pend)
                 ELSE q' = "wfetch" /\ UNCHANGED <<done, runOn>>
  /\ UNCHANGED <<pend, frame, cur, left, fifo, fresh, timedOut, overrun, reply, writes,
                 host, faults>>

(* An empty write FIFO stalls rather than fails. *)
WriteParcel ==
  /\ q = "wfetch" /\ wfifo # <<>>
  /\ mem' = Append(mem, Head(wfifo)) /\ wfifo' = Tail(wfifo)
  /\ left' = left - 1 /\ q' = "wack"
  /\ UNCHANGED <<pend, frame, cur, fifo, fresh, done, timedOut, overrun, reply, host,
                 faults, runOn>>

(* The target sends nothing for MAXWAIT clocks: the block ends, and a      *)
(* queued start with it; an exchange or a write ends too.                  *)
ParcelTimeout ==
  /\ q \in {"parcel", "rx", "wack"} /\ faults < MaxFaults
  /\ faults' = faults + 1
  /\ timedOut' = TRUE /\ done' = TRUE /\ q' = "idle" /\ pend' = FALSE /\ runOn' = FALSE
  /\ UNCHANGED <<frame, cur, left, fifo, fresh, overrun, reply, writes, host>>

(* CTRL_ABORT | CTRL_CLEAR_FIFO: only a block stalled on a FIFO ends.      *)
Abort ==
  /\ pend' = FALSE /\ fifo' = <<>> /\ fresh' = 0
  /\ IF q = "wfetch" \/ (q = "store" /\ ~Room)
       THEN q' = "idle" /\ done' = TRUE /\ timedOut' = TRUE /\ overrun' = (q = "store")
       ELSE UNCHANGED <<q, done, timedOut, overrun>>
  /\ UNCHANGED <<frame, cur, left, reply, writes>>

Fabric == Take \/ Sent \/ Reply \/ Parcel \/ Store \/ WriteAck \/ WriteParcel

-----------------------------------------------------------------------------
(* The host: an exchange, or a block write. *)

(* An operation that returns may leave the fabric at work. *)
Return(r) == pc' = "idle" /\ res' = r /\ runOn' = (q' # "idle" \/ pend')
Goon(where) == pc' = where /\ UNCHANGED <<res, runOn>>

NewOp == /\ pc = "idle" /\ op < MaxOps
         /\ op' = op + 1 /\ res' = "none"
         /\ got' = 0 /\ next' = 1 /\ ask' = Chunk /\ empties' = 0 /\ seen' = NoSeen
         /\ mem' = <<>> /\ wrong' = FALSE /\ tainted' = runOn

(* load_frame and its start.  A start written while the sequencer is busy  *)
(* is not held; the one clock in which it takes a held one counts as busy. *)
StartFrame(kind) ==
  /\ NewOp
  /\ frame' = [op |-> op', block |-> kind]
  /\ IF ~Busy
       THEN q' = "tx" /\ cur' = frame' /\ left' = Count /\ done' = FALSE /\ overrun' = FALSE
       ELSE UNCHANGED <<q, cur, left, done, overrun>>
  /\ pc' = "wait"
  /\ UNCHANGED <<pend, fifo, fresh, timedOut, reply, dual, faults, runOn>>

Exchange == StartFrame(AnExchange) /\ UNCHANGED wfifo

Words == [i \in 1 .. Count |-> [op |-> op', k |-> i - 1]]

(* CTRL_CLEAR_WFIFO, the words, then the start. *)
Write == StartFrame(AWrite) /\ wfifo' = Words

(* wait_done, then REPLY. *)
FrameDone ==
  /\ pc = "wait" /\ done
  /\ wrong' = (IF frame.block = AWrite THEN mem # [i \in 1 .. Count |-> [op |-> op, k |-> i - 1]]
                                      ELSE reply # op)
  /\ UNCHANGED fabric
  /\ Return(IF timedOut THEN "timeout" ELSE "ok")
  /\ UNCHANGED <<op, dual, got, next, ask, empties, seen, tainted, faults>>

-----------------------------------------------------------------------------
(* The host: a chain of block reads. *)

(* queue_block of the first block: one write, clearing the FIFO. *)
Chain ==
  /\ NewOp
  /\ frame' = [op |-> op', block |-> 1]
  /\ pend' = TRUE /\ fifo' = <<>> /\ fresh' = 0
  /\ pc' = IF dual THEN "poll" ELSE "status"
  /\ UNCHANGED <<q, cur, left, done, timedOut, overrun, reply, wfifo, dual, faults, runOn>>

QueueNext == /\ frame' = [op |-> op, block |-> next + 1]
             /\ pend' = TRUE
             /\ next' = next + 1

MayQueue == next < NBlocks /\ ~seen.queued /\ ~(seen.timedOut \/ seen.overrun)

QueueIfFree == IF MayQueue THEN QueueNext ELSE UNCHANGED <<frame, pend, next>>

(* The words of an operation, in order; reading an empty FIFO gives zeros. *)
Received(n) ==
  LET real == Least(n, Len(fifo)) IN
  /\ got' = got + n
  /\ wrong' = (wrong \/ real < n \/
               \E i \in 1 .. real : fifo[i] # [op |-> op, k |-> got + i - 1])
  /\ fifo' = SubSeq(fifo, real + 1, Len(fifo))
  /\ fresh' = 0

(* fifo2_read: the prefix, and min(level, want) words.  The level may lag  *)
(* behind the flags by the words pushed since the last read.               *)
DualRead ==
  /\ pc = "poll"
  /\ \E lag \in 0 .. Least(fresh, Len(fifo)) :
       LET level == Len(fifo) - lag IN
       /\ seen' = [Flags EXCEPT !.level = level]
       /\ Received(Least(level, Least(ask, Total - got)))
  /\ pc' = "decide"
  /\ UNCHANGED <<q, pend, frame, cur, left, done, timedOut, overrun, reply, writes, op,
                 dual, next, ask, empties, res, tainted, faults, runOn>>

Idle == ~seen.busy /\ ~seen.queued
SeenFailed == seen.timedOut \/ seen.overrun
Verdict == IF seen.timedOut THEN "timeout" ELSE IF seen.overrun THEN "no_mem" ELSE "short"

(* Mutant: one read that says idle and empty is believed. *)
EmptiesNeededOne == 1

EmptiesNeeded == 2

(* The rest of the round: queue, then judge by the same prefix. *)
DualDecide ==
  /\ pc = "decide"
  /\ UNCHANGED <<q, cur, left, fifo, fresh, done, timedOut, overrun, reply, writes, op,
                 dual, got, seen, wrong, tainted, faults>>
  /\ IF got = Total
       THEN UNCHANGED <<frame, pend, next, ask, empties>> /\ Return("ok")
       ELSE /\ QueueIfFree
            /\ ask' = Least(TakeMax, IF seen.level > Chunk THEN seen.level ELSE Chunk)
            /\ empties' = (IF Idle /\ seen.level = 0 THEN Least(EmptiesNeeded, empties + 1) ELSE 0)
            /\ IF empties' = EmptiesNeeded /\ (next' = NBlocks \/ SeenFailed)
                 THEN Return(Verdict) ELSE Goon("check")

(* Over one line a burst reads STATUS, LEVEL's low digit and its high one  *)
(* with the queued flag; the fabric goes on between them.                  *)
ReadStatus ==
  /\ pc = "status"
  /\ seen' = [Flags EXCEPT !.queued = FALSE]
  /\ pc' = "low"
  /\ UNCHANGED <<fabric, op, dual, got, next, ask, empties, res, wrong, tainted, faults,
                 runOn>>

ReadLow ==
  /\ pc = "low"
  /\ seen' = [seen EXCEPT !.level = Len(fifo)]  \* of which it reads level % Base
  /\ pc' = "high"
  /\ UNCHANGED <<fabric, op, dual, got, next, ask, empties, res, wrong, tainted, faults,
                 runOn>>

(* Mutant: the two digits as they were read. *)
LevelTorn(low, high) == low + Base * high

(* A carry between the two digits reads Base words too many: near a wrap   *)
(* the lower reading is taken.                                             *)
Level(low, high) ==
  LET avail == low + Base * high
  IN  IF low = Base - 1 /\ avail >= Base THEN avail - Base ELSE avail

ReadHigh ==
  /\ pc = "high"
  /\ seen' = [seen EXCEPT !.level = Level(seen.level % Base, Len(fifo) \div Base), !.queued = pend]
  /\ pc' = "take"
  /\ UNCHANGED <<fabric, op, dual, got, next, ask, empties, res, wrong, tainted, faults,
                 runOn>>

(* The rest of the round: queue, then take a full chunk, or what there is  *)
(* once the fabric is idle, or judge.                                      *)
Avail == Least(TakeMax, Least(seen.level, Total - got))

(* Mutant: only full chunks, and the chain's end. *)
ReadyFull == Avail > 0 /\ (Avail >= Chunk \/ got + Avail = Total)

Ready == Avail > 0 /\ (Avail >= Chunk \/ Idle \/ got + Avail = Total)

SingleDecide ==
  /\ pc = "take"
  /\ UNCHANGED <<q, cur, left, done, timedOut, overrun, reply, writes, op, dual, ask,
                 empties, seen, tainted, faults>>
  /\ QueueIfFree
  /\ IF Ready
       THEN /\ Received(Avail)
            /\ IF got' = Total THEN Return("ok") ELSE Goon("status")
       ELSE /\ UNCHANGED <<got, wrong, fifo, fresh>>
            /\ IF Idle /\ Avail = 0 /\ (next' = NBlocks \/ SeenFailed)
                 THEN Return(Verdict) ELSE Goon("check")

(* A round that neither ended the chain nor, over one line, took words     *)
(* looks at the clock.                                                     *)
InTime ==
  /\ pc = "check"
  /\ Goon(IF dual THEN "poll" ELSE "status")
  /\ UNCHANGED <<fabric, op, dual, got, next, ask, empties, seen, wrong, tainted, faults>>

(* OP_TIMEOUT_MS for eight blocks have passed: the host was preempted or   *)
(* the target is slow.  (An exchange's own deadline is left out: MAXWAIT   *)
(* ends the fabric's wait long before it.)                                 *)
Deadline ==
  /\ pc = "check" /\ faults < MaxFaults
  /\ faults' = faults + 1
  /\ Abort
  /\ Return("timeout")
  /\ UNCHANGED <<op, dual, got, next, ask, empties, seen, wrong, tainted>>

HostStep == FrameDone \/ DualRead \/ DualDecide \/ ReadStatus \/ ReadLow \/ ReadHigh \/ SingleDecide
            \/ InTime

Next == Fabric \/ ParcelTimeout \/ HostStep \/ Deadline \/ Exchange \/ Write \/ Chain

Spec == Init /\ [][Next]_vars /\ WF_vars(Fabric) /\ WF_vars(HostStep)
-----------------------------------------------------------------------------
(* Properties. *)

(* What the fabric's flow control keeps: the FIFO never overflows.         *)
TypeOK ==
  /\ q \in {"idle", "tx", "rx", "parcel", "store", "wack", "wfetch"} /\ pend \in BOOLEAN
  /\ {frame, cur} \subseteq [op : 0 .. MaxOps, block : 0 .. AWrite]
  /\ Len(wfifo) <= Count /\ Len(mem) <= 2 * Count
  /\ left \in 0 .. Count /\ Len(fifo) <= Depth /\ fresh \in 0 .. Depth
  /\ \A i \in 1 .. Len(fifo) : fifo[i] \in [op : 1 .. MaxOps, k : 0 .. Total - 1]
  /\ {done, timedOut, overrun, dual, wrong, runOn, tainted} \subseteq BOOLEAN
  /\ reply \in 0 .. MaxOps /\ op \in 0 .. MaxOps
  /\ pc \in {"idle", "wait", "poll", "decide", "status", "low", "high", "take", "check"}
  /\ got \in 0 .. Total /\ next \in 1 .. NBlocks /\ ask \in Chunk .. TakeMax
  /\ res \in {"none", "ok", "timeout", "no_mem", "short"}
  /\ faults \in 0 .. MaxFaults

(* dap_phy_fpga.c:1126-1137: what an operation returns with ESP_OK are its *)
(* own words, all of them and in request order, or its own reply, and a    *)
(* write has put its own words into the target, however the drain overlaps *)
(* the next block and whatever broke before - unless it began over a block *)
(* that an earlier operation gave up.                                      *)
OwnWords == pc = "idle" /\ res = "ok" /\ ~tainted => ~wrong

(* As long as the target answers and no deadline passes, every operation   *)
(* succeeds: no late level, torn digit or queued start makes a good chain  *)
(* look short.                                                             *)
NoFalseFailure == pc = "idle" /\ res \notin {"none", "ok"} => faults > 0

(* Flow control, the full-chunk rule and the held start never wait on each *)
(* other: every operation returns, without its deadline.                   *)
OpEnds == (pc # "idle") ~> (pc = "idle")

(* dap_phy_fpga.c:1134-1136: "a slow or preempted host costs time, never   *)
(* data".                                                                  *)
NeverWrongData == pc = "idle" /\ res = "ok" => ~wrong
=============================================================================
