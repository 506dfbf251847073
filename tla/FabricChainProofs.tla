-------------------------- MODULE FabricChainProofs --------------------------
(***************************************************************************)
(* Proofs about FabricChain, for chains of any length, a reply FIFO of any *)
(* depth and any number of operations and faults: what an operation        *)
(* returns as good are its own words (OwnWords), and a good chain is never *)
(* taken for a short one (NoFalseFailure).                                 *)
(***************************************************************************)
EXTENDS FabricChain, SequenceTheorems, TLAPS

(* Words of the first n blocks of a chain. *)
Upto(n) == n * Count

ChainPcs == {"poll", "decide", "status", "low", "high", "take", "check"}

(* Blocks of the chain that the fabric has begun, and the words it has     *)
(* pushed of them, had it never given one up.                              *)
Begun == IF pend THEN next - 1 ELSE next
Due == Upto(Begun) - (IF q = "idle" THEN 0 ELSE left)
Pushed == got + Len(fifo)

InOrder == ~wrong /\ \A i \in 1 .. Len(fifo) : fifo[i] = [op |-> op, k |-> got + i - 1]

(* TypeOK, with the sequences' elements. *)
FrameSet == [op : 0 .. MaxOps, block : 0 .. AWrite]
WordSet == [op : 1 .. MaxOps, k : 0 .. Total - 1]
SeenSet == [busy : BOOLEAN, timedOut : BOOLEAN, overrun : BOOLEAN, queued : BOOLEAN, level : Nat]

SequencerTypes ==
  /\ q \in {"idle", "tx", "rx", "parcel", "store", "wack", "wfetch"} /\ pend \in BOOLEAN
  /\ frame \in FrameSet /\ cur \in FrameSet /\ left \in 0 .. Count
  /\ done \in BOOLEAN /\ timedOut \in BOOLEAN /\ overrun \in BOOLEAN /\ reply \in 0 .. MaxOps
BufferTypes ==
  /\ fifo \in Seq(WordSet) /\ Len(fifo) <= Depth /\ fresh \in 0 .. Depth
  /\ wfifo \in Seq(WordSet) /\ Len(wfifo) <= Count
  /\ mem \in Seq(WordSet) /\ Len(mem) <= Count
HostTypes ==
  /\ pc \in {"idle", "wait", "poll", "decide", "status", "low", "high", "take", "check"}
  /\ op \in 0 .. MaxOps /\ dual \in BOOLEAN /\ got \in 0 .. Total /\ next \in 1 .. NBlocks
  /\ ask \in Chunk .. TakeMax /\ empties \in 0 .. EmptiesNeeded /\ seen \in SeenSet
  /\ res \in {"none", "ok", "timeout", "no_mem", "short"}
HistoryTypes ==
  /\ wrong \in BOOLEAN /\ faults \in 0 .. MaxFaults /\ runOn \in BOOLEAN /\ tainted \in BOOLEAN
Typed == SequencerTypes /\ BufferTypes /\ HostTypes /\ HistoryTypes

(* What the sequencer can be doing. *)
Running ==
  /\ q # "idle" => cur.op # 0
  /\ pend => frame.op # 0
  /\ q \in {"parcel", "store"} => cur.block \in 1 .. NBlocks /\ left > 0
  /\ q = "rx" => cur.block = AnExchange
  /\ q \in {"wack", "wfetch"} => cur.block = AWrite
  /\ q = "wfetch" => left > 0
  /\ q = "tx" => left = Count
  /\ q \in {"tx", "wack", "wfetch"} /\ cur.block = AWrite => Len(mem) + left <= Count
  /\ pc # "idle" => op # 0
  /\ pc = "idle" => (runOn <=> Busy)

(* A frame: its reply, or its words, some of them in the target. *)
WordOf(i) == [op |-> op, k |-> i - 1]

FrameOK ==
  pc = "wait" /\ ~tainted =>
    /\ ~pend /\ cur = frame /\ frame.op = op /\ frame.block \in {AnExchange, AWrite}
    /\ q \in {"idle", "tx", "rx", "wack", "wfetch"}
    /\ done <=> q = "idle"
    /\ frame.block = AnExchange => (q = "idle" /\ ~timedOut => reply = op)
    /\ frame.block = AWrite =>
         /\ Len(mem) = Count - left /\ Len(wfifo) = left
         /\ \A i \in 1 .. Len(mem) : mem[i] = WordOf(i)
         /\ \A i \in 1 .. Len(wfifo) : wfifo[i] = WordOf(Len(mem) + i)
         /\ q = "idle" /\ ~timedOut => left = 0

(* A chain: the words pushed are those due, in order, or fewer. *)
ChainOK ==
  pc \in ChainPcs /\ ~tainted =>
    /\ frame = [op |-> op, block |-> next]
    /\ q \in {"idle", "tx", "parcel", "store"}
    /\ q # "idle" => cur = [op |-> op, block |-> Begun] /\ Begun >= 1
    /\ Pushed <= Due
    /\ Pushed = Due => InOrder

(* What the host knows of the FIFO never exceeds it. *)
SeenOK ==
  /\ pc \in {"decide", "take"} /\ ~seen.queued => ~pend
  /\ pc = "high" => Len(fifo) \in {seen.level, seen.level + 1}
  /\ pc = "take" => seen.level <= Len(fifo)

Returned == pc = "idle" /\ ~tainted => (res = "ok" => ~wrong)

(* While nothing failed: every word due is pushed, no flag is up, and      *)
(* there is always a word to come or one to take.                          *)
Smooth ==
  /\ ~tainted /\ (pc = "idle" => ~runOn)
  /\ ~timedOut /\ ~overrun /\ ~seen.timedOut /\ ~seen.overrun
  /\ pc \in ChainPcs => Pushed = Due
  /\ pc = "idle" => res \in {"none", "ok"}
  /\ pc \in {"poll", "status", "check"} => Busy \/ fifo # <<>>
  /\ pc = "decide" /\ seen.queued => Busy \/ fifo # <<>>
  /\ pc = "take" /\ seen.queued => Busy \/ seen.level < Len(fifo)
  /\ pc \in {"low", "high", "take"} /\ ~seen.busy => ~Busy /\ fifo # <<>>
  /\ pc = "high" /\ ~seen.busy => seen.level = Len(fifo)
  /\ pc = "take" /\ ~seen.busy => seen.level > 0
  /\ pc \in {"poll", "check"} /\ dual /\ empties > 0 => fresh < Len(fifo)
  /\ pc = "decide" /\ Idle /\ seen.level = 0 => fresh < Len(fifo)
  /\ pc = "decide" /\ empties > 0 => ~(Idle /\ seen.level = 0)
NeverFails == faults = 0 => Smooth

(* A round begins with the mode the operation found, and words to come.    *)
Modes ==
  /\ pc \in {"poll", "decide"} => dual
  /\ pc \in {"status", "low", "high", "take"} => ~dual
  /\ pc \in {"poll", "status", "low", "high", "take", "check"} => got # Total

FabricInv == Typed /\ Running /\ FrameOK /\ ChainOK /\ SeenOK /\ Returned /\ Modes /\ NeverFails

-----------------------------------------------------------------------------
(* Numbers: the words of a chain, and the two digits of a level.           *)

LEMMA ChainNats ==
  /\ NBlocks \in Nat \ {0} /\ Count \in Nat \ {0} /\ Depth \in Nat \ {0} /\ Base \in Nat \ {0}
  /\ Chunk \in Nat \ {0} /\ TakeMax \in Nat \ {0} /\ MaxOps \in Nat \ {0} /\ MaxFaults \in Nat
  /\ Chunk <= TakeMax /\ Chunk <= Depth
  BY ChainAssumption

LEMMA TimesMonotone == \A i, j, c \in Nat : i <= j => i * c <= j * c
  OBVIOUS

LEMMA UptoFacts ==
  /\ \A n \in Nat : Upto(n) \in Nat /\ Upto(n + 1) = Upto(n) + Count
  /\ \A m, n \in Nat : m <= n => Upto(m) <= Upto(n)
  /\ Upto(NBlocks) = Total /\ Upto(0) = 0 /\ Total \in Nat \ {0}
  <1>1. Count \in Nat \ {0} /\ NBlocks \in Nat \ {0}
      BY ChainNats
  <1>2. \A n \in Nat : Upto(n) \in Nat /\ Upto(n + 1) = Upto(n) + Count
      BY <1>1 DEF Upto
  <1>3. \A m, n \in Nat : m <= n => Upto(m) <= Upto(n)
      BY <1>1, TimesMonotone DEF Upto
  <1>4. Upto(NBlocks) = Total /\ Upto(0) = 0
      BY <1>1 DEF Upto, Total
  <1>5. Total >= Count /\ Total \in Nat
    <2>1. Upto(1) <= Upto(NBlocks) /\ Upto(1) = Upto(0) + Count /\ Upto(NBlocks) \in Nat
      <3>1. 1 <= NBlocks /\ 1 \in Nat /\ 0 \in Nat /\ NBlocks \in Nat
          BY <1>1
      <3>2. Upto(0 + 1) = Upto(0) + Count
          BY <1>2, <3>1
      <3> QED BY <1>2, <1>3, <3>1, <3>2
    <2> QED BY <1>1, <1>4, <2>1
  <1> QED BY <1>1, <1>2, <1>3, <1>4, <1>5

LEMMA Digits ==
  \A n \in Nat, d \in Nat \ {0} :
    n = d * (n \div d) + (n % d) /\ n % d \in 0 .. d - 1 /\ n \div d \in Nat
  OBVIOUS

(* One word more carries into the high digit, or leaves it. *)
LEMMA Carry ==
  ASSUME NEW l \in Nat, NEW b \in Nat \ {0}
  PROVE  (l + 1) \div b = IF l % b = b - 1 THEN (l \div b) + 1 ELSE l \div b
  <1> DEFINE h == l \div b
             r == l % b
             k == (l + 1) \div b
             s == (l + 1) % b
  <1>1. l = b * h + r /\ r \in 0 .. b - 1 /\ h \in Nat
      BY Digits
  <1>2. l + 1 = b * k + s /\ s \in 0 .. b - 1 /\ k \in Nat
    <2>1. l + 1 \in Nat
        OBVIOUS
    <2> QED BY <2>1, Digits
  <1> HIDE DEF h, r, k, s
  <1>3. k * b + s = h * b + r + 1
      BY <1>1, <1>2
  <1>4. ~ (k >= h + 2)
    <2> SUFFICES ASSUME k >= h + 2 PROVE FALSE
        OBVIOUS
    <2>1. (h + 2) * b <= k * b
        BY <1>1, <1>2, TimesMonotone
    <2>2. (h + 2) * b = h * b + 2 * b
        BY <1>1
    <2>3. h * b \in Nat /\ k * b \in Nat
        BY <1>1, <1>2
    <2> QED BY <1>1, <1>2, <1>3, <2>1, <2>2, <2>3
  <1>5. ~ (k < h)
    <2> SUFFICES ASSUME k < h PROVE FALSE
        OBVIOUS
    <2>1. (k + 1) * b <= h * b
        BY <1>1, <1>2, TimesMonotone
    <2>2. (k + 1) * b = k * b + b
        BY <1>2
    <2>3. h * b \in Nat /\ k * b \in Nat
        BY <1>1, <1>2
    <2> QED BY <1>1, <1>2, <1>3, <2>1, <2>2, <2>3
  <1>6. k = h \/ k = h + 1
      BY <1>1, <1>2, <1>4, <1>5
  <1>7. (h + 1) * b = h * b + b /\ h * b \in Nat
      BY <1>1
  <1>8. k = IF r = b - 1 THEN h + 1 ELSE h
      BY <1>1, <1>2, <1>3, <1>6, <1>7
  <1> QED BY <1>8 DEF h, r, k

(* The level read over one line is never above what was there when its low *)
(* digit was read, and shows something if something was there.             *)
LEMMA LevelBelow ==
  ASSUME NEW l \in Nat, NEW m \in {l, l + 1}
  PROVE  /\ Level(l % Base, m \div Base) \in 0 .. l
         /\ m = l /\ l > 0 /\ Base > 1 => Level(l % Base, m \div Base) > 0
  <1> DEFINE low == l % Base
             h == l \div Base
  <1>0. Base \in Nat \ {0}
      BY ChainNats
  <1>1. l = Base * h + low /\ low \in 0 .. Base - 1 /\ h \in Nat
      BY <1>0, Digits
  <1>2. m \div Base = h \/ (m = l + 1 /\ low = Base - 1 /\ m \div Base = h + 1)
      BY <1>0, Carry
  <1>3. Base * (h + 1) = Base * h + Base /\ Base * h \in Nat
    <2> HIDE DEF h
    <2> QED BY <1>0, <1>1
  <1> HIDE DEF low, h
  <1>4. CASE m \div Base = h
    <2>1. Level(low, h) = IF low = Base - 1 /\ l >= Base THEN l - Base ELSE l
        BY <1>0, <1>1, <1>3 DEF Level
    <2>2. Level(low, h) \in 0 .. l
        BY <1>0, <1>1, <2>1
    <2>3. l > 0 /\ Base > 1 => Level(low, h) > 0
      <3> SUFFICES ASSUME l > 0, Base > 1, low = Base - 1, l >= Base PROVE l - Base > 0
          BY <2>1
      <3>1. h # 0
        <4>1. h = 0 => Base * h = 0
            BY <1>0
        <4> QED BY <1>0, <1>1, <4>1
      <3>2. 1 * Base <= h * Base /\ h * Base = Base * h
          BY <1>0, <1>1, <3>1, TimesMonotone
      <3> QED BY <1>0, <1>1, <1>3, <3>2
    <2> QED BY <1>4, <2>2, <2>3 DEF low
  <1>5. CASE m = l + 1 /\ low = Base - 1 /\ m \div Base = h + 1
    <2>1. Level(low, h + 1) = l
        BY <1>0, <1>1, <1>3, <1>5 DEF Level
    <2>2. m # l
        BY <1>5
    <2> QED BY <1>5, <2>1, <2>2 DEF low
  <1> QED BY <1>2, <1>4, <1>5

-----------------------------------------------------------------------------
(* Types. *)

LEMMA WordTyped ==
  ASSUME Typed, Running, q \in {"parcel", "store"}
  PROVE  Word \in WordSet /\ Word.op = cur.op /\ Word.k = Upto(cur.block) - left
  <1>1. cur.block \in 1 .. NBlocks /\ left \in 1 .. Count /\ cur.op \in 1 .. MaxOps
    <2>1. cur \in FrameSet /\ left \in 0 .. Count
        BY DEF Typed, SequencerTypes
    <2>2. cur.block \in 1 .. NBlocks /\ left > 0 /\ cur.op # 0
        BY DEF Running
    <2> QED BY <2>1, <2>2, ChainNats DEF FrameSet
  <1>2. NBlocks \in Nat /\ Count \in Nat
      BY ChainNats
  <1> DEFINE b == cur.block
  <1>3. Upto(b) = Upto(b - 1) + Count /\ Upto(b - 1) \in Nat
    <2>1. b - 1 \in Nat /\ (b - 1) + 1 = b
        BY <1>1, <1>2
    <2> QED BY <2>1, UptoFacts
  <1>4. Upto(b) <= Total /\ Total \in Nat
    <2>1. b \in Nat /\ NBlocks \in Nat /\ b <= NBlocks
        BY <1>1, <1>2
    <2> QED BY <2>1, UptoFacts
  <1>5. Word.k = Upto(b) - left /\ Word.op = cur.op
    <2>1. Word.k = Upto(b - 1) + (Count - left) /\ Word.op = cur.op
        BY DEF Word, Upto
    <2> QED BY <1>1, <1>2, <1>3, <2>1
  <1>6. Word.k \in 0 .. Total - 1
      BY <1>1, <1>2, <1>3, <1>4, <1>5
  <1>7. Word = [op |-> Word.op, k |-> Word.k]
      BY DEF Word
  <1> QED BY <1>1, <1>5, <1>6, <1>7 DEF WordSet

LEMMA LeastFacts ==
  \A i, j \in Nat : Least(i, j) \in Nat /\ Least(i, j) <= i /\ Least(i, j) <= j /\ Least(i, j) \in {i, j}
  BY DEF Least

(* A word more in the FIFO. *)
LEMMA PushTypes ==
  ASSUME Typed, Running, q \in {"parcel", "store"}, Room, Push
  PROVE  /\ fifo' \in Seq(WordSet) /\ Len(fifo') = Len(fifo) + 1 /\ Len(fifo') <= Depth
         /\ fresh' \in 0 .. Depth
         /\ left' = left - 1 /\ left' \in 0 .. Count /\ left \in 1 .. Count
         /\ \/ left = 1 /\ q' = "idle" /\ done' = TRUE
            \/ left > 1 /\ q' = "parcel" /\ done' = done
         /\ fifo'[Len(fifo) + 1] = Word /\ \A i \in 1 .. Len(fifo) : fifo'[i] = fifo[i]
         /\ runOn' \in BOOLEAN /\ runOn' = IF left = 1 THEN runOn /\ pend ELSE runOn
  <1>1. /\ fifo \in Seq(WordSet) /\ Len(fifo) \in Nat /\ fresh \in 0 .. Depth /\ left \in 0 .. Count
        /\ Depth \in Nat /\ Count \in Nat
      BY ChainNats DEF Typed, BufferTypes, SequencerTypes
  <1>2. left > 0 /\ Len(fifo) < Depth
      BY DEF Running, Room
  <1>3. fifo' = Append(fifo, Word) /\ Word \in WordSet
      BY WordTyped DEF Push
  <1>4. fresh' = Least(fresh + 1, Len(fifo) + 1)
      BY DEF Push
  <1>5. fresh' \in 0 .. Depth
      BY <1>1, <1>2, <1>4 DEF Least
  <1>6. left' = left - 1 /\ left' \in 0 .. Count
      BY <1>1, <1>2 DEF Push
  <1>7. runOn \in BOOLEAN /\ pend \in BOOLEAN
      BY DEF Typed, HistoryTypes, SequencerTypes
  <1>8. runOn' \in BOOLEAN /\ runOn' = IF left = 1 THEN runOn /\ pend ELSE runOn
      BY <1>7, Zenon DEF Push
  <1>9. \/ left = 1 /\ q' = "idle" /\ done' = TRUE
        \/ left # 1 /\ q' = "parcel" /\ done' = done
      BY DEF Push
  <1> QED BY <1>1, <1>2, <1>3, <1>5, <1>6, <1>8, <1>9

LEMMA FabricTypes ==
  ASSUME Typed, Running, Fabric \/ ParcelTimeout
  PROVE  Typed'
  <1>0. /\ q \in {"idle", "tx", "rx", "parcel", "store", "wack", "wfetch"} /\ pend \in BOOLEAN
        /\ frame \in FrameSet /\ cur \in FrameSet /\ left \in 0 .. Count
        /\ done \in BOOLEAN /\ timedOut \in BOOLEAN /\ overrun \in BOOLEAN /\ reply \in 0 .. MaxOps
        /\ faults \in 0 .. MaxFaults /\ runOn \in BOOLEAN
        /\ Count \in Nat \ {0} /\ NBlocks \in Nat \ {0} /\ MaxFaults \in Nat
      BY ChainNats DEF Typed, SequencerTypes, HistoryTypes
  <1>1. UNCHANGED host /\ (HostTypes' <=> HostTypes) /\ wrong' = wrong /\ tainted' = tainted
    <2>1. UNCHANGED host
        BY DEF Fabric, Take, Sent, Reply, Parcel, Store, WriteAck, WriteParcel, ParcelTimeout
    <2> QED BY <2>1 DEF host, HostTypes
  <1>2. CASE Take
    <2>1. UNCHANGED <<fifo, fresh, wfifo, mem, frame, timedOut, reply, faults, runOn>>
        BY <1>2 DEF Take, writes
    <2>2. cur' \in FrameSet
      <3>1. cur' = frame \/ cur' = [frame EXCEPT !.block = 1]
          BY <1>2 DEF Take
      <3>2. [frame EXCEPT !.block = 1] \in FrameSet
        <4>1. 1 \in 0 .. AWrite
            BY <1>0 DEF AWrite
        <4> QED BY <1>0, <4>1 DEF FrameSet
      <3> QED BY <1>0, <3>1, <3>2
    <2>3. q' = "tx" /\ pend' = FALSE /\ left' = Count /\ done' = FALSE /\ overrun' = FALSE
        BY <1>2 DEF Take
    <2>4. left' \in 0 .. Count
        BY <1>0, <2>3
    <2>5. SequencerTypes'
        BY <1>0, <2>1, <2>2, <2>3, <2>4 DEF SequencerTypes
    <2>6. BufferTypes' /\ HistoryTypes'
        BY <1>0, <1>1, <2>1 DEF Typed, BufferTypes, HistoryTypes
    <2> QED BY <1>1, <2>5, <2>6 DEF Typed
  <1>3. CASE Sent
    <2>1. /\ UNCHANGED <<fifo, fresh, wfifo, mem, frame, reply, faults, runOn, pend, cur, left, done>>
          /\ overrun' = overrun /\ timedOut' = FALSE /\ q' \in {"rx", "wack", "parcel"}
        BY <1>3 DEF Sent, writes
    <2> QED BY <1>0, <1>1, <2>1 DEF Typed, SequencerTypes, BufferTypes, HistoryTypes
  <1>4. CASE Reply
    <2>1. /\ UNCHANGED <<fifo, fresh, wfifo, mem, frame, faults, pend, cur, left, timedOut, overrun>>
          /\ reply' = cur.op /\ q' = "idle" /\ done' = TRUE
        BY <1>4 DEF Reply, writes
    <2>2. runOn' \in BOOLEAN
        BY <1>0, <1>4, Zenon DEF Reply
    <2>3. reply' \in 0 .. MaxOps
        BY <1>0, <2>1 DEF FrameSet
    <2> QED BY <1>0, <1>1, <2>1, <2>2, <2>3 DEF Typed, SequencerTypes, BufferTypes, HistoryTypes
  <1>5. CASE Parcel \/ Store
    <2>1. UNCHANGED <<wfifo, mem, frame, faults, pend, cur, timedOut, overrun, reply>>
        BY <1>5 DEF Parcel, Store, writes
    <2>2. CASE Room /\ Push
      <3>1. q \in {"parcel", "store"}
          BY <1>5 DEF Parcel, Store
      <3>2. /\ fifo' \in Seq(WordSet) /\ Len(fifo') <= Depth /\ fresh' \in 0 .. Depth
            /\ left' \in 0 .. Count /\ runOn' \in BOOLEAN /\ q' \in {"idle", "parcel"}
            /\ done' \in {TRUE, done}
          BY <2>2, <3>1, PushTypes
      <3> QED BY <1>0, <1>1, <2>1, <3>2 DEF Typed, SequencerTypes, BufferTypes, HistoryTypes
    <2>3. CASE q' = "store" /\ UNCHANGED <<left, fifo, fresh, done, runOn>>
        BY <1>0, <1>1, <2>1, <2>3 DEF Typed, SequencerTypes, BufferTypes, HistoryTypes
    <2> QED BY <1>5, <2>2, <2>3 DEF Parcel, Store
  <1>6. CASE WriteAck
    <2>1. UNCHANGED <<fifo, fresh, wfifo, mem, frame, faults, pend, cur, left, timedOut, overrun, reply>>
        BY <1>6 DEF WriteAck, writes
    <2>2. q' \in {"idle", "wfetch"} /\ done' \in {TRUE, done}
        BY <1>6 DEF WriteAck
    <2>3. runOn' \in BOOLEAN
        BY <1>0, <1>6, Zenon DEF WriteAck
    <2> QED BY <1>0, <1>1, <2>1, <2>2, <2>3 DEF Typed, SequencerTypes, BufferTypes, HistoryTypes
  <1>7. CASE WriteParcel
    <2>1. UNCHANGED <<fifo, fresh, frame, faults, pend, cur, done, timedOut, overrun, reply, runOn>>
        BY <1>7 DEF WriteParcel
    <2>2. /\ wfifo # <<>> /\ mem' = Append(mem, Head(wfifo)) /\ wfifo' = Tail(wfifo)
          /\ left' = left - 1 /\ q' = "wack" /\ q = "wfetch"
        BY <1>7 DEF WriteParcel
    <2>3. left > 0 /\ Len(mem) + left <= Count
        BY <2>2 DEF Running
    <2>4. wfifo \in Seq(WordSet) /\ mem \in Seq(WordSet) /\ Len(wfifo) <= Count
        BY DEF Typed, BufferTypes
    <2>5. /\ wfifo' \in Seq(WordSet) /\ Len(wfifo') <= Count /\ mem' \in Seq(WordSet)
          /\ Len(mem') = Len(mem) + 1
        BY <1>0, <2>2, <2>4
    <2>6. Len(mem') <= Count /\ left' \in 0 .. Count
        BY <1>0, <2>2, <2>3, <2>4, <2>5
    <2> QED BY <1>0, <1>1, <2>1, <2>2, <2>5, <2>6 DEF Typed, SequencerTypes, BufferTypes, HistoryTypes
  <1>8. CASE ParcelTimeout
    <2>1. /\ UNCHANGED <<frame, cur, left, fifo, fresh, overrun, reply, wfifo, mem>>
          /\ timedOut' = TRUE /\ done' = TRUE /\ q' = "idle" /\ pend' = FALSE /\ runOn' = FALSE
          /\ faults < MaxFaults /\ faults' = faults + 1
        BY <1>8 DEF ParcelTimeout, writes
    <2>2. faults' \in 0 .. MaxFaults
        BY <1>0, <2>1
    <2> QED BY <1>0, <1>1, <2>1, <2>2 DEF Typed, SequencerTypes, BufferTypes, HistoryTypes
  <1> QED BY <1>2, <1>3, <1>4, <1>5, <1>6, <1>7, <1>8 DEF Fabric

(* What an operation is made of. *)
LEMMA NewOpTypes ==
  ASSUME Typed, NewOp
  PROVE  /\ op' \in 1 .. MaxOps /\ op' = op + 1 /\ got' = 0 /\ next' = 1 /\ ask' = Chunk /\ empties' = 0
         /\ seen' = NoSeen /\ NoSeen \in SeenSet /\ mem' = <<>> /\ wrong' = FALSE
         /\ tainted' = runOn /\ res' = "none" /\ pc = "idle"
         /\ got' \in 0 .. Total /\ next' \in 1 .. NBlocks /\ ask' \in Chunk .. TakeMax
         /\ empties' \in 0 .. EmptiesNeeded
  <1>1. /\ op' = op + 1 /\ op < MaxOps /\ op \in 0 .. MaxOps /\ got' = 0 /\ next' = 1 /\ ask' = Chunk
        /\ empties' = 0 /\ seen' = NoSeen /\ mem' = <<>> /\ wrong' = FALSE /\ tainted' = runOn
        /\ res' = "none" /\ pc = "idle"
      BY DEF NewOp, Typed, HostTypes
  <1>2. Total \in Nat \ {0} /\ NBlocks \in Nat \ {0} /\ Chunk \in Nat /\ TakeMax \in Nat
        /\ Chunk <= TakeMax /\ MaxOps \in Nat
      BY ChainNats, UptoFacts
  <1>3. NoSeen \in SeenSet
      BY DEF NoSeen, SeenSet
  <1> QED BY <1>1, <1>2, <1>3 DEF EmptiesNeeded

LEMMA WordsTypes ==
  ASSUME NEW o \in 1 .. MaxOps
  PROVE  /\ [i \in 1 .. Count |-> [op |-> o, k |-> i - 1]] \in Seq(WordSet)
         /\ Len([i \in 1 .. Count |-> [op |-> o, k |-> i - 1]]) = Count
  <1>1. Count \in Nat \ {0} /\ Count <= Total /\ Total \in Nat
    <2>1. Count \in Nat \ {0} /\ NBlocks \in Nat \ {0} /\ 1 \in Nat /\ 0 \in Nat /\ 1 <= NBlocks
        BY ChainNats
    <2>2. Upto(0 + 1) = Upto(0) + Count /\ Upto(0) = 0
        BY <2>1, UptoFacts
    <2>3. Upto(1) <= Upto(NBlocks) /\ Upto(NBlocks) = Total /\ Total \in Nat
        BY <2>1, UptoFacts
    <2> QED BY <2>1, <2>2, <2>3
  <1>2. \A i \in 1 .. Count : [op |-> o, k |-> i - 1] \in WordSet
      BY <1>1 DEF WordSet
  <1> QED BY <1>1, <1>2

LEMMA StartTypes ==
  ASSUME Typed, NEW kind \in {AnExchange, AWrite}, StartFrame(kind),
         wfifo' = wfifo \/ wfifo' = Words
  PROVE  Typed'
  <1>1. /\ op' \in 1 .. MaxOps /\ op' = op + 1 /\ got' \in 0 .. Total /\ next' \in 1 .. NBlocks
        /\ ask' \in Chunk .. TakeMax /\ empties' \in 0 .. EmptiesNeeded /\ seen' \in SeenSet
        /\ mem' = <<>> /\ wrong' = FALSE /\ tainted' = runOn /\ res' = "none"
      BY NewOpTypes DEF StartFrame
  <1>2. UNCHANGED <<pend, fifo, fresh, timedOut, reply, dual, faults, runOn>> /\ pc' = "wait"
      BY DEF StartFrame
  <1>3. frame' \in FrameSet
    <2>1. kind \in 0 .. AWrite
        BY ChainNats DEF AnExchange, AWrite
    <2>2. frame' = [op |-> op', block |-> kind]
        BY DEF StartFrame
    <2> QED BY <1>1, <2>1, <2>2, ChainNats DEF FrameSet
  <1>4. /\ q' \in {q, "tx"} /\ cur' \in {cur, frame'} /\ left' \in {left, Count}
        /\ done' \in {done, FALSE} /\ overrun' \in {overrun, FALSE}
      BY DEF StartFrame
  <1>5. SequencerTypes'
    <2>1. left' \in 0 .. Count
        BY <1>4, ChainNats DEF Typed, SequencerTypes
    <2> QED BY <1>2, <1>3, <1>4, <2>1 DEF Typed, SequencerTypes
  <1>6. wfifo' \in Seq(WordSet) /\ Len(wfifo') <= Count
    <2>1. Words \in Seq(WordSet) /\ Len(Words) = Count
        BY <1>1, WordsTypes DEF Words
    <2>2. Count \in Nat
        BY ChainNats
    <2> QED BY <2>1, <2>2 DEF Typed, BufferTypes
  <1>7. mem' \in Seq(WordSet) /\ Len(mem') <= Count
      BY <1>1, ChainNats
  <1>8. BufferTypes'
      BY <1>2, <1>6, <1>7 DEF Typed, BufferTypes
  <1>9. HostTypes'
    <2>1. op' \in 0 .. MaxOps
        BY <1>1
    <2> QED BY <1>1, <1>2, <2>1 DEF Typed, HostTypes
  <1>10. HistoryTypes'
      BY <1>1, <1>2 DEF Typed, HistoryTypes
  <1> QED BY <1>5, <1>8, <1>9, <1>10 DEF Typed

LEMMA ChainTypes ==
  ASSUME Typed, Chain
  PROVE  Typed'
  <1>1. /\ op' \in 1 .. MaxOps /\ op' = op + 1 /\ got' \in 0 .. Total /\ next' \in 1 .. NBlocks
        /\ ask' \in Chunk .. TakeMax /\ empties' \in 0 .. EmptiesNeeded /\ seen' \in SeenSet
        /\ mem' = <<>> /\ wrong' = FALSE /\ tainted' = runOn /\ res' = "none"
      BY NewOpTypes DEF Chain
  <1>2. /\ UNCHANGED <<q, cur, left, done, timedOut, overrun, reply, wfifo, dual, faults, runOn>>
        /\ pc' \in {"poll", "status"} /\ pend' = TRUE /\ fifo' = <<>> /\ fresh' = 0
        /\ frame' = [op |-> op', block |-> 1]
      BY DEF Chain
  <1>3. frame' \in FrameSet
    <2>1. 1 \in 0 .. AWrite
        BY ChainNats DEF AWrite
    <2> QED BY <1>1, <1>2, <2>1, ChainNats DEF FrameSet
  <1>4. SequencerTypes'
      BY <1>2, <1>3 DEF Typed, SequencerTypes
  <1>5. mem' \in Seq(WordSet) /\ Len(mem') <= Count /\ fifo' \in Seq(WordSet) /\ Len(fifo') <= Depth
        /\ fresh' \in 0 .. Depth
      BY <1>1, <1>2, ChainNats
  <1>6. BufferTypes'
      BY <1>2, <1>5 DEF Typed, BufferTypes
  <1>7. HostTypes'
    <2>1. op' \in 0 .. MaxOps
        BY <1>1
    <2> QED BY <1>1, <1>2, <2>1 DEF Typed, HostTypes
  <1>8. HistoryTypes'
      BY <1>1, <1>2 DEF Typed, HistoryTypes
  <1> QED BY <1>4, <1>6, <1>7, <1>8 DEF Typed

(* A read of no more words than there are takes the first ones. *)
LEMMA ReceivedIs ==
  ASSUME Typed, NEW n \in Nat, n <= Total - got, Received(n)
  PROVE  /\ got' = got + n /\ got' \in 0 .. Total /\ fifo' \in Seq(WordSet) /\ Len(fifo') <= Len(fifo)
         /\ fresh' = 0 /\ wrong' \in BOOLEAN
         /\ n <= Len(fifo) =>
              /\ Len(fifo') = Len(fifo) - n
              /\ \A i \in 1 .. Len(fifo') : fifo'[i] = fifo[i + n]
              /\ InOrder => ~wrong'
  <1>1. /\ fifo \in Seq(WordSet) /\ Len(fifo) \in Nat /\ got \in 0 .. Total /\ Total \in Nat
        /\ wrong \in BOOLEAN
      BY UptoFacts DEF Typed, BufferTypes, HostTypes, HistoryTypes
  <1> DEFINE real == Least(n, Len(fifo))
  <1>2. real \in Nat /\ real <= Len(fifo) /\ real <= n /\ (n <= Len(fifo) => real = n)
      BY <1>1 DEF Least
  <1>3. /\ got' = got + n /\ fifo' = SubSeq(fifo, real + 1, Len(fifo)) /\ fresh' = 0
        /\ wrong' = (wrong \/ real < n \/
                     \E i \in 1 .. real : fifo[i] # [op |-> op, k |-> got + i - 1])
      BY DEF Received
  <1> HIDE DEF real
  <1>4. /\ fifo' \in Seq(WordSet) /\ Len(fifo') = Len(fifo) - real
        /\ \A i \in 1 .. Len(fifo') : fifo'[i] = fifo[i + real]
    <2>1. real + 1 \in 1 .. Len(fifo) + 1 /\ Len(fifo) \in real + 1 - 1 .. Len(fifo)
        BY <1>1, <1>2
    <2>2. fifo' \in Seq(WordSet)
        BY <1>1, <1>3, <2>1, SubSeqProperties
    <2>3. Len(fifo') = Len(fifo) - real
      <3>1. Len(SubSeq(fifo, real + 1, Len(fifo)))
              = IF real + 1 <= Len(fifo) THEN Len(fifo) - (real + 1) + 1 ELSE 0
          BY <1>1, <2>1, SubSeqProperties
      <3> QED BY <1>1, <1>2, <1>3, <3>1
    <2>4. ASSUME NEW i \in 1 .. Len(fifo') PROVE fifo'[i] = fifo[i + real]
      <3>1. i \in 1 .. Len(fifo) - (real + 1) + 1
          BY <1>1, <1>2, <2>3
      <3>2. SubSeq(fifo, real + 1, Len(fifo))[i] = fifo[real + 1 + i - 1]
          BY <1>1, <2>1, <3>1, SubSeqProperties
      <3> QED BY <1>2, <1>3, <3>1, <3>2
    <2> QED BY <2>2, <2>3, <2>4
  <1>5. wrong' \in BOOLEAN
      BY <1>1, <1>3, Zenon
  <1>6. ASSUME n <= Len(fifo), InOrder PROVE ~wrong'
    <2>1. ~ (real < n)
        BY <1>2, <1>6
    <2>2. ~ \E i \in 1 .. real : fifo[i] # [op |-> op, k |-> got + i - 1]
      <3> SUFFICES ASSUME NEW i \in 1 .. real PROVE fifo[i] = [op |-> op, k |-> got + i - 1]
          OBVIOUS
      <3>1. i \in 1 .. Len(fifo)
          BY <1>1, <1>2
      <3> QED BY <1>6, <3>1 DEF InOrder
    <2>3. ~wrong
        BY <1>6 DEF InOrder
    <2> QED BY <1>3, <2>1, <2>2, <2>3, Zenon
  <1>7. got' \in 0 .. Total
      BY <1>1, <1>3
  <1>8. Len(fifo') <= Len(fifo) /\ (n <= Len(fifo) => Len(fifo') = Len(fifo) - n)
    <2>1. Len(fifo') = Len(fifo) - real
        BY <1>4
    <2> QED BY <1>1, <1>2, <2>1
  <1>9. n <= Len(fifo) => \A i \in 1 .. Len(fifo') : fifo'[i] = fifo[i + n]
    <2> SUFFICES ASSUME n <= Len(fifo) PROVE \A i \in 1 .. Len(fifo') : fifo'[i] = fifo[i + n]
        OBVIOUS
    <2>1. real = n
        BY <1>2
    <2> QED BY <1>4, <2>1
  <1> QED BY <1>3, <1>4, <1>5, <1>6, <1>7, <1>8, <1>9

(* The next block queued, or nothing. *)
LEMMA QueueTypes ==
  ASSUME Typed, QueueIfFree
  PROVE  /\ frame' \in FrameSet /\ pend' \in BOOLEAN /\ next' \in 1 .. NBlocks
         /\ \/ MayQueue /\ next < NBlocks /\ ~seen.queued /\ frame' = [op |-> op, block |-> next + 1]
               /\ pend' = TRUE /\ next' = next + 1
            \/ ~MayQueue /\ frame' = frame /\ pend' = pend /\ next' = next
  <1>1. /\ frame \in FrameSet /\ pend \in BOOLEAN /\ next \in 1 .. NBlocks /\ op \in 0 .. MaxOps
        /\ NBlocks \in Nat
      BY ChainNats DEF Typed, SequencerTypes, HostTypes
  <1>2. CASE MayQueue
    <2>1. frame' = [op |-> op, block |-> next + 1] /\ pend' = TRUE /\ next' = next + 1
        BY <1>2 DEF QueueIfFree, QueueNext
    <2>2. next < NBlocks /\ ~seen.queued
        BY <1>2 DEF MayQueue
    <2>3. next + 1 \in 0 .. AWrite /\ next' \in 1 .. NBlocks
        BY <1>1, <2>1, <2>2 DEF AWrite
    <2>4. frame' \in FrameSet
        BY <1>1, <2>1, <2>3 DEF FrameSet
    <2> QED BY <1>2, <2>1, <2>2, <2>3, <2>4
  <1>3. CASE ~MayQueue
      BY <1>1, <1>3 DEF QueueIfFree
  <1> QED BY <1>2, <1>3

(* Whatever returns notes what it leaves running. *)
LEMMA ReturnIs ==
  ASSUME NEW r, Return(r)
  PROVE  pc' = "idle" /\ res' = r /\ runOn' \in BOOLEAN /\ (runOn' <=> q' # "idle" \/ pend')
  BY Zenon DEF Return

LEMMA FlagsTyped ==
  ASSUME Typed
  PROVE  /\ Flags \in SeenSet /\ Flags.busy = Busy /\ Flags.timedOut = timedOut
         /\ Flags.overrun = overrun /\ Flags.queued = pend /\ Flags.level = 0
  <1>1. Busy \in BOOLEAN
      BY Zenon DEF Busy
  <1>2. timedOut \in BOOLEAN /\ overrun \in BOOLEAN /\ pend \in BOOLEAN
      BY DEF Typed, SequencerTypes
  <1> QED BY <1>1, <1>2 DEF Flags, NoSeen, SeenSet

(* A level never above the FIFO, cut to the words asked for. *)
LEMMA DualReadIs ==
  ASSUME Typed, DualRead
  PROVE  \E lag \in 0 .. fresh, n \in Nat :
           /\ n <= Len(fifo) /\ n <= Total - got /\ lag <= Len(fifo) /\ Received(n)
           /\ (Len(fifo) - lag = 0 => n = 0)
           /\ seen' = [Flags EXCEPT !.level = Len(fifo) - lag] /\ seen' \in SeenSet
           /\ seen'.level = Len(fifo) - lag /\ seen'.busy = Busy /\ seen'.queued = pend
           /\ seen'.timedOut = timedOut /\ seen'.overrun = overrun
  <1>1. /\ Len(fifo) \in Nat /\ fresh \in 0 .. Depth /\ got \in 0 .. Total /\ Total \in Nat
        /\ Depth \in Nat /\ ask \in Chunk .. TakeMax /\ Chunk \in Nat /\ TakeMax \in Nat
      BY ChainNats, UptoFacts DEF Typed, BufferTypes, HostTypes
  <1>2. PICK lag \in 0 .. Least(fresh, Len(fifo)) :
          /\ seen' = [Flags EXCEPT !.level = Len(fifo) - lag]
          /\ Received(Least(Len(fifo) - lag, Least(ask, Total - got)))
      BY DEF DualRead
  <1>3. lag \in 0 .. fresh /\ lag <= Len(fifo) /\ Len(fifo) - lag \in Nat
      BY <1>1, <1>2 DEF Least
  <1> DEFINE n == Least(Len(fifo) - lag, Least(ask, Total - got))
  <1>4. n \in Nat /\ n <= Len(fifo) /\ n <= Total - got /\ (Len(fifo) - lag = 0 => n = 0)
      BY <1>1, <1>3 DEF Least
  <1>5. /\ seen' \in SeenSet /\ seen'.level = Len(fifo) - lag /\ seen'.busy = Busy
        /\ seen'.queued = pend /\ seen'.timedOut = timedOut /\ seen'.overrun = overrun
      BY <1>2, <1>3, FlagsTyped DEF SeenSet
  <1>6. Received(n)
      BY <1>2
  <1> HIDE DEF n
  <1> QED BY <1>2, <1>3, <1>4, <1>5, <1>6

LEMMA AvailIs ==
  ASSUME Typed
  PROVE  /\ Avail \in Nat /\ Avail <= seen.level /\ Avail <= Total - got
         /\ (Avail = 0 => seen.level = 0 \/ got = Total)
  <1>1. /\ seen.level \in Nat /\ got \in 0 .. Total /\ Total \in Nat /\ TakeMax \in Nat \ {0}
      BY ChainNats, UptoFacts DEF Typed, HostTypes, SeenSet
  <1> QED BY <1>1 DEF Avail, Least

LEMMA HighTyped ==
  ASSUME Typed, SeenOK, ReadHigh
  PROVE  /\ seen' \in SeenSet /\ seen'.level <= Len(fifo) /\ seen'.queued = pend
         /\ seen'.busy = seen.busy /\ seen'.timedOut = seen.timedOut /\ seen'.overrun = seen.overrun
         /\ (Len(fifo) = seen.level /\ seen.level > 0 => seen'.level > 0)
  <1>1. seen \in SeenSet /\ seen.level \in Nat /\ pend \in BOOLEAN /\ Base \in Nat \ {0} /\ Base > 1
      BY ChainAssumption DEF Typed, HostTypes, SequencerTypes, SeenSet
  <1>2. Len(fifo) \in {seen.level, seen.level + 1}
      BY DEF SeenOK, ReadHigh
  <1>3. seen' = [seen EXCEPT !.level = Level(seen.level % Base, Len(fifo) \div Base),
                             !.queued = pend]
      BY DEF ReadHigh
  <1>4. /\ Level(seen.level % Base, Len(fifo) \div Base) \in 0 .. seen.level
        /\ (Len(fifo) = seen.level /\ seen.level > 0
              => Level(seen.level % Base, Len(fifo) \div Base) > 0)
      BY <1>1, <1>2, LevelBelow
  <1> DEFINE lev == Level(seen.level % Base, Len(fifo) \div Base)
  <1>5. lev \in Nat /\ lev <= Len(fifo) /\ (Len(fifo) = seen.level /\ seen.level > 0 => lev > 0)
      BY <1>1, <1>2, <1>4
  <1>6. seen' = [seen EXCEPT !.level = lev, !.queued = pend]
      BY <1>3
  <1> HIDE DEF lev
  <1> QED BY <1>1, <1>5, <1>6 DEF SeenSet

LEMMA FabricSame ==
  ASSUME UNCHANGED fabric
  PROVE  /\ (SequencerTypes => SequencerTypes') /\ (BufferTypes => BufferTypes')
         /\ UNCHANGED <<q, pend, frame, cur, left, fifo, fresh, done, timedOut, overrun, reply,
                        wfifo, mem>>
  BY DEF fabric, writes, SequencerTypes, BufferTypes

LEMMA HostStepTypes ==
  ASSUME Typed, SeenOK, HostStep \/ Deadline
  PROVE  Typed'
  <1>0. /\ dual \in BOOLEAN /\ wrong \in BOOLEAN /\ tainted \in BOOLEAN /\ faults \in 0 .. MaxFaults
        /\ runOn \in BOOLEAN /\ op \in 0 .. MaxOps /\ got \in 0 .. Total /\ next \in 1 .. NBlocks
        /\ ask \in Chunk .. TakeMax /\ empties \in 0 .. EmptiesNeeded /\ seen \in SeenSet
        /\ res \in {"none", "ok", "timeout", "no_mem", "short"}
        /\ Depth \in Nat /\ MaxFaults \in Nat /\ Chunk \in Nat \ {0} /\ TakeMax \in Nat \ {0}
        /\ Chunk <= TakeMax
      BY ChainNats DEF Typed, HostTypes, HistoryTypes
  <1>1. Verdict \in {"timeout", "no_mem", "short"}
      BY DEF Verdict
  <1>2. CASE FrameDone
    <2>1. UNCHANGED fabric /\ UNCHANGED <<op, dual, got, next, ask, empties, seen, tainted, faults>>
        BY <1>2 DEF FrameDone
    <2>2. wrong' \in BOOLEAN
        BY <1>2 DEF FrameDone
    <2>3. pc' = "idle" /\ res' \in {"timeout", "ok"} /\ runOn' \in BOOLEAN
        BY <1>2, ReturnIs DEF FrameDone
    <2> QED BY <1>0, <2>1, <2>2, <2>3, FabricSame DEF Typed, HostTypes, HistoryTypes
  <1>3. CASE DualRead
    <2>1. PICK lag \in 0 .. fresh, n \in Nat :
            n <= Len(fifo) /\ n <= Total - got /\ Received(n) /\ seen' \in SeenSet
        BY <1>3, DualReadIs
    <2>2. /\ got' \in 0 .. Total /\ fifo' \in Seq(WordSet) /\ Len(fifo') <= Len(fifo)
          /\ fresh' = 0 /\ wrong' \in BOOLEAN
        BY <2>1, ReceivedIs
    <2>3. /\ UNCHANGED <<q, pend, frame, cur, left, done, timedOut, overrun, reply, wfifo, mem, op,
                         dual, next, ask, empties, res, tainted, faults, runOn>>
          /\ pc' = "decide"
        BY <1>3 DEF DualRead, writes
    <2>4. fresh' \in 0 .. Depth /\ Len(fifo') <= Depth
        BY <1>0, <2>2 DEF Typed, BufferTypes
    <2>5. SequencerTypes' /\ BufferTypes'
        BY <2>2, <2>3, <2>4 DEF Typed, SequencerTypes, BufferTypes
    <2> QED BY <1>0, <2>1, <2>2, <2>3, <2>5 DEF Typed, HostTypes, HistoryTypes
  <1>4. CASE DualDecide
    <2>1. UNCHANGED <<q, cur, left, fifo, fresh, done, timedOut, overrun, reply, wfifo, mem, op,
                      dual, got, seen, wrong, tainted, faults>>
        BY <1>4 DEF DualDecide, writes
    <2>2. CASE got = Total
      <3>1. UNCHANGED <<frame, pend, next, ask, empties>> /\ Return("ok")
          BY <1>4, <2>2 DEF DualDecide
      <3>2. pc' = "idle" /\ res' = "ok" /\ runOn' \in BOOLEAN
          BY <3>1, ReturnIs
      <3> QED BY <1>0, <2>1, <3>1, <3>2
              DEF Typed, SequencerTypes, BufferTypes, HostTypes, HistoryTypes
    <2>3. CASE got # Total
      <3>1. frame' \in FrameSet /\ pend' \in BOOLEAN /\ next' \in 1 .. NBlocks
          BY <1>4, <2>3, QueueTypes DEF DualDecide
      <3>2. ask' \in Chunk .. TakeMax
        <4>1. ask' = Least(TakeMax, IF seen.level > Chunk THEN seen.level ELSE Chunk)
            BY <1>4, <2>3 DEF DualDecide
        <4>2. seen.level \in Nat
            BY <1>0 DEF SeenSet
        <4> QED BY <1>0, <4>1, <4>2 DEF Least
      <3>3. empties' \in 0 .. EmptiesNeeded
        <4>1. empties' = (IF Idle /\ seen.level = 0 THEN Least(EmptiesNeeded, empties + 1) ELSE 0)
            BY <1>4, <2>3 DEF DualDecide
        <4> QED BY <1>0, <4>1 DEF EmptiesNeeded, Least
      <3>4. Return(Verdict) \/ Goon("check")
          BY <1>4, <2>3 DEF DualDecide
      <3>5. /\ pc' \in {"idle", "check"} /\ runOn' \in BOOLEAN
            /\ res' \in {"none", "ok", "timeout", "no_mem", "short"}
          BY <1>0, <1>1, <3>4, ReturnIs DEF Goon
      <3> QED BY <1>0, <2>1, <3>1, <3>2, <3>3, <3>5
              DEF Typed, SequencerTypes, BufferTypes, HostTypes, HistoryTypes
    <2> QED BY <2>2, <2>3
  <1>5. CASE ReadStatus
    <2>1. /\ UNCHANGED fabric /\ pc' = "low"
          /\ UNCHANGED <<op, dual, got, next, ask, empties, res, wrong, tainted, faults, runOn>>
          /\ seen' = [Flags EXCEPT !.queued = FALSE]
        BY <1>5 DEF ReadStatus
    <2>2. seen' \in SeenSet
        BY <2>1, FlagsTyped DEF SeenSet
    <2> QED BY <1>0, <2>1, <2>2, FabricSame DEF Typed, HostTypes, HistoryTypes
  <1>6. CASE ReadLow
    <2>1. /\ UNCHANGED fabric /\ pc' = "high"
          /\ UNCHANGED <<op, dual, got, next, ask, empties, res, wrong, tainted, faults, runOn>>
          /\ seen' = [seen EXCEPT !.level = Len(fifo)]
        BY <1>6 DEF ReadLow
    <2>2. seen' \in SeenSet
      <3>1. Len(fifo) \in Nat
          BY DEF Typed, BufferTypes
      <3> QED BY <1>0, <2>1, <3>1 DEF SeenSet
    <2> QED BY <1>0, <2>1, <2>2, FabricSame DEF Typed, HostTypes, HistoryTypes
  <1>7. CASE ReadHigh
    <2>1. /\ UNCHANGED fabric /\ pc' = "take"
          /\ UNCHANGED <<op, dual, got, next, ask, empties, res, wrong, tainted, faults, runOn>>
        BY <1>7 DEF ReadHigh
    <2>2. seen' \in SeenSet
        BY <1>7, HighTyped
    <2> QED BY <1>0, <2>1, <2>2, FabricSame DEF Typed, HostTypes, HistoryTypes
  <1>8. CASE SingleDecide
    <2>1. UNCHANGED <<q, cur, left, done, timedOut, overrun, reply, wfifo, mem, op, dual, ask,
                      empties, seen, tainted, faults>>
        BY <1>8 DEF SingleDecide, writes
    <2>2. frame' \in FrameSet /\ pend' \in BOOLEAN /\ next' \in 1 .. NBlocks
        BY <1>8, QueueTypes DEF SingleDecide
    <2>3. /\ got' \in 0 .. Total /\ fifo' \in Seq(WordSet) /\ Len(fifo') <= Depth
          /\ fresh' \in 0 .. Depth /\ wrong' \in BOOLEAN
      <3>1. CASE Ready
        <4>1. Received(Avail) /\ Avail \in Nat /\ Avail <= Total - got
            BY <1>8, <3>1, AvailIs DEF SingleDecide
        <4>2. /\ got' \in 0 .. Total /\ fifo' \in Seq(WordSet) /\ Len(fifo') <= Len(fifo)
              /\ fresh' = 0 /\ wrong' \in BOOLEAN
            BY <4>1, ReceivedIs
        <4> QED BY <1>0, <4>2 DEF Typed, BufferTypes
      <3>2. CASE ~Ready
        <4>1. UNCHANGED <<got, wrong, fifo, fresh>>
            BY <1>8, <3>2 DEF SingleDecide
        <4> QED BY <1>0, <4>1 DEF Typed, BufferTypes
      <3> QED BY <3>1, <3>2
    <2>4. Return("ok") \/ Goon("status") \/ Return(Verdict) \/ Goon("check")
        BY <1>8 DEF SingleDecide
    <2>5. /\ pc' \in {"idle", "status", "check"} /\ runOn' \in BOOLEAN
          /\ res' \in {"none", "ok", "timeout", "no_mem", "short"}
        BY <1>0, <1>1, <2>4, ReturnIs DEF Goon
    <2> QED BY <1>0, <2>1, <2>2, <2>3, <2>5
            DEF Typed, SequencerTypes, BufferTypes, HostTypes, HistoryTypes
  <1>9. CASE InTime
    <2>1. /\ UNCHANGED fabric /\ UNCHANGED <<res, runOn>> /\ pc' \in {"poll", "status"}
          /\ UNCHANGED <<op, dual, got, next, ask, empties, seen, wrong, tainted, faults>>
        BY <1>9 DEF InTime, Goon
    <2> QED BY <1>0, <2>1, FabricSame DEF Typed, HostTypes, HistoryTypes
  <1>10. CASE Deadline
    <2>1. /\ UNCHANGED <<op, dual, got, next, ask, empties, seen, wrong, tainted>>
          /\ faults' = faults + 1 /\ faults < MaxFaults /\ Return("timeout") /\ Abort
        BY <1>10 DEF Deadline
    <2>2. /\ pend' = FALSE /\ fifo' = <<>> /\ fresh' = 0
          /\ UNCHANGED <<frame, cur, left, reply, wfifo, mem>> /\ q' \in {q, "idle"}
          /\ done' \in {done, TRUE} /\ timedOut' \in {timedOut, TRUE} /\ overrun' \in BOOLEAN
      <3>1. overrun \in BOOLEAN
          BY DEF Typed, SequencerTypes
      <3> QED BY <2>1, <3>1 DEF Abort, writes
    <2>3. pc' = "idle" /\ res' = "timeout" /\ runOn' \in BOOLEAN
        BY <2>1, ReturnIs
    <2>4. faults' \in 0 .. MaxFaults
        BY <1>0, <2>1
    <2>5. fifo' \in Seq(WordSet) /\ Len(fifo') <= Depth /\ fresh' \in 0 .. Depth
        BY <1>0, <2>2
    <2> QED BY <1>0, <2>1, <2>2, <2>3, <2>4, <2>5
            DEF Typed, SequencerTypes, BufferTypes, HostTypes, HistoryTypes
  <1> QED BY <1>2, <1>3, <1>4, <1>5, <1>6, <1>7, <1>8, <1>9, <1>10 DEF HostStep


-----------------------------------------------------------------------------
(* The fabric's steps. *)

LEMMA HostSame ==
  ASSUME Fabric \/ ParcelTimeout
  PROVE  /\ UNCHANGED <<pc, op, dual, got, next, ask, empties, seen, res, wrong, tainted>>
         /\ (Returned => Returned') /\ (Modes => Modes')
  <1>1. UNCHANGED <<pc, op, dual, got, next, ask, empties, seen, res, wrong, tainted>>
      BY DEF Fabric, Take, Sent, Reply, Parcel, Store, WriteAck, WriteParcel, ParcelTimeout, host
  <1> QED BY <1>1 DEF Returned, Modes

LEMMA ChainNumbers ==
  ASSUME Typed
  PROVE  /\ next \in 1 .. NBlocks /\ Begun \in 0 .. NBlocks /\ got \in 0 .. Total /\ Len(fifo) \in Nat
         /\ left \in 0 .. Count /\ Count \in Nat \ {0} /\ NBlocks \in Nat \ {0} /\ Total \in Nat
         /\ Due \in Int /\ Pushed \in Nat /\ Upto(Begun) \in Nat
         /\ AnExchange # AWrite /\ AWrite \notin 1 .. NBlocks /\ AnExchange \notin 1 .. NBlocks
         /\ Due = Upto(Begun) - (IF q = "idle" THEN 0 ELSE left)
         /\ Begun = IF pend THEN next - 1 ELSE next
  <1>1. /\ next \in 1 .. NBlocks /\ got \in 0 .. Total /\ Len(fifo) \in Nat /\ left \in 0 .. Count
        /\ Count \in Nat \ {0} /\ NBlocks \in Nat \ {0} /\ Total \in Nat
      BY ChainNats, UptoFacts DEF Typed, HostTypes, BufferTypes, SequencerTypes
  <1>2. Begun \in 0 .. NBlocks
      BY <1>1 DEF Begun
  <1>3. Upto(Begun) \in Nat
    <2>1. Begun \in Nat
        BY <1>1, <1>2
    <2> QED BY <2>1, UptoFacts
  <1>4. Pushed \in Nat /\ Due \in Int
      BY <1>1, <1>3 DEF Pushed, Due
  <1> QED BY <1>1, <1>2, <1>3, <1>4 DEF AnExchange, AWrite, Due, Begun

LEMMA TakeStep ==
  ASSUME FabricInv, Take
  PROVE  FabricInv'
  <1>1. Typed' /\ Returned' /\ Modes' /\ UNCHANGED <<pc, op, dual, got, next, ask, empties, seen, res,
                                                     wrong, tainted>>
      BY FabricTypes, HostSame DEF FabricInv, Fabric
  <1>2. /\ UNCHANGED <<frame, fifo, fresh, timedOut, reply, wfifo, mem, faults, runOn>>
        /\ q = "idle" /\ pend = TRUE /\ q' = "tx" /\ pend' = FALSE /\ left' = Count /\ done' = FALSE
        /\ overrun' = FALSE
    <2>1. pend \in BOOLEAN
        BY DEF FabricInv, Typed, SequencerTypes
    <2> QED BY <2>1 DEF Take, writes
  <1>3. /\ cur'.op = frame.op /\ cur'.block \in 1 .. NBlocks
        /\ (frame.block \in 1 .. NBlocks => cur' = frame)
    <2>1. cur' = (IF frame.block \in 1 .. NBlocks THEN frame ELSE [frame EXCEPT !.block = 1])
        BY DEF Take
    <2>2. frame \in FrameSet
        BY DEF FabricInv, Typed, SequencerTypes
    <2> QED BY <2>1, <2>2, ChainNats DEF FrameSet
  <1>4. Typed /\ Running /\ FrameOK /\ ChainOK /\ SeenOK /\ NeverFails
      BY DEF FabricInv
  <1>5. frame.op # 0 /\ (pc # "idle" => op # 0) /\ (pc = "idle" => runOn = TRUE)
    <2>1. runOn \in BOOLEAN
        BY <1>4 DEF Typed, HistoryTypes
    <2>2. frame.op # 0 /\ (pc # "idle" => op # 0)
        BY <1>2, <1>4 DEF Running
    <2>3. pc = "idle" => runOn = TRUE
        BY <1>2, <1>4, <2>1 DEF Running, Busy
    <2> QED BY <2>2, <2>3
  <1>6. Running'
      BY <1>1, <1>2, <1>3, <1>5, <1>4, ChainNumbers DEF Running, Busy
  <1>7. FrameOK'
      BY <1>1, <1>2, <1>4 DEF FrameOK
  <1>8. Pushed' = Pushed /\ (InOrder => InOrder')
      BY <1>1, <1>2 DEF Pushed, InOrder
  <1>9. Due' = Due
    <2>1. Begun = next - 1 /\ Begun' = next /\ next \in 1 .. NBlocks /\ NBlocks \in Nat
        BY <1>1, <1>2, <1>4, ChainNumbers DEF Begun
    <2>2. Upto(next) = Upto(next - 1) + Count
      <3>1. next - 1 \in Nat /\ next - 1 + 1 = next
          BY <2>1
      <3> QED BY <3>1, UptoFacts
    <2>3. Upto(next - 1) \in Nat /\ Count \in Nat
      <3>1. next - 1 \in Nat
          BY <2>1
      <3> QED BY <3>1, UptoFacts, ChainNats
    <2>4. Due = Upto(next - 1)
        BY <1>2, <2>1, <2>3 DEF Due
    <2>5. Due' = Upto(next) - Count
        BY <1>2, <2>1 DEF Due, Upto
    <2> QED BY <2>2, <2>3, <2>4, <2>5
  <1>10. ChainOK'
    <2> SUFFICES ASSUME pc \in ChainPcs, ~tainted
                 PROVE  /\ frame' = [op |-> op, block |-> next]
                        /\ cur' = [op |-> op, block |-> Begun'] /\ Begun' >= 1
                        /\ Pushed' <= Due' /\ (Pushed' = Due' => InOrder')
        BY <1>1, <1>2 DEF ChainOK
    <2>1. frame = [op |-> op, block |-> next] /\ Pushed <= Due /\ (Pushed = Due => InOrder)
        BY <1>4 DEF ChainOK
    <2>2. Begun' = next /\ next \in 1 .. NBlocks /\ NBlocks \in Nat
        BY <1>1, <1>2, <1>4, ChainNumbers DEF Begun
    <2>3. cur' = [op |-> op, block |-> next] /\ next >= 1
        BY <1>3, <2>1, <2>2
    <2> QED BY <1>2, <1>8, <1>9, <2>1, <2>2, <2>3
  <1>11. SeenOK'
      BY <1>1, <1>2, <1>4 DEF SeenOK
  <1>12. NeverFails'
      BY <1>1, <1>2, <1>4, <1>8, <1>9 DEF NeverFails, Smooth, Busy, Idle
  <1> QED BY <1>1, <1>6, <1>7, <1>10, <1>11, <1>12 DEF FabricInv

LEMMA SentStep ==
  ASSUME FabricInv, Sent
  PROVE  FabricInv'
  <1>1. Typed' /\ Returned' /\ Modes' /\ UNCHANGED <<pc, op, dual, got, next, ask, empties, seen, res,
                                                     wrong, tainted>>
      BY FabricTypes, HostSame DEF FabricInv, Fabric
  <1>2. /\ UNCHANGED <<pend, frame, cur, left, fifo, fresh, done, overrun, reply, wfifo, mem, faults,
                       runOn>>
        /\ q = "tx" /\ timedOut' = FALSE
        /\ \/ q' = "rx" /\ cur.block = AnExchange
           \/ q' = "wack" /\ cur.block = AWrite
           \/ q' = "parcel" /\ cur.block \notin {AnExchange, AWrite}
      BY DEF Sent, writes
  <1>3. Typed /\ Running /\ FrameOK /\ ChainOK /\ SeenOK /\ NeverFails
      BY DEF FabricInv
  <1>4. /\ AnExchange # AWrite /\ AWrite \notin 1 .. NBlocks /\ AnExchange \notin 1 .. NBlocks
        /\ Begun \in 0 .. NBlocks /\ left \in 0 .. Count /\ Count \in Nat \ {0}
        /\ NBlocks \in Nat \ {0}
      BY <1>3, ChainNumbers
  <1>5. cur.block \notin {AnExchange, AWrite} => cur.block \in 1 .. NBlocks
    <2>1. cur.block \in 0 .. AWrite
        BY <1>3 DEF Typed, SequencerTypes, FrameSet
    <2> QED BY <1>4, <2>1 DEF AnExchange, AWrite
  <1>6. left = Count
      BY <1>2, <1>3 DEF Running
  <1>7. Running'
      BY <1>1, <1>2, <1>3, <1>4, <1>5, <1>6 DEF Running, Busy
  <1>8. FrameOK'
    <2>1. pc = "wait" /\ ~tainted => q' \in {"rx", "wack"}
        BY <1>2, <1>3 DEF FrameOK
    <2> QED BY <1>1, <1>2, <1>3, <2>1 DEF FrameOK, WordOf
  <1>9. Pushed' = Pushed /\ Due' = Due /\ Begun' = Begun /\ (InOrder => InOrder')
      BY <1>1, <1>2 DEF Pushed, Due, Begun, Upto, InOrder
  <1>10. ChainOK'
    <2>1. pc \in ChainPcs /\ ~tainted => q' = "parcel"
        BY <1>2, <1>3, <1>4 DEF ChainOK
    <2> QED BY <1>1, <1>2, <1>3, <1>9, <2>1 DEF ChainOK
  <1>11. SeenOK'
      BY <1>1, <1>2, <1>3 DEF SeenOK
  <1>12. NeverFails'
      BY <1>1, <1>2, <1>3, <1>9 DEF NeverFails, Smooth, Busy, Idle
  <1> QED BY <1>1, <1>7, <1>8, <1>10, <1>11, <1>12 DEF FabricInv

LEMMA ReplyStep ==
  ASSUME FabricInv, Reply
  PROVE  FabricInv'
  <1>1. Typed' /\ Returned' /\ Modes' /\ UNCHANGED <<pc, op, dual, got, next, ask, empties, seen, res,
                                                     wrong, tainted>>
      BY FabricTypes, HostSame DEF FabricInv, Fabric
  <1>2. /\ UNCHANGED <<pend, frame, cur, left, fifo, fresh, timedOut, overrun, wfifo, mem, faults>>
        /\ q = "rx" /\ reply' = cur.op /\ q' = "idle" /\ done' = TRUE
      BY DEF Reply, writes
  <1>3. Typed /\ Running /\ FrameOK /\ ChainOK /\ SeenOK /\ NeverFails
      BY DEF FabricInv
  <1>4. (pc = "idle" => (runOn' <=> pend)) /\ (~runOn => ~runOn')
    <2>1. runOn' <=> runOn /\ pend
        BY Zenon DEF Reply
    <2>2. pc = "idle" => runOn
        BY <1>2, <1>3 DEF Running, Busy
    <2> QED BY <2>1, <2>2
  <1>5. cur.block = AnExchange /\ AnExchange # AWrite
      BY <1>2, <1>3, ChainNumbers DEF Running
  <1>6. Running'
      BY <1>1, <1>2, <1>3, <1>4 DEF Running, Busy
  <1>7. FrameOK'
      BY <1>1, <1>2, <1>3, <1>5 DEF FrameOK
  <1>8. ~ (pc \in ChainPcs /\ ~tainted)
      BY <1>2, <1>3 DEF ChainOK
  <1>9. ChainOK'
      BY <1>1, <1>8 DEF ChainOK
  <1>10. SeenOK'
      BY <1>1, <1>2, <1>3 DEF SeenOK
  <1>11. NeverFails'
    <2> SUFFICES ASSUME faults' = 0 PROVE Smooth'
        BY DEF NeverFails
    <2>1. Smooth /\ ~tainted /\ pc \notin ChainPcs
        BY <1>2, <1>3, <1>8 DEF NeverFails, Smooth
    <2> QED BY <1>1, <1>2, <1>4, <2>1 DEF Smooth, ChainPcs, Busy
  <1> QED BY <1>1, <1>6, <1>7, <1>9, <1>10, <1>11 DEF FabricInv

(* A word of the block at hand. *)
LEMMA PushStep ==
  ASSUME FabricInv, Parcel \/ Store, Room, Push
  PROVE  FabricInv'
  <1>1. Typed' /\ Returned' /\ Modes' /\ UNCHANGED <<pc, op, dual, got, next, ask, empties, seen, res,
                                                     wrong, tainted>>
      BY FabricTypes, HostSame DEF FabricInv, Fabric
  <1>2. /\ UNCHANGED <<pend, frame, cur, timedOut, overrun, reply, wfifo, mem, faults>>
        /\ q \in {"parcel", "store"}
      BY DEF Parcel, Store, writes
  <1>3. Typed /\ Running /\ FrameOK /\ ChainOK /\ SeenOK /\ NeverFails
      BY DEF FabricInv
  <1>4. /\ fifo' \in Seq(WordSet) /\ Len(fifo') = Len(fifo) + 1
        /\ left' = left - 1 /\ left' \in 0 .. Count /\ left \in 1 .. Count
        /\ \/ left = 1 /\ q' = "idle" /\ done' = TRUE
           \/ left > 1 /\ q' = "parcel" /\ done' = done
        /\ fifo'[Len(fifo) + 1] = Word /\ \A i \in 1 .. Len(fifo) : fifo'[i] = fifo[i]
        /\ runOn' = IF left = 1 THEN runOn /\ pend ELSE runOn
      BY <1>2, <1>3, PushTypes
  <1>5. (pc = "idle" => runOn) /\ (left = 1 => (runOn' <=> runOn /\ pend)) /\ (left # 1 => runOn' = runOn)
    <2>1. pc = "idle" => runOn
        BY <1>2, <1>3 DEF Running, Busy
    <2> QED BY <1>4, <2>1
  <1>6. Running'
      BY <1>1, <1>2, <1>3, <1>4, <1>5, ChainNumbers DEF Running, Busy
  <1>7. FrameOK'
      BY <1>1, <1>2, <1>3 DEF FrameOK
  <1>8. Word = [op |-> cur.op, k |-> Upto(cur.block) - left]
    <2>1. Word.op = cur.op /\ Word.k = Upto(cur.block) - left
        BY <1>2, <1>3, WordTyped
    <2> QED BY <2>1 DEF Word
  <1>9. Pushed' = Pushed + 1 /\ Due' = Due + 1 /\ Begun' = Begun
    <2>1. Begun' = Begun /\ Upto(Begun)' = Upto(Begun)
        BY <1>1, <1>2 DEF Begun, Upto
    <2>2. Due = Upto(Begun) - left /\ Upto(Begun) \in Nat
        BY <1>2, <1>3, ChainNumbers
    <2>3. Due' = Upto(Begun) - (IF q' = "idle" THEN 0 ELSE left')
        BY <2>1 DEF Due
    <2>4. Due' = Due + 1
        BY <1>4, <2>2, <2>3, ChainNats
    <2>5. Pushed' = Pushed + 1
        BY <1>1, <1>3, <1>4, ChainNumbers DEF Pushed
    <2> QED BY <2>1, <2>4, <2>5
  <1>10. ChainOK'
    <2> SUFFICES ASSUME pc \in ChainPcs, ~tainted
                 PROVE  /\ frame' = [op |-> op, block |-> next] /\ q' \in {"idle", "parcel"}
                        /\ cur' = [op |-> op, block |-> Begun'] /\ Begun' >= 1
                        /\ Pushed' <= Due' /\ (Pushed' = Due' => InOrder')
        BY <1>1, <1>2 DEF ChainOK
    <2>1. /\ frame = [op |-> op, block |-> next] /\ Pushed <= Due /\ (Pushed = Due => InOrder)
          /\ cur = [op |-> op, block |-> Begun] /\ Begun >= 1
        BY <1>2, <1>3 DEF ChainOK
    <2>2. Due \in Int /\ Pushed \in Nat /\ Due = Upto(Begun) - left /\ Pushed = got + Len(fifo)
          /\ got \in Nat /\ Len(fifo) \in Nat
        BY <1>2, <1>3, ChainNumbers DEF Pushed
    <2>3. ASSUME Pushed' = Due' PROVE InOrder'
      <3>1. Pushed = Due /\ InOrder
          BY <1>9, <2>1, <2>2, <2>3
      <3>2. Word = [op |-> op, k |-> got + Len(fifo)]
          BY <1>8, <2>1, <2>2, <3>1
      <3>3. ASSUME NEW i \in 1 .. Len(fifo') PROVE fifo'[i] = [op |-> op, k |-> got + i - 1]
        <4>1. CASE i = Len(fifo) + 1
          <5>1. got + i - 1 = got + Len(fifo)
              BY <2>2, <4>1
          <5> QED BY <1>4, <3>2, <4>1, <5>1
        <4>2. CASE i # Len(fifo) + 1
          <5>1. i \in 1 .. Len(fifo)
              BY <1>4, <2>2, <4>2
          <5> QED BY <1>4, <3>1, <5>1 DEF InOrder
        <4> QED BY <4>1, <4>2
      <3> QED BY <1>1, <3>1, <3>3 DEF InOrder
    <2>4. Pushed' <= Due'
        BY <1>9, <2>1, <2>2
    <2> QED BY <1>2, <1>4, <1>9, <2>1, <2>3, <2>4
  <1>11. SeenOK'
    <2>1. pc = "high" => Len(fifo) = seen.level
        BY DEF Push, Paced
    <2>2. Len(fifo) \in Nat /\ seen.level \in Nat
        BY <1>3, ChainNumbers DEF Typed, HostTypes, SeenSet
    <2>3. pc = "high" => Len(fifo') = seen.level + 1
        BY <1>4, <2>1, <2>2
    <2>4. pc = "take" => seen.level <= Len(fifo')
        BY <1>3, <1>4, <2>2 DEF SeenOK
    <2>5. pc \in {"decide", "take"} /\ ~seen.queued => ~pend
        BY <1>3 DEF SeenOK
    <2> QED BY <1>1, <1>2, <2>3, <2>4, <2>5 DEF SeenOK
  <1>12. NeverFails'
    <2> SUFFICES ASSUME faults' = 0 PROVE Smooth'
        BY DEF NeverFails
    <2>1. Smooth
        BY <1>2, <1>3 DEF NeverFails
    <2>2. ~runOn' \/ pc # "idle"
        BY <1>4, <1>5, <2>1 DEF Smooth
    <2>3. fifo' # <<>> /\ Len(fifo) \in Nat
        BY <1>3, <1>4, ChainNumbers
    <2>4. pc = "take" => seen.level < Len(fifo')
      <3>1. pc = "take" => seen.level <= Len(fifo)
          BY <1>3 DEF SeenOK
      <3>2. seen.level \in Nat
          BY <1>3 DEF Typed, HostTypes, SeenSet
      <3> QED BY <1>4, <2>3, <3>1, <3>2
    <2>5. fresh < Len(fifo) => fresh' < Len(fifo')
      <3>1. fresh' = Least(fresh + 1, Len(fifo) + 1) /\ fresh \in 0 .. Depth /\ Depth \in Nat
          BY <1>3, ChainNats DEF Push, Typed, BufferTypes
      <3>2. fresh < Len(fifo) => fresh' < Len(fifo) + 1
          BY <2>3, <3>1 DEF Least
      <3> QED BY <1>4, <3>2
    <2>6. Busy
        BY <1>2 DEF Busy
    <2>7. ~ (pc \in {"low", "high", "take"} /\ ~seen.busy)
        BY <2>1, <2>6 DEF Smooth
    <2>8. pc \in ChainPcs => Pushed' = Due'
        BY <1>9, <2>1 DEF Smooth
    <2> QED BY <1>1, <1>2, <2>1, <2>2, <2>3, <2>4, <2>5, <2>7, <2>8 DEF Smooth, Idle
  <1> QED BY <1>1, <1>6, <1>7, <1>10, <1>11, <1>12 DEF FabricInv

LEMMA ParcelStep ==
  ASSUME FabricInv, Parcel \/ Store
  PROVE  FabricInv'
  <1>1. CASE Room /\ Push
      BY <1>1, PushStep
  <1>2. CASE ~ (Room /\ Push)
    <2>1. /\ UNCHANGED <<pend, frame, cur, left, fifo, fresh, done, timedOut, overrun, reply, wfifo, mem,
                         faults, runOn>>
          /\ q = "parcel" /\ q' = "store"
        BY <1>2 DEF Parcel, Store, writes
    <2>2. Typed' /\ Returned' /\ Modes' /\ UNCHANGED <<pc, op, dual, got, next, ask, empties, seen,
                                                       res, wrong, tainted>>
        BY FabricTypes, HostSame DEF FabricInv, Fabric
    <2>3. Typed /\ Running /\ FrameOK /\ ChainOK /\ SeenOK /\ NeverFails
        BY DEF FabricInv
    <2>4. Running' /\ FrameOK' /\ SeenOK'
        BY <2>1, <2>2, <2>3 DEF Running, Busy, FrameOK, SeenOK
    <2>5. Pushed' = Pushed /\ Due' = Due /\ Begun' = Begun /\ (InOrder => InOrder')
        BY <2>1, <2>2 DEF Pushed, Due, Begun, Upto, InOrder
    <2>6. ChainOK'
        BY <2>1, <2>2, <2>3, <2>5 DEF ChainOK
    <2>7. NeverFails'
        BY <2>1, <2>2, <2>3, <2>5 DEF NeverFails, Smooth, Busy, Idle
    <2> QED BY <2>2, <2>4, <2>6, <2>7 DEF FabricInv
  <1> QED BY <1>1, <1>2

LEMMA WriteAckStep ==
  ASSUME FabricInv, WriteAck
  PROVE  FabricInv'
  <1>1. Typed' /\ Returned' /\ Modes' /\ UNCHANGED <<pc, op, dual, got, next, ask, empties, seen, res,
                                                     wrong, tainted>>
      BY FabricTypes, HostSame DEF FabricInv, Fabric
  <1>2. /\ UNCHANGED <<pend, frame, cur, left, fifo, fresh, timedOut, overrun, reply, wfifo, mem,
                       faults>>
        /\ q = "wack"
        /\ \/ left = 0 /\ q' = "idle" /\ done' = TRUE
           \/ left # 0 /\ q' = "wfetch" /\ done' = done
      BY DEF WriteAck, writes
  <1>3. Typed /\ Running /\ FrameOK /\ ChainOK /\ SeenOK /\ NeverFails
      BY DEF FabricInv
  <1>4. (pc = "idle" => (runOn' <=> q' # "idle" \/ pend)) /\ (~runOn => ~runOn')
    <2>1. (left = 0 => (runOn' <=> runOn /\ pend)) /\ (left # 0 => runOn' = runOn)
        BY Zenon DEF WriteAck
    <2>2. pc = "idle" => runOn
        BY <1>2, <1>3 DEF Running, Busy
    <2> QED BY <1>2, <2>1, <2>2
  <1>5. cur.block = AWrite /\ AnExchange # AWrite /\ left \in 0 .. Count /\ Count \in Nat
      BY <1>2, <1>3, ChainNumbers DEF Running
  <1>6. Running'
      BY <1>1, <1>2, <1>3, <1>4, <1>5 DEF Running, Busy
  <1>7. FrameOK'
      BY <1>1, <1>2, <1>3, <1>5 DEF FrameOK, WordOf
  <1>8. ~ (pc \in ChainPcs /\ ~tainted)
      BY <1>2, <1>3 DEF ChainOK
  <1>9. ChainOK'
      BY <1>1, <1>8 DEF ChainOK
  <1>10. SeenOK'
      BY <1>1, <1>2, <1>3 DEF SeenOK
  <1>11. NeverFails'
    <2> SUFFICES ASSUME faults' = 0 PROVE Smooth'
        BY DEF NeverFails
    <2>1. Smooth /\ ~tainted /\ pc \notin ChainPcs
        BY <1>2, <1>3, <1>8 DEF NeverFails, Smooth
    <2> QED BY <1>1, <1>2, <1>4, <2>1 DEF Smooth, ChainPcs, Busy
  <1> QED BY <1>1, <1>6, <1>7, <1>9, <1>10, <1>11 DEF FabricInv

LEMMA WriteParcelStep ==
  ASSUME FabricInv, WriteParcel
  PROVE  FabricInv'
  <1>1. Typed' /\ Returned' /\ Modes' /\ UNCHANGED <<pc, op, dual, got, next, ask, empties, seen, res,
                                                     wrong, tainted>>
      BY FabricTypes, HostSame DEF FabricInv, Fabric
  <1>2. /\ UNCHANGED <<pend, frame, cur, fifo, fresh, done, timedOut, overrun, reply, faults, runOn>>
        /\ q = "wfetch" /\ wfifo # <<>> /\ mem' = Append(mem, Head(wfifo)) /\ wfifo' = Tail(wfifo)
        /\ left' = left - 1 /\ q' = "wack"
      BY DEF WriteParcel
  <1>3. Typed /\ Running /\ FrameOK /\ ChainOK /\ SeenOK /\ NeverFails
      BY DEF FabricInv
  <1>4. /\ cur.block = AWrite /\ AnExchange # AWrite /\ left \in 1 .. Count /\ Count \in Nat
        /\ Len(mem) + left <= Count
      BY <1>2, <1>3, ChainNumbers DEF Running
  <1>5. /\ Len(mem') = Len(mem) + 1 /\ Len(wfifo') = Len(wfifo) - 1 /\ Len(mem) \in Nat
        /\ Len(wfifo) \in Nat \ {0}
        /\ \A i \in 1 .. Len(mem) : mem'[i] = mem[i]
        /\ mem'[Len(mem) + 1] = wfifo[1]
        /\ \A i \in 1 .. Len(wfifo') : wfifo'[i] = wfifo[i + 1]
    <2>1. wfifo \in Seq(WordSet) /\ mem \in Seq(WordSet)
        BY <1>3 DEF Typed, BufferTypes
    <2>2. Len(wfifo) \in Nat \ {0} /\ Head(wfifo) = wfifo[1] /\ Head(wfifo) \in WordSet
        BY <1>2, <2>1
    <2>3. /\ Len(mem') = Len(mem) + 1 /\ mem'[Len(mem) + 1] = wfifo[1]
          /\ \A i \in 1 .. Len(mem) : mem'[i] = mem[i]
        BY <1>2, <2>1, <2>2
    <2>4. Len(wfifo') = Len(wfifo) - 1 /\ \A i \in 1 .. Len(wfifo') : wfifo'[i] = wfifo[i + 1]
        BY <1>2, <2>1
    <2> QED BY <2>1, <2>2, <2>3, <2>4
  <1>6. Running'
    <2>1. Len(mem') + left' <= Count
        BY <1>2, <1>4, <1>5
    <2> QED BY <1>1, <1>2, <1>3, <1>4, <2>1 DEF Running, Busy
  <1>7. FrameOK'
    <2> SUFFICES ASSUME pc = "wait", ~tainted
                 PROVE  /\ ~pend /\ cur = frame /\ frame.op = op /\ frame.block = AWrite /\ ~done
                        /\ Len(mem') = Count - left' /\ Len(wfifo') = left'
                        /\ \A i \in 1 .. Len(mem') : mem'[i] = WordOf(i)
                        /\ \A i \in 1 .. Len(wfifo') : wfifo'[i] = WordOf(Len(mem') + i)
        BY <1>1, <1>2, <1>4 DEF FrameOK, WordOf
    <2>1. /\ ~pend /\ cur = frame /\ frame.op = op /\ frame.block = AWrite /\ ~done
          /\ Len(mem) = Count - left /\ Len(wfifo) = left
          /\ \A i \in 1 .. Len(mem) : mem[i] = WordOf(i)
          /\ \A i \in 1 .. Len(wfifo) : wfifo[i] = WordOf(Len(mem) + i)
        BY <1>2, <1>3, <1>4 DEF FrameOK
    <2>2. Len(mem') = Count - left' /\ Len(wfifo') = left'
        BY <1>2, <1>4, <1>5, <2>1
    <2>3. ASSUME NEW i \in 1 .. Len(mem') PROVE mem'[i] = WordOf(i)
      <3>1. CASE i = Len(mem) + 1
        <4>1. 1 \in 1 .. Len(wfifo)
            BY <1>5
        <4> QED BY <1>5, <2>1, <3>1, <4>1
      <3>2. CASE i # Len(mem) + 1
        <4>1. i \in 1 .. Len(mem)
            BY <1>5, <3>2
        <4> QED BY <1>5, <2>1, <4>1
      <3> QED BY <3>1, <3>2
    <2>4. ASSUME NEW i \in 1 .. Len(wfifo') PROVE wfifo'[i] = WordOf(Len(mem') + i)
      <3>1. i + 1 \in 1 .. Len(wfifo) /\ Len(mem) + (i + 1) = Len(mem') + i
          BY <1>5
      <3>2. wfifo[i + 1] = WordOf(Len(mem) + (i + 1))
          BY <2>1, <3>1
      <3> QED BY <1>5, <3>1, <3>2
    <2> QED BY <2>1, <2>2, <2>3, <2>4
  <1>8. ~ (pc \in ChainPcs /\ ~tainted)
      BY <1>2, <1>3 DEF ChainOK
  <1>9. ChainOK'
      BY <1>1, <1>8 DEF ChainOK
  <1>10. SeenOK'
      BY <1>1, <1>2, <1>3 DEF SeenOK
  <1>11. NeverFails'
    <2> SUFFICES ASSUME faults' = 0 PROVE Smooth'
        BY DEF NeverFails
    <2>1. Smooth /\ ~tainted /\ pc \notin ChainPcs
        BY <1>2, <1>3, <1>8 DEF NeverFails, Smooth
    <2> QED BY <1>1, <1>2, <2>1 DEF Smooth, ChainPcs, Busy
  <1> QED BY <1>1, <1>6, <1>7, <1>9, <1>10, <1>11 DEF FabricInv

(* The words a block never sent stay missing. *)
LEMMA TimeoutStep ==
  ASSUME FabricInv, ParcelTimeout
  PROVE  FabricInv'
  <1>1. Typed' /\ Returned' /\ Modes' /\ UNCHANGED <<pc, op, dual, got, next, ask, empties, seen, res,
                                                     wrong, tainted>>
      BY FabricTypes, HostSame DEF FabricInv
  <1>2. /\ UNCHANGED <<frame, cur, left, fifo, fresh, overrun, reply, wfifo, mem>>
        /\ timedOut' = TRUE /\ done' = TRUE /\ q' = "idle" /\ pend' = FALSE /\ runOn' = FALSE
        /\ faults' = faults + 1 /\ q \in {"parcel", "rx", "wack"}
      BY DEF ParcelTimeout, writes
  <1>3. Typed /\ Running /\ FrameOK /\ ChainOK /\ SeenOK
      BY DEF FabricInv
  <1>4. Running' /\ SeenOK'
      BY <1>1, <1>2, <1>3 DEF Running, Busy, SeenOK
  <1>5. FrameOK'
      BY <1>1, <1>2, <1>3 DEF FrameOK, WordOf
  <1>6. ChainOK'
    <2> SUFFICES ASSUME pc \in ChainPcs, ~tainted PROVE Pushed' < Due'
      <3>1. pc \in ChainPcs /\ ~tainted => frame = [op |-> op, block |-> next]
          BY <1>3 DEF ChainOK
      <3>2. Pushed' = Pushed /\ Pushed \in Nat /\ Due' \in Int
        <4>1. Pushed' = Pushed /\ Pushed \in Nat
            BY <1>1, <1>2, <1>3, ChainNumbers DEF Pushed
        <4>2. Due' = Upto(next)
          <5>1. next \in Nat /\ Upto(next) \in Nat
            <6>1. next \in Nat
                BY <1>3, ChainNumbers
            <6> QED BY <6>1, UptoFacts
          <5> QED BY <1>1, <1>2, <5>1 DEF Due, Begun, Upto
        <4>3. next \in Nat /\ Upto(next) \in Nat
          <5>1. next \in Nat
              BY <1>3, ChainNumbers
          <5> QED BY <5>1, UptoFacts
        <4> QED BY <4>1, <4>2, <4>3
      <3> QED BY <1>1, <1>2, <3>1, <3>2 DEF ChainOK
    <2>1. q = "parcel" /\ left > 0 /\ Pushed <= Due
        BY <1>2, <1>3 DEF ChainOK, Running
    <2>2. /\ next \in 1 .. NBlocks /\ NBlocks \in Nat /\ left \in 0 .. Count /\ Count \in Nat /\ Pushed \in Nat
          /\ Due = Upto(Begun) - left /\ Begun \in {next - 1, next} /\ Upto(Begun) \in Nat
        BY <1>3, <2>1, ChainNumbers
    <2>3. Upto(Begun) <= Upto(next) /\ Upto(next) \in Nat
      <3>1. Begun \in Nat /\ next \in Nat /\ Begun <= next
          BY <2>2
      <3> QED BY <3>1, UptoFacts
    <2>4. Due' = Upto(next)
        BY <1>1, <1>2, <2>3 DEF Due, Begun, Upto
    <2>5. Pushed' = Pushed
        BY <1>1, <1>2 DEF Pushed
    <2> QED BY <2>1, <2>2, <2>3, <2>4, <2>5
  <1>7. NeverFails'
    <2>1. faults \in Nat
        BY <1>3, ChainNats DEF Typed, HistoryTypes
    <2>2. faults' # 0
        BY <1>2, <2>1
    <2> QED BY <2>2 DEF NeverFails
  <1> QED BY <1>1, <1>4, <1>5, <1>6, <1>7 DEF FabricInv

LEMMA FabricStep ==
  ASSUME FabricInv, Fabric \/ ParcelTimeout
  PROVE  FabricInv'
  BY TakeStep, SentStep, ReplyStep, ParcelStep, WriteAckStep, WriteParcelStep, TimeoutStep DEF Fabric


-----------------------------------------------------------------------------
(* The host's steps: an operation begins. *)

LEMMA StartStep ==
  ASSUME FabricInv, NEW kind \in {AnExchange, AWrite}, StartFrame(kind),
         wfifo' = wfifo \/ wfifo' = Words, kind = AWrite => wfifo' = Words
  PROVE  FabricInv'
  <1>1. Typed' /\ Typed /\ Running /\ NeverFails
      BY StartTypes DEF FabricInv
  <1>2. /\ op' \in 1 .. MaxOps /\ got' = 0 /\ mem' = <<>> /\ wrong' = FALSE /\ tainted' = runOn
        /\ seen' = NoSeen /\ res' = "none" /\ pc = "idle"
      BY <1>1, NewOpTypes DEF StartFrame
  <1>3. /\ UNCHANGED <<pend, fifo, fresh, timedOut, reply, dual, faults, runOn>> /\ pc' = "wait"
        /\ frame' = [op |-> op', block |-> kind]
        /\ \/ ~Busy /\ q' = "tx" /\ cur' = frame' /\ left' = Count /\ done' = FALSE /\ overrun' = FALSE
           \/ Busy /\ UNCHANGED <<q, cur, left, done, overrun>>
      BY DEF StartFrame
  <1>4. runOn <=> Busy
      BY <1>1, <1>2 DEF Running
  <1>5. left \in 0 .. Count /\ Count \in Nat \ {0} /\ Len(mem') = 0 /\ AnExchange # AWrite
      BY <1>1, <1>2, ChainNumbers
  <1>6. Running'
    <2>1. frame'.op # 0 /\ op' # 0
        BY <1>2, <1>3
    <2>2. (q' # "tx" => UNCHANGED <<q, cur, left>>) /\ (q' = "tx" => left' = Count /\ cur'.op # 0)
        BY <1>1, <1>3, <2>1 DEF Running
    <2>3. q' # "idle" => cur'.op # 0
        BY <1>1, <2>2 DEF Running
    <2>4. Len(mem') + left' <= Count
        BY <1>3, <1>5
    <2> QED BY <1>1, <1>3, <2>1, <2>2, <2>3, <2>4 DEF Running
  <1>7. FrameOK'
    <2> SUFFICES ASSUME ~tainted'
                 PROVE  /\ ~pend' /\ cur' = frame' /\ frame'.op = op' /\ frame'.block = kind
                        /\ q' = "tx" /\ ~done'
                        /\ kind = AWrite =>
                             /\ Len(mem') = Count - left' /\ Len(wfifo') = left'
                             /\ \A i \in 1 .. Len(mem') : mem'[i] = WordOf(i)'
                             /\ \A i \in 1 .. Len(wfifo') : wfifo'[i] = [op |-> op', k |-> Len(mem') + i - 1]
        BY <1>3 DEF FrameOK, WordOf
    <2>1. ~Busy /\ ~pend
        BY <1>2, <1>4 DEF Busy
    <2>2. q' = "tx" /\ cur' = frame' /\ left' = Count /\ done' = FALSE
        BY <1>3, <2>1
    <2>3. ASSUME kind = AWrite
          PROVE  Len(wfifo') = Count
                 /\ \A i \in 1 .. Len(wfifo') : wfifo'[i] = [op |-> op', k |-> Len(mem') + i - 1]
      <3>1. wfifo' = [i \in 1 .. Count |-> [op |-> op', k |-> i - 1]]
          BY <2>3 DEF Words
      <3>2. Len(wfifo') = Count
          BY <1>2, <3>1, WordsTypes
      <3>3. ASSUME NEW i \in 1 .. Len(wfifo') PROVE wfifo'[i] = [op |-> op', k |-> Len(mem') + i - 1]
        <4>1. i \in 1 .. Count /\ Len(mem') + i - 1 = i - 1
            BY <1>5, <3>2
        <4> QED BY <3>1, <4>1
      <3> QED BY <3>2, <3>3
    <2>4. ~pend'
        BY <1>3, <2>1
    <2> QED BY <1>3, <1>5, <2>2, <2>3, <2>4
  <1>8. ChainOK' /\ SeenOK' /\ Returned' /\ Modes'
      BY <1>3 DEF ChainOK, SeenOK, Returned, Modes, ChainPcs
  <1>9. NeverFails'
    <2> SUFFICES ASSUME faults' = 0 PROVE Smooth'
        BY DEF NeverFails
    <2>1. Smooth /\ ~runOn /\ ~Busy
        BY <1>1, <1>2, <1>3, <1>4 DEF NeverFails, Smooth
    <2>2. ~tainted' /\ ~timedOut' /\ ~overrun' /\ ~seen'.timedOut /\ ~seen'.overrun
        BY <1>2, <1>3, <2>1 DEF Smooth, NoSeen
    <2> QED BY <1>3, <2>2 DEF Smooth, ChainPcs
  <1> QED BY <1>1, <1>6, <1>7, <1>8, <1>9 DEF FabricInv

LEMMA ChainStep ==
  ASSUME FabricInv, Chain
  PROVE  FabricInv'
  <1>1. Typed' /\ Typed /\ Running /\ NeverFails /\ Modes
      BY ChainTypes DEF FabricInv
  <1>2. /\ op' \in 1 .. MaxOps /\ got' = 0 /\ next' = 1 /\ mem' = <<>> /\ wrong' = FALSE
        /\ tainted' = runOn /\ seen' = NoSeen /\ res' = "none" /\ pc = "idle" /\ empties' = 0
      BY <1>1, NewOpTypes DEF Chain
  <1>3. /\ UNCHANGED <<q, cur, left, done, timedOut, overrun, reply, wfifo, dual, faults, runOn>>
        /\ pc' = (IF dual THEN "poll" ELSE "status") /\ pend' = TRUE /\ fifo' = <<>> /\ fresh' = 0
        /\ frame' = [op |-> op', block |-> 1]
      BY DEF Chain
  <1>4. runOn <=> Busy
      BY <1>1, <1>2 DEF Running
  <1>5. left \in 0 .. Count /\ Count \in Nat \ {0} /\ Len(mem') = 0
      BY <1>1, <1>2, ChainNumbers
  <1>6. Running'
    <2>1. frame'.op # 0 /\ op' # 0 /\ pc' # "idle"
        BY <1>2, <1>3
    <2>2. Len(mem') + left' <= Count
        BY <1>3, <1>5
    <2> QED BY <1>1, <1>3, <2>1, <2>2 DEF Running
  <1>7. ~Busy => Due' = 0 /\ Pushed' = 0 /\ InOrder' /\ q' = "idle"
    <2>1. Pushed' = 0
        BY <1>2, <1>3 DEF Pushed
    <2>2. InOrder'
        BY <1>2, <1>3 DEF InOrder
    <2>3. Begun' = 0
        BY <1>2, <1>3 DEF Begun
    <2>4. ~Busy => q' = "idle"
        BY <1>3 DEF Busy
    <2>5. q' = "idle" => Due' = 0
      <3>1. q' = "idle" => Due' = Upto(0) - 0
          BY <2>3 DEF Due, Upto
      <3> QED BY <3>1, UptoFacts
    <2> QED BY <2>1, <2>2, <2>4, <2>5
  <1>8. ChainOK'
      BY <1>2, <1>3, <1>4, <1>7 DEF ChainOK
  <1>9. FrameOK' /\ SeenOK' /\ Returned' /\ Modes'
    <2>1. got' # Total
        BY <1>2, UptoFacts
    <2> QED BY <1>3, <2>1 DEF FrameOK, SeenOK, Returned, Modes, Total
  <1>10. NeverFails'
    <2> SUFFICES ASSUME faults' = 0 PROVE Smooth'
        BY DEF NeverFails
    <2>1. Smooth /\ ~runOn /\ ~Busy
        BY <1>1, <1>2, <1>3, <1>4 DEF NeverFails, Smooth
    <2>2. ~tainted' /\ ~timedOut' /\ ~overrun' /\ ~seen'.timedOut /\ ~seen'.overrun
        BY <1>2, <1>3, <2>1 DEF Smooth, NoSeen
    <2>3. Busy' /\ Pushed' = Due' /\ empties' = 0
        BY <1>2, <1>3, <1>7, <2>1 DEF Busy
    <2> QED BY <1>3, <2>2, <2>3 DEF Smooth
  <1> QED BY <1>1, <1>6, <1>8, <1>9, <1>10 DEF FabricInv

(* The frame is through: its reply, or its words, or a timeout. *)
LEMMA FrameDoneStep ==
  ASSUME FabricInv, FrameDone
  PROVE  FabricInv'
  <1>1. Typed' /\ Typed /\ Running /\ FrameOK /\ NeverFails
      BY HostStepTypes DEF FabricInv, HostStep
  <1>2. /\ UNCHANGED <<q, pend, frame, cur, left, fifo, fresh, done, timedOut, overrun, reply,
                       wfifo, mem, op, dual, got, next, ask, empties, seen, tainted, faults>>
        /\ pc = "wait" /\ done
        /\ wrong' = (IF frame.block = AWrite THEN mem # [i \in 1 .. Count |-> [op |-> op, k |-> i - 1]]
                                             ELSE reply # op)
      BY DEF FrameDone, fabric, writes
  <1>3. pc' = "idle" /\ res' = (IF timedOut THEN "timeout" ELSE "ok") /\ (runOn' <=> Busy)
      BY <1>2, ReturnIs DEF FrameDone, Busy
  <1>4. Running'
      BY <1>1, <1>2, <1>3 DEF Running, Busy
  <1>5. ASSUME ~tainted, ~timedOut PROVE ~wrong'
    <2>1. q = "idle" /\ frame.op = op /\ frame.block \in {AnExchange, AWrite}
        BY <1>1, <1>2, <1>5 DEF FrameOK
    <2>2. CASE frame.block = AnExchange
      <3>1. reply = op /\ frame.block # AWrite
          BY <1>1, <1>2, <1>5, <2>1, <2>2, ChainNumbers DEF FrameOK
      <3> QED BY <1>2, <3>1
    <2>3. CASE frame.block = AWrite
      <3>1. Len(mem) = Count - left /\ left = 0 /\ \A i \in 1 .. Len(mem) : mem[i] = WordOf(i)
          BY <1>1, <1>2, <1>5, <2>1, <2>3 DEF FrameOK
      <3>2. Len(mem) = Count /\ mem \in Seq(WordSet)
          BY <1>1, <3>1, ChainNats DEF Typed, BufferTypes
      <3>3. mem = [i \in 1 .. Count |-> mem[i]]
          BY <3>2
      <3>4. mem = [i \in 1 .. Count |-> [op |-> op, k |-> i - 1]]
          BY <3>1, <3>2, <3>3 DEF WordOf
      <3> QED BY <1>2, <2>3, <3>4
    <2> QED BY <2>1, <2>2, <2>3
  <1>6. Returned'
      BY <1>2, <1>3, <1>5 DEF Returned
  <1>7. FrameOK' /\ ChainOK' /\ SeenOK' /\ Modes'
      BY <1>3 DEF FrameOK, ChainOK, ChainPcs, SeenOK, Modes
  <1>8. NeverFails'
    <2> SUFFICES ASSUME faults' = 0 PROVE Smooth'
        BY DEF NeverFails
    <2>1. Smooth
        BY <1>1, <1>2 DEF NeverFails
    <2>2. ~Busy
        BY <1>1, <1>2, <2>1 DEF Smooth, FrameOK, Busy
    <2> QED BY <1>2, <1>3, <2>1, <2>2 DEF Smooth, ChainPcs
  <1> QED BY <1>1, <1>4, <1>6, <1>7, <1>8 DEF FabricInv

-----------------------------------------------------------------------------
(* The host's steps: a chain of block reads. *)

(* Only the last block ends a chain: who has all the words of the chain    *)
(* has every word due, and left nothing running.                           *)
LEMMA Whole ==
  ASSUME NEW b \in 0 .. NBlocks, NEW l \in Nat, NEW f \in Nat, Total + f <= Upto(b) - l
  PROVE  Total + f = Upto(b) - l /\ b = NBlocks /\ l = 0 /\ f = 0
  <1>1. NBlocks \in Nat \ {0} /\ Count \in Nat \ {0} /\ Total \in Nat /\ Upto(NBlocks) = Total
      BY ChainNats, UptoFacts
  <1>2. Upto(b) \in Nat /\ Upto(b) <= Total
    <2>1. b \in Nat /\ NBlocks \in Nat /\ b <= NBlocks
        BY <1>1
    <2> QED BY <1>1, <2>1, UptoFacts
  <1>3. ASSUME b # NBlocks PROVE Upto(b) < Total
    <2>1. b + 1 \in Nat /\ NBlocks \in Nat /\ b + 1 <= NBlocks /\ b \in Nat
        BY <1>1, <1>3
    <2>2. Upto(b + 1) <= Upto(NBlocks) /\ Upto(b + 1) = Upto(b) + Count
        BY <2>1, UptoFacts
    <2> QED BY <1>1, <1>2, <2>2
  <1> QED BY <1>1, <1>2, <1>3

(* What a busy sequencer of a chain still owes. *)
LEMMA Owed ==
  ASSUME FabricInv, pc \in ChainPcs, ~tainted
  PROVE  /\ q # "idle" => left > 0
         /\ Pushed <= Due /\ (Pushed = Due => InOrder)
         /\ frame = [op |-> op, block |-> next]
         /\ q \in {"idle", "tx", "parcel", "store"}
         /\ q # "idle" => cur = [op |-> op, block |-> Begun] /\ Begun >= 1
  <1>1. Typed /\ Running /\ ChainOK
      BY DEF FabricInv
  <1>2. /\ Pushed <= Due /\ (Pushed = Due => InOrder) /\ frame = [op |-> op, block |-> next]
        /\ q \in {"idle", "tx", "parcel", "store"}
        /\ q # "idle" => cur = [op |-> op, block |-> Begun] /\ Begun >= 1
      BY <1>1 DEF ChainOK
  <1>3. q # "idle" => left > 0
    <2>1. Count > 0
        BY ChainNats
    <2> QED BY <1>1, <1>2, <2>1 DEF Running
  <1> QED BY <1>2, <1>3

LEMMA DualReadStep ==
  ASSUME FabricInv, DualRead
  PROVE  FabricInv'
  <1>1. Typed' /\ Typed /\ Running /\ NeverFails /\ Modes
      BY HostStepTypes DEF FabricInv, HostStep
  <1>2. /\ UNCHANGED <<q, pend, frame, cur, left, done, timedOut, overrun, reply, wfifo, mem, op,
                       dual, next, ask, empties, res, tainted, faults, runOn>>
        /\ pc = "poll" /\ pc' = "decide"
      BY DEF DualRead, writes
  <1>3. PICK lag \in 0 .. fresh, n \in Nat :
          /\ n <= Len(fifo) /\ n <= Total - got /\ lag <= Len(fifo) /\ Received(n)
          /\ (Len(fifo) - lag = 0 => n = 0)
          /\ seen'.level = Len(fifo) - lag /\ seen'.busy = Busy /\ seen'.queued = pend
          /\ seen'.timedOut = timedOut /\ seen'.overrun = overrun
      BY <1>1, DualReadIs
  <1>4. /\ got' = got + n /\ Len(fifo') = Len(fifo) - n /\ fresh' = 0
        /\ \A i \in 1 .. Len(fifo') : fifo'[i] = fifo[i + n]
        /\ (InOrder => ~wrong')
      BY <1>1, <1>3, ReceivedIs
  <1>5. got \in Nat /\ Len(fifo) \in Nat /\ n \in Nat /\ Len(fifo') \in Nat
      BY <1>1, <1>3, <1>4, ChainNumbers, UptoFacts
  <1>6. Pushed' = Pushed /\ Due' = Due /\ Begun' = Begun /\ (InOrder => InOrder')
    <2>1. Pushed' = Pushed
        BY <1>4, <1>5 DEF Pushed
    <2>2. Due' = Due /\ Begun' = Begun
        BY <1>2 DEF Due, Begun, Upto
    <2>3. ASSUME InOrder PROVE InOrder'
      <3>1. ASSUME NEW i \in 1 .. Len(fifo') PROVE fifo'[i] = [op |-> op', k |-> got' + i - 1]
        <4>1. i + n \in 1 .. Len(fifo) /\ got + (i + n) - 1 = got' + i - 1
            BY <1>4, <1>5
        <4>2. fifo[i + n] = [op |-> op, k |-> got + (i + n) - 1]
            BY <2>3, <4>1 DEF InOrder
        <4> QED BY <1>2, <1>4, <4>1, <4>2
      <3> QED BY <1>4, <2>3, <3>1 DEF InOrder
    <2> QED BY <2>1, <2>2, <2>3
  <1>7. Running'
      BY <1>1, <1>2 DEF Running
  <1>8. ChainOK'
    <2> SUFFICES ASSUME ~tainted PROVE ChainOK'
        BY <1>2 DEF ChainOK
    <2>1. /\ Pushed <= Due /\ (Pushed = Due => InOrder) /\ frame = [op |-> op, block |-> next]
          /\ q \in {"idle", "tx", "parcel", "store"}
          /\ q # "idle" => cur = [op |-> op, block |-> Begun] /\ Begun >= 1
        BY <1>2, Owed DEF ChainPcs
    <2> QED BY <1>2, <1>6, <2>1 DEF ChainOK
  <1>9. SeenOK' /\ FrameOK' /\ Returned' /\ Modes'
      BY <1>1, <1>2, <1>3 DEF SeenOK, FrameOK, Returned, Modes
  <1>10. NeverFails'
    <2> SUFFICES ASSUME faults' = 0 PROVE Smooth'
        BY DEF NeverFails
    <2>1. Smooth
        BY <1>1, <1>2 DEF NeverFails
    <2>2. Pushed' = Due'
        BY <1>2, <1>6, <2>1 DEF Smooth, ChainPcs
    <2>3. ~tainted' /\ ~timedOut' /\ ~overrun' /\ ~seen'.timedOut /\ ~seen'.overrun
        BY <1>2, <1>3, <2>1 DEF Smooth
    <2>4. seen'.queued => Busy'
        BY <1>2, <1>3 DEF Busy
    <2>5. ASSUME Idle', seen'.level = 0 PROVE fresh' < Len(fifo') /\ empties' = 0
      <3>1. ~Busy /\ fifo # <<>>
          BY <1>2, <1>3, <2>1, <2>5 DEF Smooth, Idle
      <3>2. Len(fifo) > 0
          BY <1>1, <3>1 DEF Typed, BufferTypes
      <3>3. n = 0 /\ lag = Len(fifo)
          BY <1>3, <1>5, <2>5
      <3>4. empties = 0
        <4>1. dual /\ fresh \in Nat /\ empties \in Nat
            BY <1>1, <1>2, ChainNats DEF Modes, Typed, BufferTypes, HostTypes, EmptiesNeeded
        <4>2. empties > 0 => fresh < Len(fifo)
            BY <1>2, <2>1, <4>1 DEF Smooth
        <4> QED BY <1>3, <1>5, <3>3, <4>1, <4>2
      <3> QED BY <1>2, <1>4, <1>5, <3>2, <3>3, <3>4
    <2> QED BY <1>2, <2>2, <2>3, <2>4, <2>5 DEF Smooth
  <1> QED BY <1>1, <1>7, <1>8, <1>9, <1>10 DEF FabricInv

(* The next block queued, or not: what is due stays the same. *)
LEMMA Queued ==
  ASSUME FabricInv, pc \in {"decide", "take"}, QueueIfFree, UNCHANGED <<q, cur, left, op>>
  PROVE  /\ Begun' = Begun /\ Due' = Due /\ (pend => pend')
         /\ (pend' => frame'.op # 0)
         /\ (~tainted => frame' = [op |-> op, block |-> next'])
         /\ (~pend' /\ ~seen.queued /\ ~SeenFailed => next' = NBlocks)
         /\ next' \in 1 .. NBlocks /\ pend' \in BOOLEAN
  <1>1. Typed /\ Running /\ ChainOK /\ SeenOK
      BY DEF FabricInv
  <1>2. /\ next' \in 1 .. NBlocks /\ pend' \in BOOLEAN
        /\ \/ MayQueue /\ next < NBlocks /\ ~seen.queued /\ frame' = [op |-> op, block |-> next + 1]
              /\ pend' = TRUE /\ next' = next + 1
           \/ ~MayQueue /\ frame' = frame /\ pend' = pend /\ next' = next
      BY <1>1, QueueTypes
  <1>3. next \in 1 .. NBlocks /\ NBlocks \in Nat
      BY <1>1, ChainNumbers
  <1>4. ~tainted => frame = [op |-> op, block |-> next]
      BY <1>1 DEF ChainOK, ChainPcs
  <1>5. CASE MayQueue
    <2>1. ~pend
        BY <1>1, <1>2, <1>5 DEF SeenOK
    <2>2. Begun' = Begun
        BY <1>2, <1>3, <1>5, <2>1 DEF Begun
    <2>3. Due' = Due
        BY <2>2 DEF Due, Upto
    <2>4. frame' = [op |-> op, block |-> next'] /\ pend' = TRUE /\ op # 0
        BY <1>1, <1>2, <1>5 DEF Running
    <2> QED BY <1>2, <2>1, <2>2, <2>3, <2>4
  <1>6. CASE ~MayQueue
    <2>1. frame' = frame /\ pend' = pend /\ next' = next
        BY <1>2, <1>6
    <2>2. Begun' = Begun
        BY <2>1 DEF Begun
    <2>3. Due' = Due
        BY <2>2 DEF Due, Upto
    <2>4. pend' => frame'.op # 0
        BY <1>1, <2>1 DEF Running
    <2>5. ~seen.queued /\ ~SeenFailed => next' = NBlocks
        BY <1>3, <1>6, <2>1 DEF MayQueue, SeenFailed
    <2> QED BY <1>2, <1>4, <2>1, <2>2, <2>3, <2>4, <2>5
  <1> QED BY <1>5, <1>6

(* With every word received the fabric rests, and the words were right. *)
LEMMA AllReceived ==
  ASSUME FabricInv, pc \in ChainPcs, ~tainted,
         NEW g \in Nat, g = Total, NEW f \in Nat, g + f = Pushed
  PROVE  InOrder /\ q = "idle" /\ ~pend /\ f = 0 /\ Pushed = Due
  <1>1. Typed
      BY DEF FabricInv
  <1>2. /\ Begun \in 0 .. NBlocks /\ NBlocks \in Nat /\ left \in 0 .. Count /\ Count \in Nat
        /\ next \in 1 .. NBlocks
        /\ Due = Upto(Begun) - (IF q = "idle" THEN 0 ELSE left)
        /\ Begun = IF pend THEN next - 1 ELSE next
      BY <1>1, ChainNumbers
  <1>3. /\ q # "idle" => left > 0
        /\ Pushed <= Due /\ (Pushed = Due => InOrder)
      BY Owed
  <1> DEFINE l == IF q = "idle" THEN 0 ELSE left
  <1>4. l \in Nat /\ (l = 0 => q = "idle") /\ Total + f <= Upto(Begun) - l
      BY <1>2, <1>3
  <1>5. Due = Upto(Begun) - l
      BY <1>2
  <1> HIDE DEF l
  <1>6. Total + f = Upto(Begun) - l /\ Begun = NBlocks /\ l = 0 /\ f = 0
      BY <1>2, <1>4, Whole
  <1>7. ~pend
      BY <1>2, <1>6
  <1> QED BY <1>3, <1>4, <1>5, <1>6, <1>7

LEMMA DualDecideStep ==
  ASSUME FabricInv, DualDecide
  PROVE  FabricInv'
  <1>1. Typed' /\ Typed /\ Running /\ NeverFails /\ Modes /\ SeenOK /\ ChainOK
      BY HostStepTypes DEF FabricInv, HostStep
  <1>2. /\ UNCHANGED <<q, cur, left, fifo, fresh, done, timedOut, overrun, reply, wfifo, mem, op,
                       dual, got, seen, wrong, tainted, faults>>
        /\ pc = "decide"
      BY DEF DualDecide, writes
  <1>3. Pushed' = Pushed /\ (InOrder => InOrder') /\ pc \in ChainPcs
      BY <1>2 DEF Pushed, InOrder, ChainPcs
  <1>4. got \in 0 .. Total /\ Total \in Nat /\ Len(fifo) \in Nat /\ Pushed = got + Len(fifo)
      BY <1>1, ChainNumbers DEF Pushed
  <1>5. CASE got = Total
    <2>1. UNCHANGED <<frame, pend, next, ask, empties>> /\ Return("ok")
        BY <1>5 DEF DualDecide
    <2>2. pc' = "idle" /\ res' = "ok" /\ (runOn' <=> Busy')
        BY <2>1, ReturnIs DEF Busy
    <2>3. ~tainted => InOrder /\ q = "idle" /\ ~pend
        BY <1>3, <1>4, <1>5, AllReceived
    <2>4. Running'
        BY <1>1, <1>2, <2>1, <2>2 DEF Running, Busy
    <2>5. Returned'
        BY <1>2, <2>2, <2>3 DEF Returned, InOrder
    <2>6. FrameOK' /\ ChainOK' /\ SeenOK' /\ Modes'
        BY <2>2 DEF FrameOK, ChainOK, ChainPcs, SeenOK, Modes
    <2>7. NeverFails'
      <3> SUFFICES ASSUME faults' = 0 PROVE Smooth'
          BY DEF NeverFails
      <3>1. Smooth
          BY <1>1, <1>2 DEF NeverFails
      <3>2. ~runOn'
          BY <1>2, <2>1, <2>2, <2>3, <3>1 DEF Smooth, Busy
      <3> QED BY <1>2, <2>2, <3>1, <3>2 DEF Smooth, ChainPcs
    <2> QED BY <1>1, <2>4, <2>5, <2>6, <2>7 DEF FabricInv
  <1>6. CASE got # Total
    <2>1. /\ QueueIfFree
          /\ empties' = (IF Idle /\ seen.level = 0 THEN Least(EmptiesNeeded, empties + 1) ELSE 0)
          /\ \/ empties' = EmptiesNeeded /\ Return(Verdict)
             \/ Goon("check")
        BY <1>6 DEF DualDecide
    <2>2. /\ Begun' = Begun /\ Due' = Due /\ (pend => pend') /\ (pend' => frame'.op # 0)
          /\ (~tainted => frame' = [op |-> op, block |-> next'])
          /\ (~pend' /\ ~seen.queued /\ ~SeenFailed => next' = NBlocks)
        BY <1>2, <2>1, Queued
    <2>3. \/ pc' = "idle" /\ res' = Verdict /\ (runOn' <=> Busy') /\ empties' = EmptiesNeeded
          \/ pc' = "check" /\ res' = res /\ runOn' = runOn
        BY <2>1, ReturnIs DEF Goon, Busy
    <2>4. Running'
      <3>1. op # 0
          BY <1>1, <1>2 DEF Running
      <3> QED BY <1>1, <1>2, <2>2, <2>3, <3>1 DEF Running
    <2>5. ChainOK'
      <3> SUFFICES ASSUME ~tainted PROVE ChainOK'
          BY <1>2 DEF ChainOK
      <3>1. /\ Pushed <= Due /\ (Pushed = Due => InOrder)
            /\ q \in {"idle", "tx", "parcel", "store"}
            /\ q # "idle" => cur = [op |-> op, block |-> Begun] /\ Begun >= 1
          BY <1>3, Owed
      <3> QED BY <1>2, <1>3, <2>2, <3>1 DEF ChainOK
    <2>6. Returned'
        BY <2>3 DEF Returned, Verdict
    <2>7. FrameOK' /\ SeenOK' /\ Modes'
        BY <1>2, <1>6, <2>3 DEF FrameOK, SeenOK, Modes, Total
    <2>8. NeverFails'
      <3> SUFFICES ASSUME faults' = 0 PROVE Smooth'
          BY DEF NeverFails
      <3>1. Smooth
          BY <1>1, <1>2 DEF NeverFails
      <3>2. empties \in Nat
          BY <1>1 DEF Typed, HostTypes, EmptiesNeeded
      <3>3. empties' # EmptiesNeeded
        <4> SUFFICES ASSUME empties' = EmptiesNeeded PROVE FALSE
            OBVIOUS
        <4>1. Idle /\ seen.level = 0 /\ empties > 0
            BY <2>1, <3>2 DEF EmptiesNeeded, Least
        <4> QED BY <1>2, <3>1, <4>1 DEF Smooth
      <3>4. pc' = "check"
          BY <2>3, <3>3
      <3>5. empties' > 0 => fresh < Len(fifo)
        <4>1. empties' > 0 => Idle /\ seen.level = 0
            BY <2>1
        <4> QED BY <1>2, <3>1, <4>1 DEF Smooth
      <3>6. Pushed = Due
          BY <1>2, <1>3, <3>1 DEF Smooth
      <3>7. Busy' \/ fifo' # <<>>
        <4>1. CASE seen.queued
          <5>1. Busy \/ fifo # <<>>
              BY <1>2, <3>1, <4>1 DEF Smooth
          <5> QED BY <1>2, <2>2, <5>1 DEF Busy
        <4>2. CASE ~seen.queued /\ ~pend'
          <5>1. next' = NBlocks
              BY <2>2, <3>1, <4>2 DEF Smooth, SeenFailed
          <5>2. ~pend
              BY <2>2, <4>2
          <5>3. Begun' = NBlocks /\ Begun = NBlocks
              BY <2>2, <4>2, <5>1 DEF Begun
          <5>4. q = "idle" => Due = Upto(NBlocks) - 0
              BY <5>3 DEF Due
          <5>5. q = "idle" => Len(fifo) > 0
              BY <1>4, <1>6, <3>6, <5>4, UptoFacts
          <5> QED BY <1>2, <5>5 DEF Busy
        <4>3. CASE pend'
            BY <4>3 DEF Busy
        <4> QED BY <4>1, <4>2, <4>3
      <3> QED BY <1>2, <1>3, <2>2, <3>1, <3>4, <3>5, <3>6, <3>7 DEF Smooth
    <2> QED BY <1>1, <2>4, <2>5, <2>6, <2>7, <2>8 DEF FabricInv
  <1> QED BY <1>5, <1>6

(* The three registers read over one line, and the look at the clock: only *)
(* the host moves.                                                         *)
LEMMA HostOnly ==
  ASSUME FabricInv, Typed', UNCHANGED fabric, UNCHANGED <<op, dual, got, next, wrong, tainted>>,
         pc \in ChainPcs, pc' \in ChainPcs
  PROVE  /\ Running' /\ FrameOK' /\ ChainOK' /\ Returned'
         /\ UNCHANGED <<q, pend, fifo, fresh, timedOut, overrun>> /\ Busy' = Busy
         /\ Pushed' = Pushed /\ Due' = Due
  <1>1. Running /\ ChainOK
      BY DEF FabricInv
  <1>2. UNCHANGED <<q, pend, frame, cur, left, fifo, fresh, done, timedOut, overrun, reply, wfifo, mem>>
      BY FabricSame
  <1>3. pc' # "idle" /\ pc' # "wait" /\ pc # "idle"
      BY DEF ChainPcs
  <1>4. Running' /\ FrameOK' /\ Returned'
      BY <1>1, <1>2, <1>3 DEF Running, FrameOK, Returned
  <1>5. Pushed' = Pushed /\ Due' = Due /\ Begun' = Begun /\ (InOrder => InOrder') /\ Busy' = Busy
      BY <1>2 DEF Pushed, Due, Begun, Upto, InOrder, Busy
  <1>6. ChainOK'
      BY <1>1, <1>2, <1>5 DEF ChainOK
  <1> QED BY <1>2, <1>4, <1>5, <1>6

LEMMA ReadStep ==
  ASSUME FabricInv, ReadStatus \/ ReadLow \/ ReadHigh
  PROVE  FabricInv'
  <1>1. Typed' /\ Typed /\ NeverFails /\ Modes /\ SeenOK
      BY HostStepTypes DEF FabricInv, HostStep
  <1>2. /\ UNCHANGED fabric
        /\ UNCHANGED <<op, dual, got, next, ask, empties, res, wrong, tainted, faults, runOn>>
        /\ pc \in ChainPcs /\ pc' \in ChainPcs
      BY DEF ReadStatus, ReadLow, ReadHigh, ChainPcs
  <1>3. /\ Running' /\ FrameOK' /\ ChainOK' /\ Returned'
        /\ UNCHANGED <<q, pend, fifo, fresh, timedOut, overrun>> /\ Busy' = Busy
        /\ Pushed' = Pushed /\ Due' = Due
      BY <1>1, <1>2, HostOnly
  <1>4. seen \in SeenSet /\ Len(fifo) \in Nat
      BY <1>1, ChainNumbers DEF Typed, HostTypes
  <1>5. CASE ReadStatus
    <2>1. /\ pc = "status" /\ pc' = "low" /\ seen'.busy = Busy /\ seen'.timedOut = timedOut
          /\ seen'.overrun = overrun
      <3>1. seen' = [Flags EXCEPT !.queued = FALSE] /\ pc = "status" /\ pc' = "low"
          BY <1>5 DEF ReadStatus
      <3> QED BY <1>1, <3>1, FlagsTyped DEF SeenSet
    <2>2. SeenOK' /\ Modes'
        BY <1>1, <1>2, <2>1 DEF SeenOK, Modes
    <2>3. NeverFails'
        BY <1>1, <1>2, <1>3, <2>1 DEF NeverFails, Smooth, ChainPcs
    <2> QED BY <1>1, <1>3, <2>2, <2>3 DEF FabricInv
  <1>6. CASE ReadLow
    <2>1. /\ pc = "low" /\ pc' = "high" /\ seen'.level = Len(fifo) /\ seen'.busy = seen.busy
          /\ seen'.timedOut = seen.timedOut /\ seen'.overrun = seen.overrun
      <3>1. seen' = [seen EXCEPT !.level = Len(fifo)] /\ pc = "low" /\ pc' = "high"
          BY <1>6 DEF ReadLow
      <3> QED BY <1>4, <3>1 DEF SeenSet
    <2>2. SeenOK' /\ Modes'
        BY <1>1, <1>2, <1>3, <2>1 DEF SeenOK, Modes
    <2>3. NeverFails'
        BY <1>1, <1>2, <1>3, <2>1 DEF NeverFails, Smooth, ChainPcs
    <2> QED BY <1>1, <1>3, <2>2, <2>3 DEF FabricInv
  <1>7. CASE ReadHigh
    <2>1. /\ pc = "high" /\ pc' = "take"
          /\ seen'.level <= Len(fifo) /\ seen'.queued = pend
          /\ seen'.busy = seen.busy /\ seen'.timedOut = seen.timedOut /\ seen'.overrun = seen.overrun
          /\ (Len(fifo) = seen.level /\ seen.level > 0 => seen'.level > 0)
        BY <1>1, <1>7, HighTyped DEF ReadHigh
    <2>2. SeenOK' /\ Modes'
        BY <1>1, <1>2, <1>3, <2>1 DEF SeenOK, Modes
    <2>3. NeverFails'
      <3> SUFFICES ASSUME faults' = 0 PROVE Smooth'
          BY DEF NeverFails
      <3>1. Smooth
          BY <1>1, <1>2 DEF NeverFails
      <3>2. fifo # <<>> => Len(fifo) > 0
          BY <1>1 DEF Typed, BufferTypes
      <3>3. ~seen'.busy => ~Busy /\ fifo # <<>> /\ seen'.level > 0
          BY <2>1, <3>1, <3>2 DEF Smooth
      <3>4. seen'.queued => Busy
          BY <2>1 DEF Busy
      <3> QED BY <1>2, <1>3, <2>1, <3>1, <3>3, <3>4 DEF Smooth, ChainPcs
    <2> QED BY <1>1, <1>3, <2>2, <2>3 DEF FabricInv
  <1> QED BY <1>5, <1>6, <1>7

LEMMA InTimeStep ==
  ASSUME FabricInv, InTime
  PROVE  FabricInv'
  <1>1. Typed' /\ Typed /\ NeverFails /\ Modes /\ SeenOK
      BY HostStepTypes DEF FabricInv, HostStep
  <1>2. /\ UNCHANGED fabric /\ pc = "check" /\ pc' = (IF dual THEN "poll" ELSE "status")
        /\ UNCHANGED <<op, dual, got, next, ask, empties, seen, res, wrong, tainted, faults, runOn>>
      BY DEF InTime, Goon
  <1>3. pc \in ChainPcs /\ pc' \in ChainPcs
      BY <1>2 DEF ChainPcs
  <1>4. /\ Running' /\ FrameOK' /\ ChainOK' /\ Returned'
        /\ UNCHANGED <<q, pend, fifo, fresh, timedOut, overrun>> /\ Busy' = Busy
        /\ Pushed' = Pushed /\ Due' = Due
      BY <1>1, <1>2, <1>3, HostOnly
  <1>5. SeenOK' /\ Modes'
      BY <1>1, <1>2 DEF SeenOK, Modes, Total
  <1>6. NeverFails'
      BY <1>1, <1>2, <1>4 DEF NeverFails, Smooth, ChainPcs
  <1> QED BY <1>1, <1>4, <1>5, <1>6 DEF FabricInv

LEMMA DeadlineStep ==
  ASSUME FabricInv, Deadline
  PROVE  FabricInv'
  <1>1. Typed' /\ Typed /\ Running
      BY HostStepTypes DEF FabricInv
  <1>2. /\ UNCHANGED <<op, dual, got, next, ask, empties, seen, wrong, tainted>>
        /\ faults' = faults + 1 /\ Return("timeout") /\ Abort
      BY DEF Deadline
  <1>3. pend' = FALSE /\ UNCHANGED <<frame, cur, left, wfifo, mem>> /\ q' \in {q, "idle"}
      BY <1>2 DEF Abort, writes
  <1>4. pc' = "idle" /\ res' = "timeout" /\ (runOn' <=> Busy')
      BY <1>2, ReturnIs DEF Busy
  <1>5. Running'
      BY <1>1, <1>2, <1>3, <1>4 DEF Running
  <1>6. FrameOK' /\ ChainOK' /\ SeenOK' /\ Returned' /\ Modes'
      BY <1>4 DEF FrameOK, ChainOK, ChainPcs, SeenOK, Returned, Modes
  <1>7. NeverFails'
    <2>1. faults \in Nat
        BY <1>1, ChainNats DEF Typed, HistoryTypes
    <2>2. faults' # 0
        BY <1>2, <2>1
    <2> QED BY <2>2 DEF NeverFails
  <1> QED BY <1>1, <1>5, <1>6, <1>7 DEF FabricInv

LEMMA SingleDecideStep ==
  ASSUME FabricInv, SingleDecide
  PROVE  FabricInv'
  <1>1. Typed' /\ Typed /\ Running /\ NeverFails /\ Modes /\ SeenOK /\ ChainOK
      BY HostStepTypes DEF FabricInv, HostStep
  <1>2. /\ UNCHANGED <<q, cur, left, done, timedOut, overrun, reply, wfifo, mem, op, dual, ask,
                       empties, seen, tainted, faults>>
        /\ pc = "take" /\ pc \in ChainPcs /\ QueueIfFree
        /\ \/ Ready /\ Received(Avail) /\ got' = Total /\ Return("ok")
           \/ Ready /\ Received(Avail) /\ got' # Total /\ Goon("status")
           \/ /\ ~Ready /\ UNCHANGED <<got, wrong, fifo, fresh>> /\ Idle /\ Avail = 0 /\ Return(Verdict)
           \/ /\ ~Ready /\ UNCHANGED <<got, wrong, fifo, fresh>> /\ Goon("check")
      BY DEF SingleDecide, writes, ChainPcs
  <1>3. /\ Begun' = Begun /\ Due' = Due /\ (pend => pend') /\ (pend' => frame'.op # 0)
        /\ (~tainted => frame' = [op |-> op, block |-> next'])
        /\ (~pend' /\ ~seen.queued /\ ~SeenFailed => next' = NBlocks)
      BY <1>2, Queued
  <1>4. /\ got \in 0 .. Total /\ Total \in Nat /\ Len(fifo) \in Nat /\ Pushed = got + Len(fifo)
        /\ Len(fifo') \in Nat /\ got' \in 0 .. Total /\ Pushed' = got' + Len(fifo')
        /\ (fifo' # <<>> <=> Len(fifo') > 0) /\ (fifo # <<>> <=> Len(fifo) > 0)
        /\ seen.level \in Nat
    <2>1. /\ fifo \in Seq(WordSet) /\ fifo' \in Seq(WordSet) /\ got \in 0 .. Total
          /\ got' \in 0 .. Total /\ seen.level \in Nat
      <3>1. Total' = Total
          BY DEF Total
      <3> QED BY <1>1, <3>1 DEF Typed, BufferTypes, HostTypes, SeenSet, WordSet
    <2>2. Len(fifo) \in Nat /\ Len(fifo') \in Nat
          /\ (fifo' # <<>> <=> Len(fifo') > 0) /\ (fifo # <<>> <=> Len(fifo) > 0)
        BY <2>1
    <2> QED BY <2>1, <2>2, UptoFacts DEF Pushed
  <1>5. seen.level <= Len(fifo) /\ (~seen.queued => ~pend)
      BY <1>1, <1>2 DEF SeenOK
  <1>6. Avail \in Nat /\ Avail <= seen.level /\ Avail <= Total - got
        /\ (Avail = 0 => seen.level = 0 \/ got = Total)
      BY <1>1, AvailIs
  <1>7. /\ \/ got' = got + Avail /\ Len(fifo') = Len(fifo) - Avail
              /\ (\A i \in 1 .. Len(fifo') : fifo'[i] = fifo[i + Avail])
              /\ (InOrder => ~wrong')
           \/ UNCHANGED <<got, wrong, fifo>>
        /\ Len(fifo') >= Len(fifo) - Avail
    <2>1. CASE Received(Avail)
      <3>1. Avail <= Len(fifo)
          BY <1>4, <1>5, <1>6
      <3>2. /\ got' = got + Avail /\ Len(fifo') = Len(fifo) - Avail
            /\ (\A i \in 1 .. Len(fifo') : fifo'[i] = fifo[i + Avail])
            /\ (InOrder => ~wrong')
          BY <1>1, <1>6, <2>1, <3>1, ReceivedIs
      <3> QED BY <1>4, <1>6, <3>2
    <2>2. CASE UNCHANGED <<got, wrong, fifo>>
        BY <1>4, <1>6, <2>2
    <2> QED BY <1>2, <2>1, <2>2
  <1>8. Pushed' = Pushed /\ (InOrder => InOrder')
    <2>1. CASE UNCHANGED <<got, wrong, fifo>>
        BY <1>2, <2>1 DEF Pushed, InOrder
    <2>2. CASE ~ UNCHANGED <<got, wrong, fifo>>
      <3>1. /\ got' = got + Avail /\ Len(fifo') = Len(fifo) - Avail
            /\ (\A i \in 1 .. Len(fifo') : fifo'[i] = fifo[i + Avail])
            /\ (InOrder => ~wrong')
          BY <1>7, <2>2
      <3>2. Pushed' = Pushed
          BY <1>4, <1>6, <3>1
      <3>3. ASSUME InOrder PROVE InOrder'
        <4>1. ASSUME NEW i \in 1 .. Len(fifo') PROVE fifo'[i] = [op |-> op', k |-> got' + i - 1]
          <5>1. i + Avail \in 1 .. Len(fifo) /\ got + (i + Avail) - 1 = got' + i - 1
              BY <1>4, <1>6, <3>1
          <5>2. fifo[i + Avail] = [op |-> op, k |-> got + (i + Avail) - 1]
              BY <3>3, <5>1 DEF InOrder
          <5> QED BY <1>2, <3>1, <5>1, <5>2
        <4> QED BY <3>1, <3>3, <4>1 DEF InOrder
      <3> QED BY <3>2, <3>3
    <2> QED BY <2>1, <2>2
  <1>9. \/ pc' = "idle" /\ res' = "ok" /\ (runOn' <=> Busy') /\ got' = Total
        \/ pc' = "idle" /\ res' = Verdict /\ (runOn' <=> Busy') /\ ~Ready /\ Idle /\ Avail = 0
        \/ pc' = "status" /\ res' = res /\ runOn' = runOn /\ got' # Total
        \/ pc' = "check" /\ res' = res /\ runOn' = runOn /\ ~Ready /\ got' = got
      BY <1>2, ReturnIs DEF Goon, Busy
  <1>10. Running'
    <2>1. op # 0
        BY <1>1, <1>2 DEF Running
    <2> QED BY <1>1, <1>2, <1>3, <1>9, <2>1 DEF Running
  <1>11. ChainOK'
    <2> SUFFICES ASSUME ~tainted PROVE ChainOK'
        BY <1>2 DEF ChainOK
    <2>1. /\ Pushed <= Due /\ (Pushed = Due => InOrder)
          /\ q \in {"idle", "tx", "parcel", "store"}
          /\ q # "idle" => cur = [op |-> op, block |-> Begun] /\ Begun >= 1
        BY <1>2, Owed
    <2> QED BY <1>2, <1>3, <1>8, <2>1 DEF ChainOK
  <1>12. ~tainted /\ got' = Total => InOrder /\ q = "idle" /\ ~pend /\ Begun = NBlocks
    <2> SUFFICES ASSUME ~tainted, got' = Total
                 PROVE  InOrder /\ q = "idle" /\ ~pend /\ Begun = NBlocks
        OBVIOUS
    <2>1. InOrder /\ q = "idle" /\ ~pend /\ Pushed = Due
        BY <1>2, <1>4, <1>8, AllReceived
    <2>2. Due = Upto(Begun) - 0 /\ Begun \in 0 .. NBlocks /\ Upto(Begun) \in Nat /\ Pushed = Total + Len(fifo')
        BY <1>1, <1>4, <1>8, <2>1, ChainNumbers
    <2>3. Begun = NBlocks
        BY <1>4, <2>1, <2>2, Whole
    <2> QED BY <2>1, <2>3
  <1>13. Returned'
      BY <1>2, <1>8, <1>9, <1>12 DEF Returned, InOrder, Verdict
  <1>14. FrameOK' /\ SeenOK'
      BY <1>9 DEF FrameOK, SeenOK
  <1>15. Modes'
      BY <1>1, <1>2, <1>9 DEF Modes
  <1>16. NeverFails'
    <2> SUFFICES ASSUME faults' = 0 PROVE Smooth'
        BY DEF NeverFails
    <2>1. Smooth /\ ~tainted
        BY <1>1, <1>2 DEF NeverFails, Smooth
    <2>2. Pushed = Due
        BY <1>2, <2>1 DEF Smooth
    <2>3. got' = Total => ~Busy'
      <3> SUFFICES ASSUME got' = Total PROVE ~Busy'
          OBVIOUS
      <3>1. q' = "idle" /\ Begun' = NBlocks
          BY <1>2, <1>3, <1>12, <2>1
      <3>2. next' \in 1 .. NBlocks /\ NBlocks \in Nat
          BY <1>1, ChainNats DEF Typed, HostTypes
      <3>3. next' - 1 # NBlocks
        <4>1. \A m \in Nat : \A n \in 1 .. m : n - 1 # m
            OBVIOUS
        <4> QED BY <3>2, <4>1, Zenon
      <3>4. Begun' = IF pend' THEN next' - 1 ELSE next'
          BY DEF Begun
      <3>5. ~pend'
          BY <3>1, <3>3, <3>4
      <3> QED BY <3>1, <3>5 DEF Busy
    <2>4. Busy' \/ fifo' # <<>> \/ got' = Total
      <3>1. CASE seen.queued
        <4>1. Busy \/ seen.level < Len(fifo)
            BY <1>2, <2>1, <3>1 DEF Smooth
        <4>2. Busy => Busy'
            BY <1>2, <1>3 DEF Busy
        <4>3. seen.level < Len(fifo) => Len(fifo') > 0
            BY <1>4, <1>6, <1>7
        <4> QED BY <1>4, <4>1, <4>2, <4>3
      <3>2. CASE ~seen.queued /\ ~pend' /\ q = "idle"
        <4>1. Begun' = NBlocks
            BY <1>3, <2>1, <3>2 DEF Begun, Smooth, SeenFailed
        <4>2. Due = Upto(NBlocks) - 0
            BY <1>3, <3>2, <4>1 DEF Due
        <4> QED BY <1>4, <1>8, <2>2, <4>2, UptoFacts
      <3>3. CASE pend' \/ q # "idle"
          BY <1>2, <3>3 DEF Busy
      <3> QED BY <3>1, <3>2, <3>3
    <2>5. ~ (~Ready /\ Idle)
      <3> SUFFICES ASSUME Idle, ~Ready PROVE FALSE
          OBVIOUS
      <3>1. Avail = 0
          BY <1>6 DEF Ready
      <3>2. seen.level > 0 /\ fifo # <<>>
          BY <1>2, <2>1 DEF Smooth, Idle
      <3>3. got = Total
          BY <1>6, <3>1, <3>2
      <3>4. Len(fifo) = 0
          BY <1>2, <1>4, <2>1, <3>3, AllReceived
      <3> QED BY <1>4, <3>2, <3>4
    <2>7. CASE pc' = "idle"
      <3>1. res' = "ok" /\ ~runOn'
          BY <1>9, <2>3, <2>5, <2>7
      <3> QED BY <1>2, <2>1, <2>7, <3>1 DEF Smooth, ChainPcs
    <2>8. CASE pc' = "status"
      <3>1. Busy' \/ fifo' # <<>>
          BY <1>9, <2>4, <2>8
      <3> QED BY <1>2, <1>3, <1>8, <2>1, <2>2, <2>8, <3>1 DEF Smooth
    <2>9. CASE pc' = "check"
      <3>1. Busy' \/ fifo' # <<>>
          BY <1>1, <1>2, <1>9, <2>4, <2>9 DEF Modes
      <3>2. ~dual'
          BY <1>1, <1>2 DEF Modes
      <3> QED BY <1>2, <1>3, <1>8, <2>1, <2>2, <2>9, <3>1, <3>2 DEF Smooth
    <2> QED BY <1>9, <2>7, <2>8, <2>9
  <1> QED BY <1>1, <1>10, <1>11, <1>13, <1>14, <1>15, <1>16 DEF FabricInv

LEMMA HostStepInv ==
  ASSUME FabricInv, HostStep \/ Deadline \/ Exchange \/ Write \/ Chain
  PROVE  FabricInv'
  <1>1. CASE Exchange
    <2>1. StartFrame(AnExchange) /\ wfifo' = wfifo /\ AnExchange # AWrite
        BY <1>1, ChainNumbers DEF Exchange, FabricInv
    <2> QED BY <2>1, StartStep
  <1>2. CASE Write
    <2>1. StartFrame(AWrite) /\ wfifo' = Words
        BY <1>2 DEF Write
    <2> QED BY <2>1, StartStep
  <1>3. CASE HostStep \/ Deadline \/ Chain
      BY <1>3, FrameDoneStep, DualReadStep, DualDecideStep, ReadStep, SingleDecideStep, InTimeStep,
         DeadlineStep, ChainStep DEF HostStep
  <1> QED BY <1>1, <1>2, <1>3

LEMMA FabricStart == Init => FabricInv
  <1> SUFFICES ASSUME Init PROVE FabricInv
      OBVIOUS
  <1>1. /\ q = "idle" /\ pend = FALSE /\ frame = [op |-> 0, block |-> AnExchange] /\ cur = frame
        /\ wfifo = <<>> /\ mem = <<>> /\ left = 0 /\ fifo = <<>> /\ fresh = 0
        /\ done = FALSE /\ timedOut = FALSE /\ overrun = FALSE /\ reply = 0
        /\ pc = "idle" /\ op = 0 /\ dual \in BOOLEAN
        /\ got = 0 /\ next = 1 /\ ask = Chunk /\ empties = 0 /\ seen = NoSeen /\ res = "none"
        /\ wrong = FALSE /\ faults = 0 /\ runOn = FALSE /\ tainted = FALSE
      BY DEF Init
  <1>2. frame \in FrameSet
      BY <1>1, ChainNats DEF FrameSet, AnExchange, AWrite
  <1>3. SequencerTypes
    <2>1. left \in 0 .. Count /\ reply \in 0 .. MaxOps
        BY <1>1, ChainNats
    <2> QED BY <1>1, <1>2, <2>1 DEF SequencerTypes
  <1>4. BufferTypes
      BY <1>1, ChainNats DEF BufferTypes
  <1>5. HostTypes
      BY <1>1, ChainNats, UptoFacts DEF HostTypes, NoSeen, SeenSet, EmptiesNeeded
  <1>6. HistoryTypes
    <2>1. faults \in 0 .. MaxFaults
        BY <1>1, ChainNats
    <2> QED BY <1>1, <2>1 DEF HistoryTypes
  <1>7. Running
      BY <1>1 DEF Running, Busy
  <1>8. FrameOK /\ ChainOK /\ SeenOK /\ Returned /\ Modes
      BY <1>1 DEF FrameOK, ChainOK, ChainPcs, SeenOK, Returned, Modes
  <1>9. NeverFails
      BY <1>1 DEF NeverFails, Smooth, ChainPcs, NoSeen
  <1> QED BY <1>3, <1>4, <1>5, <1>6, <1>7, <1>8, <1>9 DEF FabricInv, Typed

LEMMA FabricStutter == ASSUME FabricInv, UNCHANGED vars PROVE FabricInv'
  <1>1. UNCHANGED <<q, pend, frame, cur, left, fifo, fresh, done, timedOut, overrun, reply, wfifo, mem>>
      BY DEF vars, fabric, writes
  <1>2. UNCHANGED <<pc, op, dual, got, next, ask, empties, seen, res, wrong, tainted, faults, runOn>>
      BY DEF vars, host
  <1>3. Typed' /\ Running' /\ FrameOK' /\ SeenOK' /\ Returned' /\ Modes'
    <2>1. SequencerTypes' /\ BufferTypes' /\ HostTypes' /\ HistoryTypes'
        BY <1>1, <1>2
           DEF FabricInv, Typed, SequencerTypes, BufferTypes, HostTypes, HistoryTypes
    <2>2. Running' /\ FrameOK' /\ SeenOK' /\ Returned' /\ Modes'
        BY <1>1, <1>2 DEF FabricInv, Running, Busy, FrameOK, WordOf, SeenOK, Returned, Modes
    <2> QED BY <2>1, <2>2 DEF Typed
  <1>4. Pushed' = Pushed /\ Due' = Due /\ Begun' = Begun /\ (InOrder => InOrder') /\ Busy' = Busy
      BY <1>1, <1>2 DEF Pushed, Due, Begun, Upto, InOrder, Busy
  <1>5. ChainOK'
      BY <1>1, <1>2, <1>4 DEF FabricInv, ChainOK
  <1>6. NeverFails'
      BY <1>1, <1>2, <1>4 DEF FabricInv, NeverFails, Smooth, Idle
  <1> QED BY <1>3, <1>5, <1>6 DEF FabricInv

-----------------------------------------------------------------------------
(* Theorems. *)

(* The invariant behind the two below.  While an operation that began over *)
(* a quiet fabric runs, the words pushed are never more than those due of  *)
(* the blocks begun, and in order if none is missing; a frame's words are  *)
(* where its write has got to; what the host knows of the FIFO never       *)
(* exceeds it; and while nothing failed, none is missing.                  *)
THEOREM FabricInvariant == Spec => []FabricInv
  <1>1. FabricInv /\ [Next]_vars => FabricInv'
      BY FabricStep, HostStepInv, FabricStutter DEF Next
  <1> QED BY <1>1, FabricStart, PTL DEF Spec

(* The flow control of dap_top.v keeps the reply FIFO within its depth,    *)
(* and every word in it is a word of a chain.                              *)
THEOREM FabricTypeOK == Spec => []TypeOK
  <1>1. FabricInv => TypeOK
    <2> SUFFICES ASSUME FabricInv PROVE TypeOK
        OBVIOUS
    <2>1. SequencerTypes /\ BufferTypes /\ HostTypes /\ HistoryTypes
        BY DEF FabricInv, Typed
    <2>2. Len(mem) <= 2 * Count
        BY <2>1, ChainNats DEF BufferTypes
    <2>3. \A i \in 1 .. Len(fifo) : fifo[i] \in [op : 1 .. MaxOps, k : 0 .. Total - 1]
      <3>1. fifo \in Seq(WordSet)
          BY <2>1 DEF BufferTypes
      <3>2. \A i \in 1 .. Len(fifo) : fifo[i] \in WordSet
          BY <3>1
      <3> QED BY <3>2 DEF WordSet
    <2> QED BY <2>1, <2>2, <2>3
            DEF TypeOK, SequencerTypes, BufferTypes, HostTypes, HistoryTypes, FrameSet
  <1> QED BY <1>1, FabricInvariant, PTL

(* dap_phy_fpga.c:1126-1137: what an operation returns with ESP_OK are its *)
(* own words, in order and all of them, for every chain, FIFO depth and    *)
(* sequence of faults - unless it began over a block an earlier one left.  *)
THEOREM ChainOwnWords == Spec => []OwnWords
  <1>1. FabricInv => OwnWords
      BY DEF FabricInv, Returned, OwnWords
  <1> QED BY <1>1, FabricInvariant, PTL

(* Without a missing parcel and a passed deadline every operation          *)
(* succeeds: neither the prefix's late level, nor the torn digits of LEVEL,*)
(* nor a block still waiting in the queue makes a good chain look short.   *)
THEOREM ChainNoFalseFailure == Spec => []NoFalseFailure
  <1>1. FabricInv => NoFalseFailure
    <2> SUFFICES ASSUME FabricInv, pc = "idle", res \notin {"none", "ok"}, ~ (faults > 0) PROVE FALSE
        BY DEF NoFalseFailure
    <2>1. faults \in Nat
        BY ChainNats DEF FabricInv, Typed, HistoryTypes
    <2>2. faults = 0
        BY <2>1
    <2>3. Smooth
        BY <2>2 DEF FabricInv, NeverFails
    <2> QED BY <2>3 DEF Smooth
  <1> QED BY <1>1, FabricInvariant, PTL

=============================================================================
