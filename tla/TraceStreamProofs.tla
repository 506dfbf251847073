-------------------------- MODULE TraceStreamProofs --------------------------
(***************************************************************************)
(* Proofs about what lies between the drain and the client: the ring for   *)
(* every ring size, record length and read size, wherever traces start;    *)
(* the websocket for any number of clients and descriptors; and the DAP    *)
(* lock, the start and stop of a trace and the flash sessions around it    *)
(* for any actors.                                                         *)
(***************************************************************************)
EXTENDS TraceRing, TraceWs, TraceSession, TLAPS

-----------------------------------------------------------------------------
(***************************************************************************)
(* The ring.  The inductive invariant ties the wrapping indices to the     *)
(* byte numbers they stand for.                                            *)
(***************************************************************************)

(* From index t on, the ring r holds the bytes a .. hb - 1, h being the     *)
(* head and hb the number of the byte it stands for.                        *)
RegionAt(r, h, hb, t, a) ==
  /\ ring_used(h, t) = hb - a
  /\ \A i \in Cells : i < hb - a => r[Wrap(t + i)] = a + i
Region(t, a) == RegionAt(ring, head, habs, t, a)

(* What waits is in the ring from the tail on; and so is what waits of the  *)
(* new trace from where it starts, wherever the tail is, as long as it      *)
(* fits: that does not depend on the sender.                                *)
Waiting == ~torn => Fits(tabs) /\ Region(tail, tabs)
Started == Fits(rabs) => Region(resetTo, rabs)
Loaded == cpc = "move" /\ Fits(sabs) => Region(skipTo, sabs)

(* A publish in progress has laid its bytes from the head on. *)
Putting ==
  ppc = "put" =>
    /\ phead = Wrap(head + put)
    /\ \A i \in Cells : i < put => ring[Wrap(head + i)] = habs + i

(* A read in progress covers waiting bytes only. *)
Reading ==
  /\ cpc \in {"skip", "move", "clear", "load"} => out = <<>>
  /\ cpc = "copy" =>
       /\ n <= MaxRead /\ n < RingBytes /\ Len(out) <= n
       /\ ~torn => n <= habs - tabs /\ \A i \in 1 .. Len(out) : out[i] = tabs + i - 1

(* A start that the sender has still to honour. *)
Pending == reset \/ ppc = "begin"

(* A skip request stands until the tail has moved there or a second start   *)
(* was taken for the first; a tail beyond it is that of a read the start    *)
(* fell into, and not far beyond.                                           *)
Skipping ==
  /\ rabs <= habs
  /\ tabs < rabs => Pending \/ second
  /\ cpc \in {"skip", "move", "clear"} => reset
  /\ cpc = "move" => sabs <= rabs /\ (sabs # rabs => second /\ inside)
  /\ cpc = "move" /\ ~torn /\ tabs > sabs => inside /\ tabs - sabs <= MaxRead
  /\ cpc = "clear" /\ tabs # rabs => second
  /\ ppc = "begin" => rabs = habs /\ (cpc # "idle" => inside)
  /\ cpc \in {"load", "copy"} /\ reset => inside
  /\ ~torn /\ Pending /\ cpc \in {"clear", "load", "copy"} => tabs <= rabs
  /\ ~torn /\ Pending /\ tabs > rabs => inside /\ tabs - rabs <= MaxRead

(* Before a start outside any read is honoured the tail stands still, so    *)
(* that the producer's own test keeps what was published since in the ring. *)
Standing ==
  Pending /\ ~inside /\ cpc \in {"idle", "skip", "move"} =>
    /\ habs - rabs <= ring_used(head, tail)
    /\ ppc = "put" => ring_used(head, tail) + RecordLen < RingBytes

RingInv ==
  TypeOK /\ Waiting /\ Started /\ Loaded /\ Putting /\ Reading /\ Skipping /\ Standing

(***************************************************************************)
(* Lemmas about the index arithmetic.                                      *)
(***************************************************************************)

(* Wrap stays in the ring. *)
LEMMA WrapInRing ==
  ASSUME NEW a \in Cells, NEW b \in Nat, b <= RingBytes
  PROVE  Wrap(a + b) \in Cells
  BY RingAssumption DEF Wrap, Cells

(* The head is the tail moved on by the bytes in use. *)
LEMMA HeadFromTail ==
  ASSUME NEW h \in Cells, NEW t \in Cells
  PROVE  ring_used(h, t) \in Cells /\ h = Wrap(t + ring_used(h, t))
  BY RingAssumption DEF Wrap, Cells, ring_used

(* ring_used counts the distance from tail to head. *)
LEMMA UsedOfWrap ==
  ASSUME NEW t \in Cells, NEW d \in Cells
  PROVE  ring_used(Wrap(t + d), t) = d
  BY RingAssumption DEF Wrap, Cells, ring_used

(* Wrapping twice is wrapping once. *)
LEMMA WrapTwice ==
  ASSUME NEW t \in Cells, NEW d \in Nat, NEW i \in Nat, d + i < RingBytes
  PROVE  Wrap(Wrap(t + d) + i) = Wrap(t + (d + i))
  BY RingAssumption DEF Wrap, Cells

(* Distances below the ring's size from one cell lead to different cells. *)
LEMMA WrapApart ==
  ASSUME NEW t \in Cells, NEW i \in Cells, NEW j \in Cells, i # j
  PROVE  Wrap(t + i) # Wrap(t + j)
  BY RingAssumption DEF Wrap, Cells

(* A head moved on by what still fits makes the distance longer by that. *)
LEMMA UsedGrows ==
  ASSUME NEW h \in Cells, NEW t \in Cells, NEW l \in Nat, ring_used(h, t) + l < RingBytes
  PROVE  ring_used(Wrap(h + l), t) = ring_used(h, t) + l
  BY RingAssumption DEF Wrap, Cells, ring_used

(* ring_put's bytes beyond the head fall outside what waits, if it all fits. *)
LEMMA PutRegion ==
  ASSUME NEW r \in [Cells -> Nat], NEW h \in Cells, NEW t \in Cells,
         NEW hb \in Nat, NEW a \in Nat, NEW k \in Nat, NEW v \in Nat,
         a <= hb, (hb - a) + k < RingBytes, RegionAt(r, h, hb, t, a)
  PROVE  RegionAt([r EXCEPT ![Wrap(h + k)] = v], h, hb, t, a)
  <1> USE RingAssumption
  <1> DEFINE u == hb - a
  <1>1. u \in Nat /\ ring_used(h, t) = u
    BY DEF RegionAt
  <1>2. h = Wrap(t + u) /\ u + k \in Cells
    BY <1>1, HeadFromTail DEF Cells
  <1>3. Wrap(h + k) = Wrap(t + (u + k))
    BY <1>1, <1>2, WrapTwice DEF Cells
  <1>4. ASSUME NEW i \in Cells, i < u
        PROVE  [r EXCEPT ![Wrap(h + k)] = v][Wrap(t + i)] = a + i
    <2>1. i # u + k
      BY <1>1, <1>4 DEF Cells
    <2>2. Wrap(t + i) # Wrap(h + k)
      BY <1>2, <1>3, <2>1, WrapApart
    <2>3. Wrap(t + i) \in Cells
      BY WrapInRing DEF Cells
    <2>4. r[Wrap(t + i)] = a + i
      BY <1>4 DEF RegionAt
    <2> QED
      BY <2>2, <2>3, <2>4
  <1> QED
    BY <1>1, <1>4 DEF RegionAt

(* Publishing a record laid beyond the head adds it to what waits. *)
LEMMA HeadRegion ==
  ASSUME NEW r \in [Cells -> Nat], NEW h \in Cells, NEW t \in Cells,
         NEW hb \in Nat, NEW a \in Nat, NEW l \in Nat,
         a <= hb, (hb - a) + l < RingBytes, RegionAt(r, h, hb, t, a),
         \A i \in Cells : i < l => r[Wrap(h + i)] = hb + i
  PROVE  RegionAt(r, Wrap(h + l), hb + l, t, a)
  <1> USE RingAssumption
  <1> DEFINE u == hb - a
  <1>1. u \in Nat /\ ring_used(h, t) = u /\ (hb + l) - a = u + l
    BY DEF RegionAt
  <1>2. h = Wrap(t + u)
    BY <1>1, HeadFromTail
  <1>3. ring_used(Wrap(h + l), t) = u + l
    BY <1>1, UsedGrows
  <1>4. ASSUME NEW i \in Cells, i < u + l
        PROVE  r[Wrap(t + i)] = a + i
    <2>1. CASE i < u
      BY <2>1 DEF RegionAt
    <2>2. CASE ~(i < u)
      <3> DEFINE j == i - u
      <3>1. j \in Nat /\ j \in Cells /\ j < l /\ i = u + j
        BY <1>1, <1>4, <2>2 DEF Cells
      <3>2. Wrap(t + i) = Wrap(h + j)
        <4>1. u \in Nat /\ j \in Nat /\ u + j < RingBytes
          BY <1>1, <3>1 DEF Cells
        <4>2. Wrap(Wrap(t + u) + j) = Wrap(t + (u + j))
          BY <4>1, WrapTwice
        <4> QED
          BY <1>2, <3>1, <4>2
      <3>3. r[Wrap(h + j)] = hb + j
        BY <3>1
      <3>4. hb + j = a + i
        BY <3>1 DEF Cells
      <3> QED
        BY <3>2, <3>3, <3>4
    <2> QED
      BY <2>1, <2>2
  <1> QED
    BY <1>1, <1>3, <1>4 DEF RegionAt

(* A tail moved on over waiting bytes leaves the rest of them waiting. *)
LEMMA TailRegion ==
  ASSUME NEW r \in [Cells -> Nat], NEW h \in Cells, NEW t \in Cells,
         NEW hb \in Nat, NEW a \in Nat, NEW d \in Nat,
         a + d <= hb, hb - a < RingBytes, RegionAt(r, h, hb, t, a)
  PROVE  RegionAt(r, h, hb, Wrap(t + d), a + d)
  <1> USE RingAssumption
  <1> DEFINE u == hb - a
  <1>1. u \in Nat /\ u < RingBytes /\ ring_used(h, t) = u /\ d <= u /\ hb - (a + d) = u - d
    BY DEF RegionAt
  <1>2. h = Wrap(t + u)
    BY <1>1, HeadFromTail
  <1>3. ring_used(h, Wrap(t + d)) = u - d
    BY <1>1 DEF ring_used, Wrap, Cells
  <1>4. ASSUME NEW i \in Cells, i < u - d
        PROVE  r[Wrap(Wrap(t + d) + i)] = (a + d) + i
    <2>1. d + i \in Cells /\ d + i < u /\ i \in Nat
      BY <1>1, <1>4 DEF Cells
    <2>2. Wrap(Wrap(t + d) + i) = Wrap(t + (d + i))
      BY <1>1, <2>1, WrapTwice
    <2>3. r[Wrap(t + (d + i))] = a + (d + i)
      BY <2>1 DEF RegionAt
    <2> QED
      BY <2>1, <2>2, <2>3
  <1> QED
    BY <1>1, <1>3, <1>4 DEF RegionAt

(* Where a trace starts nothing of it waits yet. *)
LEMMA EmptyRegion ==
  ASSUME NEW r, NEW h \in Cells, NEW hb \in Nat
  PROVE  RegionAt(r, h, hb, h, hb)
  BY RingAssumption DEF RegionAt, ring_used, Cells

(***************************************************************************)
(* What Fits and the invariant give where they are used.                   *)
(***************************************************************************)

(* Initially the ring is empty, and nothing is pending. *)
LEMMA InitRingInv == Init => RingInv
  <1> USE RingAssumption
  <1> SUFFICES ASSUME Init PROVE RingInv
    OBVIOUS
  <1>1. TypeOK
    BY DEF Init, TypeOK, Cells
  <1>2. Fits(0) /\ RegionAt(ring, 0, 0, 0, 0)
    BY EmptyRegion DEF Init, Fits, Cells
  <1>3. Waiting /\ Started /\ Loaded
    BY <1>2 DEF Init, Waiting, Started, Loaded, Region
  <1>4. Putting /\ Reading /\ Skipping /\ Standing
    BY DEF Init, Putting, Reading, Skipping, Standing, Pending
  <1> QED
    BY <1>1, <1>3, <1>4 DEF RingInv

(* publish_flags keeps the invariant: its check leaves room for the record  *)
(* beyond what waits.                                                       *)
LEMMA CheckStep ==
  ASSUME RingInv, PublishCheck
  PROVE  RingInv'
  <1> USE RingAssumption
  <1>t. TypeOK /\ Waiting /\ Started /\ Loaded /\ Putting /\ Reading /\ Skipping /\ Standing
    BY DEF RingInv
  <1>1. ring_used(head, tail) \in Cells /\ ring_used(head, tail) + RecordLen < RingBytes
    <2>1. ring_used(head, tail) \in Cells
      BY <1>t, HeadFromTail DEF TypeOK
    <2>2. RingBytes - 1 - ring_used(head, tail) >= RecordLen
      BY DEF PublishCheck, ring_free
    <2> QED
      BY <2>1, <2>2 DEF Cells
  <1>2. TypeOK'
    BY <1>t DEF PublishCheck, TypeOK, consumer, places, starts
  <1>3. Waiting'
    <2> SUFFICES ASSUME ~torn PROVE Fits(tabs)' /\ Region(tail, tabs)'
      BY DEF PublishCheck, Waiting, starts
    <2>1. tabs <= habs /\ Region(tail, tabs)
      BY <1>t DEF Waiting, Fits
    <2>2. habs - tabs = ring_used(head, tail)
      BY <2>1 DEF Region, RegionAt
    <2>3. Fits(tabs)'
      BY <1>1, <2>1, <2>2 DEF PublishCheck, Fits, places
    <2> QED
      BY <2>1, <2>3 DEF PublishCheck, Region, places
  <1>4. Started'
    <2> SUFFICES ASSUME Fits(rabs)' PROVE Region(resetTo, rabs)'
      BY DEF Started
    <2>1. Fits(rabs)
      BY <1>t DEF PublishCheck, Fits, TypeOK, places
    <2> QED
      BY <1>t, <2>1 DEF PublishCheck, Started, Region, places
  <1>5. Putting'
    BY <1>t DEF PublishCheck, Putting, TypeOK, Wrap, Cells, places
  <1>6. Reading' /\ Skipping'
    BY <1>t DEF PublishCheck, Reading, Skipping, Pending, consumer, places, starts
  <1>7. Standing'
    BY <1>t, <1>1 DEF PublishCheck, Standing, Pending, consumer, places, starts
  <1>8. Loaded'
    <2> SUFFICES ASSUME cpc = "move", Fits(sabs)' PROVE Region(skipTo, sabs)'
      BY DEF PublishCheck, Loaded, consumer
    <2>1. Fits(sabs)
      BY <1>t DEF PublishCheck, Fits, TypeOK, places
    <2> QED
      BY <1>t, <2>1 DEF PublishCheck, Loaded, Region, consumer, places
  <1> QED
    BY <1>2, <1>3, <1>4, <1>5, <1>6, <1>7, <1>8 DEF RingInv

(* ring_put keeps it: the byte goes beyond what waits, in either count.     *)
LEMMA PutStep ==
  ASSUME RingInv, PutByte
  PROVE  RingInv'
  <1> USE RingAssumption
  <1>t. TypeOK /\ Waiting /\ Started /\ Loaded /\ Putting /\ Reading /\ Skipping /\ Standing
    BY DEF RingInv
  <1>1. /\ ppc = "put" /\ put \in Nat /\ put < RecordLen /\ phead = Wrap(head + put)
        /\ ppc' = ppc /\ put' = put + 1 /\ head' = head /\ habs' = habs /\ tabs' = tabs
        /\ rabs' = rabs /\ tail' = tail /\ resetTo' = resetTo /\ torn' = torn
        /\ sabs' = sabs /\ skipTo' = skipTo /\ cpc' = cpc
        /\ ring' = [ring EXCEPT ![Wrap(head + put)] = habs + put]
    BY <1>t DEF PutByte, Putting, TypeOK, consumer, places, starts
  <1>2. /\ ring \in [Cells -> Nat] /\ head \in Cells /\ tail \in Cells /\ resetTo \in Cells
        /\ habs \in Nat /\ tabs \in Nat /\ rabs \in Nat /\ sabs \in Nat 
        /\ skipTo \in Cells /\ habs + put \in Nat /\ put \in Cells
    BY <1>t, <1>1 DEF TypeOK, Cells
  <1>3. phead \in Cells /\ Wrap(phead + 1) \in Cells /\ phead' = Wrap(phead + 1)
    BY <1>t, WrapInRing DEF PutByte, TypeOK
  <1>4. TypeOK'
    BY <1>t, <1>1, <1>2, <1>3 DEF PutByte, TypeOK, consumer, places, starts
  <1>5. Waiting'
    <2> SUFFICES ASSUME ~torn PROVE Fits(tabs)' /\ Region(tail, tabs)'
      BY <1>1 DEF Waiting
    <2>1. Fits(tabs) /\ Region(tail, tabs)
      BY <1>t DEF Waiting
    <2>2. tabs <= habs /\ (habs - tabs) + put < RingBytes
      BY <1>1, <1>2, <2>1 DEF Fits
    <2>3. RegionAt(ring', head, habs, tail, tabs)
      BY <1>1, <1>2, <2>1, <2>2, PutRegion DEF Region
    <2> QED
      BY <1>1, <2>1, <2>3 DEF Fits, Region
  <1>6. Started'
    <2> SUFFICES ASSUME Fits(rabs) PROVE Region(resetTo, rabs)'
      BY <1>1 DEF Started, Fits
    <2>1. rabs <= habs /\ (habs - rabs) + put < RingBytes
      BY <1>1, <1>2 DEF Fits
    <2>2. Region(resetTo, rabs)
      BY <1>t DEF Started
    <2>3. RegionAt(ring', head, habs, resetTo, rabs)
      BY <1>1, <1>2, <2>1, <2>2, PutRegion DEF Region
    <2> QED
      BY <1>1, <2>3 DEF Region
  <1>7. Putting'
    <2>1. phead' = Wrap(head + (put + 1))
      BY <1>1, <1>2, <1>3, WrapTwice DEF Cells
    <2>2. ASSUME NEW i \in Cells, i < put + 1
          PROVE  ring'[Wrap(head + i)] = habs + i
      <3>1. Wrap(head + i) \in Cells
        BY <1>2, WrapInRing DEF Cells
      <3>2. CASE i = put
        BY <1>1, <1>2, <3>1, <3>2
      <3>3. CASE i # put
        <4>1. i < put
          BY <1>1, <2>2, <3>3 DEF Cells
        <4>2. Wrap(head + i) # Wrap(head + put)
          BY <1>2, <3>3, WrapApart
        <4>3. ring[Wrap(head + i)] = habs + i
          BY <1>t, <1>1, <4>1 DEF Putting
        <4> QED
          BY <1>1, <1>2, <3>1, <4>2, <4>3
      <3> QED
        BY <3>2, <3>3
    <2> QED
      BY <1>1, <2>1, <2>2 DEF Putting
  <1>8. Reading' /\ Skipping' /\ Standing'
    BY <1>t, <1>1 DEF PutByte, Reading, Skipping, Standing, Pending, consumer, places, starts
  <1>9. Loaded'
    <2> SUFFICES ASSUME cpc = "move", Fits(sabs) PROVE Region(skipTo, sabs)'
      BY <1>1 DEF Loaded, Fits
    <2>1. sabs <= habs /\ (habs - sabs) + put < RingBytes
      BY <1>1, <1>2 DEF Fits
    <2>2. Region(skipTo, sabs)
      BY <1>t DEF Loaded
    <2>3. RegionAt(ring', head, habs, skipTo, sabs)
      BY <1>1, <1>2, <2>1, <2>2, PutRegion DEF Region
    <2> QED
      BY <1>1, <2>3 DEF Region
  <1> QED
    BY <1>4, <1>5, <1>6, <1>7, <1>8, <1>9 DEF RingInv

(* The store of the head keeps it: the record joins what waits.             *)
LEMMA HeadStep ==
  ASSUME RingInv, PublishHead
  PROVE  RingInv'
  <1> USE RingAssumption
  <1>t. TypeOK /\ Waiting /\ Started /\ Loaded /\ Putting /\ Reading /\ Skipping /\ Standing
    BY DEF RingInv
  <1>1. /\ ppc = "put" /\ put = RecordLen /\ head' = Wrap(head + RecordLen)
        /\ ppc' = "idle" /\ habs' = habs + RecordLen /\ tabs' = tabs /\ rabs' = rabs
        /\ tail' = tail /\ resetTo' = resetTo /\ torn' = torn /\ ring' = ring
        /\ sabs' = sabs /\ skipTo' = skipTo /\ cpc' = cpc
    BY <1>t DEF PublishHead, Putting, consumer, starts
  <1>2. /\ ring \in [Cells -> Nat] /\ head \in Cells /\ tail \in Cells /\ resetTo \in Cells
        /\ habs \in Nat /\ tabs \in Nat /\ rabs \in Nat /\ sabs \in Nat
        /\ skipTo \in Cells /\ RecordLen \in Cells
    BY <1>t DEF TypeOK, Cells
  <1>3. \A i \in Cells : i < RecordLen => ring[Wrap(head + i)] = habs + i
    BY <1>t, <1>1 DEF Putting
  <1>4. TypeOK'
    BY <1>t DEF PublishHead, TypeOK, consumer, starts
  <1>5. Waiting'
    <2> SUFFICES ASSUME ~torn PROVE Fits(tabs)' /\ Region(tail, tabs)'
      BY <1>1 DEF Waiting
    <2>1. Fits(tabs) /\ Region(tail, tabs)
      BY <1>t DEF Waiting
    <2>2. tabs <= habs /\ (habs - tabs) + RecordLen < RingBytes
      BY <1>1, <2>1 DEF Fits
    <2>3. RegionAt(ring, Wrap(head + RecordLen), habs + RecordLen, tail, tabs)
      BY <1>2, <1>3, <2>1, <2>2, HeadRegion DEF Region
    <2> QED
      BY <1>1, <1>2, <2>2, <2>3 DEF Fits, Region
  <1>6. Started'
    <2> SUFFICES ASSUME Fits(rabs)' PROVE Region(resetTo, rabs)'
      BY DEF Started
    <2>0. rabs <= habs
      BY <1>t DEF Skipping
    <2>1. Fits(rabs) /\ (habs - rabs) + RecordLen < RingBytes
      BY <1>1, <1>2, <2>0 DEF Fits
    <2>2. Region(resetTo, rabs)
      BY <1>t, <2>1 DEF Started
    <2>3. RegionAt(ring, Wrap(head + RecordLen), habs + RecordLen, resetTo, rabs)
      BY <1>2, <1>3, <2>0, <2>1, <2>2, HeadRegion DEF Region
    <2> QED
      BY <1>1, <2>3 DEF Region
  <1>7. Putting'
    BY <1>1 DEF Putting
  <1>8. Reading'
    <2>1. UNCHANGED <<cpc, n, out, tabs, torn>> /\ habs' = habs + RecordLen
      BY DEF PublishHead, consumer, starts
    <2>2. n \in Nat /\ habs \in Nat /\ tabs \in Nat /\ RecordLen \in Nat
      BY <1>t DEF TypeOK
    <2>3. n <= habs - tabs => n <= (habs + RecordLen) - tabs
      BY <2>2
    <2>4. Reading
      BY <1>t
    <2> QED BY <2>1, <2>3, <2>4 DEF Reading
  <1>9. Skipping'
    BY <1>t, <1>1, <1>2 DEF PublishHead, Skipping, Pending, TypeOK, consumer, starts
  <1>10. Standing'
    <2> SUFFICES ASSUME Pending', ~inside', cpc' \in {"idle", "skip", "move"}
                 PROVE  habs' - rabs' <= ring_used(head', tail')
      BY <1>1 DEF Standing
    <2>1. /\ habs - rabs <= ring_used(head, tail)
          /\ ring_used(head, tail) + RecordLen < RingBytes
      BY <1>t, <1>1 DEF PublishHead, Standing, Pending, consumer, starts
    <2>2. ring_used(head', tail') = ring_used(head, tail) + RecordLen
      BY <1>1, <1>2, <2>1, UsedGrows
    <2>3. ring_used(head, tail) \in Nat
      BY <1>2, HeadFromTail DEF Cells
    <2> QED
      BY <1>1, <1>2, <2>1, <2>2, <2>3
  <1>11. Loaded'
    <2> SUFFICES ASSUME cpc = "move", Fits(sabs)' PROVE Region(skipTo, sabs)'
      BY <1>1 DEF Loaded
    <2>0. sabs <= habs
      BY <1>t, <1>2 DEF Skipping
    <2>1. Fits(sabs) /\ (habs - sabs) + RecordLen < RingBytes
      BY <1>1, <1>2, <2>0 DEF Fits
    <2>2. Region(skipTo, sabs)
      BY <1>t, <2>1 DEF Loaded
    <2>3. RegionAt(ring, Wrap(head + RecordLen), habs + RecordLen, skipTo, sabs)
      BY <1>2, <1>3, <2>0, <2>1, <2>2, HeadRegion DEF Region
    <2> QED
      BY <1>1, <2>3 DEF Region
  <1> QED
    BY <1>4, <1>5, <1>6, <1>7, <1>8, <1>9, <1>10, <1>11 DEF RingInv

(* trace_begin keeps the invariant: nothing of the new trace waits yet.     *)
LEMMA BeginStep ==
  ASSUME RingInv, BeginResetTo \/ BeginReset
  PROVE  RingInv'
  <1> USE RingAssumption
  <1>t. TypeOK /\ Waiting /\ Started /\ Loaded /\ Putting /\ Reading /\ Skipping /\ Standing
    BY DEF RingInv
  <1>1. CASE BeginResetTo
    <2>1. TypeOK'
      BY <1>1, <1>t DEF BeginResetTo, TypeOK, consumer
    <2>2. Waiting' /\ Loaded' /\ Putting' /\ Reading'
      BY <1>1, <1>t DEF BeginResetTo, Waiting, Loaded, Putting, Reading, Fits, Region, consumer
    <2>3. Started'
      <3>1. RegionAt(ring, head, habs, head, habs)
        BY <1>t, EmptyRegion DEF TypeOK
      <3> QED
        BY <1>1, <3>1 DEF BeginResetTo, Started, Region
    <2>4. Skipping'
      <3>1. ~torn => tabs <= habs
        BY <1>t DEF Waiting, Fits
      <3> QED
        <4>1. (cpc \in {"move", "clear"} => second') /\ (cpc # "idle" => inside')
          BY <1>1 DEF BeginResetTo
        <4>2. /\ cpc' = cpc /\ tabs' = tabs /\ rabs' = habs /\ habs' = habs /\ reset' = reset
              /\ ppc' = "begin" /\ torn' = torn /\ sabs' = sabs /\ sabs \in Nat /\ habs \in Nat
              /\ tabs \in Nat
          BY <1>1, <1>t DEF BeginResetTo, TypeOK, consumer
        <4>3. sabs <= rabs => sabs <= habs
          BY <1>t, <4>2 DEF Skipping, TypeOK
        <4> QED
          BY <1>t, <3>1, <4>1, <4>2, <4>3 DEF Skipping, Pending, TypeOK
    <2>5. Standing'
      <3>1. ring_used(head, tail) \in Nat
        BY <1>t, HeadFromTail DEF TypeOK, Cells
      <3> QED
        BY <1>1, <1>t, <3>1 DEF BeginResetTo, Standing, TypeOK
    <2> QED
      BY <2>1, <2>2, <2>3, <2>4, <2>5 DEF RingInv
  <1>2. CASE BeginReset
    <2>1. TypeOK'
      BY <1>2, <1>t DEF BeginReset, TypeOK, consumer, places, starts
    <2>2. Waiting' /\ Started' /\ Loaded' /\ Putting' /\ Reading'
      BY <1>2, <1>t DEF BeginReset, Waiting, Started, Loaded, Putting, Reading, Fits, Region,
                        consumer, places, starts
    <2>3. Skipping' /\ Standing'
      BY <1>2, <1>t DEF BeginReset, Skipping, Standing, Pending, consumer, places, starts
    <2> QED
      BY <2>1, <2>2, <2>3 DEF RingInv
  <1> QED
    BY <1>1, <1>2

(* dap_trace_read up to its copy: the flag, the skip, the clear, the load.  *)
LEMMA ReadStartStep ==
  ASSUME RingInv, ReadFlag \/ ReadResetTo \/ ReadSkip \/ ReadClear \/ ReadLoad
  PROVE  RingInv'
  <1> USE RingAssumption
  <1>t. TypeOK /\ Waiting /\ Started /\ Loaded /\ Putting /\ Reading /\ Skipping /\ Standing
    BY DEF RingInv
  <1>b. ~torn => tabs <= habs
    BY <1>t DEF Waiting, Fits
  <1>1. CASE ReadFlag
    <2>1. TypeOK'
      BY <1>1, <1>t DEF ReadFlag, TypeOK, producer, places
    <2>2. Waiting' /\ Started' /\ Loaded' /\ Putting' /\ Reading'
      BY <1>1, <1>t DEF ReadFlag, Waiting, Started, Loaded, Putting, Reading, Fits, Region,
                        producer, places
    <2>3. Skipping' /\ Standing'
      BY <1>1, <1>t, <1>b DEF ReadFlag, Skipping, Standing, Pending, producer, places
    <2> QED
      BY <2>1, <2>2, <2>3 DEF RingInv
  <1>2. CASE ReadSkip
    <2>1. TypeOK'
      BY <1>2, <1>t DEF ReadSkip, TypeOK, producer
    <2>3. Waiting'
      <3> SUFFICES ASSUME ~torn' PROVE Fits(tabs)' /\ Region(tail, tabs)'
        BY DEF Waiting
      <3>1. Fits(sabs) /\ Region(skipTo, sabs)
        BY <1>2, <1>t DEF ReadSkip, Loaded
      <3> QED
        BY <1>2, <3>1 DEF ReadSkip, Fits, Region, producer
    <2>4. Started' /\ Loaded' /\ Putting' /\ Reading' /\ Standing'
      BY <1>2, <1>t DEF ReadSkip, Started, Loaded, Putting, Reading, Standing, Fits, Region,
                        producer
    <2>5. Skipping'
      BY <1>2, <1>t DEF ReadSkip, Skipping, Pending, TypeOK, producer
    <2> QED
      BY <2>1, <2>3, <2>4, <2>5 DEF RingInv
  <1>3. CASE ReadClear
    <2>1. TypeOK'
      BY <1>3, <1>t DEF ReadClear, TypeOK, producer, places, starts
    <2>2. Waiting' /\ Started' /\ Loaded' /\ Putting' /\ Reading' /\ Standing'
      BY <1>3, <1>t DEF ReadClear, Waiting, Started, Loaded, Putting, Reading, Standing, Fits,
                        Region, producer, places, starts
    <2>3. Skipping'
      BY <1>3, <1>t DEF ReadClear, Skipping, Pending, TypeOK, producer, places, starts
    <2> QED
      BY <2>1, <2>2, <2>3 DEF RingInv
  <1>4. CASE ReadLoad
    <2>0. cpc = "load" /\ out = <<>> /\ n' = Least(ring_used(head, tail), MaxRead)
      BY <1>4, <1>t DEF ReadLoad, Reading
    <2>1. ring_used(head, tail) \in Nat /\ ring_used(head, tail) < RingBytes
      BY <1>t, HeadFromTail DEF TypeOK, Cells
    <2>2. n' \in Nat /\ n' <= MaxRead /\ n' < RingBytes /\ n' <= ring_used(head, tail)
      BY <2>0, <2>1 DEF Least
    <2>3. TypeOK'
      BY <1>4, <1>t, <2>2 DEF ReadLoad, TypeOK, producer, places, starts
    <2>4. Waiting' /\ Started' /\ Loaded' /\ Putting' /\ Skipping' /\ Standing'
      BY <1>4, <1>t DEF ReadLoad, Waiting, Started, Loaded, Putting, Skipping, Standing, Pending,
                        Fits, Region, producer, places, starts
    <2>5. Reading'
      <3>1. ~torn => n' <= habs - tabs
        BY <1>t, <2>2 DEF Waiting, Region, RegionAt
      <3> QED
        BY <1>4, <2>0, <2>2, <3>1 DEF ReadLoad, Reading, places, starts
    <2> QED
      BY <2>3, <2>4, <2>5 DEF RingInv
  <1>5. CASE ReadResetTo
    <2>1. TypeOK'
      BY <1>5, <1>t DEF ReadResetTo, TypeOK, producer, starts
    <2>2. Waiting' /\ Started' /\ Putting' /\ Reading'
      BY <1>5, <1>t DEF ReadResetTo, Waiting, Started, Putting, Reading, Fits, Region,
                        producer, starts
    <2>3. Loaded'
      BY <1>5, <1>t DEF ReadResetTo, Loaded, Started, Fits, Region, producer
    <2>4. Skipping'
      BY <1>5, <1>t DEF ReadResetTo, Skipping, Pending, TypeOK, producer, starts
    <2>5. Standing'
      BY <1>5, <1>t DEF ReadResetTo, Standing, Pending, producer, starts
    <2> QED
      BY <2>1, <2>2, <2>3, <2>4, <2>5 DEF RingInv
  <1> QED
    BY <1>1, <1>2, <1>3, <1>4, <1>5

(* The copy of dap_trace_read keeps the invariant: each byte copied is the  *)
(* next waiting one.                                                        *)
LEMMA CopyStep ==
  ASSUME RingInv, CopyByte
  PROVE  RingInv'
  <1> USE RingAssumption
  <1>t. TypeOK /\ Waiting /\ Started /\ Loaded /\ Putting /\ Reading /\ Skipping /\ Standing
    BY DEF RingInv
  <1>1. /\ cpc = "copy" /\ cpc' = "copy" /\ Len(out) < n /\ n' = n /\ n < RingBytes
        /\ n <= MaxRead /\ out' = Append(out, ring[Wrap(tail + Len(out))])
        /\ tabs' = tabs /\ torn' = torn
    BY <1>t DEF CopyByte, Reading, places, starts
  <1>2. n \in Nat /\ out \in Seq(Nat) /\ Len(out) \in Nat /\ tabs \in Nat /\ habs \in Nat
    BY <1>t DEF TypeOK
  <1>3. ring[Wrap(tail + Len(out))] \in Nat
    <2>1. Wrap(tail + Len(out)) \in Cells
      BY <1>t, <1>1, <1>2, WrapInRing DEF TypeOK
    <2> QED
      BY <1>t, <2>1 DEF TypeOK
  <1>4. TypeOK'
    BY <1>t, <1>1, <1>2, <1>3 DEF CopyByte, TypeOK, producer, places, starts
  <1>5. Reading'
    <2>1. Len(out') = Len(out) + 1
      BY <1>1, <1>2, <1>3
    <2>2. ASSUME ~torn, NEW i \in 1 .. Len(out')
          PROVE  out'[i] = tabs + i - 1
      <3>1. CASE i = Len(out) + 1
        <4>1. Len(out) \in Cells /\ Len(out) < habs - tabs
          BY <1>t, <1>1, <1>2, <2>2 DEF Reading, Cells
        <4>2. ring[Wrap(tail + Len(out))] = tabs + Len(out)
          BY <1>t, <2>2, <4>1 DEF Waiting, Region, RegionAt
        <4> QED
          BY <1>1, <1>2, <3>1, <4>2
      <3>2. CASE i # Len(out) + 1
        <4>1. i \in 1 .. Len(out)
          BY <1>2, <2>1, <2>2, <3>2
        <4>2. out[i] = tabs + i - 1
          BY <1>t, <1>1, <2>2, <4>1 DEF Reading
        <4> QED
          BY <1>1, <1>2, <1>3, <4>1, <4>2
      <3> QED
        BY <3>1, <3>2
    <2>3. ~torn => n <= habs - tabs
      BY <1>t, <1>1 DEF Reading
    <2> QED
      BY <1>1, <1>2, <2>1, <2>2, <2>3 DEF CopyByte, Reading, places, starts
  <1>6. Waiting' /\ Started' /\ Loaded' /\ Putting' /\ Skipping' /\ Standing'
    BY <1>t DEF CopyByte, Waiting, Started, Loaded, Putting, Skipping, Standing, Pending, Fits,
                Region, producer, places, starts
  <1> QED
    BY <1>4, <1>5, <1>6 DEF RingInv

(* The store of the tail keeps the invariant: a start that came meanwhile   *)
(* fell inside this read, which took at most MaxRead bytes.                 *)
LEMMA TailStep ==
  ASSUME RingInv, ReadTail
  PROVE  RingInv'
  <1> USE RingAssumption
  <1>t. TypeOK /\ Waiting /\ Started /\ Loaded /\ Putting /\ Reading /\ Skipping /\ Standing
    BY DEF RingInv
  <1>1. /\ cpc = "copy" /\ cpc' = "idle" /\ n <= MaxRead /\ n < RingBytes
        /\ ~torn => n <= habs - tabs
        /\ tail' = Wrap(tail + n) /\ tabs' = tabs + n /\ torn' = torn
        /\ ring' = ring /\ head' = head /\ habs' = habs /\ rabs' = rabs /\ resetTo' = resetTo
    BY <1>t DEF ReadTail, Reading, starts
  <1>2. /\ n \in Nat /\ tabs \in Nat /\ habs \in Nat /\ rabs \in Nat /\ tail \in Cells
        /\ head \in Cells /\ ring \in [Cells -> Nat]
    BY <1>t DEF TypeOK
  <1>3. TypeOK'
    <2>1. Wrap(tail + n) \in Cells
      BY <1>1, <1>2, WrapInRing
    <2> QED
      BY <1>t, <1>1, <1>2, <2>1 DEF ReadTail, TypeOK, producer, starts
  <1>4. Waiting'
    <2> SUFFICES ASSUME ~torn PROVE Fits(tabs)' /\ Region(tail, tabs)'
      BY <1>1 DEF Waiting
    <2>1. Fits(tabs) /\ Region(tail, tabs)
      BY <1>t DEF Waiting
    <2>2. tabs + n <= habs /\ habs - tabs < RingBytes
      BY <1>1, <1>2, <2>1 DEF Fits
    <2>3. RegionAt(ring, head, habs, Wrap(tail + n), tabs + n)
      BY <1>2, <2>1, <2>2, TailRegion DEF Region
    <2>4. Fits(tabs)'
      BY <1>1, <1>2, <2>1, <2>2 DEF ReadTail, Fits, producer
    <2> QED
      BY <1>1, <2>3, <2>4 DEF Region
  <1>5. Started' /\ Loaded' /\ Putting' /\ Reading'
    BY <1>t DEF ReadTail, Started, Loaded, Putting, Reading, Fits, Region, producer
  <1>6. Pending => inside
    BY <1>t, <1>1 DEF Pending, Skipping
  <1>7. Skipping'
    <2>1. ~torn /\ Pending => tabs <= rabs
      BY <1>t, <1>1 DEF Skipping
    <2>2. ~torn /\ Pending => tabs + n - rabs <= MaxRead
      BY <1>1, <1>2, <2>1
    <2> QED
      BY <1>t, <1>1, <1>2, <1>6, <2>2 DEF ReadTail, Skipping, Pending, producer, starts
  <1>8. Standing'
    BY <1>6 DEF ReadTail, Standing, Pending, producer, starts
  <1> QED
    BY <1>3, <1>4, <1>5, <1>7, <1>8 DEF RingInv

(* The whole next-state relation keeps the invariant.                       *)
LEMMA NextRingInv ==
  ASSUME RingInv, [Next]_vars
  PROVE  RingInv'
  <1>1. CASE UNCHANGED vars
    BY <1>1 DEF vars, producer, consumer, places, starts, RingInv, TypeOK, Waiting, Started, Loaded,
                Putting, Reading, Skipping, Standing, Pending, Fits, Region
  <1> QED
    BY <1>1, CheckStep, PutStep, HeadStep, BeginStep, ReadStartStep, CopyStep, TailStep
       DEF Next

(***************************************************************************)
(* The theorems.                                                           *)
(***************************************************************************)

(* The inductive invariant holds throughout, wherever a trace starts in a   *)
(* dap_trace_read call.                                                     *)
THEOREM RingInvariant == Spec => []RingInv
  BY InitRingInv, NextRingInv, PTL DEF Spec

(* Every index of dap_trace.c's ring stays inside its allocation. *)
THEOREM RingTypeOK == Spec => []TypeOK
  <1>1. RingInv => TypeOK
    BY DEF RingInv
  <1> QED
    BY <1>1, RingInvariant, PTL

(* ring_put never writes a cell the sender has not handed back, unless the  *)
(* tail went back over space the producer was given.                        *)
THEOREM RingNoOverwrite == Spec => []NoOverwrite
  <1>1. RingInv => NoOverwrite
    <2> USE RingAssumption
    <2> SUFFICES ASSUME RingInv, ppc = "put", put < RecordLen, ~torn,
                        NEW i \in 0 .. RingBytes - 1, i < habs - tabs
                 PROVE  phead # Wrap(tail + i)
      BY DEF NoOverwrite
    <2>1. /\ tabs <= habs /\ (habs - tabs) + RecordLen < RingBytes
          /\ ring_used(head, tail) = habs - tabs /\ phead = Wrap(head + put)
      BY DEF RingInv, Waiting, Putting, Fits, Region, RegionAt
    <2>2. head \in Cells /\ tail \in Cells /\ put \in Nat /\ habs \in Nat /\ tabs \in Nat
      BY DEF RingInv, TypeOK
    <2> DEFINE u == habs - tabs
    <2>3. u \in Nat /\ u + put \in Cells /\ i # u + put
      BY <2>1, <2>2 DEF Cells
    <2>4. head = Wrap(tail + u)
      BY <2>1, <2>2, HeadFromTail
    <2>5. phead = Wrap(tail + (u + put))
      <3>0. u + put < RingBytes
        BY <2>3 DEF Cells
      <3> HIDE DEF u
      <3>1. Wrap(Wrap(tail + u) + put) = Wrap(tail + (u + put))
        BY <2>2, <2>3, <3>0, WrapTwice
      <3> QED
        BY <2>1, <2>4, <3>1
    <2> QED
      BY <2>2, <2>3, <2>5, WrapApart DEF Cells
  <1> QED
    BY <1>1, RingInvariant, PTL

(* dap_trace_read copies the published bytes, in order, none lost, with the *)
(* same exception.                                                          *)
THEOREM RingReadsInOrder == Spec => []ReadsInOrder
  <1>1. RingInv => ReadsInOrder
    <2> SUFFICES ASSUME RingInv, cpc = "copy", ~torn PROVE ReadsInOrder
      BY DEF ReadsInOrder
    <2>1. n <= habs - tabs /\ Len(out) <= n
          /\ \A i \in 1 .. Len(out) : out[i] = tabs + i - 1
      BY DEF RingInv, Reading
    <2>2. n \in Nat /\ Len(out) \in Nat /\ habs \in Nat /\ tabs \in Nat
      BY DEF RingInv, TypeOK
    <2> QED
      BY <2>1, <2>2 DEF ReadsInOrder
  <1> QED
    BY <1>1, RingInvariant, PTL

(* A start leaves a request that a later read finds, or was taken for the   *)
(* one that was being honoured.                                             *)
THEOREM RingOldTraceDropped == Spec => []OldTraceDropped
  <1>1. RingInv => OldTraceDropped
    BY DEF RingInv, Skipping, Pending, OldTraceDropped
  <1> QED
    BY <1>1, RingInvariant, PTL

(* A trace that starts outside dap_trace_read finds its bytes in the ring   *)
(* when the sender comes, whatever was torn before.                         *)
THEOREM RingStartMends == Spec => StartMends
  <1>1. RingInv /\ [Next]_vars => [cpc = "move" /\ cpc' = "clear" /\ ~inside => ~torn']_vars
    <2> USE RingAssumption
    <2> SUFFICES ASSUME RingInv, [Next]_vars, cpc = "move", cpc' = "clear", ~inside
                 PROVE  ~torn'
      OBVIOUS
    <2>1. ReadSkip
      BY DEF Next, PublishCheck, PutByte, PublishHead, BeginResetTo, BeginReset, ReadFlag,
             ReadResetTo, ReadClear, ReadLoad, CopyByte, ReadTail, vars, consumer
    <2>2. /\ habs - rabs <= ring_used(head, tail)
          /\ ppc = "put" => ring_used(head, tail) + RecordLen < RingBytes
      BY DEF RingInv, Skipping, Standing, Pending
    <2>r. sabs = rabs
      BY DEF RingInv, Skipping
    <2>3. rabs \in Nat /\ habs \in Nat /\ rabs <= habs
      BY DEF RingInv, TypeOK, Skipping
    <2>4. ring_used(head, tail) \in Nat /\ ring_used(head, tail) < RingBytes
      BY HeadFromTail DEF RingInv, TypeOK, Cells
    <2>5. Fits(rabs)
      BY <2>2, <2>3, <2>4 DEF Fits
    <2> QED
      BY <2>1, <2>r, <2>5 DEF ReadSkip
  <1> QED
    BY <1>1, RingInvariant, PTL DEF Spec, StartMends

(* The sender's position moves forward, or back to the start of a trace     *)
(* that began inside its read, by no more than that read took.              *)
THEOREM RingTailForward == Spec => TailForward
  <1> DEFINE Goes == \/ torn
                     \/ tabs' >= tabs
                     \/ (inside /\ tabs' = sabs /\ tabs - sabs <= MaxRead)
  <1>1. RingInv /\ [Next]_vars => [Goes]_vars
    <2> SUFFICES ASSUME RingInv, [Next]_vars, ~torn PROVE Goes \/ UNCHANGED vars
      OBVIOUS
    <2>t. tabs \in Nat /\ sabs \in Nat /\ n \in Nat
      BY DEF RingInv, TypeOK
    <2>1. CASE ReadSkip
      <3>1. cpc = "move" /\ tabs' = sabs
        BY <2>1 DEF ReadSkip
      <3>2. tabs > sabs => inside /\ tabs - sabs <= MaxRead
        BY <3>1 DEF RingInv, Skipping
      <3> QED
        BY <2>t, <3>1, <3>2
    <2>2. CASE ReadTail
      BY <2>t, <2>2 DEF ReadTail
    <2>3. CASE PublishCheck \/ PutByte \/ PublishHead \/ BeginResetTo \/ BeginReset
               \/ ReadFlag \/ ReadResetTo \/ ReadClear \/ ReadLoad \/ CopyByte
      <3>1. tabs' = tabs
        BY <2>3 DEF PublishCheck, PutByte, PublishHead, BeginResetTo, BeginReset, ReadFlag,
                    ReadResetTo, ReadClear, ReadLoad, CopyByte, places
      <3> QED
        BY <2>t, <3>1
    <2> QED
      BY <2>1, <2>2, <2>3 DEF Next
  <1> QED
    BY <1>1, RingInvariant, PTL DEF Spec, TailForward

(* The ring implements the bounded FIFO of bytes: each step of dap_trace.c  *)
(* publishes a record that fits, moves the reader forward, sends it back by *)
(* one read at most, or does neither; and a break lasts until a start that  *)
(* finds its bytes in the ring.                                             *)
THEOREM RingImplementsFifo == Spec => ImplementsFifo
  <1> SUFFICES Spec => Fifo!Spec
    BY DEF ImplementsFifo
  <1>1. Init => Fifo!Init
    BY DEF Init, Fifo!Init
  <1>2. RingInv /\ [Next]_vars => [Fifo!Next]_<<habs, tabs, torn>>
    <2> USE RingAssumption
    <2> SUFFICES ASSUME RingInv, [Next]_vars PROVE [Fifo!Next]_<<habs, tabs, torn>>
      OBVIOUS
    <2>t. /\ TypeOK /\ Waiting /\ Putting /\ Reading /\ Skipping
          /\ habs \in Nat /\ tabs \in Nat /\ rabs \in Nat /\ sabs \in Nat /\ n \in Nat
      BY DEF RingInv, TypeOK
    <2>f. ~torn => tabs <= habs /\ habs - tabs < RingBytes
                   /\ (ppc = "put" => (habs - tabs) + RecordLen < RingBytes)
      BY <2>t DEF Waiting, Fits
    <2>1. CASE PublishHead
      <3>1. ppc = "put" /\ habs' = habs + RecordLen /\ tabs' = tabs /\ torn' = torn
        BY <2>1 DEF PublishHead, starts
      <3>2. CASE torn
        BY <3>1, <3>2, <2>t DEF TypeOK, Fifo!Next, Fifo!Astray
      <3>3. CASE ~torn
        <4>1. habs + RecordLen - tabs <= RingBytes - 1
          BY <2>t, <2>f, <3>1, <3>3
        <4> QED
          BY <3>1, <3>3, <4>1 DEF Fifo!Next, Fifo!Publish
      <3> QED
        BY <3>2, <3>3
    <2>2. CASE ReadSkip
      <3>0. torn' = ~Fits(sabs)
        BY <2>2 DEF ReadSkip
      <3>1. cpc = "move" /\ tabs' = sabs /\ habs' = habs /\ sabs <= habs
        <4>1. cpc = "move" /\ tabs' = sabs /\ habs' = habs
          BY <2>2 DEF ReadSkip
        <4>2. sabs <= rabs /\ rabs <= habs
          BY <4>1 DEF RingInv, Skipping
        <4> QED
          BY <2>t, <4>1, <4>2
      <3>2. ~torn /\ tabs > sabs => tabs - sabs <= MaxRead
        BY <2>t, <3>1 DEF Skipping
      <3>3. ~torn' => habs - sabs <= RingBytes - 1
        <4>1. ~torn' => Fits(sabs)
          BY <3>0
        <4> QED
          BY <2>t, <4>1 DEF Fits
      <3>4. torn' \in BOOLEAN
        BY <3>0 DEF Fits
      <3>5. CASE torn
        <4>1. CASE torn'
          BY <2>t, <3>5, <4>1 DEF TypeOK, Fifo!Next, Fifo!Astray
        <4>2. CASE ~torn'
          BY <3>1, <3>3, <3>4, <3>5, <4>2 DEF Fifo!Next, Fifo!Mend
        <4> QED
          BY <4>1, <4>2
      <3>6. CASE ~torn /\ torn'
        <4>1. ~Fits(sabs) /\ Fits(tabs)
          BY <2>t, <3>0, <3>6 DEF Waiting
        <4>2. sabs < tabs
          BY <2>t, <3>1, <4>1 DEF Fits
        <4> QED
          BY <2>t, <3>1, <3>2, <3>4, <3>6, <4>2 DEF Fifo!Next, Fifo!Break
      <3>7. CASE ~torn /\ ~torn' /\ sabs < tabs
        <4>1. torn' = torn
          BY <2>t, <3>4, <3>7 DEF TypeOK
        <4> QED
          BY <2>t, <3>1, <3>2, <3>3, <3>7, <4>1 DEF Fifo!Next, Fifo!Again
      <3>8. CASE ~torn /\ ~torn' /\ ~(sabs < tabs)
        <4>1. torn' = torn
          BY <2>t, <3>4, <3>8 DEF TypeOK
        <4>2. sabs \in tabs .. habs
          BY <2>t, <3>1, <3>8
        <4> QED
          BY <3>1, <3>8, <4>1, <4>2 DEF Fifo!Next, Fifo!Advance
      <3> QED
        BY <3>5, <3>6, <3>7, <3>8
    <2>3. CASE ReadTail
      <3>1. cpc = "copy" /\ tabs' = tabs + n /\ habs' = habs /\ torn' = torn
        BY <2>3 DEF ReadTail, starts
      <3>2. CASE torn
        BY <3>1, <3>2, <2>t DEF TypeOK, Fifo!Next, Fifo!Astray
      <3>3. CASE ~torn
        <4>0. n <= habs - tabs
          BY <2>t, <3>1, <3>3 DEF Reading
        <4>1. tabs + n \in tabs .. habs
          BY <2>t, <2>f, <3>3, <4>0
        <4> QED
          BY <3>1, <3>3, <4>1 DEF Fifo!Next, Fifo!Advance
      <3> QED
        BY <3>2, <3>3
    <2>4. CASE PublishCheck \/ PutByte \/ BeginResetTo \/ BeginReset \/ ReadFlag
               \/ ReadResetTo \/ ReadClear \/ ReadLoad \/ CopyByte
      BY <2>4 DEF PublishCheck, PutByte, BeginResetTo, BeginReset, ReadFlag, ReadResetTo, ReadClear,
                  ReadLoad, CopyByte, places, starts
    <2>5. CASE UNCHANGED vars
      BY <2>5 DEF vars, places, starts
    <2> QED
      BY <2>1, <2>2, <2>3, <2>4, <2>5 DEF Next
  <1> QED
    BY <1>1, <1>2, RingInvariant, PTL DEF Spec, Fifo!Spec

-----------------------------------------------------------------------------
(***************************************************************************)
(* The websocket: types, one sender at a time, which owns the stream       *)
(* (SenderOwnsStream), and a free stream when there is none                *)
(* (FreeWhenNone).                                                         *)
(***************************************************************************)

(* Between its trace_ws_close and the clearing of its handle a sender that *)
(* leaves has given the descriptor back, and no other has started.         *)
WsInv ==
  /\ WsTypeOK /\ SenderOwnsStream
  /\ sender = "none" => wfd = NoFd
  /\ last => sender = "none" /\ task
  /\ sender = "none" /\ ~last => ~task

(* What the steps of the web server have in common. *)
LEMMA ServerKeeps ==
  ASSUME WsInv, UNCHANGED <<wfd, task, gen, sender, last, traced, serves>>,
         fdOf' \in [Conns -> Fds \cup {NoFd}],
         \A c, d \in Conns : fdOf'[c] = fdOf'[d] /\ fdOf'[c] # NoFd => c = d,
         ctx' \in [Conns -> 0 .. gen],
         \A c, d \in Conns : ctx'[c] = ctx'[d] /\ ctx'[c] # 0 => c = d,
         closing' \subseteq Fds, fresh' \subseteq Conns,
         run' \in BOOLEAN, strayed' \in BOOLEAN
  PROVE  WsInv'
  BY DEF WsInv, WsTypeOK, SenderOwnsStream, Open

LEMMA ClosedTypes ==
  ASSUME WsInv, NEW c \in Conns, Closed(c)
  PROVE  /\ fdOf' \in [Conns -> Fds \cup {NoFd}]
         /\ \A a, b \in Conns : fdOf'[a] = fdOf'[b] /\ fdOf'[a] # NoFd => a = b
  BY DEF WsInv, WsTypeOK, Closed, Open

LEMMA SessionGoneTypes ==
  ASSUME WsInv, NEW c \in Conns, SessionGone(c) PROVE run' \in BOOLEAN
  BY DEF SessionGone

LEMMA CtxTypes ==
  ASSUME WsInv
  PROVE  /\ ctx \in [Conns -> 0 .. gen] /\ gen \in Nat
         /\ \A a, b \in Conns : ctx[a] = ctx[b] /\ ctx[a] # 0 => a = b
         /\ fdOf \in [Conns -> Fds \cup {NoFd}]
         /\ \A a, b \in Conns : fdOf[a] = fdOf[b] /\ fdOf[a] # NoFd => a = b
  BY DEF WsInv, WsTypeOK, Open

(* The next client gets a number no client has. *)
LEMMA NewNumber ==
  ASSUME WsInv, NEW c \in Conns, gen' = gen + 1, ctx' = [ctx EXCEPT ![c] = gen + 1]
  PROVE  /\ ctx' \in [Conns -> 0 .. gen'] /\ gen' \in Nat
         /\ \A a, b \in Conns : ctx'[a] = ctx'[b] /\ ctx'[a] # 0 => a = b
  <1>1. ctx' \in [Conns -> 0 .. gen + 1]
      BY CtxTypes
  <1>2. \A a \in Conns : ctx'[a] = IF a = c THEN gen + 1 ELSE ctx[a]
      BY CtxTypes
  <1>3. \A a \in Conns : ctx[a] # gen + 1
      BY CtxTypes
  <1> QED BY <1>1, <1>2, <1>3, CtxTypes

LEMMA ConnInv ==
  ASSUME WsInv, NEW c \in Conns,
         \/ Accept(c) \/ Handshake(c) \/ HandshakeFails(c) \/ HandshakeRefused(c)
         \/ Frame(c) \/ Drop(c)
  PROVE  WsInv'
  <1>1. CASE Accept(c)
    <2>1. PICK f \in FreeFds : fdOf' = [fdOf EXCEPT ![c] = f]
        BY <1>1 DEF Accept
    <2>2. f \in Fds /\ \A d \in Conns : fdOf[d] # f
        BY <2>1 DEF FreeFds
    <2>3. /\ fdOf' \in [Conns -> Fds \cup {NoFd}]
          /\ \A a, b \in Conns : fdOf'[a] = fdOf'[b] /\ fdOf'[a] # NoFd => a = b
        BY <2>1, <2>2, CtxTypes
    <2> QED BY <1>1, <2>3, CtxTypes, ServerKeeps DEF Accept, WsInv, WsTypeOK
  <1>2. CASE Handshake(c)
    <2>1. fdOf[c] \in Fds
        BY <1>2, CtxTypes DEF Handshake, Open
    <2>2. ctx' \in [Conns -> 0 .. gen'] /\ gen' \in Nat
          /\ \A a, b \in Conns : ctx'[a] = ctx'[b] /\ ctx'[a] # 0 => a = b
        BY <1>2, NewNumber DEF Handshake
    <2>3. sender = "none" /\ ~last
        BY <1>2 DEF Handshake, SenderGone, WsInv, SenderOwnsStream
    <2>4. WsTypeOK'
      <3>1. serves' \in 0 .. gen'
          BY <1>2, <2>2 DEF Handshake
      <3> QED BY <1>2, <2>1, <2>2, <3>1 DEF Handshake, WsInv, WsTypeOK, Open
    <2> QED BY <1>2, <2>1, <2>3, <2>4, WsAssumption DEF Handshake, WsInv, SenderOwnsStream
  <1>3. CASE HandshakeFails(c)
    <2>1. sender = "none" /\ ~last
        BY <1>3 DEF HandshakeFails, SenderGone, WsInv, SenderOwnsStream
    <2>2. ctx' \in [Conns -> 0 .. gen'] /\ gen' \in Nat
          /\ \A a, b \in Conns : ctx'[a] = ctx'[b] /\ ctx'[a] # 0 => a = b
        BY <1>3, NewNumber DEF HandshakeFails
    <2>3. /\ fdOf' \in [Conns -> Fds \cup {NoFd}]
          /\ \A a, b \in Conns : fdOf'[a] = fdOf'[b] /\ fdOf'[a] # NoFd => a = b
        BY <1>3, ClosedTypes DEF HandshakeFails
    <2>4. serves' \in 0 .. gen'
        BY <1>3, <2>2, CtxTypes DEF HandshakeFails, WsInv, WsTypeOK
    <2>5. WsTypeOK'
        BY <1>3, <2>2, <2>3, <2>4 DEF HandshakeFails, WsInv, WsTypeOK, Open
    <2> QED BY <1>3, <2>1, <2>5 DEF HandshakeFails, WsInv, SenderOwnsStream
  <1>4. CASE HandshakeRefused(c)
      BY <1>4, ClosedTypes, CtxTypes, ServerKeeps DEF HandshakeRefused, WsInv, WsTypeOK
  <1>5. CASE Frame(c)
      BY <1>5, CtxTypes, ServerKeeps DEF Frame, server, WsInv, WsTypeOK
  <1>6. CASE Drop(c)
      BY <1>6, ClosedTypes, SessionGoneTypes, CtxTypes, ServerKeeps DEF Drop, WsInv, WsTypeOK
  <1> QED BY <1>1, <1>2, <1>3, <1>4, <1>5, <1>6

LEMMA CloseQueuedInv == ASSUME WsInv, NEW f \in Fds, CloseQueued(f) PROVE WsInv'
  <1>1. /\ fdOf' \in [Conns -> Fds \cup {NoFd}]
        /\ \A a, b \in Conns : fdOf'[a] = fdOf'[b] /\ fdOf'[a] # NoFd => a = b
        /\ run' \in BOOLEAN
    <2>1. CASE \E c \in Open : fdOf[c] = f /\ Closed(c) /\ SessionGone(c)
        BY <2>1, ClosedTypes, SessionGoneTypes DEF Open
    <2>2. CASE UNCHANGED <<fdOf, run>>
        BY <2>2, CtxTypes DEF WsInv, WsTypeOK
    <2> QED BY <2>1, <2>2 DEF CloseQueued
  <1> QED BY <1>1, CtxTypes, ServerKeeps DEF CloseQueued, WsInv, WsTypeOK

LEMMA SenderInv == ASSUME WsInv, Sender PROVE WsInv'
  <1> USE DEF server
  <1>1. CASE SenderClose
      BY <1>1 DEF SenderClose, WsInv, WsTypeOK, SenderOwnsStream, Open
  <1>2. CASE SenderNull
      BY <1>2 DEF SenderNull, WsInv, WsTypeOK, SenderOwnsStream, Open
  <1>3. CASE SenderBye
    <2>1. closing' \subseteq Fds
        BY <1>3 DEF SenderBye, WsInv, WsTypeOK, SenderOwnsStream
    <2> QED BY <1>3, <2>1 DEF SenderBye, WsInv, WsTypeOK, SenderOwnsStream, Open
  <1>4. CASE SenderSend
      BY <1>4 DEF SenderSend, WsInv, WsTypeOK, SenderOwnsStream, Open
  <1>5. CASE SenderStart \/ SenderLoop \/ SenderIdle \/ SenderEnded \/ SenderRead
    <2>1. /\ UNCHANGED <<server, wfd, run, task, gen, last, serves, strayed>>
          /\ sender # "none" /\ sender' \in {"loop", "read", "send", "bye", "leave"}
          /\ traced' \in BOOLEAN
        BY <1>5 DEF SenderStart, SenderLoop, SenderIdle, SenderEnded, SenderRead, WsInv, WsTypeOK
    <2> QED BY <2>1 DEF WsInv, WsTypeOK, SenderOwnsStream, Open
  <1> QED BY <1>1, <1>2, <1>3, <1>4, <1>5 DEF Sender

(* For any number of clients and descriptors, whatever order they connect, *)
(* drop and send in, the state of server and sender stays in its types.    *)
THEOREM WsInvariant == WsSpec => []WsInv
  <1>1. WsInit => WsInv
    <2> SUFFICES ASSUME WsInit PROVE WsInv
        OBVIOUS
    <2>1. Open = {} /\ \A c \in Conns : ctx[c] = 0
        BY DEF WsInit, Open
    <2>2. fdOf \in [Conns -> Fds \cup {NoFd}] /\ ctx \in [Conns -> 0 .. 0] /\ gen = 0
        BY DEF WsInit
    <2>3. ctx \in [Conns -> 0 .. gen] /\ gen \in Nat /\ serves \in 0 .. gen
        BY <2>2 DEF WsInit
    <2>4. closing \subseteq Fds /\ fresh \subseteq Conns
        BY DEF WsInit
    <2>5. WsTypeOK
        BY <2>1, <2>2, <2>3, <2>4 DEF WsInit, WsTypeOK
    <2> QED BY <2>5 DEF WsInit, WsInv, SenderOwnsStream
  <1>2. WsInv /\ [WsNext]_wsVars => WsInv'
    <2> SUFFICES ASSUME WsInv, [WsNext]_wsVars PROVE WsInv'
        OBVIOUS
    <2>1. CASE UNCHANGED wsVars
        BY <2>1 DEF wsVars, server, WsInv, WsTypeOK, SenderOwnsStream, Open
    <2> QED BY <2>1, ConnInv, CloseQueuedInv, SenderInv DEF WsNext
  <1> QED BY <1>1, <1>2, PTL DEF WsSpec

(* There is one sender at a time, and while it streams descriptor, handle  *)
(* and number are those of the newest client (trace_ws_handler).           *)
THEOREM WsSenderOwnsStream == WsSpec => []SenderOwnsStream
  <1>1. WsInv => SenderOwnsStream
      BY DEF WsInv
  <1> QED BY <1>1, WsInvariant, PTL

(* Once the sender is gone the next client can have the stream: no step    *)
(* leaves a descriptor or a handle behind (trace_ws_close).                *)
THEOREM WsFreeWhenNone == WsSpec => []FreeWhenNone
  <1>1. WsInv => FreeWhenNone
      BY DEF WsInv, FreeWhenNone, SenderGone
  <1> QED BY <1>1, WsInvariant, PTL

-----------------------------------------------------------------------------
(***************************************************************************)
(* The session.  Its invariant counts the locks each actor has to give     *)
(* back, and says who sees to a running drain and to the link's mode.      *)
(***************************************************************************)

StopPcs == {"stop", "flush", "halt", "wait", "collect", "finish", "reset"}

(* Locks an actor holds: one within a stop's end, a start, a session, and  *)
(* around the session of tricore_flash_write.                              *)
Around(p) ==
  /\ p = "flash"
  /\ pc[p] \in {"session", "program", "written"} \/ (pc[p] \in StopPcs /\ ret[p] = "session")
Within(p) == pc[p] \in {"finish", "reset", "begin", "create", "unlock", "failed", "program"}
Held(p) == (IF Around(p) THEN 1 ELSE 0) + (IF Within(p) THEN 1 ELSE 0)

LockKept ==
  /\ owner = "none" <=> depth = 0
  /\ \A p \in Actors : p # owner => Held(p) = 0
  /\ owner # "none" => depth = Held(owner)

(* Only the web server starts traces, and a stop returns to the call that  *)
(* asked for it: a flash session's never to nothing.                       *)
Own(p) ==
  /\ pc[p] \in {"start", "setup", "begin", "create", "unlock", "started", "failed",
               "restore", "modes", "divider"} => p = "http"
  /\ pc[p] \in {"write", "written"} => p = "flash"
  /\ pc[p] \in {"session", "program"} => p \in Flashers
  /\ p \notin Flashers => ret[p] \in {"idle", "setup"}
  /\ ret[p] = "setup" => p = "http"
  /\ ret[p] = "write" => p = "flash"
  /\ p \in Flashers /\ pc[p] \in StopPcs => ret[p] \in {"write", "session"}

OwnCalls == \A p \in Actors : Own(p)

(* A drain that is asked for, or a link out of its attach mode, has someone *)
(* who will see to it.                                                     *)
DrainPcs == {"create", "unlock", "started", "flush", "halt", "finish"}
LinkPcs == {"begin", "create", "unlock", "started", "failed", "restore",
            "modes", "divider", "flush", "halt", "wait", "collect", "finish",
            "reset"}
Someone(where) == \E p \in Actors : pc[p] \in where
InSession == \E p \in Flashers : pc[p] = "program"

DrainOwned == traceRunning => mcdsRunning \/ Someone(DrainPcs)
LinkOwned ==
  /\ link \in TraceModes => kept \/ mcdsRunning \/ Someone(LinkPcs)
  /\ link = "flash" => InSession
  /\ link = "wide" /\ ~sWide => kept
  /\ "http" \in Actors /\ pc["http"] = "divider" => ~sWide
FlagsOwned ==
  /\ flashActive => "flash" \in Actors /\ pc["flash"] # "idle"
  /\ sessionLocked => InSession

SessionInv == SessionTypeOK /\ LockKept /\ OwnCalls /\ DrainOwned /\ LinkOwned /\ FlagsOwned

Rets == {"idle", "setup", "write", "session"}

(* One actor goes on; the others stay. *)
LEMMA OneMoves ==
  ASSUME SessionInv, NEW p \in Actors, NEW l \in Labels, Goto(p, l),
         ret' = ret \/ \E b \in Rets : ret' = [ret EXCEPT ![p] = b]
  PROVE  /\ pc' \in [Actors -> Labels] /\ ret' \in [Actors -> Rets]
         /\ pc'[p] = l /\ \A a \in Actors \ {p} : pc'[a] = pc[a] /\ ret'[a] = ret[a]
         /\ \A a \in Actors \ {p} : (Held(a))' = Held(a)
         /\ (ret' = ret \/ \E b \in Rets : ret'[p] = b)
  <1>1. pc \in [Actors -> Labels] /\ ret \in [Actors -> Rets]
      BY DEF SessionInv, SessionTypeOK, Rets
  <1>2. /\ pc' \in [Actors -> Labels] /\ pc'[p] = l /\ \A a \in Actors \ {p} : pc'[a] = pc[a]
      BY <1>1 DEF Goto
  <1>3. /\ ret' \in [Actors -> Rets] /\ \A a \in Actors \ {p} : ret'[a] = ret[a]
        /\ (ret' = ret \/ \E b \in Rets : ret'[p] = b)
      BY <1>1
  <1>4. \A a \in Actors \ {p} : (Held(a))' = Held(a)
      BY <1>2, <1>3 DEF Held, Around, Within
  <1> QED BY <1>2, <1>3, <1>4

(* The lock goes along with what an actor holds. *)
LEMMA LockMoves ==
  ASSUME SessionInv, NEW p \in Actors,
         \A a \in Actors \ {p} : (Held(a))' = Held(a),
         \/ UNCHANGED lock /\ (Held(p))' = Held(p)
         \/ dap_lock(p) /\ (Held(p))' = Held(p) + 1
         \/ dap_unlock(p) /\ (Held(p))' = Held(p) - 1
  PROVE  LockKept' /\ owner' \in Actors \cup {"none"} /\ depth' \in 0 .. 2
  <1>1. /\ owner \in Actors \cup {"none"} /\ depth \in 0 .. 2 /\ "none" \notin Actors
        /\ (owner = "none" <=> depth = 0) /\ (\A a \in Actors : a # owner => Held(a) = 0)
        /\ (owner # "none" => depth = Held(owner))
      BY SessionAssumption DEF SessionInv, SessionTypeOK, LockKept
  <1>2. \A a \in Actors : Held(a) \in 0 .. 2 /\ (Held(a))' \in 0 .. 2
      BY DEF Held
  <1>3. CASE UNCHANGED lock /\ (Held(p))' = Held(p)
    <2>1. owner' = owner /\ depth' = depth
        BY <1>3 DEF lock
    <2> QED BY <1>1, <1>3, <2>1 DEF LockKept
  <1>4. CASE dap_lock(p) /\ (Held(p))' = Held(p) + 1
    <2>1. owner \in {"none", p} /\ owner' = p /\ depth' = depth + 1
        BY <1>4 DEF dap_lock, CanLock
    <2>2. depth = Held(p) /\ \A a \in Actors \ {p} : Held(a) = 0
        BY <1>1, <1>2, <2>1
    <2>3. depth' = (Held(p))' /\ depth' # 0
        BY <1>2, <1>4, <2>1, <2>2
    <2> QED BY <1>1, <1>2, <2>1, <2>2, <2>3 DEF LockKept
  <1>5. CASE dap_unlock(p) /\ (Held(p))' = Held(p) - 1
    <2>1. depth' = depth - 1 /\ owner' = (IF depth = 1 THEN "none" ELSE p)
        BY <1>5 DEF dap_unlock
    <2>2. Held(p) # 0
        BY <1>2, <1>5
    <2>3. owner = p /\ depth = Held(p) /\ \A a \in Actors \ {p} : Held(a) = 0
        BY <1>1, <2>2
    <2>4. depth' = (Held(p))' /\ (depth' = 0 <=> depth = 1)
        BY <1>1, <1>5, <2>1, <2>3
    <2> QED BY <1>1, <1>2, <2>1, <2>2, <2>3, <2>4 DEF LockKept
  <1> QED BY <1>3, <1>4, <1>5

-----------------------------------------------------------------------------
(* The session: one actor's step.  What it owes: the lock follows what it   *)
(* holds, and nothing it saw to is left without someone who sees to it.     *)
LockFollows(p) ==
  \/ UNCHANGED lock /\ (Held(p))' = Held(p)
  \/ dap_lock(p) /\ (Held(p))' = Held(p) + 1
  \/ dap_unlock(p) /\ (Held(p))' = Held(p) - 1

LinkHandedOn(p) ==
  /\ pc[p] \in LinkPcs => pc'[p] \in LinkPcs \/ mcdsRunning' \/ link' \notin TraceModes \/ kept'
  /\ link' \in TraceModes => link' = link \/ pc'[p] \in LinkPcs
  /\ link' \in TraceModes /\ kept => kept' \/ pc'[p] \in LinkPcs
  /\ link' = "flash" => link = "flash" \/ (p \in Flashers /\ pc'[p] = "program")
  /\ UNCHANGED <<link, sWide, kept>> \/ (link' = "wide" /\ ~sWide' => kept')
  /\ p = "http" /\ pc'[p] = "divider" => ~sWide'
  /\ sWide' => sWide \/ p = "http"

HandsOn(p) ==
  /\ pc[p] \in DrainPcs => pc'[p] \in DrainPcs \/ mcdsRunning' \/ ~traceRunning'
  /\ mcdsRunning => mcdsRunning' \/ pc'[p] \in DrainPcs \cap LinkPcs
  /\ traceRunning' => traceRunning \/ pc'[p] \in DrainPcs
  /\ LinkHandedOn(p)
  /\ pc[p] = "program" => pc'[p] = "program" \/ (~sessionLocked' /\ link' # "flash")
  /\ sessionLocked' => sessionLocked \/ (p \in Flashers /\ pc'[p] = "program")
  /\ p = "flash" /\ pc'[p] = "idle" => ~flashActive'
  /\ flashActive' => flashActive \/ (p = "flash" /\ pc'[p] # "idle")

LinkTypes ==
  /\ inUse \in BOOLEAN /\ link \in {"attach", "narrow", "wide", "flash"}
  /\ sWide \in BOOLEAN /\ kept \in BOOLEAN

FlagTypes ==
  /\ mcdsRunning \in BOOLEAN /\ traceRunning \in BOOLEAN /\ drainTask \in BOOLEAN
  /\ drain \in {"none", "loop", "pass", "leave"}
  /\ LinkTypes
  /\ flashActive \in BOOLEAN /\ sessionLocked \in BOOLEAN

LEMMA OwnersStay ==
  ASSUME SessionInv, NEW p \in Actors, HandsOn(p),
         \A a \in Actors \ {p} : pc'[a] = pc[a]
  PROVE  DrainOwned' /\ LinkOwned' /\ FlagsOwned'
  <1>1. ASSUME traceRunning' PROVE mcdsRunning' \/ Someone(DrainPcs)'
    <2>1. CASE pc'[p] \in DrainPcs
        BY <2>1 DEF Someone
    <2>2. CASE pc'[p] \notin DrainPcs
      <3>1. traceRunning /\ (mcdsRunning => mcdsRunning') /\ (pc[p] \in DrainPcs => mcdsRunning')
          BY <1>1, <2>2 DEF HandsOn
      <3>2. mcdsRunning \/ \E a \in Actors : pc[a] \in DrainPcs
          BY <3>1 DEF SessionInv, DrainOwned, Someone
      <3> QED BY <3>1, <3>2 DEF Someone
    <2> QED BY <2>1, <2>2
  <1>2. ASSUME link' \in TraceModes
        PROVE  kept' \/ mcdsRunning' \/ Someone(LinkPcs)'
    <2>1. CASE pc'[p] \in LinkPcs
        BY <2>1 DEF Someone
    <2>2. CASE pc'[p] \notin LinkPcs
      <3>1. /\ link' = link /\ (mcdsRunning => mcdsRunning') /\ (kept => kept')
            /\ (pc[p] \in LinkPcs => mcdsRunning' \/ kept')
          BY <1>2, <2>2 DEF HandsOn, LinkHandedOn
      <3>2. kept \/ mcdsRunning \/ \E a \in Actors : pc[a] \in LinkPcs
          BY <1>2, <3>1 DEF SessionInv, LinkOwned, Someone
      <3> QED BY <3>1, <3>2 DEF Someone
    <2> QED BY <2>1, <2>2
  <1>5. ASSUME link' = "flash" PROVE InSession'
    <2>1. CASE p \in Flashers /\ pc'[p] = "program"
        BY <2>1 DEF InSession
    <2>2. CASE ~(p \in Flashers /\ pc'[p] = "program")
      <3>1. link = "flash" /\ (pc[p] = "program" => pc'[p] = "program")
          BY <1>5, <2>2 DEF HandsOn, LinkHandedOn
      <3>2. PICK a \in Flashers : pc[a] = "program"
          BY <3>1 DEF SessionInv, LinkOwned, InSession
      <3>3. pc'[a] = "program"
          BY <3>1, <3>2 DEF Flashers
      <3> QED BY <3>2, <3>3 DEF InSession
    <2> QED BY <2>1, <2>2
  <1>6. link' = "wide" /\ ~sWide' => kept'
      BY DEF HandsOn, LinkHandedOn, SessionInv, LinkOwned
  <1>7. ASSUME "http" \in Actors, pc'["http"] = "divider" PROVE ~sWide'
    <2>1. CASE p = "http"
        BY <1>7, <2>1 DEF HandsOn, LinkHandedOn
    <2>2. CASE p # "http"
        BY <1>7, <2>2 DEF HandsOn, LinkHandedOn, SessionInv, LinkOwned
    <2> QED BY <2>1, <2>2
  <1>3. ASSUME flashActive' PROVE "flash" \in Actors /\ pc'["flash"] # "idle"
    <2>1. CASE p = "flash"
        BY <1>3, <2>1 DEF HandsOn
    <2>2. CASE p # "flash"
        BY <1>3, <2>2 DEF HandsOn, SessionInv, FlagsOwned
    <2> QED BY <2>1, <2>2
  <1>4. ASSUME sessionLocked' PROVE InSession'
    <2>1. CASE p \in Flashers /\ pc'[p] = "program"
        BY <2>1 DEF InSession
    <2>2. CASE ~(p \in Flashers /\ pc'[p] = "program")
      <3>1. sessionLocked /\ (pc[p] = "program" => pc'[p] = "program")
          BY <1>4, <2>2 DEF HandsOn
      <3>2. PICK a \in Flashers : pc[a] = "program"
          BY <3>1 DEF SessionInv, FlagsOwned, InSession
      <3>3. pc'[a] = "program"
          BY <3>1, <3>2 DEF Flashers
      <3> QED BY <3>2, <3>3 DEF InSession
    <2> QED BY <2>1, <2>2
  <1> QED BY <1>1, <1>2, <1>3, <1>4, <1>5, <1>6, <1>7 DEF DrainOwned, LinkOwned, FlagsOwned

LEMMA ActorStep ==
  ASSUME SessionInv, NEW p \in Actors, NEW l \in Labels, Goto(p, l),
         ret' = ret \/ \E b \in Rets : ret' = [ret EXCEPT ![p] = b],
         LockFollows(p), (Own(p))', HandsOn(p), FlagTypes'
  PROVE  SessionInv'
  <1>1. /\ pc' \in [Actors -> Labels] /\ ret' \in [Actors -> Rets]
        /\ \A a \in Actors \ {p} : pc'[a] = pc[a] /\ ret'[a] = ret[a]
        /\ \A a \in Actors \ {p} : (Held(a))' = Held(a)
      BY OneMoves
  <1>2. LockKept' /\ owner' \in Actors \cup {"none"} /\ depth' \in 0 .. 2
      BY <1>1, LockMoves DEF LockFollows
  <1>3. OwnCalls'
    <2>1. ASSUME NEW a \in Actors \ {p} PROVE (Own(a))'
        BY <1>1 DEF SessionInv, OwnCalls, Own, Flashers
    <2> QED BY <2>1 DEF OwnCalls
  <1>4. DrainOwned' /\ LinkOwned' /\ FlagsOwned'
      BY <1>1, OwnersStay
  <1>5. SessionTypeOK'
      BY <1>1, <1>2 DEF SessionTypeOK, FlagTypes, LinkTypes, Rets
  <1> QED BY <1>2, <1>3, <1>4, <1>5 DEF SessionInv

(* What a step finds. *)
LEMMA Found ==
  ASSUME SessionInv, NEW p \in Actors
  PROVE  /\ FlagTypes /\ Own(p) /\ pc \in [Actors -> Labels] /\ ret \in [Actors -> Rets]
         /\ pc[p] \in Labels /\ ret[p] \in Rets
  BY DEF SessionInv, SessionTypeOK, FlagTypes, LinkTypes, OwnCalls, Rets

(* dap_mcds_stop. *)
LEMMA StopOnceKeeps ==
  ASSUME SessionInv, NEW p \in Actors, StopOnce(p)
  PROVE  SessionInv'
  <1>1. /\ pc[p] = "stop" /\ ~mcdsRunning' /\ ret' = ret /\ UNCHANGED lock
        /\ UNCHANGED <<traceRunning, drainTask, drain, mode, flashActive, sessionLocked>>
      BY DEF StopOnce, At, flash, lock
  <1>2. /\ FlagTypes /\ Own(p) /\ pc \in [Actors -> Labels] /\ ret \in [Actors -> Rets]
        /\ ret[p] \in Rets
      BY Found
  <1>3. FlagTypes'
      BY <1>1, <1>2 DEF FlagTypes, LinkTypes, mode, StopOnce
  <1>4. CASE mcdsRunning
    <2>1. Goto(p, "flush") /\ pc'[p] = "flush"
        BY <1>2, <1>4 DEF StopOnce, Goto
    <2>2. LockFollows(p)
        BY <1>1, <2>1 DEF LockFollows, Held, Around, Within, StopPcs
    <2>3. (Own(p))'
        BY <1>1, <1>2, <2>1 DEF Own, StopPcs, Flashers
    <2>4. HandsOn(p)
        BY <1>1, <2>1 DEF HandsOn, LinkHandedOn, mode, DrainPcs, LinkPcs
    <2> QED BY <1>1, <1>3, <2>1, <2>2, <2>3, <2>4, ActorStep DEF Labels
  <1>5. CASE ~mcdsRunning
    <2>1. Goto(p, ret[p]) /\ pc'[p] = ret[p] /\ ret[p] \in {"idle", "setup", "write", "session"}
        BY <1>2, <1>5 DEF StopOnce, Goto, Rets
    <2>2. LockFollows(p)
        BY <1>1, <1>2, <2>1 DEF LockFollows, Held, Around, Within, StopPcs, Own
    <2>3. (Own(p))'
        BY <1>1, <1>2, <2>1 DEF Own, StopPcs, Flashers
    <2>4. HandsOn(p)
        BY <1>1, <1>2, <1>5, <2>1
           DEF HandsOn, LinkHandedOn, mode, DrainPcs, LinkPcs, Own, StopPcs, Flashers
    <2>5. ret[p] \in Labels
        BY <2>1 DEF Labels
    <2> QED BY <1>1, <1>3, <2>1, <2>2, <2>3, <2>4, <2>5, ActorStep
  <1> QED BY <1>4, <1>5

LEMMA StopFlushKeeps ==
  ASSUME SessionInv, NEW p \in Actors, StopFlush(p)
  PROVE  SessionInv'
  <1>1. /\ pc[p] = "flush" /\ Goto(p, "halt") /\ ret' = ret /\ UNCHANGED lock
        /\ UNCHANGED <<mcdsRunning, traceRunning, drainTask, drain, mode>>
        /\ UNCHANGED <<flashActive, sessionLocked>>
      BY DEF StopFlush, At, flash, lock, trace
  <1>2. FlagTypes /\ Own(p) /\ pc \in [Actors -> Labels]
      BY Found
  <1>3. FlagTypes'
      BY <1>1, <1>2 DEF FlagTypes, LinkTypes, mode, StopFlush
  <1>4. pc'[p] = "halt"
      BY <1>1, <1>2 DEF Goto
  <1>5. LockFollows(p)
      BY <1>1, <1>4 DEF LockFollows, Held, Around, Within, StopPcs
  <1>6. (Own(p))'
      BY <1>1, <1>2, <1>4 DEF Own, StopPcs, Flashers
  <1>7. HandsOn(p)
      BY <1>1, <1>4 DEF HandsOn, LinkHandedOn, mode, DrainPcs, LinkPcs
  <1> QED BY <1>1, <1>3, <1>5, <1>6, <1>7, ActorStep DEF Labels

LEMMA StopDrainKeeps ==
  ASSUME SessionInv, NEW p \in Actors, StopDrain(p)
  PROVE  SessionInv'
  <1>1. /\ pc[p] = "halt" /\ Goto(p, "wait") /\ ~traceRunning' /\ ret' = ret /\ UNCHANGED lock
        /\ UNCHANGED <<mcdsRunning, drainTask, drain, mode, flashActive, sessionLocked>>
      BY DEF StopDrain, At, flash, lock
  <1>2. FlagTypes /\ Own(p) /\ pc \in [Actors -> Labels]
      BY Found
  <1>3. FlagTypes'
      BY <1>1, <1>2 DEF FlagTypes, LinkTypes, mode, StopDrain
  <1>4. pc'[p] = "wait"
      BY <1>1, <1>2 DEF Goto
  <1>5. LockFollows(p)
      BY <1>1, <1>4 DEF LockFollows, Held, Around, Within, StopPcs
  <1>6. (Own(p))'
      BY <1>1, <1>2, <1>4 DEF Own, StopPcs, Flashers
  <1>7. HandsOn(p)
      BY <1>1, <1>4 DEF HandsOn, LinkHandedOn, mode, DrainPcs, LinkPcs
  <1> QED BY <1>1, <1>3, <1>5, <1>6, <1>7, ActorStep DEF Labels

LEMMA StopWaitedKeeps ==
  ASSUME SessionInv, NEW p \in Actors, StopWaited(p)
  PROVE  SessionInv'
  <1>1. /\ pc[p] = "wait" /\ Goto(p, "collect") /\ ret' = ret /\ UNCHANGED lock
        /\ UNCHANGED <<mcdsRunning, traceRunning, drainTask, drain, mode>>
        /\ UNCHANGED <<flashActive, sessionLocked>>
      BY DEF StopWaited, At, flash, lock, trace
  <1>2. FlagTypes /\ Own(p) /\ pc \in [Actors -> Labels]
      BY Found
  <1>3. FlagTypes'
      BY <1>1, <1>2 DEF FlagTypes, LinkTypes, mode
  <1>4. pc'[p] = "collect"
      BY <1>1, <1>2 DEF Goto
  <1>5. LockFollows(p)
      BY <1>1, <1>4 DEF LockFollows, Held, Around, Within, StopPcs
  <1>6. (Own(p))'
      BY <1>1, <1>2, <1>4 DEF Own, StopPcs, Flashers
  <1>7. HandsOn(p)
      BY <1>1, <1>4 DEF HandsOn, LinkHandedOn, mode, DrainPcs, LinkPcs
  <1> QED BY <1>1, <1>3, <1>5, <1>6, <1>7, ActorStep DEF Labels

LEMMA StopFinishKeeps ==
  ASSUME SessionInv, NEW p \in Actors, StopFinish(p)
  PROVE  SessionInv'
  <1>1. /\ pc[p] = "collect" /\ ret' = ret /\ dap_lock(p)
        /\ UNCHANGED <<mcdsRunning, drainTask, drain, mode, flashActive, sessionLocked>>
      BY DEF StopFinish, At, flash
  <1>2. FlagTypes /\ Own(p) /\ pc \in [Actors -> Labels]
      BY Found
  <1>3. PICK l \in {"finish", "reset"} :
          /\ Goto(p, l) /\ (l = "finish" => traceRunning')
          /\ (l = "reset" => traceRunning' = traceRunning)
      BY DEF StopFinish
  <1>4. pc'[p] = l /\ l \in Labels
      BY <1>2, <1>3 DEF Goto, Labels
  <1>5. FlagTypes'
    <2>1. LinkTypes'
        BY <1>1, <1>2 DEF FlagTypes, LinkTypes, mode
    <2>2. traceRunning' \in BOOLEAN
        BY <1>2, <1>3 DEF FlagTypes, StopFinish
    <2>3. drainTask' \in BOOLEAN /\ drain' \in {"none", "loop", "pass", "leave"}
        BY <1>1, <1>2 DEF FlagTypes
    <2> QED BY <1>1, <1>2, <2>1, <2>2, <2>3 DEF FlagTypes
  <1>6. LockFollows(p)
      BY <1>1, <1>3, <1>4 DEF LockFollows, Held, Around, Within, StopPcs
  <1>7. (Own(p))'
      BY <1>1, <1>2, <1>3, <1>4 DEF Own, StopPcs, Flashers
  <1>8. HandsOn(p)
      BY <1>1, <1>3, <1>4 DEF HandsOn, LinkHandedOn, mode, DrainPcs, LinkPcs
  <1> QED BY <1>1, <1>3, <1>4, <1>5, <1>6, <1>7, <1>8, ActorStep

LEMMA StopFinishedKeeps ==
  ASSUME SessionInv, NEW p \in Actors, StopFinished(p)
  PROVE  SessionInv'
  <1>1. /\ pc[p] = "finish" /\ Goto(p, "reset") /\ ~traceRunning' /\ ret' = ret /\ UNCHANGED lock
        /\ UNCHANGED <<mcdsRunning, drainTask, drain, mode, flashActive, sessionLocked>>
      BY DEF StopFinished, At, flash, lock
  <1>2. FlagTypes /\ Own(p) /\ pc \in [Actors -> Labels]
      BY Found
  <1>3. FlagTypes'
      BY <1>1, <1>2 DEF FlagTypes, LinkTypes, mode, StopFinished
  <1>4. pc'[p] = "reset"
      BY <1>1, <1>2 DEF Goto
  <1>5. LockFollows(p)
      BY <1>1, <1>4 DEF LockFollows, Held, Around, Within, StopPcs
  <1>6. (Own(p))'
      BY <1>1, <1>2, <1>4 DEF Own, StopPcs, Flashers
  <1>7. HandsOn(p)
      BY <1>1, <1>4 DEF HandsOn, LinkHandedOn, mode, DrainPcs, LinkPcs
  <1> QED BY <1>1, <1>3, <1>5, <1>6, <1>7, ActorStep DEF Labels

LEMMA StopResetKeeps ==
  ASSUME SessionInv, NEW p \in Actors, StopReset(p)
  PROVE  SessionInv'
  <1>1. /\ pc[p] = "reset" /\ Goto(p, ret[p]) /\ dap_unlock(p) /\ ret' = ret
        /\ UNCHANGED <<mcdsRunning, traceRunning, drainTask, drain, flashActive, sessionLocked>>
        /\ inUse' = inUse
      BY DEF StopReset, At, flash, trace
  <1>2. FlagTypes /\ Own(p) /\ pc \in [Actors -> Labels] /\ ret[p] \in Rets
      BY Found
  <1>3. link = "wide" /\ ~sWide => kept
      BY DEF SessionInv, LinkOwned
  <1>4. /\ LinkTypes' /\ (sWide' => sWide) /\ (link' \in TraceModes => kept')
        /\ link' \in {link, "attach"} /\ (link' \notin {"narrow", "wide"} => ~kept')
      BY <1>1, <1>2, <1>3 DEF StopReset, restore_link, Keep, TraceModes, FlagTypes, LinkTypes
  <1>5. FlagTypes'
      BY <1>1, <1>2, <1>4 DEF FlagTypes
  <1>6. pc'[p] = ret[p] /\ ret[p] \in {"idle", "setup", "write", "session"} /\ ret[p] \in Labels
      BY <1>1, <1>2 DEF Goto, Rets, Labels
  <1>7. LockFollows(p)
      BY <1>1, <1>2, <1>6 DEF LockFollows, Held, Around, Within, StopPcs, Own
  <1>8. (Own(p))'
      BY <1>1, <1>2, <1>6 DEF Own, StopPcs, Flashers
  <1>9. LinkHandedOn(p)
      BY <1>1, <1>3, <1>4, <1>6 DEF LinkHandedOn, LinkPcs, TraceModes
  <1>10. HandsOn(p)
      BY <1>1, <1>2, <1>6, <1>9 DEF HandsOn, DrainPcs, LinkPcs, Own, StopPcs, Flashers
  <1> QED BY <1>1, <1>5, <1>6, <1>7, <1>8, <1>10, ActorStep

LEMMA StopKeeps ==
  ASSUME SessionInv, NEW p \in Actors, Stop(p)
  PROVE  SessionInv'
  BY StopOnceKeeps, StopFlushKeeps, StopDrainKeeps, StopWaitedKeeps, StopFinishKeeps,
     StopFinishedKeeps, StopResetKeeps DEF Stop

-----------------------------------------------------------------------------
(* dap_mcds_start. *)
LEMMA StartStopsKeeps ==
  ASSUME SessionInv, "http" \in Actors, StartStops
  PROVE  SessionInv'
  <1>1. /\ pc["http"] = "start" /\ UNCHANGED lock
        /\ UNCHANGED <<mcdsRunning, traceRunning, drainTask, drain, mode>>
        /\ UNCHANGED <<flashActive, sessionLocked>>
      BY DEF StartStops, At, flash, lock, trace
  <1>2. /\ FlagTypes /\ Own("http") /\ pc \in [Actors -> Labels] /\ ret \in [Actors -> Rets]
      BY Found
  <1>3. FlagTypes'
      BY <1>1, <1>2 DEF FlagTypes, LinkTypes, mode
  <1>4. PICK l \in {"stop", "setup"} :
          /\ Goto("http", l)
          /\ \/ l = "stop" /\ ret' = [ret EXCEPT !["http"] = "setup"]
             \/ l = "setup" /\ ret' = ret
      BY DEF StartStops, CallStop
  <1>5. pc'["http"] = l /\ l \in Labels /\ ret'["http"] \in {"setup", ret["http"]}
      BY <1>2, <1>4 DEF Goto, Labels
  <1>6. ret' = ret \/ \E b \in Rets : ret' = [ret EXCEPT !["http"] = b]
      BY <1>4 DEF Rets
  <1>7. LockFollows("http")
      BY <1>1, <1>4, <1>5 DEF LockFollows, Held, Around, Within
  <1>8. (Own("http"))'
      BY <1>1, <1>2, <1>4, <1>5 DEF Own, StopPcs, Flashers
  <1>9. HandsOn("http")
      BY <1>1, <1>4, <1>5 DEF HandsOn, LinkHandedOn, mode, DrainPcs, LinkPcs
  <1> QED BY <1>1, <1>3, <1>4, <1>5, <1>6, <1>7, <1>8, <1>9, ActorStep

LEMMA StartArmKeeps ==
  ASSUME SessionInv, "http" \in Actors, StartArm
  PROVE  SessionInv'
  <1>1. /\ pc["http"] = "setup" /\ dap_lock("http") /\ ret' = ret
        /\ UNCHANGED <<mcdsRunning, traceRunning, drainTask, drain, flashActive, sessionLocked>>
        /\ inUse' = inUse
      BY DEF StartArm, At, flash, trace
  <1>2. FlagTypes /\ Own("http") /\ pc \in [Actors -> Labels]
      BY Found
  <1>3. PICK l \in {"begin", "failed"} : Goto("http", l)
      BY DEF StartArm
  <1>4. pc'["http"] = l /\ l \in Labels
      BY <1>2, <1>3 DEF Goto, Labels
  <1>5. /\ link' \in {link, "narrow", "wide"} /\ sWide' \in BOOLEAN /\ kept' \in BOOLEAN
        /\ (link' = "wide" /\ ~sWide' => kept')
      BY DEF StartArm, SetDiv, TraceModes
  <1>6. FlagTypes'
      BY <1>1, <1>2, <1>5 DEF FlagTypes, LinkTypes
  <1>7. LockFollows("http")
      BY <1>1, <1>3, <1>4 DEF LockFollows, Held, Around, Within, StopPcs
  <1>8. (Own("http"))'
      BY <1>1, <1>2, <1>3, <1>4 DEF Own, StopPcs, Flashers
  <1>9. HandsOn("http")
      BY <1>1, <1>3, <1>4, <1>5 DEF HandsOn, LinkHandedOn, DrainPcs, LinkPcs
  <1> QED BY <1>1, <1>3, <1>4, <1>6, <1>7, <1>8, <1>9, ActorStep

LEMMA StartBeginKeeps ==
  ASSUME SessionInv, "http" \in Actors, StartBegin
  PROVE  SessionInv'
  <1>1. /\ pc["http"] = "begin" /\ ret' = ret /\ UNCHANGED lock
        /\ UNCHANGED <<mcdsRunning, drainTask, drain, mode, flashActive, sessionLocked>>
      BY DEF StartBegin, At, flash, lock
  <1>2. FlagTypes /\ Own("http") /\ pc \in [Actors -> Labels]
      BY Found
  <1>3. PICK l \in {"create", "failed"} :
          /\ Goto("http", l) /\ (l = "create" => traceRunning')
          /\ (l = "failed" => traceRunning' = traceRunning)
      BY DEF StartBegin
  <1>4. pc'["http"] = l /\ l \in Labels
      BY <1>2, <1>3 DEF Goto, Labels
  <1>5. FlagTypes'
    <2>1. LinkTypes'
        BY <1>1, <1>2 DEF FlagTypes, LinkTypes, mode
    <2>2. traceRunning' \in BOOLEAN
        BY <1>2, <1>3 DEF FlagTypes, StartBegin
    <2>3. drainTask' \in BOOLEAN /\ drain' \in {"none", "loop", "pass", "leave"}
        BY <1>1, <1>2 DEF FlagTypes
    <2> QED BY <1>1, <1>2, <2>1, <2>2, <2>3 DEF FlagTypes
  <1>6. LockFollows("http")
      BY <1>1, <1>3, <1>4 DEF LockFollows, Held, Around, Within, StopPcs
  <1>7. (Own("http"))'
      BY <1>1, <1>2, <1>3, <1>4 DEF Own, StopPcs, Flashers
  <1>8. HandsOn("http")
      BY <1>1, <1>3, <1>4 DEF HandsOn, LinkHandedOn, mode, DrainPcs, LinkPcs
  <1> QED BY <1>1, <1>3, <1>4, <1>5, <1>6, <1>7, <1>8, ActorStep

LEMMA StartTaskKeeps ==
  ASSUME SessionInv, "http" \in Actors, StartTask
  PROVE  SessionInv'
  <1>1. /\ pc["http"] = "create" /\ ret' = ret /\ UNCHANGED lock
        /\ UNCHANGED <<mcdsRunning, mode, flashActive, sessionLocked>>
      BY DEF StartTask, At, flash, lock
  <1>2. FlagTypes /\ Own("http") /\ pc \in [Actors -> Labels]
      BY Found
  <1>3. PICK l \in {"unlock", "failed"} :
          /\ Goto("http", l)
          /\ (l = "unlock" => traceRunning' = traceRunning) /\ (l = "failed" => ~traceRunning')
      BY DEF StartTask
  <1>4. pc'["http"] = l /\ l \in Labels
      BY <1>2, <1>3 DEF Goto, Labels
  <1>5. FlagTypes'
    <2>1. LinkTypes'
        BY <1>1, <1>2 DEF FlagTypes, LinkTypes, mode
    <2>2. traceRunning' \in BOOLEAN
        BY <1>2 DEF FlagTypes, StartTask
    <2>3. drainTask' \in BOOLEAN /\ drain' \in {"none", "loop", "pass", "leave"}
        BY <1>1, <1>2 DEF FlagTypes, StartTask
    <2> QED BY <1>1, <1>2, <2>1, <2>2, <2>3 DEF FlagTypes
  <1>6. LockFollows("http")
      BY <1>1, <1>3, <1>4 DEF LockFollows, Held, Around, Within, StopPcs
  <1>7. (Own("http"))'
      BY <1>1, <1>2, <1>3, <1>4 DEF Own, StopPcs, Flashers
  <1>8. HandsOn("http")
      BY <1>1, <1>3, <1>4 DEF HandsOn, LinkHandedOn, mode, DrainPcs, LinkPcs
  <1> QED BY <1>1, <1>3, <1>4, <1>5, <1>6, <1>7, <1>8, ActorStep

LEMMA StartUnlockKeeps ==
  ASSUME SessionInv, "http" \in Actors, StartUnlock
  PROVE  SessionInv'
  <1>1. /\ pc["http"] = "unlock" /\ Goto("http", "started") /\ ret' = ret /\ dap_unlock("http")
        /\ UNCHANGED <<mcdsRunning, traceRunning, drainTask, drain, mode>>
        /\ UNCHANGED <<flashActive, sessionLocked>>
      BY DEF StartUnlock, At, flash, trace
  <1>2. FlagTypes /\ Own("http") /\ pc \in [Actors -> Labels]
      BY Found
  <1>3. FlagTypes'
      BY <1>1, <1>2 DEF FlagTypes, LinkTypes, mode
  <1>4. pc'["http"] = "started"
      BY <1>1, <1>2 DEF Goto
  <1>5. LockFollows("http")
      BY <1>1, <1>4 DEF LockFollows, Held, Around, Within, StopPcs
  <1>6. (Own("http"))'
      BY <1>1, <1>2, <1>4 DEF Own, StopPcs, Flashers
  <1>7. HandsOn("http")
      BY <1>1, <1>4 DEF HandsOn, LinkHandedOn, mode, DrainPcs, LinkPcs
  <1> QED BY <1>1, <1>3, <1>5, <1>6, <1>7, ActorStep DEF Labels

LEMMA StartRunningKeeps ==
  ASSUME SessionInv, "http" \in Actors, StartRunning
  PROVE  SessionInv'
  <1>1. /\ pc["http"] = "started" /\ Goto("http", "idle") /\ ret' = ret /\ UNCHANGED lock
        /\ mcdsRunning'
        /\ UNCHANGED <<traceRunning, drainTask, drain, mode, flashActive, sessionLocked>>
      BY DEF StartRunning, At, flash, lock
  <1>2. FlagTypes /\ Own("http") /\ pc \in [Actors -> Labels]
      BY Found
  <1>3. FlagTypes'
      BY <1>1, <1>2 DEF FlagTypes, LinkTypes, mode, StartRunning
  <1>4. pc'["http"] = "idle"
      BY <1>1, <1>2 DEF Goto
  <1>5. LockFollows("http")
      BY <1>1, <1>4 DEF LockFollows, Held, Around, Within, StopPcs
  <1>6. (Own("http"))'
      BY <1>1, <1>2, <1>4 DEF Own, StopPcs, Flashers
  <1>7. HandsOn("http")
      BY <1>1, <1>4 DEF HandsOn, LinkHandedOn, mode, DrainPcs, LinkPcs
  <1> QED BY <1>1, <1>3, <1>5, <1>6, <1>7, ActorStep DEF Labels

LEMMA StartFailedKeeps ==
  ASSUME SessionInv, "http" \in Actors, StartFailed
  PROVE  SessionInv'
  <1>1. /\ pc["http"] = "failed" /\ Goto("http", "restore") /\ ret' = ret /\ dap_unlock("http")
        /\ UNCHANGED <<mcdsRunning, traceRunning, drainTask, drain, mode>>
        /\ UNCHANGED <<flashActive, sessionLocked>>
      BY DEF StartFailed, At, flash, trace
  <1>2. FlagTypes /\ Own("http") /\ pc \in [Actors -> Labels]
      BY Found
  <1>3. FlagTypes'
      BY <1>1, <1>2 DEF FlagTypes, LinkTypes, mode
  <1>4. pc'["http"] = "restore"
      BY <1>1, <1>2 DEF Goto
  <1>5. LockFollows("http")
      BY <1>1, <1>4 DEF LockFollows, Held, Around, Within, StopPcs
  <1>6. (Own("http"))'
      BY <1>1, <1>2, <1>4 DEF Own, StopPcs, Flashers
  <1>7. HandsOn("http")
      BY <1>1, <1>4 DEF HandsOn, LinkHandedOn, mode, DrainPcs, LinkPcs
  <1> QED BY <1>1, <1>3, <1>5, <1>6, <1>7, ActorStep DEF Labels

LEMMA StartSkipsKeeps ==
  ASSUME SessionInv, "http" \in Actors, StartSkips
  PROVE  SessionInv'
  <1>1. /\ pc["http"] = "restore" /\ ret' = ret /\ UNCHANGED lock
        /\ UNCHANGED <<mcdsRunning, traceRunning, drainTask, drain>>
        /\ UNCHANGED <<flashActive, sessionLocked>> /\ inUse' = inUse
      BY DEF StartSkips, At, flash, trace, lock
  <1>2. FlagTypes /\ Own("http") /\ pc \in [Actors -> Labels]
      BY Found
  <1>3. /\ (link = "wide" /\ ~sWide => kept)
        /\ (pc["http"] = "divider" => ~sWide)
      BY DEF SessionInv, LinkOwned
  <1>4. PICK l \in {"modes", "idle"} : Goto("http", l) /\ (l = "modes" <=> inUse)
      BY DEF StartSkips
  <1>5. pc'["http"] = l /\ l \in Labels
      BY <1>2, <1>4 DEF Goto, Labels
  <1>6. LinkTypes' /\ LinkHandedOn("http")
      BY <1>1, <1>2, <1>3, <1>4, <1>5
         DEF StartSkips, FlagTypes, LinkTypes, LinkHandedOn, LinkPcs, TraceModes
  <1>7. FlagTypes'
      BY <1>1, <1>2, <1>6 DEF FlagTypes
  <1>8. LockFollows("http")
      BY <1>1, <1>4, <1>5 DEF LockFollows, Held, Around, Within, StopPcs
  <1>9. (Own("http"))'
      BY <1>1, <1>2, <1>4, <1>5 DEF Own, StopPcs, Flashers
  <1>10. HandsOn("http")
      BY <1>1, <1>4, <1>5, <1>6 DEF HandsOn, DrainPcs, LinkPcs
  <1> QED BY <1>1, <1>4, <1>5, <1>7, <1>8, <1>9, <1>10, ActorStep

LEMMA StartExitModesKeeps ==
  ASSUME SessionInv, "http" \in Actors, StartExitModes
  PROVE  SessionInv'
  <1>1. /\ pc["http"] = "modes" /\ ret' = ret /\ UNCHANGED lock
        /\ UNCHANGED <<mcdsRunning, traceRunning, drainTask, drain>>
        /\ UNCHANGED <<flashActive, sessionLocked>> /\ inUse' = inUse
      BY DEF StartExitModes, At, flash, trace, lock
  <1>2. FlagTypes /\ Own("http") /\ pc \in [Actors -> Labels]
      BY Found
  <1>3. /\ (link = "wide" /\ ~sWide => kept)
        /\ (pc["http"] = "divider" => ~sWide)
      BY DEF SessionInv, LinkOwned
  <1>4. PICK l \in {"divider"} : Goto("http", l)
      BY DEF StartExitModes
  <1>5. pc'["http"] = l /\ l \in Labels
      BY <1>2, <1>4 DEF Goto, Labels
  <1>6. LinkTypes' /\ LinkHandedOn("http")
      BY <1>1, <1>2, <1>3, <1>4, <1>5
         DEF StartExitModes, exit_modes, FlagTypes, LinkTypes, LinkHandedOn, LinkPcs, TraceModes
  <1>7. FlagTypes'
      BY <1>1, <1>2, <1>6 DEF FlagTypes
  <1>8. LockFollows("http")
      BY <1>1, <1>4, <1>5 DEF LockFollows, Held, Around, Within, StopPcs
  <1>9. (Own("http"))'
      BY <1>1, <1>2, <1>4, <1>5 DEF Own, StopPcs, Flashers
  <1>10. HandsOn("http")
      BY <1>1, <1>4, <1>5, <1>6 DEF HandsOn, DrainPcs, LinkPcs
  <1> QED BY <1>1, <1>4, <1>5, <1>7, <1>8, <1>9, <1>10, ActorStep

LEMMA StartSetDivKeeps ==
  ASSUME SessionInv, "http" \in Actors, StartSetDiv
  PROVE  SessionInv'
  <1>1. /\ pc["http"] = "divider" /\ ret' = ret /\ UNCHANGED lock
        /\ UNCHANGED <<mcdsRunning, traceRunning, drainTask, drain>>
        /\ UNCHANGED <<flashActive, sessionLocked>> /\ inUse' = inUse
      BY DEF StartSetDiv, At, flash, trace, lock
  <1>2. FlagTypes /\ Own("http") /\ pc \in [Actors -> Labels]
      BY Found
  <1>3. /\ (link = "wide" /\ ~sWide => kept)
        /\ (pc["http"] = "divider" => ~sWide)
      BY DEF SessionInv, LinkOwned
  <1>4. PICK l \in {"idle"} : Goto("http", l)
      BY DEF StartSetDiv
  <1>5. pc'["http"] = l /\ l \in Labels
      BY <1>2, <1>4 DEF Goto, Labels
  <1>6. LinkTypes' /\ LinkHandedOn("http")
      BY <1>1, <1>2, <1>3, <1>4, <1>5
         DEF StartSetDiv, SetDiv, Keep, FlagTypes, LinkTypes, LinkHandedOn, LinkPcs, TraceModes
  <1>7. FlagTypes'
      BY <1>1, <1>2, <1>6 DEF FlagTypes
  <1>8. LockFollows("http")
      BY <1>1, <1>4, <1>5 DEF LockFollows, Held, Around, Within, StopPcs
  <1>9. (Own("http"))'
      BY <1>1, <1>2, <1>4, <1>5 DEF Own, StopPcs, Flashers
  <1>10. HandsOn("http")
      BY <1>1, <1>4, <1>5, <1>6 DEF HandsOn, DrainPcs, LinkPcs
  <1> QED BY <1>1, <1>4, <1>5, <1>7, <1>8, <1>9, <1>10, ActorStep

LEMMA StartKeeps ==
  ASSUME SessionInv, "http" \in Actors, Start
  PROVE  SessionInv'
  BY StartStopsKeeps, StartArmKeeps, StartBeginKeeps, StartTaskKeeps, StartUnlockKeeps,
     StartRunningKeeps, StartFailedKeeps, StartSkipsKeeps, StartExitModesKeeps,
     StartSetDivKeeps DEF Start

-----------------------------------------------------------------------------
(* The calls as they begin, and the flash sessions. *)
LEMMA AskedKeeps ==
  ASSUME SessionInv, NEW p \in Actors,
         StopAsked(p) \/ (StartChecked /\ p = "http") \/ (FlashAsked /\ p = "flash")
           \/ (GdbAsked /\ p = "gdb")
  PROVE  SessionInv'
  <1>1. /\ pc[p] = "idle" /\ UNCHANGED lock
        /\ UNCHANGED <<mcdsRunning, traceRunning, drainTask, drain, mode, sessionLocked>>
      BY DEF StopAsked, StartChecked, FlashAsked, GdbAsked, At, flash, lock, trace
  <1>2. FlagTypes /\ Own(p) /\ pc \in [Actors -> Labels] /\ ret \in [Actors -> Rets]
      BY Found
  <1>3. CASE StopAsked(p)
    <2>1. /\ p \in {"http", "watch"} /\ Goto(p, "stop") /\ ret' = [ret EXCEPT ![p] = "idle"]
          /\ flashActive' = flashActive
        BY <1>3 DEF StopAsked, CallStop, flash
    <2>2. pc'[p] = "stop" /\ ret'[p] = "idle"
        BY <1>2, <2>1 DEF Goto
    <2>3. FlagTypes'
        BY <1>1, <1>2, <2>1 DEF FlagTypes, LinkTypes, mode
    <2>4. LockFollows(p) /\ (Own(p))' /\ HandsOn(p)
        BY <1>1, <2>1, <2>2
           DEF LockFollows, Held, Around, Within, Own, Flashers, HandsOn,
               LinkHandedOn, mode,
               DrainPcs, LinkPcs
    <2> QED BY <2>1, <2>3, <2>4, ActorStep DEF Labels, Rets
  <1>4. CASE StartChecked /\ p = "http"
    <2>1. Goto(p, "start") /\ ret' = ret /\ flashActive' = flashActive
        BY <1>4 DEF StartChecked, flash
    <2>2. pc'[p] = "start"
        BY <1>2, <2>1 DEF Goto
    <2>3. FlagTypes'
        BY <1>1, <1>2, <2>1 DEF FlagTypes, LinkTypes, mode
    <2>4. (Own(p))'
        BY <1>2, <1>4, <2>1, <2>2 DEF Own, StopPcs, Flashers
    <2>5. LockFollows(p) /\ HandsOn(p)
        BY <1>1, <1>4, <2>1, <2>2
           DEF LockFollows, Held, Around, Within, Flashers, HandsOn, LinkHandedOn, mode,
               DrainPcs, LinkPcs
    <2> QED BY <2>1, <2>3, <2>4, <2>5, ActorStep DEF Labels
  <1>5. CASE FlashAsked /\ p = "flash"
    <2>1. Goto(p, "stop") /\ ret' = [ret EXCEPT ![p] = "write"] /\ flashActive'
        BY <1>5 DEF FlashAsked, CallStop
    <2>2. pc'[p] = "stop" /\ ret'[p] = "write"
        BY <1>2, <2>1 DEF Goto
    <2>3. FlagTypes'
        BY <1>1, <1>2, <1>5 DEF FlagTypes, LinkTypes, mode, FlashAsked
    <2>4. (Own(p))'
        BY <1>5, <2>2 DEF Own, StopPcs, Flashers
    <2>5. LockFollows(p)
        BY <1>1, <1>5, <2>2 DEF LockFollows, Held, Around, Within, StopPcs
    <2>6. HandsOn(p)
        BY <1>1, <1>5, <2>1, <2>2 DEF HandsOn, LinkHandedOn, mode, DrainPcs, LinkPcs
    <2> QED BY <2>1, <2>3, <2>4, <2>5, <2>6, ActorStep DEF Labels, Rets
  <1>6. CASE GdbAsked /\ p = "gdb"
    <2>1. PICK l \in {"session", "stop"} :
            /\ Goto(p, l)
            /\ \/ l = "session" /\ ret' = ret
               \/ l = "stop" /\ ret' = [ret EXCEPT ![p] = "session"]
        BY <1>6 DEF GdbAsked, CallStop
    <2>2. pc'[p] = l /\ l \in Labels /\ (l = "stop" => ret'[p] = "session")
        BY <1>2, <2>1 DEF Goto, Labels
    <2>3. ret' = ret \/ \E b \in Rets : ret' = [ret EXCEPT ![p] = b]
        BY <2>1 DEF Rets
    <2>4. FlagTypes' /\ flashActive' = flashActive
        BY <1>1, <1>2, <1>6 DEF FlagTypes, LinkTypes, mode, GdbAsked, flash
    <2>5. (Own(p))'
        BY <1>2, <1>6, <2>1, <2>2 DEF Own, StopPcs, Flashers
    <2>6. LockFollows(p) /\ HandsOn(p)
        BY <1>1, <1>6, <2>1, <2>2, <2>4
           DEF LockFollows, Held, Around, Within, HandsOn, LinkHandedOn, mode,
               DrainPcs, LinkPcs
    <2> QED BY <2>1, <2>2, <2>3, <2>4, <2>5, <2>6, ActorStep
  <1> QED BY <1>3, <1>4, <1>5, <1>6

LEMMA GdbAttachKeeps ==
  ASSUME SessionInv, "gdb" \in Actors, GdbAttach \/ GdbAttached
  PROVE  SessionInv'
  <1>1. /\ pc["gdb"] \in {"idle", "attach"} /\ ret' = ret /\ UNCHANGED lock
        /\ UNCHANGED <<mcdsRunning, traceRunning, drainTask, drain>>
        /\ UNCHANGED <<flashActive, sessionLocked>> /\ sWide' = sWide
      BY DEF GdbAttach, GdbAttached, At, flash, trace, lock
  <1>2. FlagTypes /\ Own("gdb") /\ pc \in [Actors -> Labels]
      BY Found
  <1>3. PICK l \in {"attach", "idle"} : Goto("gdb", l)
      BY DEF GdbAttach, GdbAttached
  <1>4. pc'["gdb"] = l /\ l \in Labels
      BY <1>2, <1>3 DEF Goto, Labels
  <1>5. inUse' \in BOOLEAN /\ (UNCHANGED <<link, kept>> \/ (link' = "attach" /\ kept' = FALSE))
      BY DEF GdbAttach, GdbAttached, AttachBegins, AttachEnds
  <1>6. FlagTypes'
      BY <1>1, <1>2, <1>5 DEF FlagTypes, LinkTypes
  <1>7. LockFollows("gdb")
      BY <1>1, <1>3, <1>4 DEF LockFollows, Held, Around, Within, StopPcs
  <1>8. (Own("gdb"))'
      BY <1>1, <1>2, <1>3, <1>4 DEF Own, StopPcs, Flashers
  <1>9. LinkHandedOn("gdb")
      BY <1>1, <1>3, <1>4, <1>5 DEF LinkHandedOn, LinkPcs, TraceModes
  <1>10. HandsOn("gdb")
      BY <1>1, <1>3, <1>4, <1>5, <1>9 DEF HandsOn, DrainPcs, LinkPcs
  <1> QED BY <1>1, <1>3, <1>4, <1>6, <1>7, <1>8, <1>10, ActorStep

LEMMA FlashLockKeeps ==
  ASSUME SessionInv, "flash" \in Actors, FlashLock
  PROVE  SessionInv'
  <1>1. /\ pc["flash"] = "write" /\ dap_lock("flash")
        /\ UNCHANGED <<mcdsRunning, traceRunning, drainTask, drain, mode>>
        /\ UNCHANGED <<flashActive, sessionLocked>>
      BY DEF FlashLock, At, flash, trace
  <1>2. FlagTypes /\ Own("flash") /\ pc \in [Actors -> Labels] /\ ret \in [Actors -> Rets]
      BY Found
  <1>3. PICK l \in {"session", "stop"} :
          /\ Goto("flash", l)
          /\ \/ l = "session" /\ ret' = ret
             \/ l = "stop" /\ ret' = [ret EXCEPT !["flash"] = "session"]
      BY DEF FlashLock, CallStop
  <1>4. pc'["flash"] = l /\ l \in Labels /\ (l = "stop" => ret'["flash"] = "session")
      BY <1>2, <1>3 DEF Goto, Labels
  <1>5. ret' = ret \/ \E b \in Rets : ret' = [ret EXCEPT !["flash"] = b]
      BY <1>3 DEF Rets
  <1>6. FlagTypes'
      BY <1>1, <1>2 DEF FlagTypes, LinkTypes, mode
  <1>7. LockFollows("flash")
      BY <1>1, <1>3, <1>4 DEF LockFollows, Held, Around, Within, StopPcs
  <1>8. (Own("flash"))'
      BY <1>2, <1>3, <1>4 DEF Own, StopPcs, Flashers
  <1>9. HandsOn("flash")
      BY <1>1, <1>3, <1>4 DEF HandsOn, LinkHandedOn, mode, DrainPcs, LinkPcs
  <1> QED BY <1>3, <1>4, <1>5, <1>6, <1>7, <1>8, <1>9, ActorStep

LEMMA SessionBeginKeeps ==
  ASSUME SessionInv, NEW p \in Actors, SessionBegin(p)
  PROVE  SessionInv'
  <1>1. /\ pc[p] = "session" /\ p \in Flashers /\ dap_lock(p) /\ sessionLocked'
        /\ link' = "flash" /\ ~kept' /\ Goto(p, "program") /\ ret' = ret
        /\ UNCHANGED <<mcdsRunning, traceRunning, drainTask, drain, sWide, flashActive>>
      BY DEF SessionBegin, At, trace
  <1>2. FlagTypes /\ Own(p) /\ pc \in [Actors -> Labels]
      BY Found
  <1>3. FlagTypes'
      BY <1>1, <1>2 DEF FlagTypes, LinkTypes, SessionBegin, AttachEnds
  <1>4. pc'[p] = "program"
      BY <1>1, <1>2 DEF Goto
  <1>5. LockFollows(p)
      BY <1>1, <1>4 DEF LockFollows, Held, Around, Within, StopPcs
  <1>6. (Own(p))'
      BY <1>1, <1>2, <1>4 DEF Own, StopPcs, Flashers
  <1>7. HandsOn(p)
      BY <1>1, <1>4 DEF HandsOn, LinkHandedOn, DrainPcs, LinkPcs, TraceModes
  <1> QED BY <1>1, <1>3, <1>5, <1>6, <1>7, ActorStep DEF Labels

LEMMA SessionEndKeeps ==
  ASSUME SessionInv, NEW p \in Actors, SessionEnd(p)
  PROVE  SessionInv'
  <1>1. FlagTypes /\ Own(p) /\ pc \in [Actors -> Labels]
      BY Found
  <1>2. /\ pc[p] = "program" /\ dap_unlock(p) /\ ~sessionLocked' /\ ret' = ret
        /\ (link' = link /\ link = "wide" /\ kept' = kept) \/ (link' = "attach" /\ ~kept')
        /\ inUse' = inUse /\ sWide' = sWide
        /\ UNCHANGED <<mcdsRunning, traceRunning, drainTask, drain, flashActive>>
      BY <1>1 DEF SessionEnd, At, SetDiv, Keep, TraceModes, trace, FlagTypes, LinkTypes
  <1>3. FlagTypes'
      BY <1>2, <1>1 DEF FlagTypes, LinkTypes, SessionEnd, Keep
  <1>4. PICK l \in {"written", "idle"} : Goto(p, l) /\ (l = "written" <=> p = "flash")
      BY DEF SessionEnd
  <1>5. pc'[p] = l /\ l \in Labels
      BY <1>1, <1>4 DEF Goto, Labels
  <1>6. LockFollows(p)
      BY <1>2, <1>4, <1>5 DEF LockFollows, Held, Around, Within, StopPcs
  <1>7. (Own(p))'
      BY <1>2, <1>1, <1>4, <1>5 DEF Own, StopPcs, Flashers
  <1>8. HandsOn(p)
      BY <1>2, <1>4, <1>5 DEF HandsOn, LinkHandedOn, DrainPcs, LinkPcs, TraceModes
  <1> QED BY <1>2, <1>3, <1>4, <1>5, <1>6, <1>7, <1>8, ActorStep

LEMMA FlashWrittenKeeps ==
  ASSUME SessionInv, "flash" \in Actors, FlashWritten
  PROVE  SessionInv'
  <1>1. /\ pc["flash"] = "written" /\ dap_unlock("flash") /\ ~flashActive'
        /\ Goto("flash", "idle") /\ ret' = ret
        /\ UNCHANGED <<mcdsRunning, traceRunning, drainTask, drain, mode, sessionLocked>>
      BY DEF FlashWritten, At, trace
  <1>2. FlagTypes /\ Own("flash") /\ pc \in [Actors -> Labels]
      BY Found
  <1>3. FlagTypes'
      BY <1>1, <1>2 DEF FlagTypes, LinkTypes, mode, FlashWritten
  <1>4. pc'["flash"] = "idle"
      BY <1>1, <1>2 DEF Goto
  <1>5. LockFollows("flash")
      BY <1>1, <1>4 DEF LockFollows, Held, Around, Within, StopPcs
  <1>6. (Own("flash"))'
      BY <1>1, <1>2, <1>4 DEF Own, StopPcs, Flashers
  <1>7. HandsOn("flash")
      BY <1>1, <1>4 DEF HandsOn, LinkHandedOn, mode, DrainPcs, LinkPcs
  <1> QED BY <1>1, <1>3, <1>5, <1>6, <1>7, ActorStep DEF Labels

(* No actor moves. *)
LEMMA NoneMoves ==
  ASSUME SessionInv, DrainTask \/ WebAttach \/ UNCHANGED sessionVars
  PROVE  SessionInv'
  <1>1. /\ UNCHANGED <<pc, ret, owner, depth, mcdsRunning, traceRunning>>
        /\ UNCHANGED <<sWide, flashActive, sessionLocked>>
      BY DEF DrainTask, DrainLoop, DrainPass, DrainLeave, WebAttach, sessionVars, lock, trace,
             mode, flash
  <1>2. drainTask \in BOOLEAN /\ drain \in {"none", "loop", "pass", "leave"} /\ LinkTypes
      BY DEF SessionInv, SessionTypeOK, LinkTypes
  <1>3. drainTask' \in BOOLEAN /\ drain' \in {"none", "loop", "pass", "leave"}
      BY <1>2 DEF DrainTask, DrainLoop, DrainPass, DrainLeave, WebAttach, sessionVars, trace
  <1>4. UNCHANGED <<link, kept>> \/ (link' = "attach" /\ kept' = FALSE)
      BY DEF DrainTask, DrainLoop, DrainPass, DrainLeave, WebAttach, sessionVars, mode
  <1>5. inUse' \in BOOLEAN
      BY <1>2 DEF DrainTask, DrainLoop, DrainPass, DrainLeave, WebAttach, AttachEnds,
                  sessionVars, mode, LinkTypes
  <1>6. LinkTypes'
      BY <1>1, <1>2, <1>4, <1>5 DEF LinkTypes
  <1>7. SessionTypeOK'
      BY <1>1, <1>3, <1>6 DEF SessionInv, SessionTypeOK, LinkTypes
  <1>8. LockKept'
      BY <1>1 DEF SessionInv, LockKept, Held, Around, Within
  <1>9. OwnCalls'
      BY <1>1 DEF SessionInv, OwnCalls, Own
  <1>10. DrainOwned' /\ FlagsOwned'
      BY <1>1 DEF SessionInv, DrainOwned, FlagsOwned, Someone, InSession
  <1>11. LinkOwned'
      BY <1>1, <1>4 DEF SessionInv, LinkOwned, TraceModes, Someone, InSession
  <1> QED BY <1>7, <1>8, <1>9, <1>10, <1>11 DEF SessionInv

-----------------------------------------------------------------------------
LEMMA SessionStarts ==
  ASSUME SessionInit
  PROVE  SessionInv
  <1>1. /\ pc = [p \in Actors |-> "idle"] /\ ret = [p \in Actors |-> "idle"]
        /\ owner = "none" /\ depth = 0 /\ ~traceRunning /\ link = "attach"
        /\ ~sWide /\ ~flashActive /\ ~sessionLocked
      BY DEF SessionInit
  <1>2. SessionTypeOK
    <2>1. pc \in [Actors -> Labels] /\ ret \in [Actors -> {"idle", "setup", "write", "session"}]
        BY <1>1 DEF Labels
    <2>2. owner \in Actors \cup {"none"} /\ depth \in 0 .. 2
        BY <1>1
    <2>3. /\ mcdsRunning \in BOOLEAN /\ traceRunning \in BOOLEAN /\ drainTask \in BOOLEAN
          /\ drain \in {"none", "loop", "pass", "leave"}
          /\ inUse \in BOOLEAN /\ link \in {"attach", "narrow", "wide", "flash"}
          /\ sWide \in BOOLEAN /\ kept \in BOOLEAN
          /\ flashActive \in BOOLEAN /\ sessionLocked \in BOOLEAN
        BY DEF SessionInit
    <2> QED BY <2>1, <2>2, <2>3 DEF SessionTypeOK
  <1>3. LockKept
      BY <1>1, SessionAssumption DEF LockKept, Held, Around, Within, StopPcs
  <1>4. OwnCalls
      BY <1>1 DEF OwnCalls, Own, StopPcs
  <1>5. DrainOwned /\ LinkOwned /\ FlagsOwned
      BY <1>1 DEF DrainOwned, LinkOwned, FlagsOwned, TraceModes
  <1> QED BY <1>2, <1>3, <1>4, <1>5 DEF SessionInv

LEMMA SessionSteps ==
  ASSUME SessionInv, [SessionNext]_sessionVars
  PROVE  SessionInv'
  <1>1. CASE DrainTask \/ WebAttach \/ UNCHANGED sessionVars
      BY <1>1, NoneMoves
  <1>2. ASSUME NEW p \in Actors, Call(p) PROVE SessionInv'
      BY <1>2, StopKeeps, StartKeeps, SessionBeginKeeps, SessionEndKeeps, FlashLockKeeps,
         FlashWrittenKeeps, GdbAttachKeeps DEF Call, Session
  <1>3. ASSUME NEW p \in Actors, StopAsked(p) PROVE SessionInv'
      BY <1>3, AskedKeeps
  <1>4. CASE StartChecked \/ FlashAsked \/ GdbAsked
    <2>1. (StartChecked => "http" \in Actors) /\ (FlashAsked => "flash" \in Actors)
          /\ (GdbAsked => "gdb" \in Actors)
        BY DEF StartChecked, FlashAsked, GdbAsked, At
    <2> QED BY <1>4, <2>1, AskedKeeps
  <1>5. CASE GdbAttach
    <2>1. "gdb" \in Actors
        BY <1>5 DEF GdbAttach, At
    <2> QED BY <1>5, <2>1, GdbAttachKeeps
  <1> QED BY <1>1, <1>2, <1>3, <1>4, <1>5 DEF SessionNext

(* Whatever the tasks of dap_mcds.c, dap_trace.c and tricore_flash.c do to  *)
(* each other: the lock's depth is what its owner has taken and not yet     *)
(* released and nobody else holds any of it; a drain that is asked for and  *)
(* a link in a trace's mode belong to a running trace or to a call that is  *)
(* still on its way, unless a clean-up could not undo the mode; and wide    *)
(* mode is only ever lost track of in that case.                            *)
THEOREM SessionInvariant == SessionSpec => []SessionInv
  <1>1. SessionInit => SessionInv
      BY SessionStarts
  <1>2. SessionInv /\ [SessionNext]_sessionVars => SessionInv'
      BY SessionSteps
  <1> QED BY <1>1, <1>2, PTL DEF SessionSpec

(* The types of the session, and a lock that never nests deeper than the    *)
(* write of tricore_flash_write and one call inside it.                     *)
THEOREM SessionTypesKept == SessionSpec => []SessionTypeOK
  <1>1. SessionInv => SessionTypeOK
      BY DEF SessionInv
  <1> QED BY <1>1, SessionInvariant, PTL

LEMMA QuietIsClean ==
  ASSUME SessionInv
  PROVE  CleanWhenQuiet
  <1> SUFFICES ASSUME Quiet, ~mcdsRunning
               PROVE  /\ owner = "none" /\ depth = 0 /\ ~traceRunning
                      /\ (link = "attach" \/ kept) /\ ~tricore_flash_active
      BY DEF CleanWhenQuiet
  <1>1. \A p \in Actors : pc[p] = "idle"
      BY DEF Quiet
  <1>2. \A p \in Actors : Held(p) = 0
      BY <1>1 DEF Held, Around, Within, StopPcs
  <1>3. /\ owner \in Actors \cup {"none"} /\ depth \in 0 .. 2
        /\ (owner = "none" <=> depth = 0) /\ (owner # "none" => depth = Held(owner))
      BY DEF SessionInv, SessionTypeOK, LockKept
  <1>4. owner = "none" /\ depth = 0
      BY <1>2, <1>3
  <1>5. ~Someone(DrainPcs) /\ ~Someone(LinkPcs) /\ ~InSession
      BY <1>1 DEF Someone, InSession, DrainPcs, LinkPcs, Flashers
  <1>6. ~traceRunning /\ (link = "attach" \/ kept)
      BY <1>5 DEF SessionInv, DrainOwned, LinkOwned, SessionTypeOK, TraceModes
  <1>7. ~tricore_flash_active
      BY <1>1, <1>5 DEF SessionInv, FlagsOwned, tricore_flash_active
  <1> QED BY <1>4, <1>6, <1>7

(* Whatever raced (a stop with a stop, a start with a flash, a watcher with *)
(* either, a setup that failed half way), once every call has returned and  *)
(* no trace runs, the lock is free, no drain is asked for and the link is   *)
(* back at the attach clock, unless restore_link found the fabric out of    *)
(* use or wide mode forgotten.                                              *)
THEOREM SessionCleanWhenQuiet == SessionSpec => []CleanWhenQuiet
  <1>1. SessionInv => CleanWhenQuiet
      BY QuietIsClean
  <1> QED BY <1>1, SessionInvariant, PTL
=============================================================================
