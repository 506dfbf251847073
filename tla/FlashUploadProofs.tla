-------------------------- MODULE FlashUploadProofs --------------------------
(***************************************************************************)
(* Proofs about the web flasher.                                           *)
(*                                                                         *)
(* First UcbWriter, for every set of blocks and any number of faults:      *)
(* types, what a run may change (OnlyWritable), that a header passes the   *)
(* formal check only when it is whole (ClaimsOnlyWhole), at every moment   *)
(* at which the target may lose its power, that "ok" means all of them,    *)
(* and what a run may lose (LossesAreFaults).                              *)
(*                                                                         *)
(* Then FlashUpload, for every set of files and any number of jobs: the    *)
(* job of the web flasher runs the writer as UcbWriter specifies it, so    *)
(* that what is proved of the writer holds under every interleaving of     *)
(* uploads, jobs and resets; and what the job itself promises.             *)
(***************************************************************************)
EXTENDS FlashUpload, FiniteSetTheorems, TLAPS

LEMMA OrderInSeq == BlockOrder \in Seq(Blocks)
  BY UcbAssumption

LEMMA WriteOrderFacts ==
  /\ Len(WriteOrder) = 5
  /\ \A p \in Pages : \E i \in 1 .. 5 : WriteOrder[i] = p
  /\ \A i \in 1 .. 5 : WriteOrder[i] \in Pages
  /\ WriteOrder[5] = "state"
  /\ \A i, j \in 1 .. 5 : WriteOrder[i] = WriteOrder[j] => i = j
  BY DEF WriteOrder, Pages

(* What a write may change: headers the target reports as writable, for an *)
(* image that passes and does not confirm.                                 *)
Writable(b) ==
  /\ b \in Owned \cap Blocks /\ b \in DOMAIN image /\ Acceptable(b)
  /\ reg[b] \in {"UNREAD", "UNLOCKED"}

Writing == ucbPc \in {"block", "erase", "page"}

(* The blocks decided ACT_WRITE, and those of them still to be written. *)
PlanSound ==
  /\ ucbPc = "plan" \/ Writing => \A i \in 1 .. Len(writes) : Writable(writes[i])
  /\ Writing => \A i \in 1 .. Len(todo) : Writable(todo[i])
  /\ ucbPc \in {"erase", "page"} => todo # <<>>

(* In the middle of a header: the pages written so far, and no other. *)
HalfWritten ==
  ucbPc = "page" /\ ~missed =>
    \A i \in 1 .. 5 :
      blk[Current][WriteOrder[i]] =
        IF i <= page THEN image[Current][WriteOrder[i]] ELSE "erased"

UcbInv == UcbTypeOK /\ PlanSound /\ HalfWritten /\ ClaimsOnlyWhole

-----------------------------------------------------------------------------
LEMMA InitInv == UcbInit => UcbInv
  <1> SUFFICES ASSUME UcbInit PROVE UcbInv
      OBVIOUS
  <1> USE DEF UcbInit
  <1>1. OldBlock \in Block /\ Erased \in Block
      BY DEF OldBlock, Erased, Block, Bytes
  <1>2. blk \in [Blocks -> Block] /\ before \in [Blocks -> Block]
      BY <1>1
  <1>3. reg \in [Blocks -> States]
      OBVIOUS
  <1>4. DOMAIN image = {}
      BY DEF NoImage
  <1>5. todo \in Seq(Blocks) /\ writes \in Seq(Blocks)
      OBVIOUS
  <1>6. page \in 0 .. Len(WriteOrder) /\ refused \in Nat /\ failed \in Nat /\ faults \in Nat
      BY WriteOrderFacts
  <1>7. UcbTypeOK
      BY <1>2, <1>3, <1>4, <1>5, <1>6 DEF UcbTypeOK
  <1>8. PlanSound /\ HalfWritten /\ ClaimsOnlyWhole
      BY DEF PlanSound, HalfWritten, ClaimsOnlyWhole, Writing
  <1> QED BY <1>7, <1>8 DEF UcbInv

(* What a block that is being written holds and may hold. *)
LEMMA CurrentWritable ==
  ASSUME UcbInv, ucbPc \in {"block", "erase", "page"}, todo # <<>>
  PROVE  /\ Current \in Blocks /\ Writable(Current)
         /\ image[Current] \in [Pages -> Bytes] /\ blk[Current] \in Block
         /\ Tail(todo) \in Seq(Blocks) /\ todo[1] = Current
         /\ \A i \in 1 .. Len(Tail(todo)) : Writable(Tail(todo)[i])
  <1>1. todo \in Seq(Blocks) /\ Len(todo) >= 1 /\ todo[1] = Current /\ Current \in Blocks
      BY DEF UcbInv, UcbTypeOK, Current
  <1>2. \A i \in 1 .. Len(todo) : Writable(todo[i])
      BY DEF UcbInv, PlanSound, Writing
  <1>3. Writable(Current)
      BY <1>1, <1>2
  <1>4. Tail(todo) \in Seq(Blocks) /\ Len(Tail(todo)) = Len(todo) - 1
        /\ \A i \in 1 .. Len(Tail(todo)) : Tail(todo)[i] = todo[i + 1]
      BY <1>1
  <1>5. image[Current] \in [Pages -> Bytes] /\ blk[Current] \in Block
      BY <1>1, <1>3 DEF UcbInv, UcbTypeOK, Writable
  <1>6. \A i \in 1 .. Len(Tail(todo)) : Writable(Tail(todo)[i])
      BY <1>1, <1>2, <1>4
  <1> QED BY <1>1, <1>3, <1>4, <1>5, <1>6

LEMMA ErasedFacts == /\ Erased \in Block /\ ~Passes(Erased)
                     /\ \A i \in 1 .. 5 : Erased[WriteOrder[i]] = "erased"
  BY WriteOrderFacts DEF Erased, Block, Bytes, Passes, Pages

(* A header all of whose pages hold the image is the image. *)
LEMMA AllPages ==
  ASSUME NEW c \in Block, NEW d \in [Pages -> Bytes],
         \A i \in 1 .. 5 : c[WriteOrder[i]] = d[WriteOrder[i]]
  PROVE  c = d
  <1>1. \A p \in Pages : c[p] = d[p]
      BY WriteOrderFacts
  <1> QED BY <1>1 DEF Block

(* Programming one more page: the header has the type, keeps the pages it  *)
(* had and gets this one; as long as no page was missed it passes only     *)
(* when it is the image.                                                   *)
LEMMA OnePage ==
  ASSUME UcbInv, ucbPc = "page", page < Len(WriteOrder)
  PROVE  /\ WithPage(WriteOrder[page + 1]) \in [Blocks -> Block]
         /\ \A b \in Blocks \ {Current} : WithPage(WriteOrder[page + 1])[b] = blk[b]
         /\ ~missed => \A i \in 1 .. 5 :
              WithPage(WriteOrder[page + 1])[Current][WriteOrder[i]] =
                IF i <= page + 1 THEN image[Current][WriteOrder[i]] ELSE "erased"
  <1> DEFINE p == WriteOrder[page + 1]
             c == [blk[Current] EXCEPT ![p] = image[Current][p]]
  <1>1. todo # <<>>
      BY DEF UcbInv, PlanSound
  <1>2. Current \in Blocks /\ image[Current] \in [Pages -> Bytes] /\ blk[Current] \in Block
      BY <1>1, CurrentWritable
  <1>3. page \in 0 .. 4 /\ page + 1 \in 1 .. 5 /\ p \in Pages
      BY WriteOrderFacts DEF UcbInv, UcbTypeOK
  <1>4. blk \in [Blocks -> Block]
      BY DEF UcbInv, UcbTypeOK
  <1>5. c \in Block /\ \A q \in Pages : c[q] = IF q = p THEN image[Current][p] ELSE blk[Current][q]
      BY <1>2, <1>3 DEF Block
  <1>6. WithPage(p) = [blk EXCEPT ![Current] = c]
      BY DEF WithPage
  <1>7. WithPage(p) \in [Blocks -> Block] /\ WithPage(p)[Current] = c
        /\ \A b \in Blocks \ {Current} : WithPage(p)[b] = blk[b]
      BY <1>2, <1>4, <1>5, <1>6
  <1>8. ASSUME ~missed, NEW i \in 1 .. 5
        PROVE  c[WriteOrder[i]] = IF i <= page + 1 THEN image[Current][WriteOrder[i]] ELSE "erased"
    <2>1. blk[Current][WriteOrder[i]] =
            IF i <= page THEN image[Current][WriteOrder[i]] ELSE "erased"
        BY <1>8 DEF UcbInv, HalfWritten
    <2>2. WriteOrder[i] = p <=> i = page + 1
        BY <1>3, WriteOrderFacts
    <2>3. WriteOrder[i] \in Pages
        BY WriteOrderFacts
    <2> QED BY <1>3, <1>5, <2>1, <2>2, <2>3
  <1> HIDE DEF p, c
  <1>9. WithPage(p) \in [Blocks -> Block] /\ (\A b \in Blocks \ {Current} : WithPage(p)[b] = blk[b])
        /\ (~missed => \A i \in 1 .. 5 : WithPage(p)[Current][WriteOrder[i]] =
              IF i <= page + 1 THEN image[Current][WriteOrder[i]] ELSE "erased")
      BY <1>7, <1>8
  <1> QED BY <1>9 DEF p

(* A header with only its first n pages written passes only when it is the *)
(* image: the confirmation word's page is the last.                        *)
LEMMA PartPasses ==
  ASSUME NEW c \in Block, NEW d \in [Pages -> Bytes], NEW n \in 0 .. 5, Passes(c),
         \A i \in 1 .. 5 : c[WriteOrder[i]] = IF i <= n THEN d[WriteOrder[i]] ELSE "erased"
  PROVE  c = d
  <1>1. c["state"] # "erased"
      BY DEF Passes
  <1>2. n = 5
      BY <1>1, WriteOrderFacts
  <1> QED BY <1>2, AllPages
-----------------------------------------------------------------------------
(* One lemma per kind of step. *)

LEMMA BootTypes == ASSUME Boot PROVE reg' \in [Blocks -> States]
  BY DEF Boot

(* The begin and the end of a run: nothing is decided, all is as it was. *)
LEMMA BeginInv ==
  ASSUME UcbInv, NEW img \in Images, UcbBegin(img) PROVE UcbInv'
  <1> USE DEF UcbBegin
  <1>1. DOMAIN img \subseteq Blocks /\ \A b \in DOMAIN img : img[b] \in [Pages -> Bytes \ {"old"}]
      BY DEF Images
  <1>2. UcbTypeOK'
    <2>1. page' \in 0 .. Len(WriteOrder) /\ refused' \in Nat /\ failed' \in Nat /\ faults' \in Nat
        BY WriteOrderFacts
    <2>2. todo' \in Seq(Blocks) /\ writes' \in Seq(Blocks)
        BY OrderInSeq
    <2>3. blk' \in [Blocks -> Block] /\ before' \in [Blocks -> Block] /\ reg' \in [Blocks -> States]
        BY DEF UcbInv, UcbTypeOK
    <2> QED BY <1>1, <2>1, <2>2, <2>3 DEF UcbTypeOK
  <1>3. (PlanSound /\ HalfWritten /\ ClaimsOnlyWhole)'
      BY DEF PlanSound, HalfWritten, ClaimsOnlyWhole, Writing
  <1> QED BY <1>2, <1>3 DEF UcbInv

LEMMA EndInv == ASSUME UcbInv, UcbEnd PROVE UcbInv'
  <1> USE DEF UcbEnd
  <1>1. UcbTypeOK'
    <2>1. page' \in 0 .. Len(WriteOrder) /\ refused' \in Nat /\ failed' \in Nat /\ faults' \in Nat
        BY WriteOrderFacts
    <2>2. DOMAIN image' = {}
        BY DEF NoImage
    <2>3. todo' \in Seq(Blocks) /\ writes' \in Seq(Blocks)
        OBVIOUS
    <2>4. blk' \in [Blocks -> Block] /\ before' \in [Blocks -> Block] /\ reg' \in [Blocks -> States]
        BY BootTypes DEF UcbInv, UcbTypeOK
    <2> QED BY <2>1, <2>2, <2>3, <2>4 DEF UcbTypeOK
  <1>2. (PlanSound /\ HalfWritten /\ ClaimsOnlyWhole)'
      BY DEF PlanSound, HalfWritten, ClaimsOnlyWhole, Writing
  <1> QED BY <1>1, <1>2 DEF UcbInv

LEMMA ResetInv == ASSUME UcbInv, UcbReset PROVE UcbInv'
  <1> USE DEF UcbReset, run
  <1>1. UcbTypeOK'
      BY BootTypes DEF UcbInv, UcbTypeOK
  <1>2. (PlanSound /\ HalfWritten /\ ClaimsOnlyWhole)'
      BY DEF UcbInv, PlanSound, HalfWritten, ClaimsOnlyWhole, Writing
  <1> QED BY <1>1, <1>2 DEF UcbInv

LEMMA PowerLossInv == ASSUME UcbInv, PowerLoss PROVE UcbInv'
  <1> USE DEF PowerLoss, Fault
  <1>1. UcbTypeOK'
      BY BootTypes DEF UcbInv, UcbTypeOK
  <1>2. (PlanSound /\ HalfWritten /\ ClaimsOnlyWhole)'
      BY DEF UcbInv, PlanSound, HalfWritten, ClaimsOnlyWhole, Writing
  <1> QED BY <1>1, <1>2 DEF UcbInv

(* The plan: only a writable header is decided ACT_WRITE. *)
LEMMA PlanBlockInv == ASSUME UcbInv, PlanBlock PROVE UcbInv'
  <1> DEFINE b == Head(todo)
  <1>1. PICK action \in {"absent", "skip", "refuse", "write"} :
          /\ Decide(b, action)
          /\ action = "write" => b \in Owned /\ b \in DOMAIN image /\ Acceptable(b)
                                 /\ reg[b] \in {"UNREAD", "UNLOCKED"}
          /\ faults' \in Nat
    <2>1. CASE NoFault /\ Decide(b, Decision(b))
        BY <2>1 DEF Decision, NoFault, UcbInv, UcbTypeOK
    <2>2. CASE Fault /\ Decide(b, "refuse")
        BY <2>2 DEF Fault, UcbInv, UcbTypeOK
    <2> QED BY <2>1, <2>2 DEF PlanBlock
  <1>2. ucbPc = "plan" /\ b \in Blocks /\ Tail(todo) \in Seq(Blocks) /\ writes \in Seq(Blocks)
      BY DEF PlanBlock, UcbInv, UcbTypeOK
  <1>3. /\ todo' = Tail(todo)
        /\ writes' = (IF action = "write" THEN Append(writes, b) ELSE writes)
        /\ refused' \in Nat
        /\ UNCHANGED <<blk, reg, image, ucbPc, failed, page, ucbRes, missed, before>>
      BY <1>1 DEF Decide, UcbInv, UcbTypeOK
  <1>4. writes' \in Seq(Blocks) /\ todo' \in Seq(Blocks)
      BY <1>2, <1>3
  <1>5. UcbTypeOK'
      BY <1>1, <1>3, <1>4 DEF UcbInv, UcbTypeOK
  <1>6. \A i \in 1 .. Len(writes') : Writable(writes'[i])
    <2>1. \A i \in 1 .. Len(writes) : Writable(writes[i])
        BY <1>2 DEF UcbInv, PlanSound
    <2>2. CASE action = "write"
      <3>1. Writable(b)
          BY <1>1, <1>2, <2>2 DEF Writable
      <3> QED BY <1>2, <1>3, <2>1, <2>2, <3>1
    <2>3. CASE action # "write"
        BY <1>3, <2>1, <2>3
    <2> QED BY <2>2, <2>3
  <1>7. \A c : Writable(c)' <=> Writable(c)
      BY <1>3 DEF Writable, Acceptable
  <1>8. PlanSound'
      BY <1>2, <1>3, <1>6, <1>7 DEF PlanSound, Writing
  <1>9. HalfWritten' /\ ClaimsOnlyWhole'
      BY <1>2, <1>3 DEF UcbInv, HalfWritten, ClaimsOnlyWhole
  <1> QED BY <1>5, <1>8, <1>9 DEF UcbInv

LEMMA PlannedInv == ASSUME UcbInv, Planned PROVE UcbInv'
  <1> USE DEF Planned
  <1>1. UcbTypeOK'
      BY DEF UcbInv, UcbTypeOK
  <1>2. PlanSound'
      BY DEF UcbInv, PlanSound, Writing, Writable, Acceptable
  <1>3. HalfWritten' /\ ClaimsOnlyWhole'
      BY DEF UcbInv, HalfWritten, ClaimsOnlyWhole
  <1> QED BY <1>1, <1>2, <1>3 DEF UcbInv

LEMMA WrittenInv == ASSUME UcbInv, Written PROVE UcbInv'
  <1> USE DEF Written
  <1>1. UcbTypeOK'
      BY DEF UcbInv, UcbTypeOK
  <1>2. (PlanSound /\ HalfWritten /\ ClaimsOnlyWhole)'
      BY DEF UcbInv, PlanSound, HalfWritten, ClaimsOnlyWhole, Writing
  <1> QED BY <1>1, <1>2 DEF UcbInv

(* A failure gives up the current header, and no more. *)
LEMMA FailureKeeps ==
  ASSUME UcbInv, Writing, todo # <<>>, ucbPc' = "block", todo' = Tail(todo),
         UNCHANGED <<reg, image, writes>>
  PROVE  PlanSound' /\ HalfWritten' /\ todo' \in Seq(Blocks)
  <1>1. todo' \in Seq(Blocks) /\ \A i \in 1 .. Len(todo') : Writable(todo'[i])
      BY CurrentWritable DEF Writing
  <1>2. \A i \in 1 .. Len(writes) : Writable(writes[i])
      BY DEF UcbInv, PlanSound
  <1>3. \A c : Writable(c)' <=> Writable(c)
      BY DEF Writable, Acceptable
  <1> QED BY <1>1, <1>2, <1>3 DEF PlanSound, HalfWritten, Writing
LEMMA BlockStartedInv == ASSUME UcbInv, BlockStarted PROVE UcbInv'
  <1> USE DEF BlockStarted
  <1>1. UcbTypeOK'
      BY DEF UcbInv, UcbTypeOK
  <1>2. PlanSound'
      BY DEF UcbInv, PlanSound, Writing, Writable, Acceptable
  <1>3. HalfWritten' /\ ClaimsOnlyWhole'
      BY DEF UcbInv, HalfWritten, ClaimsOnlyWhole
  <1> QED BY <1>1, <1>2, <1>3 DEF UcbInv

(* Failures that leave the headers alone. *)
LEMMA QuietFailureInv ==
  ASSUME UcbInv, BlockNotStarted \/ ReadBackFails \/ ReadBack PROVE UcbInv'
  <1>1. /\ Writing /\ todo # <<>> /\ ucbPc' = "block" /\ todo' = Tail(todo)
        /\ UNCHANGED <<blk, reg, image, writes, refused, page, ucbRes, missed, before>>
        /\ failed' \in Nat /\ faults' \in Nat
    <2> USE DEF UcbInv, UcbTypeOK, PlanSound, Writing
    <2>1. CASE BlockNotStarted
        BY <2>1 DEF BlockNotStarted, WriteFails, Fault
    <2>2. CASE ReadBackFails
        BY <2>2 DEF ReadBackFails, WriteFails, Fault
    <2>3. CASE ReadBack
        BY <2>3 DEF ReadBack
    <2> QED BY <2>1, <2>2, <2>3
  <1>2. PlanSound' /\ HalfWritten' /\ todo' \in Seq(Blocks)
      BY <1>1, FailureKeeps
  <1>3. UcbTypeOK'
      BY <1>1, <1>2 DEF UcbInv, UcbTypeOK
  <1>4. ClaimsOnlyWhole'
      BY <1>1 DEF UcbInv, ClaimsOnlyWhole
  <1> QED BY <1>2, <1>3, <1>4 DEF UcbInv

(* An erase: the header claims nothing any more. *)
LEMMA EraseClaims ==
  ASSUME UcbInv, blk' \in {blk, [blk EXCEPT ![Current] = Erased]},
         UNCHANGED <<image, missed, before>>
  PROVE  blk' \in [Blocks -> Block] /\ ClaimsOnlyWhole'
  <1>1. blk \in [Blocks -> Block]
      BY DEF UcbInv, UcbTypeOK
  <1>2. blk' \in [Blocks -> Block] /\ \A b \in Blocks : blk'[b] = blk[b] \/ blk'[b] = Erased
      BY <1>1, ErasedFacts
  <1>3. ClaimsOnlyWhole'
      BY <1>2, ErasedFacts DEF UcbInv, ClaimsOnlyWhole
  <1> QED BY <1>2, <1>3

LEMMA EraseDoneInv == ASSUME UcbInv, EraseDone PROVE UcbInv'
  <1> USE DEF EraseDone
  <1>1. todo # <<>>
      BY DEF UcbInv, PlanSound
  <1>2. blk' \in [Blocks -> Block] /\ ClaimsOnlyWhole'
      BY EraseClaims
  <1>3. page' \in 0 .. Len(WriteOrder)
      BY WriteOrderFacts
  <1>4. UcbTypeOK'
      BY <1>2, <1>3 DEF UcbInv, UcbTypeOK
  <1>5. PlanSound'
      BY <1>1 DEF UcbInv, PlanSound, Writing, Writable, Acceptable
  <1>6. blk'[Current] = Erased /\ Current' = Current
      BY <1>1, CurrentWritable DEF UcbInv, UcbTypeOK, Current
  <1>7. HalfWritten'
      BY <1>6, ErasedFacts DEF HalfWritten
  <1> QED BY <1>2, <1>4, <1>5, <1>7 DEF UcbInv

LEMMA EraseFailsInv == ASSUME UcbInv, EraseFails PROVE UcbInv'
  <1> USE DEF EraseFails, WriteFails
  <1>1. todo # <<>> /\ Writing
      BY DEF UcbInv, PlanSound, Writing
  <1>2. blk' \in [Blocks -> Block] /\ ClaimsOnlyWhole'
      BY EraseClaims
  <1>3. PlanSound' /\ HalfWritten' /\ todo' \in Seq(Blocks)
      BY <1>1, FailureKeeps
  <1>4. UcbTypeOK'
      BY <1>2, <1>3 DEF UcbInv, UcbTypeOK, Fault
  <1> QED BY <1>2, <1>3, <1>4 DEF UcbInv

(* A page that is programmed. *)
LEMMA PageClaims ==
  ASSUME UcbInv, ucbPc = "page", page < Len(WriteOrder),
         blk' \in {blk, WithPage(WriteOrder[page + 1])}, UNCHANGED <<image, missed, before>>
  PROVE  blk' \in [Blocks -> Block] /\ ClaimsOnlyWhole'
  <1>1. todo # <<>>
      BY DEF UcbInv, PlanSound
  <1>2. Current \in Blocks /\ image[Current] \in [Pages -> Bytes] /\ Current \in DOMAIN image
      BY <1>1, CurrentWritable DEF Writable
  <1>3. blk \in [Blocks -> Block] /\ page + 1 \in 0 .. 5
      BY WriteOrderFacts DEF UcbInv, UcbTypeOK
  <1>4. CASE blk' = blk
      BY <1>3, <1>4 DEF UcbInv, ClaimsOnlyWhole
  <1>5. CASE blk' = WithPage(WriteOrder[page + 1])
    <2>1. blk' \in [Blocks -> Block]
        BY <1>5, OnePage
    <2>2. ASSUME NEW b \in Blocks, Passes(blk'[b]), ~missed
          PROVE  blk'[b] = before[b] \/ (b \in DOMAIN image /\ blk'[b] = image[b])
      <3>1. CASE b = Current
        <4>1. \A i \in 1 .. 5 : blk'[b][WriteOrder[i]] =
                IF i <= page + 1 THEN image[b][WriteOrder[i]] ELSE "erased"
            BY <1>5, <2>2, <3>1, OnePage
        <4>2. blk'[b] \in Block
            BY <2>1
        <4>3. blk'[b] = image[b]
            BY <1>2, <1>3, <2>2, <3>1, <4>1, <4>2, PartPasses
        <4> QED BY <1>2, <3>1, <4>3
      <3>2. CASE b # Current
        <4>1. blk'[b] = blk[b]
            BY <1>5, <3>2, OnePage
        <4> QED BY <2>2, <4>1 DEF UcbInv, ClaimsOnlyWhole
      <3> QED BY <3>1, <3>2
    <2>3. ClaimsOnlyWhole'
        BY <2>2 DEF ClaimsOnlyWhole
    <2> QED BY <2>1, <2>3
  <1> QED BY <1>4, <1>5

LEMMA PageDoneInv == ASSUME UcbInv, PageDone PROVE UcbInv'
  <1> USE DEF PageDone
  <1>1. blk' \in [Blocks -> Block] /\ ClaimsOnlyWhole'
      BY PageClaims
  <1>2. page' \in 0 .. Len(WriteOrder)
      BY WriteOrderFacts DEF UcbInv, UcbTypeOK
  <1>3. UcbTypeOK'
      BY <1>1, <1>2 DEF UcbInv, UcbTypeOK
  <1>4. PlanSound'
      BY DEF UcbInv, PlanSound, Writing, Writable, Acceptable
  <1>5. HalfWritten'
      BY OnePage DEF HalfWritten, Current
  <1> QED BY <1>1, <1>3, <1>4, <1>5 DEF UcbInv

LEMMA PageFailsInv == ASSUME UcbInv, PageFails PROVE UcbInv'
  <1> USE DEF PageFails, WriteFails
  <1>1. todo # <<>> /\ Writing
      BY DEF UcbInv, PlanSound, Writing
  <1>2. blk' \in [Blocks -> Block] /\ ClaimsOnlyWhole'
      BY PageClaims
  <1>3. PlanSound' /\ HalfWritten' /\ todo' \in Seq(Blocks)
      BY <1>1, FailureKeeps
  <1>4. UcbTypeOK'
      BY <1>2, <1>3 DEF UcbInv, UcbTypeOK, Fault
  <1> QED BY <1>2, <1>3, <1>4 DEF UcbInv

LEMMA PageMissedInv == ASSUME UcbInv, PageMissed PROVE UcbInv'
  <1> USE DEF PageMissed, Fault
  <1>1. page' \in 0 .. Len(WriteOrder)
      BY WriteOrderFacts DEF UcbInv, UcbTypeOK
  <1>2. UcbTypeOK'
      BY <1>1 DEF UcbInv, UcbTypeOK
  <1>3. PlanSound'
      BY DEF UcbInv, PlanSound, Writing, Writable, Acceptable
  <1>4. HalfWritten' /\ ClaimsOnlyWhole'
      BY DEF HalfWritten, ClaimsOnlyWhole
  <1> QED BY <1>2, <1>3, <1>4 DEF UcbInv

-----------------------------------------------------------------------------
LEMMA StepInv == ASSUME UcbInv, UcbStep PROVE UcbInv'
  BY PlanBlockInv, PlannedInv, BlockStartedInv, QuietFailureInv, EraseDoneInv, EraseFailsInv,
     PageDoneInv, PageFailsInv, PageMissedInv, WrittenInv, PowerLossInv DEF UcbStep

LEMMA StutterInv == ASSUME UcbInv, UNCHANGED ucbVars PROVE UcbInv'
  <1> USE DEF ucbVars, run
  <1>1. UcbTypeOK'
      BY DEF UcbInv, UcbTypeOK
  <1>2. PlanSound'
      BY DEF UcbInv, PlanSound, Writing, Writable, Acceptable
  <1>3. HalfWritten' /\ ClaimsOnlyWhole'
      BY DEF UcbInv, HalfWritten, ClaimsOnlyWhole, Current
  <1> QED BY <1>1, <1>2, <1>3 DEF UcbInv

LEMMA NextInv == ASSUME UcbInv, [UcbNext]_ucbVars PROVE UcbInv'
  BY StepInv, EndInv, ResetInv, BeginInv, StutterInv DEF UcbNext

(* For every set of headers, every image and any number of faults the      *)
(* writer's state stays in its types, and what is written is what the plan *)
(* allowed.                                                                *)
THEOREM UcbInvariant == UcbSpec => []UcbInv
  <1>1. UcbInit => UcbInv
      BY InitInv
  <1>2. UcbInv /\ [UcbNext]_ucbVars => UcbInv'
      BY NextInv
  <1> QED BY <1>1, <1>2, PTL DEF UcbSpec

(* A header that passes the formal check is whole, at every moment and so  *)
(* after a power loss at any moment (tricore_ucb.c:16-18, write_block's    *)
(* page order).                                                            *)
THEOREM UcbClaimsOnlyWhole == UcbSpec => []ClaimsOnlyWhole
  <1>1. UcbInv => ClaimsOnlyWhole
      BY DEF UcbInv
  <1> QED BY <1>1, UcbInvariant, PTL

(* A step changes only a header that the plan found writable. *)
LEMMA StepWritable ==
  ASSUME UcbInv, [UcbNext]_ucbVars, NEW b \in Blocks, blk'[b] # blk[b]
  PROVE  Writable(b)
  <1>1. CASE EraseDone \/ EraseFails \/ PageDone \/ PageFails
    <2>1. todo # <<>> /\ Writing
        BY <1>1 DEF UcbInv, PlanSound, Writing, EraseDone, EraseFails, PageDone, PageFails
    <2>2. Writable(Current)
        BY <2>1, CurrentWritable DEF Writing
    <2>3. b = Current
        BY <1>1 DEF EraseDone, EraseFails, PageDone, PageFails, WithPage, UcbInv, UcbTypeOK
    <2> QED BY <2>2, <2>3
  <1>2. CASE UNCHANGED blk
      BY <1>2
  <1>3. UNCHANGED blk \/ EraseDone \/ EraseFails \/ PageDone \/ PageFails
      BY DEF UcbNext, UcbStep, UcbEnd, UcbReset, UcbBegin, PlanBlock, Decide, Planned, BlockStarted,
             BlockNotStarted, PageMissed, ReadBack, ReadBackFails, Written, PowerLoss, ucbVars
  <1> QED BY <1>1, <1>2, <1>3

(* Only boot mode headers change, which the target reports as writable,    *)
(* for an image that passes the check and confirms nothing (plan_block).   *)
THEOREM UcbOnlyWritable == UcbSpec => OnlyWritable
  <1>1. UcbInv /\ [UcbNext]_ucbVars =>
          [\A b \in Blocks : blk'[b] # blk[b] =>
             /\ b \in Owned
             /\ reg[b] \in {"UNREAD", "UNLOCKED"}
             /\ b \in DOMAIN image /\ Passes(image[b]) /\ image[b]["state"] # "lock"]_ucbVars
      BY StepWritable DEF Writable, Acceptable
  <1> QED BY <1>1, UcbInvariant, PTL DEF UcbSpec, OnlyWritable
-----------------------------------------------------------------------------
(* A run that answers "ok" has seen to every header of its image: what is  *)
(* yet to be decided or written, what holds the image, and what was        *)
(* refused or failed make up all of them.                                  *)
Wanted == Owned \cap DOMAIN image
Pending(s, b) == \E i \in 1 .. Len(s) : s[i] = b

OkMeansAll == ucbPc = "done" /\ ucbRes = "ok" => \A b \in Wanted : blk[b] = image[b]

Covered ==
  /\ ucbPc = "plan" /\ refused = 0 =>
       \A b \in Wanted : blk[b] = image[b] \/ Pending(todo, b) \/ Pending(writes, b)
  /\ Writing /\ refused = 0 /\ failed = 0 =>
       \A b \in Wanted : blk[b] = image[b] \/ Pending(todo, b)
  /\ OkMeansAll

LEMMA TailPending ==
  ASSUME todo \in Seq(Blocks), todo # <<>>, NEW b, Pending(todo, b), b # Current
  PROVE  Pending(Tail(todo), b)
  <1>1. PICK i \in 1 .. Len(todo) : todo[i] = b
      BY DEF Pending
  <1>2. i # 1 /\ i - 1 \in 1 .. Len(Tail(todo)) /\ Tail(todo)[i - 1] = b
      BY <1>1 DEF Current
  <1> QED BY <1>2 DEF Pending

LEMMA CurrentPending ==
  ASSUME todo \in Seq(Blocks), todo # <<>> PROVE Pending(todo, Current)
  BY DEF Pending, Current

LEMMA BeginCovered ==
  ASSUME UcbInv, NEW img \in Images, UcbBegin(img) PROVE Covered'
  <1>1. \A b \in DOMAIN img : Pending(BlockOrder, b)
      BY OrderInSeq DEF Images, Blocks, ToSet, Pending
  <1> QED BY <1>1 DEF UcbBegin, Covered, Writing, OkMeansAll, Wanted

LEMMA PlanCovered == ASSUME UcbInv, Covered, PlanBlock PROVE Covered'
  <1> DEFINE c == Head(todo)
  <1>1. PICK action \in {"absent", "skip", "refuse", "write"} :
          /\ Decide(c, action)
          /\ action = "absent" => c \notin DOMAIN image
          /\ action = "skip" => c \notin Owned \/ blk[c] = image[c]
    <2>1. CASE NoFault /\ Decide(c, Decision(c))
        BY <2>1 DEF Decision
    <2>2. CASE Fault /\ Decide(c, "refuse")
        BY <2>2
    <2> QED BY <2>1, <2>2 DEF PlanBlock
  <1>2. /\ ucbPc = "plan" /\ ucbPc' = "plan" /\ todo # <<>> /\ todo' = Tail(todo)
        /\ writes' = (IF action = "write" THEN Append(writes, c) ELSE writes)
        /\ refused' = (IF action = "refuse" THEN refused + 1 ELSE refused)
        /\ UNCHANGED <<blk, image>>
        /\ todo \in Seq(Blocks) /\ writes \in Seq(Blocks) /\ refused \in Nat
      BY <1>1 DEF PlanBlock, Decide, UcbInv, UcbTypeOK
  <1>3. ASSUME refused' = 0, NEW b \in Wanted
        PROVE  blk[b] = image[b] \/ Pending(todo', b) \/ Pending(writes', b)
    <2>1. refused = 0 /\ action # "refuse"
        BY <1>2, <1>3
    <2>2. blk[b] = image[b] \/ Pending(todo, b) \/ Pending(writes, b)
        BY <1>2, <2>1 DEF Covered
    <2>3. CASE Pending(writes, b)
        BY <1>2, <2>3 DEF Pending
    <2>4. CASE Pending(todo, b) /\ b # c
        BY <1>2, <2>4, TailPending DEF Current
    <2>5. CASE b = c /\ action = "write"
      <3>1. writes' = Append(writes, c)
          BY <1>2, <2>5
      <3>2. Len(writes') = Len(writes) + 1 /\ writes'[Len(writes) + 1] = b /\ Len(writes) \in Nat
          BY <1>2, <2>5, <3>1
      <3> QED BY <3>2 DEF Pending
    <2>6. CASE b = c /\ action # "write"
        BY <1>1, <1>3, <2>1, <2>6 DEF Wanted
    <2> QED BY <2>2, <2>3, <2>4, <2>5, <2>6
  <1> QED BY <1>2, <1>3 DEF Covered, Writing, OkMeansAll, Wanted

LEMMA PlannedCovered == ASSUME UcbInv, Covered, Planned PROVE Covered'
  <1>1. CASE writes = <<>>
      BY <1>1 DEF Planned, Covered, Writing, OkMeansAll, Wanted, Pending
  <1>2. CASE writes # <<>>
      BY <1>2 DEF Planned, Covered, Writing, OkMeansAll, Wanted, Pending
  <1> QED BY <1>1, <1>2

(* Giving up a header counts as a failure. *)
LEMMA FailureCovers ==
  ASSUME UcbInv, WriteFails PROVE Covered'
  <1>1. failed' # 0 /\ ucbPc' = "block"
      BY DEF WriteFails, UcbInv, UcbTypeOK
  <1> QED BY <1>1 DEF Covered, Writing, OkMeansAll

(* Erasing and programming the header at hand leaves the others. *)
LEMMA WritingCovers ==
  ASSUME UcbInv, Covered, ucbPc \in {"erase", "page"}, ucbPc' = "page",
         \A b \in Blocks \ {Current} : blk'[b] = blk[b],
         UNCHANGED <<image, todo, refused, failed>>
  PROVE  Covered'
  <1>1. todo # <<>> /\ todo \in Seq(Blocks)
      BY DEF UcbInv, PlanSound, UcbTypeOK
  <1>2. \A b \in Wanted : b \in Blocks
      BY DEF UcbInv, UcbTypeOK, Wanted
  <1>3. Pending(todo, Current)
      BY <1>1, CurrentPending
  <1> QED BY <1>2, <1>3 DEF Covered, Writing, OkMeansAll, Wanted, Pending

LEMMA ReadBackCovered == ASSUME UcbInv, Covered, ReadBack PROVE Covered'
  <1>1. todo # <<>> /\ todo \in Seq(Blocks) /\ failed \in Nat /\ Writing
      BY DEF ReadBack, UcbInv, PlanSound, UcbTypeOK, Writing
  <1>2. /\ ucbPc' = "block" /\ todo' = Tail(todo) /\ UNCHANGED <<blk, image, refused>>
        /\ failed' = 0 => failed = 0 /\ blk[Current] = image[Current]
      BY <1>1 DEF ReadBack
  <1>3. ASSUME refused' = 0, failed' = 0, NEW b \in Wanted
        PROVE  blk[b] = image[b] \/ Pending(todo', b)
    <2>1. blk[b] = image[b] \/ Pending(todo, b)
        BY <1>1, <1>2, <1>3 DEF Covered
    <2>2. CASE Pending(todo, b) /\ b # Current
        BY <1>1, <1>2, <2>2, TailPending
    <2> QED BY <1>2, <1>3, <2>1, <2>2
  <1> QED BY <1>2, <1>3 DEF Covered, Writing, OkMeansAll, Wanted

LEMMA NextCovered == ASSUME UcbInv, Covered, [UcbNext]_ucbVars PROVE Covered'
  <1>1. CASE UNCHANGED ucbVars
      BY <1>1 DEF ucbVars, run, Covered, Writing, OkMeansAll, Wanted, Pending
  <1>2. CASE UcbEnd
      BY <1>2 DEF UcbEnd, Covered, Writing, OkMeansAll
  <1>3. CASE UcbReset
      BY <1>3 DEF UcbReset, run, Covered, Writing, OkMeansAll
  <1>4. CASE \E img \in Images : UcbBegin(img)
      BY <1>4, BeginCovered
  <1>5. CASE PlanBlock
      BY <1>5, PlanCovered
  <1>6. CASE Planned
      BY <1>6, PlannedCovered
  <1>7. CASE BlockStarted
      BY <1>7 DEF BlockStarted, Covered, Writing, OkMeansAll, Wanted, Pending
  <1>8. CASE BlockNotStarted \/ EraseFails \/ PageFails \/ ReadBackFails
      BY <1>8, FailureCovers DEF BlockNotStarted, EraseFails, PageFails, ReadBackFails
  <1>9. CASE EraseDone
    <2>1. \A b \in Blocks \ {Current} : blk'[b] = blk[b]
        BY <1>9 DEF EraseDone, UcbInv, UcbTypeOK
    <2> QED BY <1>9, <2>1, WritingCovers DEF EraseDone
  <1>10. CASE PageDone
    <2>1. \A b \in Blocks \ {Current} : blk'[b] = blk[b]
        BY <1>10, OnePage DEF PageDone
    <2> QED BY <1>10, <2>1, WritingCovers DEF PageDone
  <1>11. CASE PageMissed
      BY <1>11, WritingCovers DEF PageMissed
  <1>12. CASE ReadBack
      BY <1>12, ReadBackCovered
  <1>13. CASE Written
      BY <1>13 DEF Written, Covered, Writing, OkMeansAll, Wanted, Pending
  <1>14. CASE PowerLoss
      BY <1>14 DEF PowerLoss, Covered, Writing, OkMeansAll
  <1> QED BY <1>1, <1>2, <1>3, <1>4, <1>5, <1>6, <1>7, <1>8, <1>9, <1>10, <1>11, <1>12, <1>13,
             <1>14 DEF UcbNext, UcbStep

(* When tricore_ucb_program returns ESP_OK, every boot mode header of the  *)
(* image is on the target, whatever the faults.                            *)
THEOREM UcbOkMeansAll == UcbSpec => []OkMeansAll
  <1>1. UcbInit => Covered
      BY DEF UcbInit, Covered, Writing, OkMeansAll
  <1>2. UcbInv /\ Covered /\ [UcbNext]_ucbVars => Covered'
      BY NextCovered
  <1>3. Covered => OkMeansAll
      BY DEF Covered
  <1> QED BY <1>1, <1>2, <1>3, UcbInvariant, PTL DEF UcbSpec

-----------------------------------------------------------------------------
(* The headers a run has lost so far, and the fault each of them cost.     *)
Lost == {b \in Blocks : Passes(before[b]) /\ ~Passes(blk[b])}

(* The header being written misses a page already passed. *)
Gap == \E i \in 1 .. 5 : i <= page /\ blk[Current][WriteOrder[i]] # image[Current][WriteOrder[i]]

LossesCounted ==
  IF ucbPc = "page"
  THEN Cardinality(Lost \ {Current}) + (IF Gap THEN 1 ELSE 0) <= faults
  ELSE Cardinality(Lost) <= faults

LEMMA BlocksFinite == IsFiniteSet(Blocks)
  <1> DEFINE D == 1 .. Len(BlockOrder)
             f == [i \in D |-> BlockOrder[i]]
  <1>1. IsFiniteSet(D)
      BY OrderInSeq, FS_Interval
  <1>2. Blocks = {BlockOrder[i] : i \in D}
      BY OrderInSeq DEF Blocks, ToSet
  <1>3. f \in Surjection(D, Blocks)
      BY <1>2, Zenon DEF Surjection
  <1> HIDE DEF f, D
  <1> QED BY <1>1, <1>3, FS_Surjection

(* One more header lost at most: the count grows by one at most. *)
LEMMA LostFinite ==
  /\ IsFiniteSet(Lost) /\ Cardinality(Lost) \in Nat
  /\ IsFiniteSet(Lost \ {Current}) /\ Cardinality(Lost \ {Current}) \in Nat
  /\ Cardinality(Lost) <= Cardinality(Lost \ {Current}) + 1
  /\ Current \notin Lost => Lost \ {Current} = Lost
  <1>1. IsFiniteSet(Lost)
      BY BlocksFinite, FS_Subset DEF Lost
  <1>2. IsFiniteSet(Lost \ {Current})
        /\ Cardinality(Lost \ {Current}) =
             IF Current \in Lost THEN Cardinality(Lost) - 1 ELSE Cardinality(Lost)
      BY <1>1, FS_RemoveElement
  <1>3. Cardinality(Lost) \in Nat /\ Cardinality(Lost \ {Current}) \in Nat
      BY <1>1, <1>2, FS_CardinalityType
  <1> QED BY <1>1, <1>2, <1>3

LEMMA FewerLost ==
  ASSUME NEW S, NEW T \in SUBSET S, S \subseteq Blocks
  PROVE  Cardinality(T) <= Cardinality(S) /\ Cardinality(S) \in Nat /\ Cardinality(T) \in Nat
  <1>1. IsFiniteSet(S)
      BY BlocksFinite, FS_Subset
  <1> QED BY <1>1, FS_Subset, FS_CardinalityType

(* Nothing is lost when a run begins. *)
LEMMA NothingLost ==
  ASSUME before' = blk' PROVE Cardinality(Lost') = 0
  <1>1. Lost' = {}
      BY DEF Lost
  <1> QED BY <1>1, FS_EmptySet

(* A failure gives up the header being written, and costs a fault. *)
LEMMA FailureCounted ==
  ASSUME UcbInv, LossesCounted, ucbPc' = "block" \/ ucbPc' = "done", Fault, UNCHANGED before,
         \A b \in Blocks \ {Current} : blk'[b] = blk[b]
  PROVE  LossesCounted'
  <1>1. Lost' \subseteq Blocks /\ Lost' \ {Current} \subseteq Lost \ {Current}
      BY DEF Lost
  <1>2. Cardinality(Lost \ {Current}) <= faults /\ faults' = faults + 1 /\ faults \in Nat
    <2>1. CASE ucbPc = "page"
        BY <2>1, LostFinite DEF LossesCounted, Fault, UcbInv, UcbTypeOK
    <2>2. CASE ucbPc # "page"
      <3>1. Cardinality(Lost \ {Current}) <= Cardinality(Lost)
          BY FewerLost DEF Lost
      <3> QED BY <2>2, <3>1, LostFinite DEF LossesCounted, Fault, UcbInv, UcbTypeOK
    <2> QED BY <2>1, <2>2
  <1>3. Cardinality(Lost' \ {Current}) <= Cardinality(Lost \ {Current})
      BY <1>1, FewerLost DEF Lost
  <1>4. IsFiniteSet(Lost') /\ Cardinality(Lost') \in Nat
      BY <1>1, BlocksFinite, FS_Subset, FS_CardinalityType
  <1>5. Cardinality(Lost') <= Cardinality(Lost' \ {Current}) + 1
      BY <1>4, FS_RemoveElement
  <1>6. Cardinality(Lost' \ {Current}) \in Nat /\ Cardinality(Lost \ {Current}) \in Nat
      BY <1>1, FewerLost DEF Lost
  <1> QED BY <1>2, <1>3, <1>4, <1>5, <1>6 DEF LossesCounted

(* Erased, the header may be lost; nothing of the image is missing yet. *)
LEMMA EraseCounted == ASSUME UcbInv, LossesCounted, EraseDone PROVE LossesCounted'
  <1> USE DEF EraseDone
  <1>1. todo # <<>>
      BY DEF UcbInv, PlanSound
  <1>2. Current' = Current /\ ~Gap'
      BY DEF Current, Gap
  <1>3. Lost' \ {Current} \subseteq Lost
      BY DEF Lost, UcbInv, UcbTypeOK
  <1>4. Cardinality(Lost' \ {Current}) <= Cardinality(Lost)
      BY <1>3, FewerLost DEF Lost
  <1>5. Cardinality(Lost' \ {Current}) \in Nat /\ Cardinality(Lost) \in Nat /\ faults \in Nat
      BY <1>3, FewerLost DEF Lost, UcbInv, UcbTypeOK
  <1> QED BY <1>2, <1>4, <1>5 DEF LossesCounted

(* A page programmed opens no gap. *)
LEMMA PageCounted == ASSUME UcbInv, LossesCounted, PageDone PROVE LossesCounted'
  <1> DEFINE p == WriteOrder[page + 1]
  <1> USE DEF PageDone
  <1>1. todo # <<>>
      BY DEF UcbInv, PlanSound
  <1>2. Current \in Blocks /\ image[Current] \in [Pages -> Bytes] /\ blk[Current] \in Block
      BY <1>1, CurrentWritable
  <1>3. page \in 0 .. 4 /\ page + 1 \in 1 .. 5 /\ p \in Pages
      BY WriteOrderFacts DEF UcbInv, UcbTypeOK
  <1>4. \A b \in Blocks \ {Current} : blk'[b] = blk[b]
      BY OnePage
  <1>5. blk'[Current] = [blk[Current] EXCEPT ![p] = image[Current][p]]
      BY <1>2 DEF UcbInv, UcbTypeOK, WithPage
  <1>6. \A q \in Pages : blk'[Current][q] = IF q = p THEN image[Current][q] ELSE blk[Current][q]
      BY <1>2, <1>5 DEF Block
  <1>7. Current' = Current /\ image' = image /\ page' = page + 1
      BY DEF Current
  <1>8. Gap' => Gap
    <2> SUFFICES ASSUME NEW i \in 1 .. 5, i <= page + 1,
                        blk'[Current][WriteOrder[i]] # image[Current][WriteOrder[i]]
                 PROVE  Gap
        BY <1>7 DEF Gap
    <2>1. WriteOrder[i] \in Pages
        BY WriteOrderFacts
    <2>2. WriteOrder[i] # p /\ blk[Current][WriteOrder[i]] # image[Current][WriteOrder[i]]
        BY <1>6, <2>1
    <2>3. i <= page
        BY <1>3, <2>2
    <2> QED BY <2>2, <2>3 DEF Gap
  <1>9. Lost' \ {Current} = Lost \ {Current}
      BY <1>4 DEF Lost
  <1>10. Cardinality(Lost \ {Current}) \in Nat /\ faults \in Nat
      BY LostFinite DEF UcbInv, UcbTypeOK
  <1>11. Cardinality(Lost' \ {Current'}) = Cardinality(Lost \ {Current}) /\ faults' = faults
         /\ ucbPc = "page" /\ ucbPc' = "page"
      BY <1>7, <1>9
  <1>12. CASE Gap
      BY <1>10, <1>11, <1>12 DEF LossesCounted
  <1>13. CASE ~Gap /\ ~Gap'
      BY <1>10, <1>11, <1>13 DEF LossesCounted
  <1> QED BY <1>8, <1>12, <1>13

(* A page missed may open one, and costs a fault. *)
LEMMA MissedCounted == ASSUME UcbInv, LossesCounted, PageMissed PROVE LossesCounted'
  <1>1. Lost' = Lost /\ Current' = Current /\ ucbPc = "page" /\ ucbPc' = "page"
        /\ faults' = faults + 1 /\ faults \in Nat
      BY DEF PageMissed, Fault, Lost, Current, UcbInv, UcbTypeOK
  <1>2. Cardinality(Lost \ {Current}) \in Nat /\ Cardinality(Lost \ {Current}) <= faults
      BY <1>1, LostFinite DEF LossesCounted
  <1> QED BY <1>1, <1>2 DEF LossesCounted

(* Read back with every page in place the header is not lost. *)
LEMMA ReadBackCounted == ASSUME UcbInv, LossesCounted, ReadBack PROVE LossesCounted'
  <1>1. /\ ucbPc = "page" /\ ucbPc' = "block" /\ UNCHANGED <<blk, before, faults>>
        /\ todo # <<>> /\ faults \in Nat /\ page = 5
      BY WriteOrderFacts DEF ReadBack, UcbInv, UcbTypeOK, PlanSound
  <1>2. Lost' = Lost
      BY <1>1 DEF Lost
  <1>3. CASE Gap
      BY <1>1, <1>2, <1>3, LostFinite DEF LossesCounted
  <1>4. CASE ~Gap
    <2>1. Writable(Current) /\ image[Current] \in [Pages -> Bytes] /\ blk[Current] \in Block
        BY <1>1, CurrentWritable
    <2>2. \A i \in 1 .. 5 : blk[Current][WriteOrder[i]] = image[Current][WriteOrder[i]]
        BY <1>1, <1>4 DEF Gap
    <2>3. blk[Current] = image[Current]
        BY <2>1, <2>2, AllPages
    <2>4. Current \notin Lost
        BY <2>1, <2>3 DEF Writable, Acceptable, Lost
    <2>5. Cardinality(Lost \ {Current}) = Cardinality(Lost) /\ Cardinality(Lost) \in Nat
        BY <2>4, LostFinite
    <2>6. Cardinality(Lost) <= faults
        BY <1>1, <1>4, <2>5 DEF LossesCounted
    <2> QED BY <1>1, <1>2, <2>6 DEF LossesCounted
  <1> QED BY <1>3, <1>4

(* A step that touches no header and begins none to program. *)
LEMMA QuietCounted ==
  ASSUME UcbInv, LossesCounted, ucbPc # "page", ucbPc' # "page", UNCHANGED <<blk, before>>,
         faults' \in Nat, faults <= faults'
  PROVE  LossesCounted'
  <1>1. Lost' = Lost
      BY DEF Lost
  <1> QED BY <1>1, LostFinite DEF LossesCounted, UcbInv, UcbTypeOK

LEMMA NextCounted == ASSUME UcbInv, LossesCounted, [UcbNext]_ucbVars PROVE LossesCounted'
  <1>0. faults \in Nat
      BY DEF UcbInv, UcbTypeOK
  <1>1. CASE UNCHANGED ucbVars
      BY <1>1 DEF ucbVars, run, LossesCounted, Lost, Gap, Current
  <1>2. CASE UcbEnd \/ \E img \in Images : UcbBegin(img)
    <2>1. before' = blk' /\ ucbPc' # "page" /\ faults' = 0
        BY <1>2 DEF UcbEnd, UcbBegin
    <2> QED BY <2>1, NothingLost DEF LossesCounted
  <1>3. CASE UcbReset
      BY <1>0, <1>3, QuietCounted DEF UcbReset, run
  <1>4. CASE PlanBlock
    <2>1. faults' \in Nat /\ faults <= faults' /\ UNCHANGED <<blk, before, ucbPc>>
        BY <1>0, <1>4 DEF PlanBlock, Decide, NoFault, Fault
    <2> QED BY <1>4, <2>1, QuietCounted DEF PlanBlock
  <1>5. CASE Planned \/ BlockStarted \/ Written
      BY <1>0, <1>5, QuietCounted DEF Planned, BlockStarted, Written
  <1>6. CASE BlockNotStarted \/ EraseFails \/ PageFails \/ ReadBackFails
    <2>1. ucbPc' = "block" /\ Fault /\ UNCHANGED before /\ Writing
        BY <1>6 DEF BlockNotStarted, EraseFails, PageFails, ReadBackFails, WriteFails, Writing
    <2>2. \A b \in Blocks \ {Current} : blk'[b] = blk[b]
        BY <1>6, OnePage DEF BlockNotStarted, EraseFails, PageFails, ReadBackFails, UcbInv, UcbTypeOK
    <2> QED BY <2>1, <2>2, FailureCounted
  <1>7. CASE EraseDone
      BY <1>7, EraseCounted
  <1>8. CASE PageDone
      BY <1>8, PageCounted
  <1>9. CASE PageMissed
      BY <1>9, MissedCounted
  <1>10. CASE ReadBack
      BY <1>10, ReadBackCounted
  <1>11. CASE PowerLoss
      BY <1>11, FailureCounted DEF PowerLoss
  <1> QED BY <1>1, <1>2, <1>3, <1>4, <1>5, <1>6, <1>7, <1>8, <1>9, <1>10, <1>11
             DEF UcbNext, UcbStep

(* A run loses no more headers than it met faults, besides the one it is   *)
(* writing: originals and copies exist so that one bad one is survivable   *)
(* (tricore_ucb.c:686, write_block).                                       *)
THEOREM UcbLossesAreFaults == UcbSpec => []LossesAreFaults
  <1>1. UcbInit => LossesCounted
    <2> SUFFICES ASSUME UcbInit PROVE LossesCounted
        OBVIOUS
    <2>1. Lost = {}
        BY DEF UcbInit, Lost
    <2> QED BY <2>1, FS_EmptySet DEF UcbInit, LossesCounted
  <1>2. UcbInv /\ LossesCounted /\ [UcbNext]_ucbVars => LossesCounted'
      BY NextCounted
  <1>3. UcbInv /\ LossesCounted => LossesAreFaults
    <2> SUFFICES ASSUME UcbInv, LossesCounted PROVE LossesAreFaults
        OBVIOUS
    <2>1. faults \in Nat
        BY DEF UcbInv, UcbTypeOK
    <2>2. Cardinality(Lost) <= faults + (IF ucbPc = "page" THEN 1 ELSE 0)
        BY <2>1, LostFinite DEF LossesCounted
    <2> QED BY <2>2 DEF Lost, LossesAreFaults
  <1> QED BY <1>1, <1>2, <1>3, UcbInvariant, PTL DEF UcbSpec
-----------------------------------------------------------------------------
(* The job and the uploads around the writer. *)

(* The job and the upload: an upload in progress excludes a job, the       *)
(* writer runs only inside one, on the image of a file that stays.         *)
UploadInv ==
  /\ file \in Files \cup {NoFile} /\ got \in 0 .. Len(file)
  /\ server \in {"idle", "upload"} /\ accepted \in BOOLEAN
  /\ task \in {"none", "flash", "headers", "ucb", "end", "leave"}
  /\ headers \in BOOLEAN /\ status \in {"idle", "done", "failed"} /\ jobs \in 0 .. MaxJobs
  /\ server = "upload" => task = "none"
  /\ task # "ucb" => ucbPc = "idle"
  /\ task \in {"headers", "ucb"} => headers
  /\ task \in {"headers", "ucb", "end"} => flash = Arrived
  /\ task = "ucb" => image = UcbImage
  /\ task = "end" => ~headers

LEMMA FileRecords ==
  ASSUME file \in Files \cup {NoFile}, got \in 0 .. Len(file)
  PROVE  file \in Seq(Records) /\ \A i \in 1 .. got : file[i] \in Records
  <1>1. CASE file \in Files
      BY <1>1, UploadAssumption
  <1>2. CASE file = NoFile
      BY <1>2 DEF NoFile
  <1> QED BY <1>1, <1>2

(* What an upload collects is an image the writer takes. *)
LEMMA UcbImageOK ==
  ASSUME file \in Files \cup {NoFile}, got \in 0 .. Len(file)
  PROVE  UcbImage \in Images
  <1> DEFINE S == {file[i].block : i \in UcbRecords}
  <1>1. \A i \in UcbRecords : file[i].block \in Blocks
      BY FileRecords DEF UcbRecords, Records
  <1>2. S \in SUBSET Blocks
      BY <1>1
  <1>3. UcbImage \in [S -> [Pages -> Bytes \ {"old"}]]
    <2> DEFINE latest(b, p) ==
          LET here == {i \in UcbRecords : file[i].block = b /\ p \in file[i].pages}
              Latest(v) == \E i \in here : file[i].bytes = v /\ \A j \in here : j <= i
          IN  CASE Latest("lock") -> "lock" [] Latest("img") -> "img" [] OTHER -> "erased"
    <2>1. \A b \in S, p \in Pages : latest(b, p) \in Bytes \ {"old"}
        BY DEF Bytes
    <2>2. UcbImage = [b \in S |-> [p \in Pages |-> latest(b, p)]]
        BY DEF UcbImage
    <2> HIDE DEF latest, S
    <2> QED BY <2>1, <2>2
  <1> QED BY <1>2, <1>3 DEF Images
LEMMA UploadInit == Init => UploadInv
  <1> SUFFICES ASSUME Init PROVE UploadInv
      OBVIOUS
  <1>1. got \in 0 .. Len(file) /\ jobs \in 0 .. MaxJobs
      BY UploadAssumption DEF Init, NoFile
  <1> QED BY <1>1 DEF Init, UcbInit, UploadInv

(* Every step of the server and of the job is a step of the writer, or     *)
(* leaves its state alone.                                                 *)
LEMMA UploadStep ==
  ASSUME UploadInv, [Next]_vars PROVE [UcbNext]_ucbVars
  <1>1. CASE Headers
      BY <1>1, UcbImageOK DEF Headers, UcbNext, UploadInv
  <1>2. CASE HeadersStep
      BY <1>2 DEF HeadersStep, UcbNext
  <1>3. CASE End
      BY <1>3 DEF End, UcbNext
  <1>4. CASE Apply \/ ApplyFails \/ Leave
      BY <1>4 DEF Apply, ApplyFails, Leave
  <1>5. CASE Server
      BY <1>5 DEF Server, UploadBegin, UploadNoBuffer, Feed, UploadBreaks, UploadDone, Start, StartFails
  <1>6. CASE UNCHANGED vars
      BY <1>6 DEF vars
  <1> QED BY <1>1, <1>2, <1>3, <1>4, <1>5, <1>6 DEF Next, Job

LEMMA ServerInv == ASSUME UploadInv, Server PROVE UploadInv'
  <1> USE DEF UploadInv, ucbVars, uploadVars, jobVars, run
  <1>1. ASSUME NEW f \in Files, UploadBegin(f) PROVE UploadInv'
    <2>1. 0 \in 0 .. Len(f)
        BY UploadAssumption
    <2> QED BY <1>1, <2>1 DEF UploadBegin
  <1>2. CASE UploadNoBuffer
    <2>1. 0 \in 0 .. Len(NoFile)
        BY DEF NoFile
    <2> QED BY <1>2, <2>1 DEF UploadNoBuffer
  <1>3. CASE Feed
    <2>1. got + 1 \in 0 .. Len(file)
        BY <1>3, FileRecords DEF Feed
    <2> QED BY <1>3, <2>1 DEF Feed
  <1>4. CASE UploadBreaks
      BY <1>4 DEF UploadBreaks
  <1>5. CASE UploadDone
      BY <1>5 DEF UploadDone
  <1>6. ASSUME NEW ask \in BOOLEAN, Start(ask) PROVE UploadInv'
    <2>1. jobs + 1 \in 0 .. MaxJobs
        BY <1>6, UploadAssumption DEF Start
    <2> QED BY <1>6, <2>1 DEF Start, Startable
  <1>7. CASE StartFails
      BY <1>7 DEF StartFails, Startable
  <1> QED BY <1>1, <1>2, <1>3, <1>4, <1>5, <1>6, <1>7 DEF Server

LEMMA JobInv == ASSUME UploadInv, Job PROVE UploadInv'
  <1>0. UNCHANGED uploadVars /\ jobs' = jobs
      BY DEF Job, Apply, ApplyFails, Headers, HeadersStep, End, Leave, jobVars
  <1>1. UNCHANGED <<file, got, server, accepted, jobs>> /\ UNCHANGED <<Arrived, UcbImage>>
      BY <1>0 DEF uploadVars, Arrived, UcbImage, UcbRecords
  <1> USE DEF UploadInv, ucbVars, uploadVars, jobVars, run
  <1>2. CASE Apply
      BY <1>1, <1>2 DEF Apply
  <1>3. CASE ApplyFails
      BY <1>1, <1>3 DEF ApplyFails
  <1>4. CASE Headers
      BY <1>1, <1>4 DEF Headers, UcbBegin
  <1>5. CASE HeadersStep
    <2>1. image' = image
        BY <1>5 DEF HeadersStep, UcbStep, PlanBlock, Decide, Planned, BlockStarted, BlockNotStarted,
                    WriteFails, EraseDone, EraseFails, PageDone, PageFails, PageMissed, ReadBack,
                    ReadBackFails, Written, PowerLoss
    <2> QED BY <1>1, <1>5, <2>1 DEF HeadersStep
  <1>6. CASE End
      BY <1>1, <1>6 DEF End, UcbEnd, UcbReset
  <1>7. CASE Leave
      BY <1>1, <1>7 DEF Leave
  <1> QED BY <1>2, <1>3, <1>4, <1>5, <1>6, <1>7 DEF Job

LEMMA UploadNext == ASSUME UploadInv, [Next]_vars PROVE UploadInv'
  <1>1. CASE UNCHANGED vars
      BY <1>1 DEF vars, ucbVars, uploadVars, jobVars, run, UploadInv, Arrived, UcbImage, UcbRecords
  <1> QED BY <1>1, JobInv, ServerInv DEF Next

THEOREM UploadInvariant == Spec => []UploadInv
  <1>1. Init => UploadInv
      BY UploadInit
  <1>2. UploadInv /\ [Next]_vars => UploadInv'
      BY UploadNext
  <1> QED BY <1>1, <1>2, PTL DEF Spec

(* Whatever is uploaded, started or broken off in between, the job's run   *)
(* of the writer is a run of UcbWriter.                                    *)
THEOREM UploadImplementsWriter == Spec => UcbSpec
  <1>1. Init => UcbInit
      BY DEF Init
  <1>2. UploadInv /\ [Next]_vars => [UcbNext]_ucbVars
      BY UploadStep
  <1> QED BY <1>1, <1>2, UploadInvariant, PTL DEF Spec, UcbSpec

(* The state of the whole web flasher stays in its types. *)
THEOREM UploadTypeOK == Spec => []TypeOK
  <1>1. UcbInv /\ UploadInv => TypeOK
      BY DEF UcbInv, UploadInv, TypeOK
  <1> QED BY <1>1, UploadInvariant, UploadImplementsWriter, UcbInvariant, PTL

(* With uploads and jobs going on, a header that passes the formal check   *)
(* is whole at every moment (tricore_ucb.c:16-18).                         *)
THEOREM UploadClaimsOnlyWhole == Spec => []ClaimsOnlyWhole
  BY UploadImplementsWriter, UcbClaimsOnlyWhole, PTL

(* No job of the web flasher changes a block that is not a boot mode       *)
(* header or that the target does not let it write.                        *)
THEOREM UploadOnlyWritable == Spec => OnlyWritable
  BY UploadImplementsWriter, UcbOnlyWritable, PTL

(* With uploads and jobs going on too, no run of the writer loses more     *)
(* headers than it met faults, besides the one it is writing.              *)
THEOREM UploadLossesAreFaults == Spec => []LossesAreFaults
  BY UploadImplementsWriter, UcbLossesAreFaults, PTL

(* The headers are touched only by a job that was asked to, after program  *)
(* flash holds the very image they come from (tricore_flash.c, "program    *)
(* flash verified, then the UCBs").                                        *)
THEOREM UploadFlashBeforeHeaders == Spec => FlashBeforeHeaders
  <1>1. UploadInv /\ [Next]_vars =>
          [blk' # blk => headers /\ flash = Arrived /\ image = UcbImage]_vars
    <2> SUFFICES ASSUME UploadInv, Next, blk' # blk
                 PROVE  headers /\ flash = Arrived /\ image = UcbImage
        OBVIOUS
    <2>1. CASE Server
        BY <2>1 DEF Server, UploadBegin, UploadNoBuffer, Feed, UploadBreaks, UploadDone, Start,
                    StartFails, ucbVars
    <2>2. CASE HeadersStep
        BY <2>2 DEF HeadersStep, UploadInv
    <2>3. CASE Apply \/ ApplyFails \/ Headers \/ End \/ Leave
        BY <2>3 DEF Apply, ApplyFails, Headers, UcbBegin, End, UcbEnd, UcbReset, Leave, ucbVars
    <2> QED BY <2>1, <2>2, <2>3 DEF Next, Job
  <1> QED BY <1>1, UploadInvariant, PTL DEF Spec, FlashBeforeHeaders

(* "programmed, verified and started" is reported of a job only when the   *)
(* image is in program flash and, if asked for, in every header.           *)
THEOREM UploadDoneMeansAll == Spec => []DoneMeansAll
  <1>1. Init => DoneMeansAll
      BY DEF Init, DoneMeansAll
  <1>2. UploadInv /\ OkMeansAll /\ DoneMeansAll /\ [Next]_vars => DoneMeansAll'
    <2> SUFFICES ASSUME UploadInv, OkMeansAll, DoneMeansAll, [Next]_vars,
                        task' = "leave", status' = "done"
                 PROVE  /\ flash' = Arrived'
                        /\ headers' => \A b \in Owned \cap DOMAIN UcbImage' : blk'[b] = UcbImage'[b]
        BY DEF DoneMeansAll
    <2>1. CASE End
      <3>1. UNCHANGED <<Arrived, UcbImage, headers, flash, blk>>
          BY <2>1 DEF End, UcbEnd, UcbReset, uploadVars, Arrived, UcbImage, UcbRecords
      <3>2. CASE task = "end"
          BY <3>1, <3>2 DEF UploadInv
      <3>3. CASE task = "ucb" /\ UcbEnd
        <4>1. ucbPc = "done" /\ ucbRes = "ok"
            BY <2>1, <3>3 DEF End, UcbEnd
        <4> QED BY <3>1, <3>3, <4>1 DEF UploadInv, OkMeansAll, Wanted
      <3> QED BY <2>1, <3>2, <3>3 DEF End
    <2>2. CASE UNCHANGED vars
      <3>1. UNCHANGED <<task, status, headers, flash, blk, Arrived, UcbImage>>
          BY <2>2 DEF vars, uploadVars, jobVars, ucbVars, Arrived, UcbImage, UcbRecords
      <3> QED BY <3>1 DEF DoneMeansAll
    <2>3. CASE Server
      <3>1. task = "leave"
          BY <2>3 DEF Server, UploadBegin, UploadNoBuffer, Feed, UploadBreaks, UploadDone, Start,
                      StartFails, jobVars
      <3>2. UploadBreaks \/ Feed \/ UploadDone \/ UploadNoBuffer \/ \E f \in Files : UploadBegin(f)
          BY <2>3, <3>1 DEF Server, Start, StartFails, Startable
      <3> QED BY <3>1, <3>2 DEF UploadBreaks, Feed, UploadDone, UploadNoBuffer, UploadBegin, UploadInv
    <2>4. CASE Job /\ ~End
        BY <2>4 DEF Job, Apply, ApplyFails, Headers, HeadersStep, Leave, jobVars, UploadInv
    <2> QED BY <2>1, <2>2, <2>3, <2>4 DEF Next
  <1> QED BY <1>1, <1>2, UploadInvariant, UploadImplementsWriter, UcbOkMeansAll, PTL DEF Spec
=============================================================================
