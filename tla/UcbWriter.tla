------------------------------ MODULE UcbWriter ------------------------------
(***************************************************************************)
(* The writer of the user configuration blocks,                            *)
(* components/dap_probe/tricore_ucb.c: the plan (write, skip or refuse each *)
(* block the image carries) and the write of a boot mode header, page by   *)
(* page, with a probe that may lose the target, a flash that may refuse a  *)
(* command and a power loss between any two of its steps.                  *)
(*                                                                         *)
(* A block is five pages: the one with BMI and STAD, the one with their    *)
(* CRC, all up to the confirmation word, the confirmation word's page and  *)
(* the page with the word's copy.  A page is erased, or holds what was     *)
(* there at first, the image's bytes, or (the word's page) an image's      *)
(* bytes that would confirm the block.  An erase is one step: what a block *)
(* holds when power is lost inside the erase pulse is not modelled.        *)
(***************************************************************************)
EXTENDS Integers, Sequences, SequencesExt, FiniteSets

CONSTANTS
  BlockOrder,  \* the blocks in the plan's order: the owned ones come first
  Owned,       \* IMAGE_OWNED: the boot mode headers
  MaxFaults    \* bound: faults of one run of the writer

Blocks == ToSet(BlockOrder)

ASSUME UcbAssumption ==
  /\ BlockOrder \in Seq(Blocks)
  /\ Owned \subseteq Blocks
  /\ MaxFaults \in Nat

Pages == {"head", "crc", "body", "state", "tail"}
Bytes == {"old", "img", "lock", "erased"}
Block == [Pages -> Bytes]
Erased == [p \in Pages |-> "erased"]
OldBlock == [p \in Pages |-> "old"]
NoImage == [b \in {} |-> Erased]

(* What DMU_HF_CONFIRMx can report of a block. *)
States == {"UNREAD", "UNLOCKED", "CONFIRMED", "ERRORED"}

VARIABLES
  blk,      \* target: what each block holds
  reg,      \* target: the state of each block, as latched at its last reset
  image,    \* the blocks the image carries, and their bytes
  ucbPc,    \* where the run is
  todo,     \* the blocks yet to decide, then yet to write
  writes,   \* blocks decided ACT_WRITE
  refused,  \* number of blocks decided ACT_REFUSE
  failed,   \* number of blocks whose write failed
  page,     \* pages of the current block already programmed
  ucbRes,   \* what tricore_ucb_program returned
  faults,   \* faults of this run
  missed,   \* history: a refused page went unnoticed (DMU_HF_ERRSR unread)
  before    \* history: what the blocks held when the run began

run == <<ucbPc, todo, writes, refused, failed, page, ucbRes>>
ucbVars == <<blk, reg, image, run, faults, missed, before>>

(* check(): the formal check of a block's bytes.  The CRC page belongs to  *)
(* the bytes of the first page.                                            *)
Passes(c) == /\ c["state"] # "erased"
             /\ c["head"] # "erased"
             /\ c["crc"] = c["head"]

(* What a reset latches: the boot ROM's finding for an erased confirmation *)
(* word is left open.                                                      *)
Latched(b) == CASE blk[b]["state"] = "erased" -> {"UNREAD", "ERRORED"}
                [] blk[b]["state"] = "lock"   -> {"CONFIRMED"}
                [] blk[b]["state"] = "img"    -> {"UNLOCKED"}
                [] OTHER                      -> {reg[b]}
Boot == reg' \in {r \in [Blocks -> States] : \A b \in Blocks : r[b] \in Latched(b)}

UcbInit ==
  /\ blk \in [Blocks -> {OldBlock, Erased}]
  /\ reg \in {r \in [Blocks -> States] :
                \A b \in Blocks : r[b] \in IF blk[b] = Erased THEN {"UNREAD", "ERRORED"}
                                                           ELSE {"UNLOCKED", "CONFIRMED"}}
  /\ image = NoImage
  /\ ucbPc = "idle" /\ todo = <<>> /\ writes = <<>>
  /\ refused = 0 /\ failed = 0 /\ page = 0 /\ ucbRes = "none"
  /\ faults = 0 /\ missed = FALSE /\ before = blk

Fault == faults < MaxFaults /\ faults' = faults + 1
NoFault == UNCHANGED faults

-----------------------------------------------------------------------------
(* The plan. *)

(* tricore_ucb_program with image `img`: forget the last run, begin the plan, *)
(* the headers first, then the rest of the blocks.                            *)
UcbBegin(img) ==
  /\ ucbPc = "idle"
  /\ image' = img
  /\ ucbPc' = "plan" /\ todo' = BlockOrder /\ writes' = <<>>
  /\ refused' = 0 /\ failed' = 0 /\ page' = 0 /\ ucbRes' = "none"
  /\ faults' = 0 /\ missed' = FALSE /\ before' = blk
  /\ UNCHANGED <<blk, reg>>

(* Mutant: an image may confirm the block. *)
AcceptableConfirming(b) == Passes(image[b])

(* Only a header whose bytes pass the check and would not confirm it is    *)
(* looked at on the target.                                                *)
Acceptable(b) == Passes(image[b]) /\ image[b]["state"] # "lock"

(* Mutant: the image's bytes are not checked. *)
DecisionUnchecked(b) ==
  CASE b \notin DOMAIN image                -> "absent"
    [] b \notin Owned                       -> "skip"
    [] reg[b] \notin {"UNREAD", "UNLOCKED"} -> "refuse"
    [] blk[b] = image[b]                    -> "skip"
    [] OTHER                                -> "write"

Decision(b) ==
  CASE b \notin DOMAIN image                -> "absent"
    [] b \notin Owned                       -> "skip"
    [] ~Acceptable(b)                       -> "refuse"
    [] reg[b] \notin {"UNREAD", "UNLOCKED"} -> "refuse"
    [] blk[b] = image[b]                    -> "skip"
    [] OTHER                                -> "write"

Decide(b, action) ==
  /\ todo' = Tail(todo)
  /\ writes' = IF action = "write" THEN Append(writes, b) ELSE writes
  /\ refused' = IF action = "refuse" THEN refused + 1 ELSE refused
  /\ UNCHANGED <<blk, reg, image, ucbPc, failed, page, ucbRes, missed, before>>

PlanBlock ==
  /\ ucbPc = "plan" /\ todo # <<>>
  /\ LET b == Head(todo) IN
       \/ NoFault /\ Decide(b, Decision(b))
       \* the block's state, or the block, cannot be read
       \/ b \in Owned \cap DOMAIN image /\ Acceptable(b) /\ Fault /\ Decide(b, "refuse")

Planned ==
  /\ ucbPc = "plan" /\ todo = <<>>
  /\ \/ /\ writes = <<>>
        /\ ucbPc' = "done" /\ ucbRes' = (IF refused = 0 THEN "ok" ELSE "failed")
        /\ UNCHANGED todo
     \/ /\ writes # <<>>
        /\ ucbPc' = "block" /\ todo' = writes
        /\ UNCHANGED ucbRes
  /\ UNCHANGED <<blk, reg, image, writes, refused, failed, page, faults, missed, before>>

-----------------------------------------------------------------------------
(* The writer: write_block for each block decided ACT_WRITE. *)

Current == Head(todo)

(* A failure does not abandon the rest. *)
WriteFails ==
  /\ Fault
  /\ failed' = failed + 1
  /\ ucbPc' = "block" /\ todo' = Tail(todo)
  /\ UNCHANGED <<reg, image, writes, refused, page, ucbRes, before>>

(* The core runs or its state is unreadable, or the flash does not enter   *)
(* data flash page mode: nothing was touched.                              *)
BlockNotStarted ==
  /\ ucbPc = "block" /\ todo # <<>>
  /\ WriteFails
  /\ UNCHANGED <<blk, missed>>

BlockStarted ==
  /\ ucbPc = "block" /\ todo # <<>>
  /\ ucbPc' = "erase"
  /\ UNCHANGED <<blk, reg, image, todo, writes, refused, failed, page, ucbRes, faults,
                 missed, before>>

(* erase: only a block that reads back erased is programmed. *)
EraseDone ==
  /\ ucbPc = "erase"
  /\ blk' = [blk EXCEPT ![Current] = Erased]
  /\ ucbPc' = "page" /\ page' = 0
  /\ UNCHANGED <<reg, image, todo, writes, refused, failed, ucbRes, faults, missed, before>>

(* A lost cycle or a refusal, seen in ERRSR or in the read-back, leaves    *)
(* the block; a wait that times out or a lost read-back leaves it erased.  *)
EraseFails ==
  /\ ucbPc = "erase"
  /\ WriteFails
  /\ blk' \in {blk, [blk EXCEPT ![Current] = Erased]}
  /\ UNCHANGED missed

(* Mutant: the pages in the order of their addresses. *)
WriteOrderAddress == <<"head", "crc", "body", "state", "tail">>

(* Every page but the confirmation word's in the order of their addresses, *)
(* then that one.                                                          *)
WriteOrder == <<"head", "crc", "body", "tail", "state">>
WithPage(p) == [blk EXCEPT ![Current] = [@ EXCEPT ![p] = image[Current][p]]]

PageDone ==
  /\ ucbPc = "page" /\ page < Len(WriteOrder)
  /\ blk' = WithPage(WriteOrder[page + 1])
  /\ page' = page + 1
  /\ UNCHANGED <<reg, image, ucbPc, todo, writes, refused, failed, ucbRes, faults, missed,
                 before>>

(* Lost or refused before the page was programmed, or lost after. *)
PageFails ==
  /\ ucbPc = "page" /\ page < Len(WriteOrder)
  /\ WriteFails
  /\ blk' \in {blk, WithPage(WriteOrder[page + 1])}
  /\ UNCHANGED missed

(* The flash refused the page, but its error register could not be read:   *)
(* tricore_flash_wait_idle answers ESP_OK.                                 *)
PageMissed ==
  /\ ucbPc = "page" /\ page < Len(WriteOrder)
  /\ Fault
  /\ page' = page + 1 /\ missed' = TRUE
  /\ UNCHANGED <<blk, reg, image, ucbPc, todo, writes, refused, failed, ucbRes, before>>

(* The read-back must be the image and pass the check. *)
ReadBack ==
  /\ ucbPc = "page" /\ page = Len(WriteOrder)
  /\ failed' = IF blk[Current] = image[Current] /\ Passes(blk[Current])
                 THEN failed ELSE failed + 1
  /\ ucbPc' = "block" /\ todo' = Tail(todo)
  /\ UNCHANGED <<blk, reg, image, writes, refused, page, ucbRes, faults, missed, before>>

ReadBackFails ==
  /\ ucbPc = "page" /\ page = Len(WriteOrder)
  /\ WriteFails
  /\ UNCHANGED <<blk, missed>>

(* Mutant: blocks refused in the plan do not count. *)
WrittenForgets ==
  /\ ucbPc = "block" /\ todo = <<>>
  /\ ucbPc' = "done"
  /\ ucbRes' = IF failed = 0 THEN "ok" ELSE "failed"
  /\ UNCHANGED <<blk, reg, image, todo, writes, refused, failed, page, faults, missed,
                 before>>

Written ==
  /\ ucbPc = "block" /\ todo = <<>>
  /\ ucbPc' = "done"
  /\ ucbRes' = IF failed = 0 /\ refused = 0 THEN "ok" ELSE "failed"
  /\ UNCHANGED <<blk, reg, image, todo, writes, refused, failed, page, faults, missed,
                 before>>

(* The target loses power: the link is gone for the rest of the run, whose *)
(* remaining blocks fail (write_block wants the core halted).              *)
PowerLoss ==
  /\ ucbPc \notin {"idle", "done"}
  /\ Fault
  /\ Boot
  /\ ucbPc' = "done" /\ ucbRes' = "failed"
  /\ UNCHANGED <<blk, image, todo, writes, refused, failed, page, missed, before>>

UcbStep == \/ PlanBlock \/ Planned
           \/ BlockStarted \/ BlockNotStarted
           \/ EraseDone \/ EraseFails
           \/ PageDone \/ PageFails \/ PageMissed
           \/ ReadBack \/ ReadBackFails
           \/ Written
           \/ PowerLoss

(* The caller: a reset of the target, then perhaps another run.  What a    *)
(* run leaves behind is of no use to the next.                             *)
UcbEnd == /\ ucbPc = "done"
          /\ Boot
          /\ ucbPc' = "idle" /\ todo' = <<>> /\ writes' = <<>>
          /\ refused' = 0 /\ failed' = 0 /\ page' = 0 /\ ucbRes' = "none"
          /\ image' = NoImage /\ faults' = 0 /\ missed' = FALSE /\ before' = blk
          /\ UNCHANGED blk

(* The target is reset, and no run was asked for. *)
UcbReset == /\ ucbPc = "idle"
            /\ Boot
            /\ UNCHANGED <<blk, image, run, faults, missed, before>>

(* The images: any bytes for any blocks, as long as nobody's old bytes. *)
Images == UNION {[S -> [Pages -> Bytes \ {"old"}]] : S \in SUBSET Blocks}

UcbNext == UcbStep \/ UcbEnd \/ UcbReset \/ \E img \in Images : UcbBegin(img)

UcbSpec == UcbInit /\ [][UcbNext]_ucbVars

-----------------------------------------------------------------------------
(* Properties. *)

UcbTypeOK ==
  /\ blk \in [Blocks -> Block] /\ before \in [Blocks -> Block]
  /\ reg \in [Blocks -> States]
  /\ DOMAIN image \subseteq Blocks
  /\ \A b \in DOMAIN image : image[b] \in [Pages -> Bytes \ {"old"}]
  /\ ucbPc \in {"idle", "plan", "block", "erase", "page", "done"}
  /\ todo \in Seq(Blocks) /\ writes \in Seq(Blocks)
  /\ refused \in Nat /\ failed \in Nat /\ page \in 0 .. Len(WriteOrder)
  /\ ucbRes \in {"none", "ok", "failed"}
  /\ faults \in Nat /\ missed \in BOOLEAN

(* tricore_ucb.c:16-18: at every moment, and so after a power loss at any  *)
(* moment, a header that passes the formal check is whole: it is what was  *)
(* there before the run, or the image's.  Only a page whose refusal went   *)
(* unread can break it.                                                    *)
ClaimsOnlyWhole ==
  \A b \in Blocks :
    Passes(blk[b]) /\ ~missed =>
      blk[b] = before[b] \/ (b \in DOMAIN image /\ blk[b] = image[b])

(* tricore_ucb.c:686: originals and copies exist so that one bad one is    *)
(* survivable: the headers a run has lost so far are no more than its      *)
(* faults and the one being written.                                       *)
LossesAreFaults ==
  Cardinality({b \in Blocks : Passes(before[b]) /\ ~Passes(blk[b])})
    <= faults + (IF ucbPc = "page" THEN 1 ELSE 0)

(* tricore_ucb.c:10-15: a run changes only boot mode headers, which the    *)
(* target reports as UNREAD or UNLOCKED, and only for an image that passes *)
(* the formal check and does not confirm the block.                        *)
OnlyWritable ==
  [][\A b \in Blocks : blk'[b] # blk[b] =>
       /\ b \in Owned
       /\ reg[b] \in {"UNREAD", "UNLOCKED"}
       /\ b \in DOMAIN image /\ Passes(image[b]) /\ image[b]["state"] # "lock"]_ucbVars
=============================================================================
