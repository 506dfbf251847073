--------------------------- MODULE MCFlashUpload ---------------------------
(* Files for TLC: one with everything, one whose header would confirm the  *)
(* block, one with a broken record, one without program flash.             *)
EXTENDS FlashUpload

CONSTANTS orig, copy, other

MCBlocks == <<orig, copy, other>>
MCOwned == {orig, copy}

Pf == [kind |-> "pf"]
Skipped == [kind |-> "none"]
BadSum == [kind |-> "bad"]
Ucb(b, ps) == [kind |-> "ucb", block |-> b, pages |-> ps, bytes |-> "img"]
Confirming(b) == [kind |-> "ucb", block |-> b, pages |-> {"state"}, bytes |-> "lock"]

MCFiles == {<<Pf, Ucb(orig, {"head", "crc", "body"}), Ucb(orig, {"state", "tail"}),
              Ucb(copy, {"head", "crc", "body", "state"}), Ucb(copy, {"tail"}),
              Ucb(other, {"body"})>>,
            <<Skipped, Pf, Ucb(orig, Pages), Confirming(orig)>>,
            <<Pf, BadSum>>, <<Ucb(copy, Pages)>>}

(* Nothing depends on what the block nobody owns holds. *)
MCInit == Init /\ blk[other] = OldBlock /\ reg[other] = "UNLOCKED"

MCSpec == MCInit /\ [][Next]_vars /\ WF_vars(Job)
=============================================================================
