------------------------------ MODULE ByteFifo ------------------------------
(***************************************************************************)
(* What the trace ring promises its two sides, without saying how: a       *)
(* bounded first-in first-out stream of bytes.  Bytes are numbered in the  *)
(* order they are published; those from con up to pub are waiting.         *)
(*                                                                         *)
(* The reader may be sent back a little.  If by then the bytes it is sent  *)
(* back to have been given up, the stream is broken, and promises nothing  *)
(* until the reader is put on bytes that are there.                        *)
(***************************************************************************)
EXTENDS Naturals

CONSTANTS
  Capacity,   \* bytes that may wait at once
  RecordLen,  \* bytes of one record, published together
  MaxAgain    \* bytes the reader may be sent back

VARIABLES
  pub,    \* bytes published so far
  con,    \* bytes the reader has taken or skipped so far
  broken  \* what the reader is on has been given up

Init == pub = 0 /\ con = 0 /\ broken = FALSE

(* A record becomes visible whole, and only where it fits. *)
Publish ==
  /\ ~broken
  /\ pub + RecordLen - con <= Capacity
  /\ pub' = pub + RecordLen
  /\ UNCHANGED <<con, broken>>

(* The reader takes bytes, or skips to the start of a new trace, never past *)
(* what is published.                                                       *)
Advance ==
  /\ ~broken
  /\ con' \in con .. pub
  /\ UNCHANGED <<pub, broken>>

(* It goes back over bytes that still wait ... *)
Again ==
  /\ ~broken
  /\ con' < con /\ con - con' <= MaxAgain /\ pub - con' <= Capacity
  /\ UNCHANGED <<pub, broken>>

(* ... or over some that do not. *)
Break ==
  /\ ~broken /\ broken' = TRUE
  /\ con' < con /\ con - con' <= MaxAgain
  /\ UNCHANGED pub

Astray == broken /\ broken' = TRUE

(* A new trace puts the reader on bytes that are there. *)
Mend ==
  /\ broken /\ broken' = FALSE
  /\ con' <= pub /\ pub - con' <= Capacity
  /\ UNCHANGED pub

Next == Publish \/ Advance \/ Again \/ Break \/ Astray \/ Mend

Spec == Init /\ [][Next]_<<pub, con, broken>>
=============================================================================
