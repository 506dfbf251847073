------------------------------ MODULE TraceRing ------------------------------
(***************************************************************************)
(* The output ring of the trace drain (components/dap_probe/dap_trace.c):  *)
(* one producer (the drain, core 0), one consumer (the stream sender,      *)
(* core 1), no lock.  Each index is stored by one side only; a new trace   *)
(* asks the sender, through s_ring_reset / s_ring_reset_to, to skip what   *)
(* the trace before left unread.                                           *)
(*                                                                         *)
(* Every shared load and store is a step, and the copies go byte by byte.  *)
(* A byte is represented by its number in the order of publication, so a   *)
(* cell that was overwritten, or read before it was written, shows.  The   *)
(* numbers habs, tabs, rabs and sabs of the bytes at the four indices are  *)
(* history, as are inside, second and torn: no step depends on them.       *)
(*                                                                         *)
(* A trace may start at any point of a dap_trace_read call.  What that     *)
(* does to the stream is part of what the properties say.                  *)
(***************************************************************************)
EXTENDS Naturals, Sequences

CONSTANTS
  RingBytes,        \* TRACE_RING_BYTES
  RecordLen,        \* sizeof(hdr) + TRACE_PARAGRAPH
  MaxRead,          \* the most bytes a caller of dap_trace_read asks for
  MaxBytes          \* bound: bytes published in a behaviour

ASSUME RingAssumption ==
  /\ RingBytes \in Nat /\ RecordLen \in Nat /\ MaxRead \in Nat /\ MaxBytes \in Nat
  /\ 0 < RecordLen /\ RecordLen < RingBytes

VARIABLES
  ring,      \* s_ring: the number of the byte each cell holds
  head,      \* s_ring_head
  tail,      \* s_ring_tail
  resetTo,   \* s_ring_reset_to
  reset,     \* s_ring_reset
  ppc,       \* where the producer is: "idle", "put" or "begin"
  phead,     \* publish_flags: its local head
  put,       \* bytes of the record copied so far
  cpc,       \* where the consumer is, see TypeOK
  skipTo,    \* dap_trace_read: the reset position it has loaded
  n,         \* dap_trace_read: bytes this call returns
  out,       \* dap_trace_read: bytes copied to the caller so far
  habs, tabs, rabs, sabs,  \* history: byte numbers at head, tail, resetTo, skipTo
  inside,    \* history: the last start fell inside a read, or a read into it
  second,    \* history: it fell between the load of another's position and
             \* the clearing of the flag
  torn       \* history: the tail went back over space given to the producer

producer == <<ppc, phead, put>>
consumer == <<cpc, skipTo, n, out>>
places == <<habs, tabs, rabs, sabs>>
starts == <<inside, second, torn>>
vars == <<ring, head, tail, resetTo, reset, producer, consumer, places, starts>>

(***************************************************************************)
(* Index arithmetic.  Wrap is % RingBytes for the arguments that occur     *)
(* (below 2 * RingBytes).                                                  *)
(***************************************************************************)
(* Mutant: the index wraps one cell late. *)
WrapLate(i) == IF i <= RingBytes THEN i ELSE i - RingBytes

Wrap(i) == IF i < RingBytes THEN i ELSE i - RingBytes

ring_used(h, t) == IF h >= t THEN h - t ELSE RingBytes - t + h

(* Mutant: no cell is held back. *)
ring_free_full(h, t) == RingBytes - ring_used(h, t)

(* One byte held back so full and empty stay distinguishable. *)
ring_free(h, t) == RingBytes - 1 - ring_used(h, t)

Least(a, b) == IF a < b THEN a ELSE b

(***************************************************************************)
(* Initially no trace has run: the ring is allocated and empty.            *)
(***************************************************************************)
Init ==
  /\ ring = [c \in 0 .. RingBytes - 1 |-> 0]
  /\ head = 0 /\ tail = 0 /\ resetTo = 0 /\ reset = FALSE
  /\ ppc = "idle" /\ phead = 0 /\ put = 0
  /\ cpc = "idle" /\ skipTo = 0 /\ n = 0 /\ out = <<>>
  /\ habs = 0 /\ tabs = 0 /\ rabs = 0 /\ sabs = 0
  /\ inside = FALSE /\ second = FALSE /\ torn = FALSE

(***************************************************************************)
(* The producer: publish_flags.  A record that does not fit is dropped     *)
(* whole, which leaves the ring as it is.                                  *)
(***************************************************************************)
(* Mutant: the room is not checked. *)
PublishUnchecked ==
  /\ ppc = "idle" /\ habs + RecordLen <= MaxBytes
  /\ ppc' = "put" /\ phead' = head /\ put' = 0
  /\ UNCHANGED <<ring, head, tail, resetTo, reset, consumer, places, starts>>

PublishCheck ==
  /\ ppc = "idle"
  /\ habs + RecordLen <= MaxBytes
  /\ ring_free(head, tail) >= RecordLen
  /\ ppc' = "put" /\ phead' = head /\ put' = 0
  /\ UNCHANGED <<ring, head, tail, resetTo, reset, consumer, places, starts>>

(* One byte of ring_put's copies. *)
PutByte ==
  /\ ppc = "put" /\ put < RecordLen
  /\ ring' = [ring EXCEPT ![phead] = habs + put]
  /\ phead' = Wrap(phead + 1)
  /\ put' = put + 1
  /\ UNCHANGED <<ppc, head, tail, resetTo, reset, consumer, places, starts>>

(* The record becomes visible to the sender whole, after its bytes. *)
PublishHead ==
  /\ ppc = "put" /\ put = RecordLen
  /\ head' = phead /\ habs' = habs + RecordLen
  /\ ppc' = "idle"
  /\ UNCHANGED <<ring, tail, resetTo, reset, phead, put, consumer, tabs, rabs, sabs, starts>>

(***************************************************************************)
(* trace_begin: ask the sender to drop the trace before, "a sender may be  *)
(* reading right now".  The drain is stopped then, so the producer side    *)
(* takes this step itself.                                                 *)
(***************************************************************************)
BeginResetTo ==
  /\ ppc = "idle"
  /\ resetTo' = head /\ rabs' = habs
  /\ inside' = (cpc # "idle") /\ second' = (cpc \in {"move", "clear"})
  /\ ppc' = "begin"
  /\ UNCHANGED <<ring, head, tail, reset, phead, put, consumer, habs, tabs, sabs, torn>>

(* Mutant: a start does not raise the flag. *)
BeginForgets ==
  /\ ppc = "begin" /\ ppc' = "idle"
  /\ UNCHANGED <<ring, head, tail, resetTo, reset, phead, put, consumer, places, starts>>

BeginReset ==
  /\ ppc = "begin"
  /\ reset' = TRUE
  /\ ppc' = "idle"
  /\ UNCHANGED <<ring, head, tail, resetTo, phead, put, consumer, places, starts>>

(***************************************************************************)
(* The consumer: dap_trace_read.                                           *)
(***************************************************************************)
ReadFlag ==
  /\ cpc = "idle"
  /\ out' = <<>> /\ n' = 0
  /\ cpc' = IF reset THEN "skip" ELSE "load"
  /\ inside' = (inside \/ ppc = "begin")
  /\ UNCHANGED <<skipTo, ring, head, tail, resetTo, reset, producer, places, second, torn>>

ReadResetTo ==
  /\ cpc = "skip"
  /\ skipTo' = resetTo /\ sabs' = rabs
  /\ cpc' = "move"
  /\ UNCHANGED <<ring, head, tail, resetTo, reset, producer, n, out, habs, tabs, rabs, starts>>

(* The waiting bytes from a on, and the record on its way, have cells of    *)
(* their own.                                                               *)
Fits(a) == a <= habs /\ habs - a + (IF ppc = "put" THEN RecordLen ELSE 0) < RingBytes

ReadSkip ==
  /\ cpc = "move"
  /\ tail' = skipTo /\ tabs' = sabs
  /\ torn' = ~Fits(sabs)
  /\ cpc' = "clear"
  /\ UNCHANGED <<ring, head, resetTo, reset, producer, skipTo, n, out, habs, rabs, sabs,
                 inside, second>>

(* Mutant: the request is honoured but not cleared. *)
ReadKeepsFlag ==
  /\ cpc = "clear" /\ cpc' = "load"
  /\ UNCHANGED <<ring, head, tail, resetTo, reset, producer, skipTo, n, out, places, starts>>

ReadClear ==
  /\ cpc = "clear"
  /\ reset' = FALSE
  /\ cpc' = "load"
  /\ UNCHANGED <<ring, head, tail, resetTo, producer, skipTo, n, out, places, starts>>

(* Mutant: a read takes as much as it may, waiting or not. *)
ReadLoadMax ==
  /\ cpc = "load" /\ cpc' = "copy"
  /\ n' = MaxRead
  /\ UNCHANGED <<ring, head, tail, resetTo, reset, producer, skipTo, out, places, starts>>

ReadLoad ==
  /\ cpc = "load"
  /\ n' = Least(ring_used(head, tail), MaxRead)
  /\ cpc' = "copy"
  /\ UNCHANGED <<ring, head, tail, resetTo, reset, producer, skipTo, out, places, starts>>

CopyByte ==
  /\ cpc = "copy" /\ Len(out) < n
  /\ out' = Append(out, ring[Wrap(tail + Len(out))])
  /\ UNCHANGED <<ring, head, tail, resetTo, reset, producer, skipTo, cpc, n, places, starts>>

(* The space goes back only after the bytes are out. *)
ReadTail ==
  /\ cpc = "copy" /\ Len(out) = n
  /\ tail' = Wrap(tail + n) /\ tabs' = tabs + n
  /\ cpc' = "idle"
  /\ UNCHANGED <<ring, head, resetTo, reset, producer, skipTo, n, out, habs, rabs, sabs, starts>>

Next ==
  \/ PublishCheck \/ PutByte \/ PublishHead
  \/ BeginResetTo \/ BeginReset
  \/ ReadFlag \/ ReadResetTo \/ ReadSkip \/ ReadClear \/ ReadLoad \/ CopyByte \/ ReadTail

Spec == Init /\ [][Next]_vars

(***************************************************************************)
(* Properties.                                                             *)
(***************************************************************************)
Cells == 0 .. RingBytes - 1

(* Every variable keeps the type the C code gives it, and the indices stay  *)
(* inside the ring's allocation: no copy runs past it.                      *)
TypeOK ==
  /\ ring \in [Cells -> Nat]
  /\ head \in Cells /\ tail \in Cells /\ resetTo \in Cells /\ phead \in Cells
  /\ skipTo \in Cells
  /\ reset \in BOOLEAN
  /\ ppc \in {"idle", "put", "begin"} /\ put \in 0 .. RecordLen
  /\ cpc \in {"idle", "skip", "move", "clear", "load", "copy"}
  /\ n \in Nat /\ out \in Seq(Nat)
  /\ habs \in Nat /\ tabs \in Nat /\ rabs \in Nat /\ sabs \in Nat
  /\ inside \in BOOLEAN /\ second \in BOOLEAN /\ torn \in BOOLEAN

(* The lock-free claim at the top of dap_trace.c, producer's half: the cell *)
(* ring_put writes next holds no byte the sender has yet to hand back, the  *)
(* ones it is copying out right now included - until a tail that went back  *)
(* takes space again that the producer was given (torn).                    *)
NoOverwrite ==
  ppc = "put" /\ put < RecordLen /\ ~torn =>
    \A i \in 0 .. RingBytes - 1 : i < habs - tabs => phead # Wrap(tail + i)

(* Consumer's half: what a dap_trace_read call has copied are the published *)
(* bytes from the tail on, in order, none skipped, stale or half written,   *)
(* with the same exception.                                                 *)
ReadsInOrder ==
  cpc = "copy" /\ ~torn =>
    /\ tabs + Len(out) <= habs
    /\ \A i \in 1 .. Len(out) : out[i] = tabs + i - 1

(* A start tears the ring only if it falls inside a read, and one that does *)
(* not mends it: when the sender honours it, all published since and what   *)
(* is being published fits, whatever came before.                           *)
StartMends == [][cpc = "move" /\ cpc' = "clear" /\ ~inside => ~torn']_vars

(* trace_begin: a previous trace's unread bytes are dropped by the sender   *)
(* at its next read.  As long as the tail is short of where the new trace   *)
(* starts, a read that begins now finds the request to skip, whatever the   *)
(* start fell into - but for the steps that honour an older one, the last   *)
(* of which clears the newer request too.                                   *)
OldTraceDropped ==
  ppc = "idle" /\ cpc = "idle" /\ tabs < rabs => reset \/ second

(* The same without the exception, what the comment in trace_begin says:    *)
(* does not hold.                                                           *)
AtItsNextRead ==
  ppc = "idle" /\ cpc = "idle" /\ tabs < rabs => reset

(* The sender's position moves forward, or back to the first byte of a      *)
(* trace that began inside a read: what that one read handed out of the new *)
(* trace is handed out again, at most its MaxRead bytes.                    *)
TailForward ==
  [][torn \/ tabs' >= tabs \/ (inside /\ tabs' = sabs /\ tabs - sabs <= MaxRead)]_vars

(* No byte of the stream is handed out twice: does not hold for a trace     *)
(* that starts inside a read.                                               *)
NeverBack == [][tabs' >= tabs]_vars

(* The ring, with its wrapping indices, implements the bounded FIFO.        *)
Fifo == INSTANCE ByteFifo
          WITH Capacity <- RingBytes - 1, MaxAgain <- MaxRead, pub <- habs, con <- tabs,
               broken <- torn
ImplementsFifo == Fifo!Spec
=============================================================================
