---------------------------- MODULE MCRunControl ----------------------------
(***************************************************************************)
(* Run control of two cores for TLC.                                       *)
(***************************************************************************)
EXTENDS RunControl

CONSTANTS c0, c1

MCCores == <<c0, c1>>
=============================================================================
