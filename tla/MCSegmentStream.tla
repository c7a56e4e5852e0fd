-------------------------- MODULE MCSegmentStream --------------------------
(***************************************************************************)
(* Values of the constants of SegmentStream for TLC.                       *)
(***************************************************************************)
EXTENDS SegmentStream
=============================================================================
