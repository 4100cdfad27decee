--------------------------- MODULE MCFrameCounters ---------------------------
(***************************************************************************)
(* Small instances of FrameCounters for TLC.                                *)
(***************************************************************************)
EXTENDS FrameCounters, TLC

KeySymmetry == Permutations(Keys)
=============================================================================
