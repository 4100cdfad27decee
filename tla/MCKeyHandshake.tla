--------------------------- MODULE MCKeyHandshake ---------------------------
(***************************************************************************)
(* Small instances of KeyHandshake for TLC.                                 *)
(***************************************************************************)
EXTENDS KeyHandshake, TLC
=============================================================================
