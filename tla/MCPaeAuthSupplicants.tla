------------------------ MODULE MCPaeAuthSupplicants ------------------------
(***************************************************************************)
(* Small instances of PaeAuthSupplicants for TLC.                           *)
(***************************************************************************)
EXTENDS PaeAuthSupplicants, TLC
=============================================================================
