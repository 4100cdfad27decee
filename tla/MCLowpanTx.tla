---------------------------- MODULE MCLowpanTx ----------------------------
(***************************************************************************)
(* A small instance of LowpanTx for TLC: to one neighbour a normal and an   *)
(* expedited packet, to another a normal one of two fragments, and a        *)
(* broadcast.                                                               *)
(***************************************************************************)
EXTENDS LowpanTx
CONSTANTS a, b, pa, pb, pe, pm

MCTo == (pa :> a) @@ (pb :> b) @@ (pe :> a) @@ (pm :> Broadcast)
MCPriority == (pa :> 0) @@ (pb :> 0) @@ (pe :> 3) @@ (pm :> 1)
MCFrames == (pa :> 1) @@ (pb :> 2) @@ (pe :> 1) @@ (pm :> 1)
=============================================================================
