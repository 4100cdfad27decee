------------------------------- MODULE MCMpl -------------------------------
(***************************************************************************)
(* A small instance of Mpl for TLC.                                         *)
(***************************************************************************)
EXTENDS Mpl, TLC

MCData == [Imin |-> 1, Imax |-> 2, k |-> 1, Expirations |-> 1]
MCSize == <<1, 3, 2>>

\* A neighbour that still waits for the first message, one that has the last
\* one only, and one that is past it.
MCReports == {[min |-> SeqNo(1), have |-> {}], [min |-> SeqNo(1), have |-> {SeqNo(3)}],
              [min |-> SeqNo(3), have |-> {}]}
=============================================================================
