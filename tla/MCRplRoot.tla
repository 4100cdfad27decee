----------------------------- MODULE MCRplRoot -----------------------------
(***************************************************************************)
(* A small instance of RplRoot for TLC.                                     *)
(***************************************************************************)
EXTENDS RplRoot, TLC

\* One parent, or two of which a node is preferred to the other.
MCTransits ==
    [x \in Node |->
        LET via == (Node \cup {Root}) \ {x}
        IN  {<<[via |-> p, cost |-> 1]>> : p \in via}
            \cup {<<[via |-> p[1], cost |-> 1], [via |-> p[2], cost |-> 2]>> :
                    p \in {p \in via \X via : p[1] \notin {p[2], Root}}}]
\* A node is a good neighbour of the root or not known as one.
MCLinks == {NoLink, [etx |-> "good", reachable |-> TRUE]}
MCSymmetry == Permutations(Node)
=============================================================================
