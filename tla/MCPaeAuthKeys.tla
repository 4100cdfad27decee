---------------------------- MODULE MCPaeAuthKeys ----------------------------
(***************************************************************************)
(* Small instances of PaeAuthKeys for TLC.                                  *)
(***************************************************************************)
EXTENDS PaeAuthKeys, TLC

CONSTANTS k1, k2, k3, k4, k5, k6

GtkOnly == {"gtk"}
BothKinds == {"gtk", "lgtk"}

NoneForced == [k \in Kinds |-> [i \in Slots |-> NoKey]]
FirstForced == [k \in Kinds |-> [i \in Slots |-> IF i = 0 THEN k1 ELSE NoKey]]

\* Keys are alike, but for one that the configuration names.
KeySymmetry == Permutations(Keys)
ForcedSymmetry == Permutations(Keys \ {k1})
=============================================================================
