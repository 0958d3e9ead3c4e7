----------------------------- MODULE MCBPlusTree -----------------------------
(***************************************************************************)
(* Nine keys.  With two pairs to a leaf the tree grows to three levels and *)
(* internal pages split, merge and redistribute; with four pairs to a leaf *)
(* leaves redistribute as well.                                            *)
(***************************************************************************)
EXTENDS BPlusTree

MCKeys == 1..9

=============================================================================
