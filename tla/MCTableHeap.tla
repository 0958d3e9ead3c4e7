----------------------------- MODULE MCTableHeap -----------------------------
(***************************************************************************)
(* A heap of up to three pages of five bytes, a slot entry taking one.  A  *)
(* page is full with a short and a long row; a long row leaves room for a  *)
(* short one only.                                                         *)
(***************************************************************************)
EXTENDS TableHeap, TLC

CONSTANTS a, c

MCSizeOf == (a :> 1) @@ (c :> 2)

=============================================================================
