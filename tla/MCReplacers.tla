---------------------------- MODULE MCReplacers ----------------------------
(* TLC instance of Replacers. *)
EXTENDS Replacers

MCFrames == 0 .. 4

=============================================================================
