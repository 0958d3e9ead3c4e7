--------------------------- MODULE MCDiskManager ---------------------------
(* TLC instances of DiskManager. *)
EXTENDS DiskManager

=============================================================================
