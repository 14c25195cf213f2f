--------------------------- MODULE MCLocalCommand ---------------------------
(* Instances of LocalCommand for TLC. *)
EXTENDS LocalCommand
=============================================================================
