--------------------------- MODULE MCOwnedStream ---------------------------
(* OwnedStream for TLC. *)
EXTENDS OwnedStream

=============================================================================
