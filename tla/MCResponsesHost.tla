--------------------------- MODULE MCResponsesHost ---------------------------
(* ResponsesHost for TLC: the agent publishes two texts and other events. *)
EXTENDS ResponsesHost

=============================================================================
