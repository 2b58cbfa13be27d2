--------------------------- MODULE MCReplayFilter ---------------------------
(* ReplayFilterSpec for TLC. *)
EXTENDS ReplayFilterSpec
=============================================================================
