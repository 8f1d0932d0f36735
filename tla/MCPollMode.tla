----------------------------- MODULE MCPollMode -----------------------------
(* Instances of PollMode for TLC. *)
EXTENDS PollMode
=============================================================================
