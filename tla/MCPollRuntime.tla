---------------------------- MODULE MCPollRuntime ----------------------------
(* Small instances of PollRuntime and RealtimeSources for TLC. *)
EXTENDS PollRuntime
=============================================================================
