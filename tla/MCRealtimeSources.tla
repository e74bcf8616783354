-------------------------- MODULE MCRealtimeSources --------------------------
(* Small instances of RealtimeSources for TLC. *)
EXTENDS RealtimeSources
=============================================================================
