-------------------------- MODULE MCNotifierWakeup --------------------------
(* Small instances of NotifierWakeup for TLC. *)
EXTENDS NotifierWakeup
=============================================================================
