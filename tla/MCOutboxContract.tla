-------------------------- MODULE MCOutboxContract --------------------------
(* Small instances of OutboxContract for TLC. *)
EXTENDS OutboxContract, MCOutboxDelivery
=============================================================================
