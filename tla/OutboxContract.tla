--------------------------- MODULE OutboxContract ---------------------------
(* OutboxDelivery keeps DeliveryContract: the fate of a job read off its row. *)
EXTENDS OutboxDelivery

\* The row of id j, when the sequence stands at n.
FateOf(row, j, n) ==
  CASE row.status = "absent" -> IF j < n THEN "forgotten" ELSE "unborn"
    [] row.status \in Live -> "open"
    [] row.status = "sent" -> "delivered"
    [] row.status = "dead_lettered" -> "given_up"
    [] row.status = "uncertain" -> "unknown"

Fate == [j \in JobId |-> FateOf(table[j], j, nextId)]
JobKey == [j \in JobId |-> table[j].key]

Contract ==
  INSTANCE DeliveryContract WITH
    Job <- JobId, fate <- Fate, key <- JobKey, chat <- accepted

\* Every step of pollers, workers, crashes and time is a step of the contract: for
\* workers that keep to their lease and senders that report honestly.
KeepsContract == Contract!Spec
=============================================================================
