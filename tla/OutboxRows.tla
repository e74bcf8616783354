----------------------------- MODULE OutboxRows -----------------------------
(***************************************************************************)
(* What the outbox promises those who enqueue, with no ids, leases,        *)
(* workers or retries: while a key has a row that is open, or was settled  *)
(* less than a window ago, it takes no other, and what is inserted is not  *)
(* lost.  Workers settle an open row, and may settle a settled one again   *)
(* or open it anew: their marks ask neither for the row's state nor for    *)
(* its owner.                                                              *)
(***************************************************************************)
EXTENDS Naturals

CONSTANTS Key, Window

VARIABLES
  now,
  rows  \* the row of each key

vars == <<now, rows>>

\* at: when a done row was settled last; nth: rows the key has been given so far.
Row == [status : {"absent", "open", "done"}, at : Nat, nth : Nat]
NoRow == [status |-> "absent", at |-> 0, nth |-> 0]
OpenRow(n) == [status |-> "open", at |-> 0, nth |-> n]
DoneRow(n) == [status |-> "done", at |-> now, nth |-> n]

Init == now = 0 /\ rows = [p \in Key |-> NoRow]

Free(p) ==
  \/ rows[p].status = "absent"
  \/ rows[p].status = "done" /\ rows[p].at + Window <= now

Submit(K) ==
  rows' = [p \in Key |-> IF p \in K /\ Free(p) THEN OpenRow(rows[p].nth + 1) ELSE rows[p]]

Settle(p) ==
  rows[p].status # "absent" /\ rows' = [rows EXCEPT ![p] = DoneRow(rows[p].nth)]

Reopen(p) ==
  rows[p].status = "done" /\ rows' = [rows EXCEPT ![p] = OpenRow(rows[p].nth)]

Work == \E p \in Key : Settle(p) \/ Reopen(p)

Next ==
  \/ now' = now /\ (Work \/ \E K \in SUBSET Key : Submit(K))
  \/ now' = now + 1 /\ rows' = rows

Spec == Init /\ [][Next]_vars
=============================================================================
