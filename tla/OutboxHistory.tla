---------------------------- MODULE OutboxHistory ----------------------------
(* OutboxDelivery keeps OutboxRows, which AlertPipeline builds on: with a clock, the time *)
(* each key was last marked sent or dead-lettered, and the number of its rows, the row of  *)
(* a key can be read off the table.                                                        *)
EXTENDS OutboxDelivery

CONSTANT MaxTime  \* bound: the clock stops here

ASSUME HistoryAssumption == MaxTime \in Nat

VARIABLES
  now,        \* the time (history)
  settledAt,  \* settledAt[k]: when the row of k was settled last (history)
  inserted    \* inserted[k]: the rows of k so far (history)

historyVars == <<vars, now, settledAt, inserted>>

\* The rows DELETE_EXPIRED_TERMINAL_JOB_SQL may delete one day.
Terminal(j) == table[j].status \in {"sent", "dead_lettered"}

JustSettled(k) == \E j \in JobId : Terminal(j) /\ table[j].key = k /\ table[j].due = 0

HistoryInit ==
  /\ Init
  /\ now = 0
  /\ settledAt = [k \in Key |-> 0] /\ inserted = [k \in Key |-> 0]

\* The statement has drawn an id for key k.
GivenRow(k) == \E j \in JobId : nextId <= j /\ j < nextId' /\ table'[j].key = k

Remembered ==
  /\ settledAt' = [k \in Key |-> IF JustSettled(k)' THEN now' ELSE settledAt[k]]
  /\ inserted' = [k \in Key |-> IF GivenRow(k) THEN inserted[k] + 1 ELSE inserted[k]]

HistoryNext ==
  /\ \/ Act /\ now' = now
     \/ Tick /\ now < MaxTime /\ now' = now + 1
  /\ Remembered

HistorySpec == HistoryInit /\ [][HistoryNext]_historyVars

-----------------------------------------------------------------------------
StatusOf(k) ==
  CASE \E j \in JobId : Terminal(j) /\ table[j].key = k -> "done"
    [] \E j \in JobId : Exists(table, j) /\ ~Terminal(j) /\ table[j].key = k -> "open"
    [] \A j \in JobId : Exists(table, j) => table[j].key # k -> "absent"

RowOf(k) ==
  [status |-> StatusOf(k),
   at |-> IF StatusOf(k) = "done" THEN settledAt[k] ELSE 0,
   nth |-> inserted[k]]

rowsSeen == [k \in Key |-> RowOf(k)]

Rows == INSTANCE OutboxRows WITH Window <- DuplicateWindow, rows <- rowsSeen

\* To those who enqueue, the table, its statements and its workers, however they crash,
\* outlast their leases or report, are one row per key that is free again a window after
\* it was settled last.
KeepsRows == Rows!Spec

\* Inductive, for KeepsRows: a row's age tells when its key was settled, up to the window.
AgeShows(j) ==
  LET at == settledAt[table[j].key]
  IN  /\ -DuplicateWindow <= table[j].due /\ table[j].due <= 0
      /\ IF table[j].due > -DuplicateWindow THEN at = now + table[j].due
                                            ELSE at + DuplicateWindow <= now

HistoryTypeOK ==
  now \in Nat /\ settledAt \in [Key -> Nat] /\ inserted \in [Key -> Nat]

AgeInv == KeyInv /\ \A j \in JobId : Terminal(j) => AgeShows(j)
=============================================================================
