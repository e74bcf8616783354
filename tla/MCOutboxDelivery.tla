-------------------------- MODULE MCOutboxDelivery --------------------------
(* Small instances of OutboxDelivery for TLC. *)
EXTENDS OutboxDelivery, TLC

CONSTANTS k1, k2, w1, w2

OneKey == {k1}
TwoKeys == {k1, k2}
NoKeys == {}
SecondKey == {k2}
OneWorker == {w1}
TwoWorkers == {w1, w2}
AtOnce == {0}
Honest == {"ok", "ambiguous"}
AnyReport == {"ok", "ambiguous", "transient", "persist_error"}

\* Workers are interchangeable: no constant but their set names one.
WorkerSymmetry == Permutations(Worker)
=============================================================================
