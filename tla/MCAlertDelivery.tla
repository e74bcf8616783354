--------------------------- MODULE MCAlertDelivery ---------------------------
(* Small instances of AlertDelivery for TLC. *)
EXTENDS AlertDelivery, TLC

CONSTANTS history, feed, push, k1, c1, r1, h1, f1, p1, w1

AllSources == {history, feed, push}
PolledSources == {history, feed}
OneText == {k1}
OneChat == {c1}
OneKey == {<<k1, c1>>}
NoKeys == {}
OneCallback == {r1}
OneWorker == {w1}
AtOnce == {0}
Honest == {"ok", "ambiguous"}

\* h1, f1 and p1 report one event.
ThreeReports == {h1, f1, p1}
TwoReports == {h1, p1}
Origin == (h1 :> history) @@ (f1 :> feed) @@ (p1 :> push)
SourceOfAlert == [a \in Alert |-> Origin[a]]
SameText == [a \in Alert |-> k1]
OneEvent == [a \in Alert |-> IF a = f1 THEN 1 ELSE 0]
RefusedOnly == {"refused"}
=============================================================================
