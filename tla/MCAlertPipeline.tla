--------------------------- MODULE MCAlertPipeline ---------------------------
(* Small instances of AlertPipeline for TLC. *)
EXTENDS AlertPipeline, TLC

CONSTANTS history, feed, push, k1, c1, c2, r1, h1, h2, f1, p1

AllSources == {history, feed, push}
PolledSources == {history, feed}
OneKey == {k1}
OneChat == {c1}
TwoChats == {c1, c2}
ChatsAlike == Permutations(TwoChats)
OneCallback == {r1}

\* h1 and p1 report an event, h2 the next one with the same text.
TwoWaves == {h1, p1, h2}
\* After h1, three sources report one event.
ThreeReports == {h1, h2, f1, p1}
Origin == (h1 :> history) @@ (h2 :> history) @@ (f1 :> feed) @@ (p1 :> push)
SourceOfAlert == [a \in Alert |-> Origin[a]]
SameKey == [a \in Alert |-> k1]
Waves == [a \in Alert |-> IF a = h2 THEN Window ELSE 0]
Repeated == [a \in Alert |-> CASE a = h1 -> 0 [] a = p1 -> Window + 1 [] OTHER -> Window]
RefusedOnly == {"refused"}
AnyFault == {"crash", "torn", "disk", "refused", "lost", "mute"}
=============================================================================
