--------------------------- MODULE SenderContract ---------------------------
(* What the worker of the outbox takes a sender's answers for: a message that was *)
(* accepted is never reported as a plain failure, which would be retried.          *)
EXTENDS Naturals

CONSTANT Job

VARIABLES
  accepted, \* accepted[j]: messages the provider took for job j
  outcome   \* outcome[j]: what its last send() reported

vars == <<accepted, outcome>>

Init == accepted = [j \in Job |-> 0] /\ outcome = [j \in Job |-> "none"]

\* The provider takes the message, with its answer on the way or lost.
Take(j) ==
  /\ outcome[j] = "none" /\ accepted[j] = 0
  /\ accepted' = [accepted EXCEPT ![j] = 1]
  /\ \E o \in {"none", "ambiguous"} : outcome' = [outcome EXCEPT ![j] = o]

Report(j) ==
  /\ outcome[j] = "none" /\ UNCHANGED accepted
  /\ \E o \in {"ambiguous", IF accepted[j] = 1 THEN "ok" ELSE "transient"} :
       outcome' = [outcome EXCEPT ![j] = o]

Retry(j) ==
  /\ outcome[j] = "transient" /\ UNCHANGED accepted
  /\ outcome' = [outcome EXCEPT ![j] = "none"]

Next == \E j \in Job : Take(j) \/ Report(j) \/ Retry(j)

Spec == Init /\ [][Next]_vars
=============================================================================
