-------------------------- MODULE DeliveryContract --------------------------
(***************************************************************************)
(* What the outbox and its workers promise about a job, with no table, no  *)
(* lease, no clock and no worker: a job is submitted under a key no other  *)
(* remembered job has, reaches the chat at most once and only while it is  *)
(* open, and is then closed with a verdict that is true of the chat, or    *)
(* with none.  Jobs move independently, several of them in one step.       *)
(***************************************************************************)
EXTENDS Naturals

CONSTANTS Job, Key, NoKey

VARIABLES
  fate,   \* fate[j]: what is known of job j
  key,    \* key[j]: the delivery it is for, NoKey when unborn or forgotten
  chat    \* chat[j]: messages the chat has received for it

vars == <<fate, key, chat>>

Init ==
  /\ fate = [j \in Job |-> "unborn"]
  /\ key = [j \in Job |-> NoKey]
  /\ chat = [j \in Job |-> 0]

Becomes(j, f, k, n) == fate'[j] = f /\ key'[j] = k /\ chat'[j] = n

Stay(j) == Becomes(j, fate[j], key[j], chat[j])

\* A new job, for a key that no other job is remembered under.
Submit(j) ==
  /\ fate[j] = "unborn"
  /\ \E k \in Key :
       /\ \A i \in Job \ {j} : key'[i] # k
       /\ Becomes(j, "open", k, 0)

Deliver(j) == fate[j] = "open" /\ chat[j] = 0 /\ Becomes(j, "open", key[j], 1)

Confirm(j) == fate[j] = "open" /\ chat[j] = 1 /\ Becomes(j, "delivered", key[j], 1)

GiveUp(j) == fate[j] = "open" /\ chat[j] = 0 /\ Becomes(j, "given_up", key[j], 0)

\* Nobody knows any more: allowed while open, and when the news of a
\* confirmation was lost.
Doubt(j) == fate[j] \in {"open", "delivered"} /\ Becomes(j, "unknown", key[j], chat[j])

\* Only a job whose outcome is known is forgotten.
Forget(j) == fate[j] \in {"delivered", "given_up"} /\ Becomes(j, "forgotten", NoKey, chat[j])

Move(j) ==
  \/ Stay(j) \/ Submit(j) \/ Deliver(j) \/ Confirm(j) \/ GiveUp(j) \/ Doubt(j) \/ Forget(j)

Next ==
  /\ \A j \in Job : Move(j)
  /\ fate' \in [Job -> {"unborn", "open", "delivered", "given_up", "unknown", "forgotten"}]
  /\ key' \in [Job -> Key \cup {NoKey}]
  /\ chat' \in [Job -> 0..1]

Spec == Init /\ [][Next]_vars
=============================================================================
