------------------------ MODULE MCPagerDutyIncidents ------------------------
(* Small instances of PagerDutyIncidents for TLC. *)
EXTENDS PagerDutyIncidents

CONSTANTS p, e

\* Two calls that overlap; the tasks of the outbox; WhatsApp; a call whose write fails
\* before a crash.
TheScenes ==
  {[calls |-> {p, e}, looks |-> {Db, "notifier-stale"}, faults |-> 1],
   [calls |-> {p}, looks |-> {Db, Unavailable, Uncertain, Backlog}, faults |-> 1],
   [calls |-> {p}, looks |-> {Db, WhatsApp}, faults |-> 1],
   [calls |-> {p}, looks |-> {Db}, faults |-> 2]}
=============================================================================
