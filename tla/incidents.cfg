SPECIFICATION FairSpec
CONSTANTS
  p = p
  e = e
  Poll = {p}
  Event = {e}
  Incident = {"db-unavailable", "notifier-stale", "outbox-unavailable",
              "outbox-uncertain", "outbox-backlog", "whatsapp-disconnected"}
  Scenes <- TheScenes
  MaxChanges = 3
  MaxFaults = 2
INVARIANT
  KnownIsTrue
PROPERTY IncidentsFollow
