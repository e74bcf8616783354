---------------------- MODULE PagerDutyIncidents_proofs ----------------------
(* Theorems about PagerDutyIncidents for any incidents, calls and bounds.     *)
EXTENDS PagerDutyIncidents, TLAPS

Requests == [Incident -> Request \cup {None}]
Wanting == [Incident -> Action \cup {"none"}]

LEMMA ConstantTypes ==
  /\ NoRequest \in Requests /\ Nothing \in Wanting
  /\ \A to \in Action \cup {"none"} : \A k : Only(k, to) \in Wanting
  /\ \A b \in BOOLEAN : Wanted(b) \in Action
  /\ \A where \in {"idle", "db", "dbPost", "stats", "rest"}, again \in BOOLEAN : At(where, again) \in Call
  /\ Idle \in Call
BY DEF NoRequest, Requests, Nothing, Wanting, Only, Action, Wanted, At, Call, Idle

-----------------------------------------------------------------------------
(* Asking *)

\* The last thing s did about k was to send a request, which crosses none or is doubted.
Adds(s, k) ==
  /\ request'[s][k] \in Request /\ request'[s][k].at = "sent"
  /\ doubt'[k] \/ Rivals(s, k) \subseteq {request'[s][k].to}

\* Of the requests that s keeps, none is replaced.
Follows(s, kept, lost) ==
  /\ \A c \in Sync \ {s} : request'[c] = request[c]
  /\ \A k \in Incident :
       /\ doubt[k] \/ k \in lost => doubt'[k]
       /\ request'[s][k] = kept[k] \/ (kept[k] = None /\ Adds(s, k))

LEMMA Asking ==
  ASSUME TypeOK, NEW s \in Sync, NEW kept \in Requests, NEW known \in [Incident -> Status],
         NEW wanted \in Wanting, NEW lost,
         \A k \in Incident : Sends(known, wanted, k) => kept[k] = None,
         Ask(s, kept, known, wanted, lost)
  PROVE  /\ request' \in [Sync -> Requests] /\ doubt' \in [Incident -> BOOLEAN]
         /\ Follows(s, kept, lost)
<1>1. request \in [Sync -> Requests] BY DEF TypeOK, Requests
<1>2. \A k \in Incident : Sends(known, wanted, k) => wanted[k] \in Action
  BY DEF Sends, Wanting
<1>3. /\ request' = [request EXCEPT ![s] = [k \in Incident |->
           IF Sends(known, wanted, k) THEN [to |-> wanted[k], at |-> "sent"] ELSE kept[k]]]
      /\ doubt' = [k \in Incident |->
           \/ doubt[k] \/ k \in lost
           \/ Sends(known, wanted, k) /\ Rivals(s, k) \ {wanted[k]} # {}]
  BY DEF Ask
<1>4. \A k \in Incident : Sends(known, wanted, k) => [to |-> wanted[k], at |-> "sent"] \in Request
  BY <1>2 DEF Request
<1>5. [k \in Incident |-> IF Sends(known, wanted, k) THEN [to |-> wanted[k], at |-> "sent"] ELSE kept[k]]
        \in Requests
  BY <1>4 DEF Requests
<1>6. request' \in [Sync -> Requests] /\ \A c \in Sync \ {s} : request'[c] = request[c]
  BY <1>1, <1>3, <1>5
<1>7. doubt' \in [Incident -> BOOLEAN] BY <1>3
<1>8. ASSUME NEW k \in Incident
      PROVE  /\ doubt[k] \/ k \in lost => doubt'[k]
             /\ request'[s][k] = kept[k] \/ (kept[k] = None /\ Adds(s, k))
  <2>1. doubt'[k] <=> \/ doubt[k] \/ k \in lost
                      \/ Sends(known, wanted, k) /\ Rivals(s, k) \ {wanted[k]} # {}
    BY <1>3
  <2>2. request'[s][k] = IF Sends(known, wanted, k) THEN [to |-> wanted[k], at |-> "sent"] ELSE kept[k]
    BY <1>1, <1>3
  <2>3. CASE Sends(known, wanted, k)
    <3>1. request'[s][k] \in Request /\ request'[s][k].at = "sent" /\ request'[s][k].to = wanted[k]
      BY <1>4, <2>2, <2>3
    <3>2. doubt'[k] \/ Rivals(s, k) \subseteq {wanted[k]} BY <2>1, <2>3
    <3>3. Adds(s, k) BY <3>1, <3>2 DEF Adds
    <3>. QED BY <2>1, <2>3, <3>3
  <2>. QED BY <2>1, <2>2, <2>3
<1>. QED BY <1>6, <1>7, <1>8 DEF Follows

\* What the other tasks want of an incident.
LEMMA WishTypes ==
  ASSUME TypeOK, NEW stats \in BOOLEAN, NEW outboxError \in BOOLEAN,
         NEW known \in [Incident -> Status]
  PROVE  Wishes(stats, outboxError, known) \in Wanting
<1>1. \A k \in Incident : bad[k] \in BOOLEAN BY DEF TypeOK
<1>2. \A k \in Incident :
        /\ MonitorWish(k) \in Action
        /\ AvailabilityWish(outboxError) \in Action
        /\ OutboxWish(k, stats, known) \in Action \cup {"none"}
  BY <1>1, ConstantTypes DEF MonitorWish, AvailabilityWish, OutboxWish
<1>. QED BY <1>2 DEF Wishes, Wanting

-----------------------------------------------------------------------------
(* The call *)

\* Nothing of another call changes, and s has no more than belongs where it is.
Goes(s) ==
  /\ sync' \in [Sync -> Call]
  /\ \A c \in Sync \ {s} : sync'[c] = sync[c]
  /\ CallShape(s)'

LEMMA RestGoes ==
  ASSUME TypeOK, NEW s \in Sync, NEW known \in [Incident -> Status],
         NEW stats \in BOOLEAN, NEW outboxError \in BOOLEAN, NEW lost,
         Rest(s, NoRequest, known, stats, outboxError, lost)
  PROVE  /\ request' \in [Sync -> Requests] /\ doubt' \in [Incident -> BOOLEAN]
         /\ Follows(s, NoRequest, lost) /\ Goes(s)
<1>. DEFINE wishes == Wishes(stats, outboxError, known)
<1>1. wishes \in Wanting BY WishTypes
<1>2. Ask(s, NoRequest, known, wishes, lost) BY DEF Rest
<1>3. \A k \in Incident : NoRequest[k] = None BY DEF NoRequest
<1>4. /\ request' \in [Sync -> Requests] /\ doubt' \in [Incident -> BOOLEAN]
      /\ Follows(s, NoRequest, lost)
  BY <1>1, <1>2, <1>3, Asking, ConstantTypes
<1>5. request'[s] = [k \in Incident |->
        IF Sends(known, wishes, k) THEN [to |-> wishes[k], at |-> "sent"] ELSE None]
  BY <1>2, <1>3 DEF Ask, TypeOK
<1>6. \A k \in Incident : wishes[k] = "none" => request'[s][k] = None
  BY <1>5 DEF Sends
<1>7. \A k \in Incident : k \in {Db, WhatsApp} => wishes[k] = "none"
  BY DEF Wishes, Monitored, Db, WhatsApp, Unavailable, Uncertain, Backlog
<1>8. /\ sync' = [sync EXCEPT ![s] =
           [at |-> "rest", again |-> @.again, asking |-> WhatsApp \in scene.looks,
            backlog |-> IF stats /\ Backlog \in scene.looks /\ wishes[Backlog] = "none"
                        THEN Wanted(bad[Backlog]) ELSE "none"]]
  BY DEF Rest
<1>9. Backlog \in scene.looks => Backlog \in Incident /\ Wanted(bad[Backlog]) \in Action
  BY IncidentAssumption, ConstantTypes DEF TypeOK
<1>10. sync \in [Sync -> Call] /\ sync[s].again \in BOOLEAN BY DEF TypeOK, Call
<1>. DEFINE call == [at |-> "rest", again |-> sync[s].again, asking |-> WhatsApp \in scene.looks,
                     backlog |-> IF stats /\ Backlog \in scene.looks /\ wishes[Backlog] = "none"
                                 THEN Wanted(bad[Backlog]) ELSE "none"]
<1>11. call \in Call BY <1>9, <1>10 DEF Call
<1>12. sync' \in [Sync -> Call] /\ sync'[s] = call /\ \A c \in Sync \ {s} : sync'[c] = sync[c]
  BY <1>8, <1>10, <1>11
<1>13. call.at = "rest" /\ (call.backlog # "none" => wishes[Backlog] = "none")
  OBVIOUS
<1>. HIDE DEF call, wishes
<1>14. Db \in Incident => request'[s][Db] = None BY <1>6, <1>7
<1>15. WhatsApp \in Incident => request'[s][WhatsApp] = None BY <1>6, <1>7
<1>16. sync'[s].backlog # "none" /\ Backlog \in Incident => request'[s][Backlog] = None
  BY <1>6, <1>12, <1>13
<1>17. CallShape(s)'
  BY <1>12, <1>13, <1>14, <1>15, <1>16, IncidentAssumption DEF CallShape
<1>. QED BY <1>4, <1>12, <1>17 DEF Goes

\* A request about the database, or the tasks that come after it.
LEMMA DbWishGoes ==
  ASSUME TypeOK, NEW s \in Sync, NEW known \in [Incident -> Status], NEW to \in Action, NEW lost,
         DbWish(s, NoRequest, known, to, lost)
  PROVE  /\ request' \in [Sync -> Requests] /\ doubt' \in [Incident -> BOOLEAN]
         /\ Follows(s, NoRequest, lost) /\ Goes(s)
<1>0. sync \in [Sync -> Call] /\ sync[s].again \in BOOLEAN /\ request \in [Sync -> Requests]
  BY DEF TypeOK, Call, Requests
<1>1. \A k \in Incident : NoRequest[k] = None BY DEF NoRequest
<1>2. CASE Ask(s, NoRequest, known, Only(Db, to), lost)
           /\ sync' = [sync EXCEPT ![s] = At("dbPost", @.again)]
  <2>1. Only(Db, to) \in Wanting BY ConstantTypes
  <2>2. /\ request' \in [Sync -> Requests] /\ doubt' \in [Incident -> BOOLEAN]
        /\ Follows(s, NoRequest, lost)
    BY <1>1, <1>2, <2>1, Asking, ConstantTypes
  <2>3. \A k \in Incident \ {Db} : Only(Db, to)[k] = "none" BY DEF Only, Nothing
  <2>4. \A k \in Incident \ {Db} : request'[s][k] = None
    BY <1>0, <1>1, <1>2, <2>3 DEF Ask, Sends
  <2>5. At("dbPost", sync[s].again) \in Call BY <1>0, ConstantTypes
  <2>6. /\ sync' \in [Sync -> Call] /\ sync'[s] = At("dbPost", sync[s].again)
        /\ \A c \in Sync \ {s} : sync'[c] = sync[c]
    BY <1>0, <1>2, <2>5
  <2>. QED BY <2>2, <2>4, <2>6 DEF Goes, CallShape, At
<1>3. CASE Ask(s, NoRequest, known, Nothing, lost)
           /\ sync' = [sync EXCEPT ![s] = At("stats", @.again)]
  <2>2. /\ request' \in [Sync -> Requests] /\ doubt' \in [Incident -> BOOLEAN]
        /\ Follows(s, NoRequest, lost)
    BY <1>1, <1>3, Asking, ConstantTypes
  <2>3. request'[s] = NoRequest
    BY <1>0, <1>1, <1>3 DEF Ask, Sends, Nothing, NoRequest
  <2>5. At("stats", sync[s].again) \in Call BY <1>0, ConstantTypes
  <2>6. /\ sync' \in [Sync -> Call] /\ sync'[s] = At("stats", sync[s].again)
        /\ \A c \in Sync \ {s} : sync'[c] = sync[c]
    BY <1>0, <1>3, <2>5
  <2>. QED BY <2>2, <2>3, <2>6 DEF Goes, CallShape, At
<1>4. CASE Rest(s, NoRequest, known, FALSE, FALSE, lost)
  BY <1>4, RestGoes
<1>. QED BY <1>2, <1>3, <1>4 DEF DbWish

\* Where s asks about one incident more, or none, next to the requests it keeps.
LEMMA KeptGoes ==
  ASSUME TypeOK, NEW s \in Sync, NEW kept \in Requests, NEW known \in [Incident -> Status],
         NEW i, NEW to \in Action \cup {"none"}, NEW lost,
         i \in Incident /\ to # "none" => kept[i] = None,
         Ask(s, kept, known, Only(i, to), lost)
  PROVE  /\ request' \in [Sync -> Requests] /\ doubt' \in [Incident -> BOOLEAN]
         /\ Follows(s, kept, lost)
         /\ \A k \in Incident : k # i \/ to = "none" => request'[s][k] = kept[k]
<1>1. request \in [Sync -> Requests] BY DEF TypeOK, Requests
<1>2. \A k \in Incident : k # i \/ to = "none" => Only(i, to)[k] = "none" BY DEF Only, Nothing
<1>3. \A k \in Incident : Sends(known, Only(i, to), k) => k = i /\ to # "none" BY <1>2 DEF Sends
<1>4. Only(i, to) \in Wanting BY ConstantTypes
<1>5. /\ request' \in [Sync -> Requests] /\ doubt' \in [Incident -> BOOLEAN]
      /\ Follows(s, kept, lost)
  BY <1>3, <1>4, Asking
<1>6. \A k \in Incident : k # i \/ to = "none" => request'[s][k] = kept[k]
  BY <1>1, <1>3 DEF Ask
<1>. QED BY <1>5, <1>6

LEMMA NothingIsOnly == Nothing = Only(Db, "none") BY DEF Nothing, Only

-----------------------------------------------------------------------------
(* The end of a request *)

\* s, whose request about j has ended, goes on, perhaps asking again.
Ends(s, j, lost) ==
  /\ request' \in [Sync -> Requests] /\ doubt' \in [Incident -> BOOLEAN]
  /\ Follows(s, Without(s, j), lost) /\ Goes(s)

LEMMA WithoutType ==
  ASSUME TypeOK, NEW s \in Sync, NEW j \in Incident
  PROVE  /\ Without(s, j) \in Requests /\ Without(s, j)[j] = None
         /\ \A k \in Incident \ {j} : Without(s, j)[k] = request[s][k]
BY DEF TypeOK, Without, Requests

\* Besides its request about the database a call has none.
LEMMA DbAlone ==
  ASSUME TypeOK, NEW s \in Sync, CallShape(s), Db \in Incident, request[s][Db] # None
  PROVE  sync[s].at = "dbPost" /\ Without(s, Db) = NoRequest
<1>1. sync[s].at \in {"idle", "db", "dbPost", "stats", "rest"} /\ request[s] \in Requests
  BY DEF TypeOK, Call, Requests
<1>2. sync[s].at = "dbPost" BY <1>1 DEF CallShape, NoRequest
<1>3. \A k \in Incident \ {Db} : request[s][k] = None BY <1>2 DEF CallShape
<1>. QED BY <1>1, <1>2, <1>3 DEF Without, NoRequest, Requests

\* At its other tasks the call is in none of these.
LEMMA AtRest ==
  ASSUME TypeOK, NEW s \in Sync, CallShape(s), NEW j \in Incident, j # Db, request[s][j] # None
  PROVE  sync[s].at = "rest"
<1>1. sync[s].at \in {"idle", "db", "dbPost", "stats", "rest"} BY DEF TypeOK, Call
<1>. QED BY <1>1 DEF CallShape, NoRequest

LEMMA BacklogGoes ==
  ASSUME TypeOK, NEW s \in Sync, CallShape(s), NEW j \in Incident, j # Db, request[s][j] # None,
         LeavesBacklog(s, j), request' \in [Sync -> Requests],
         \A k \in Incident \ {j} :
           k # Backlog \/ j # Uncertain => request'[s][k] = request[s][k],
         request'[s][j] = None
  PROVE  Goes(s)
<1>1. sync \in [Sync -> Call] /\ sync[s].at = "rest" BY AtRest DEF TypeOK
<1>2. [sync[s] EXCEPT !.backlog = "none"] \in Call BY <1>1 DEF Call
<1>3. CASE j = Uncertain
  <2>1. sync' = [sync EXCEPT ![s] = [@ EXCEPT !.backlog = "none"]] BY <1>3 DEF LeavesBacklog
  <2>2. /\ sync' \in [Sync -> Call] /\ \A c \in Sync \ {s} : sync'[c] = sync[c]
        /\ sync'[s] = [sync[s] EXCEPT !.backlog = "none"]
    BY <1>1, <1>2, <2>1
  <2>3. sync'[s].at = "rest" /\ sync'[s].asking = sync[s].asking /\ sync'[s].backlog = "none"
    BY <1>1, <2>2 DEF Call
  <2>4. Db # Backlog /\ WhatsApp # Backlog BY DEF Db, WhatsApp, Backlog
  <2>. QED BY <2>2, <2>3, <2>4, IncidentAssumption DEF Goes, CallShape
<1>4. CASE j # Uncertain
  <2>1. sync' = sync BY <1>4 DEF LeavesBacklog
  <2>2. \A k \in Incident : request[s][k] = None => request'[s][k] = None BY <1>4
  <2>. QED BY <1>1, <2>1, <2>2, IncidentAssumption DEF Goes, CallShape
<1>. QED BY <1>3, <1>4

LEMMA ContinuesEnds ==
  ASSUME TypeOK, NEW s \in Sync, CallShape(s), NEW j \in Incident, request[s][j] # None,
         NEW known \in [Incident -> Status], Continues(s, j, known)
  PROVE  Ends(s, j, {})
<1>1. CASE j = Db
  <2>1. Without(s, j) = NoRequest BY <1>1, DbAlone
  <2>2. CASE Rest(s, NoRequest, known, FALSE, FALSE, {}) BY <2>1, <2>2, RestGoes DEF Ends
  <2>3. CASE Ask(s, NoRequest, known, Only(Db, "none"), {})
             /\ sync' = [sync EXCEPT ![s] = At("stats", @.again)]
    <3>1. /\ request' \in [Sync -> Requests] /\ doubt' \in [Incident -> BOOLEAN]
          /\ Follows(s, NoRequest, {}) /\ \A k \in Incident : request'[s][k] = NoRequest[k]
      BY <2>3, KeptGoes, ConstantTypes
    <3>2. request'[s] = NoRequest BY <3>1 DEF Requests, NoRequest
    <3>3. sync \in [Sync -> Call] /\ At("stats", sync[s].again) \in Call
      BY ConstantTypes DEF TypeOK, Call
    <3>4. /\ sync' \in [Sync -> Call] /\ sync'[s] = At("stats", sync[s].again)
          /\ \A c \in Sync \ {s} : sync'[c] = sync[c]
      BY <2>3, <3>3
    <3>5. Goes(s) BY <3>2, <3>4 DEF Goes, CallShape, At
    <3>. QED BY <2>1, <3>1, <3>5 DEF Ends
  <2>. QED BY <1>1, <2>1, <2>2, <2>3, NothingIsOnly DEF Continues
<1>2. CASE j # Db
  <2>0. sync[s].at = "rest" /\ sync[s].backlog \in Action \cup {"none"}
    BY <1>2, AtRest DEF TypeOK, Call
  <2>1. PICK i \in {Backlog, Db}, to \in Action \cup {"none"} :
          /\ Ask(s, Without(s, j), known, Only(i, to), {}) /\ LeavesBacklog(s, j)
          /\ to # "none" => j = Uncertain /\ i = Backlog /\ to = sync[s].backlog
    BY <1>2, <2>0, NothingIsOnly DEF Continues
  <2>2. to # "none" /\ i \in Incident => Without(s, j)[i] = None
    BY <2>1, WithoutType DEF CallShape
  <2>3. /\ request' \in [Sync -> Requests] /\ doubt' \in [Incident -> BOOLEAN]
        /\ Follows(s, Without(s, j), {})
        /\ \A k \in Incident : k # i \/ to = "none" => request'[s][k] = Without(s, j)[k]
    BY <2>1, <2>2, KeptGoes, WithoutType
  <2>4. Uncertain # Backlog BY DEF Uncertain, Backlog
  <2>5. Goes(s) BY <1>2, <2>1, <2>3, <2>4, BacklogGoes, WithoutType
  <2>. QED BY <2>3, <2>5 DEF Ends
<1>. QED BY <1>1, <1>2

LEMMA ThrowsEnds ==
  ASSUME TypeOK, NEW s \in Sync, CallShape(s), NEW j \in Incident, request[s][j] # None,
         NEW known \in [Incident -> Status], NEW lost, TaskThrows(s, j, known, lost)
  PROVE  Ends(s, j, lost) /\ since' \in [Patient -> {"never", "recent", "long"}]
<1>0. since \in [Patient -> {"never", "recent", "long"}] BY DEF TypeOK
<1>1. CASE j = Db
  <2>1. Without(s, j) = NoRequest BY <1>1, DbAlone
  <2>2. DbWish(s, NoRequest, known, "triggered", lost) => Ends(s, j, lost)
    BY <2>1, DbWishGoes DEF Ends, Action
  <2>3. Rest(s, NoRequest, known, FALSE, FALSE, lost) => Ends(s, j, lost)
    BY <2>1, RestGoes DEF Ends
  <2>. QED BY <1>0, <1>1, <2>1, <2>2, <2>3 DEF TaskThrows
<1>2. CASE j # Db /\ ~(j = WhatsApp /\ request[s][j].to = "resolved")
  <2>1. /\ Ask(s, Without(s, j), known, Only(Db, "none"), lost)
        /\ LeavesBacklog(s, j) /\ since' = since
    BY <1>2, NothingIsOnly DEF TaskThrows
  <2>2. /\ request' \in [Sync -> Requests] /\ doubt' \in [Incident -> BOOLEAN]
        /\ Follows(s, Without(s, j), lost)
        /\ \A k \in Incident : request'[s][k] = Without(s, j)[k]
    BY <2>1, KeptGoes, WithoutType
  <2>3. Goes(s) BY <1>2, <2>1, <2>2, BacklogGoes, WithoutType
  <2>. QED BY <1>0, <2>1, <2>2, <2>3 DEF Ends
<1>3. CASE j = WhatsApp /\ request[s][j].to = "resolved"
  <2>0. j # Db BY <1>3 DEF WhatsApp, Db
  <2>1. PICK to \in Action \cup {"none"} :
          /\ Ask(s, Without(s, j), known, Only(j, to), lost) /\ sync' = sync
    BY <1>3, <2>0 DEF TaskThrows, Only, Nothing, Action
  <2>2. /\ request' \in [Sync -> Requests] /\ doubt' \in [Incident -> BOOLEAN]
        /\ Follows(s, Without(s, j), lost)
        /\ \A k \in Incident : k # j => request'[s][k] = Without(s, j)[k]
    BY <2>1, KeptGoes, WithoutType
  <2>3. since' \in [Patient -> {"never", "recent", "long"}]
    BY <1>0, <1>3, <2>0 DEF TaskThrows, Patient
  <2>4. sync[s].at = "rest" /\ sync \in [Sync -> Call] BY <2>0, AtRest DEF TypeOK
  <2>5. ~sync[s].asking BY <1>3 DEF CallShape
  <2>6. \A k \in Incident \ {j} : request'[s][k] = request[s][k] BY <2>2, WithoutType
  <2>7. Backlog # j BY <1>3 DEF WhatsApp, Backlog
  <2>8. Goes(s) BY <2>0, <2>1, <2>4, <2>5, <2>6, <2>7, IncidentAssumption DEF Goes, CallShape
  <2>. QED BY <2>2, <2>3, <2>8 DEF Ends
<1>. QED BY <1>1, <1>2, <1>3

-----------------------------------------------------------------------------
(* Agreement about one incident *)

\* What a step of s may do to its request about k and to what is known of k: keep both,
\* send, have been refused, or have been answered.
Believed(k) == state'[k] = state[k] /\ stale'[k] = stale[k]
Kept(s, k) == request'[s][k] = request[s][k] /\ Believed(k)
Sent(s, k) == request[s][k] = None /\ Adds(s, k) /\ Believed(k)
WasRefused(s, k) ==
  /\ request[s][k] \in Request /\ request[s][k].at = "sent" /\ Believed(k)
  /\ request'[s][k] = None \/ Adds(s, k)
WasAnswered(s, k) ==
  /\ request[s][k] \in Request /\ request[s][k].at = "taken" /\ state'[k] = request[s][k].to
  /\ request'[s][k] = None \/ Adds(s, k)

\* Other calls and PagerDuty keep what they have.
Apart(s, k) ==
  /\ \A c \in Sync \ {s} : request'[c] = request[c]
  /\ open'[k] = open[k] /\ (doubt[k] => doubt'[k])
  /\ \A to \in Action : <<k, to>> \in stray' => <<k, to>> \in stray \/ doubt'[k]

LEMMA RivalsAgree ==
  ASSUME TypeOK, NEW s \in Sync, NEW k \in Incident, Adds(s, k), ~doubt'[k],
         NEW c \in Sync \ {s}, request[c][k] # None
  PROVE  request[c][k].to = request'[s][k].to
<1>1. request[c][k].to \in Rivals(s, k) BY DEF Rivals
<1>. QED BY <1>1 DEF Adds

LEMMA AgreedStep ==
  ASSUME TypeOK, NEW s \in Sync, NEW k \in Incident, Agreed(k), Apart(s, k),
         Kept(s, k) \/ Sent(s, k) \/ WasRefused(s, k) \/ WasAnswered(s, k)
  PROVE  Agreed(k)'
<1>. SUFFICES ASSUME ~doubt'[k] PROVE Agreed(k)' BY DEF Agreed
<1>0. /\ ~doubt[k] /\ open'[k] = open[k] /\ \A c \in Sync \ {s} : request'[c][k] = request[c][k]
      /\ \A to \in Action : <<k, to>> \notin stray
      /\ \A c, d \in Sync : request[c][k] # None /\ request[d][k] # None =>
           request[c][k].to = request[d][k].to
      /\ \A c \in Sync : request[c][k].at = "taken" => open[k] = (request[c][k].to = "triggered")
      /\ state[k] # "unknown" /\ ~stale[k] =>
           \/ open[k] = (state[k] = "triggered")
           \/ \E c \in Sync : request[c][k].at = "taken"
  BY DEF Agreed, Apart
<1>1. \A to \in Action : <<k, to>> \notin stray' BY <1>0 DEF Apart
<1>2. None.at = "none" BY DEF None
<1>3. /\ Adds(s, k) \/ request'[s][k] = None \/ request'[s][k] = request[s][k]
      /\ Adds(s, k) => request'[s][k].at = "sent"
  BY DEF Kept, Sent, WasRefused, WasAnswered, Adds
<1>4. ASSUME NEW c \in Sync, request'[c][k] # None
      PROVE  request'[s][k] # None => request'[c][k].to = request'[s][k].to
  <2>1. CASE c = s BY <2>1
  <2>2. CASE c # s /\ Adds(s, k) BY <1>0, <1>4, <2>2, RivalsAgree
  <2>3. CASE c # s /\ ~Adds(s, k) BY <1>0, <1>3, <1>4, <2>3
  <2>. QED BY <2>1, <2>2, <2>3
<1>5. ASSUME NEW c \in Sync, NEW d \in Sync, request'[c][k] # None, request'[d][k] # None
      PROVE  request'[c][k].to = request'[d][k].to
  <2>1. CASE request'[s][k] # None BY <1>4, <1>5, <2>1
  <2>2. CASE request'[s][k] = None BY <1>0, <1>5, <2>2
  <2>. QED BY <2>1, <2>2
<1>6. ASSUME NEW c \in Sync, request'[c][k].at = "taken"
      PROVE  request[c][k] = request'[c][k]
  BY <1>0, <1>2, <1>3, <1>6
<1>7. \A c \in Sync : request'[c][k].at = "taken" => open'[k] = (request'[c][k].to = "triggered")
  BY <1>0, <1>6
<1>8. ASSUME state'[k] # "unknown", ~stale'[k]
      PROVE  \/ open'[k] = (state'[k] = "triggered")
             \/ \E c \in Sync : request'[c][k].at = "taken"
  <2>1. CASE WasAnswered(s, k) BY <1>0, <2>1 DEF WasAnswered
  <2>2. CASE Kept(s, k)
    <3>1. \A c \in Sync : request'[c][k] = request[c][k] BY <1>0, <2>2 DEF Kept
    <3>. QED BY <1>0, <1>8, <2>2, <3>1 DEF Kept, Believed
  <2>3. CASE Sent(s, k) \/ WasRefused(s, k)
    <3>1. request[s][k].at # "taken" /\ state'[k] = state[k] /\ stale'[k] = stale[k]
      BY <1>2, <2>3 DEF Sent, WasRefused, Believed
    <3>2. \A c \in Sync : request[c][k].at = "taken" => request'[c][k].at = "taken"
      BY <1>0, <3>1
    <3>. QED BY <1>0, <1>8, <3>1, <3>2
  <2>. QED BY <2>1, <2>2, <2>3
<1>. QED BY <1>1, <1>5, <1>7, <1>8 DEF Agreed

\* After an end the incidents agree, whatever answer it was.
LEMMA EndsAgree ==
  ASSUME KnownInv, NEW s \in Sync, NEW j \in Incident, NEW lost, Ends(s, j, lost),
         open' = open, request[s][j] # None,
         \A i \in Incident, to \in Action : <<i, to>> \in stray' => <<i, to>> \in stray \/ i \in lost,
         \A i \in Incident \ {j} : Believed(i),
         \/ j \in lost
         \/ request[s][j].at = "sent" /\ Believed(j)
         \/ request[s][j].at = "taken" /\ state'[j] = request[s][j].to
  PROVE  /\ \A k \in Incident : Agreed(k)'
         /\ \A c \in Sync : CallShape(c)'
<1>0. TypeOK BY DEF KnownInv
<1>1. /\ \A c \in Sync \ {s} : request'[c] = request[c]
      /\ \A k \in Incident :
           /\ doubt[k] \/ k \in lost => doubt'[k]
           /\ request'[s][k] = Without(s, j)[k] \/ (Without(s, j)[k] = None /\ Adds(s, k))
  BY DEF Ends, Follows
<1>2. \A k \in Incident : Apart(s, k) BY <1>1 DEF Apart
<1>3. ASSUME NEW k \in Incident \ {j} PROVE Agreed(k)'
  <2>1. Kept(s, k) \/ Sent(s, k) BY <1>0, <1>1, <1>3, WithoutType DEF Kept, Sent, Believed
  <2>. QED BY <1>0, <1>2, <2>1, AgreedStep DEF KnownInv
<1>4. Agreed(j)'
  <2>1. CASE j \in lost BY <1>1, <2>1 DEF Agreed
  <2>2. CASE j \notin lost
    <3>1. request[s][j] \in Request BY <1>0 DEF TypeOK
    <3>2. request'[s][j] = None \/ Adds(s, j) BY <1>0, <1>1, WithoutType
    <3>3. WasRefused(s, j) \/ WasAnswered(s, j) BY <2>2, <3>1, <3>2 DEF WasRefused, WasAnswered
    <3>. QED BY <1>0, <1>2, <3>3, AgreedStep DEF KnownInv
  <2>. QED BY <2>1, <2>2
<1>5. \A c \in Sync : CallShape(c)' BY <1>1 DEF Ends, Goes, CallShape, KnownInv
<1>. QED BY <1>3, <1>4, <1>5

LEMMA RestartKeeps ==
  ASSUME KnownInv, NEW known \in [Incident -> Status], NEW written \in [Incident -> Status],
         \A k \in Incident : (\A s \in Sync : request[s][k] = None) => known[k] = state[k],
         Restart(known, written), open' = open, scene' = scene, changes' = changes,
         faults' \in 0..MaxFaults
  PROVE  KnownInv'
<1>0. TypeOK BY DEF KnownInv
<1>1. PICK late \in SUBSET {p \in Incident \X Action :
                              \E s \in Sync : request[s][p[1]] = [to |-> p[2], at |-> "sent"]} :
        stray' = stray \cup late
  BY DEF Restart
<1>2. /\ state' = written /\ file' = written
      /\ sync' = [s \in Sync |-> Idle] /\ request' = [s \in Sync |-> NoRequest]
      /\ since' = [k \in Patient |-> "never"]
      /\ bad' = [k \in Incident |-> bad[k] /\ k \notin Monitored]
      /\ doubt' = [k \in Incident |-> doubt[k] \/ \E s \in Sync : request[s][k] # None]
      /\ stale' = [k \in Incident |->
           written[k] # "unknown" /\ (stale[k] \/ written[k] # known[k])]
  BY DEF Restart
<1>3. TypeOK'
  <2>1. stray' \subseteq Incident \X Action BY <1>0, <1>1 DEF TypeOK
  <2>2. request' \in [Sync -> Requests] /\ sync' \in [Sync -> Call] BY <1>2, ConstantTypes
  <2>3. since' \in [Patient -> {"never", "recent", "long"}] BY <1>2
  <2>4. /\ bad' \in [Incident -> BOOLEAN] /\ doubt' \in [Incident -> BOOLEAN]
        /\ stale' \in [Incident -> BOOLEAN]
    BY <1>2
  <2>5. state' \in [Incident -> Status] /\ file' \in [Incident -> Status] BY <1>2
  <2>. QED BY <1>0, <2>1, <2>2, <2>3, <2>4, <2>5 DEF TypeOK, Requests
<1>4. \A s \in Sync : CallShape(s)'
  <2>1. \A s \in Sync : sync'[s] = Idle /\ request'[s] = NoRequest BY <1>2
  <2>. QED BY <2>1, IncidentAssumption DEF CallShape, Idle, At, NoRequest
<1>5. ASSUME NEW k \in Incident, ~doubt'[k] PROVE Agreed(k)'
  <2>1. ~doubt[k] /\ \A s \in Sync : request[s][k] = None BY <1>2, <1>5
  <2>2. \A to \in Action : <<k, to>> \notin late
    <3>1. ASSUME NEW to \in Action, <<k, to>> \in late PROVE FALSE
      <4>1. PICK s \in Sync : request[s][k] = [to |-> to, at |-> "sent"] BY <3>1
      <4>. QED BY <2>1, <4>1 DEF None
    <3>. QED BY <3>1
  <2>3. \A to \in Action : <<k, to>> \notin stray'
    BY <1>1, <2>1, <2>2 DEF KnownInv, Agreed
  <2>4. \A s \in Sync : request'[s][k] = None /\ None.at # "taken"
    BY <1>2 DEF NoRequest, None
  <2>5. state'[k] # "unknown" /\ ~stale'[k] => open'[k] = (state'[k] = "triggered")
    <3>1. state[k] # "unknown" /\ ~stale[k] => open[k] = (state[k] = "triggered")
      <4>1. \A s \in Sync : request[s][k].at # "taken" BY <2>1 DEF None
      <4>. QED BY <2>1, <4>1 DEF KnownInv, Agreed
    <3>2. state'[k] # "unknown" /\ ~stale'[k] => ~stale[k] /\ state'[k] = state[k]
      BY <1>2, <2>1
    <3>. QED BY <3>1, <3>2
  <2>. QED BY <2>3, <2>4, <2>5 DEF Agreed
<1>6. \A k \in Incident : Agreed(k)' BY <1>5 DEF Agreed
<1>. QED BY <1>3, <1>4, <1>6 DEF KnownInv

LEMMA ThrowsKeeps ==
  ASSUME KnownInv, NEW s \in Sync, NEW j \in Incident, request[s][j] # None,
         NEW known \in [Incident -> Status], NEW written \in [Incident -> Status], NEW lost,
         Throws(s, j, known, written, lost), open' = open, scene' = scene, changes' = changes,
         faults' \in 0..MaxFaults, lost \in {{}, {j}},
         \A i \in Incident \ {j} : known[i] = state[i],
         \/ j \in lost
         \/ request[s][j].at = "sent" /\ known[j] = state[j]
         \/ request[s][j].at = "taken" /\ known[j] = request[s][j].to
  PROVE  KnownInv'
<1>0. TypeOK /\ CallShape(s) BY DEF KnownInv
<1>1. CASE Restart(known, written)
  <2>1. \A k \in Incident : (\A c \in Sync : request[c][k] = None) => known[k] = state[k] OBVIOUS
  <2>. QED BY <1>1, <2>1, RestartKeeps
<1>2. CASE ~Restart(known, written)
  <2>1. /\ state' = known /\ file' = written /\ bad' = bad
        /\ stale' = [stale EXCEPT ![j] = @ /\ request[s][j].at = "sent"]
        /\ stray' = stray \cup {<<i, request[s][i].to>> :
                                  i \in {k \in lost : request[s][k].at = "sent"}}
    BY <1>2 DEF Throws
  <2>2. Ends(s, j, lost) /\ since' \in [Patient -> {"never", "recent", "long"}]
    <3>1. CASE TaskThrows(s, j, known, lost) BY <1>0, <3>1, ThrowsEnds
    <3>2. CASE /\ j = Db /\ Ask(s, NoRequest, known, Nothing, lost) /\ since' = since
               /\ sync' = [sync EXCEPT ![s] = IF s \in Poll THEN At("db", TRUE) ELSE Idle]
      <4>1. Without(s, j) = NoRequest BY <1>0, <3>2, DbAlone
      <4>2. /\ request' \in [Sync -> Requests] /\ doubt' \in [Incident -> BOOLEAN]
            /\ Follows(s, NoRequest, lost) /\ \A k \in Incident : request'[s][k] = NoRequest[k]
        BY <1>0, <3>2, KeptGoes, ConstantTypes, NothingIsOnly
      <4>3. request'[s] = NoRequest BY <4>2 DEF Requests, NoRequest
      <4>4. At("db", TRUE) \in Call /\ Idle \in Call BY ConstantTypes
      <4>5. /\ sync' \in [Sync -> Call] /\ \A c \in Sync \ {s} : sync'[c] = sync[c]
            /\ sync'[s] \in {At("db", TRUE), At("idle", FALSE)}
        BY <1>0, <3>2, <4>4 DEF TypeOK, Idle
      <4>6. /\ sync'[s].at \in {"idle", "db"} /\ ~sync'[s].asking /\ sync'[s].backlog = "none"
        BY <4>5 DEF At
      <4>7. Goes(s) BY <4>3, <4>5, <4>6 DEF Goes, CallShape
      <4>. QED BY <1>0, <3>2, <4>1, <4>2, <4>7 DEF Ends, TypeOK
    <3>. QED BY <1>2, <3>1, <3>2 DEF Throws
  <2>3. request[s][j] \in Request BY <1>0 DEF TypeOK
  <2>4. stray' \subseteq Incident \X Action
    <3>1. lost = {} => stray' = stray BY <2>1
    <3>2. lost = {j} => stray' \subseteq stray \cup {<<j, request[s][j].to>>} BY <2>1
    <3>. QED BY <1>0, <2>3, <3>1, <3>2 DEF TypeOK, Request
  <2>5. TypeOK' BY <1>0, <2>1, <2>2, <2>4 DEF TypeOK, Ends, Goes, Requests
  <2>6. \A i \in Incident, to \in Action : <<i, to>> \in stray' => <<i, to>> \in stray \/ i \in lost
    BY <2>1
  <2>8. /\ \A i \in Incident \ {j} : Believed(i)
        /\ request[s][j].at = "sent" /\ known[j] = state[j] => Believed(j)
    BY <1>0, <2>1 DEF Believed, TypeOK
  <2>7. /\ \A k \in Incident : Agreed(k)'
        /\ \A c \in Sync : CallShape(c)'
    BY <2>1, <2>2, <2>6, <2>8, EndsAgree
  <2>. QED BY <2>5, <2>7 DEF KnownInv
<1>. QED BY <1>1, <1>2
-----------------------------------------------------------------------------
(* Every step *)

\* After a step in which no request of s ends.
LEMMA AsksKeep ==
  ASSUME KnownInv, NEW s \in Sync, request' \in [Sync -> Requests],
         doubt' \in [Incident -> BOOLEAN], Follows(s, request[s], {}), Goes(s),
         since' \in [Patient -> {"never", "recent", "long"}],
         UNCHANGED <<scene, bad, state, file, stray, open, stale, changes, faults>>
  PROVE  KnownInv'
<1>1. TypeOK' BY DEF KnownInv, TypeOK, Goes, Requests
<1>2. /\ \A c \in Sync \ {s} : request'[c] = request[c]
      /\ \A k \in Incident :
           /\ doubt[k] => doubt'[k]
           /\ request'[s][k] = request[s][k] \/ (request[s][k] = None /\ Adds(s, k))
  BY DEF Follows
<1>3. ASSUME NEW k \in Incident PROVE Agreed(k)'
  <2>1. Apart(s, k) BY <1>2 DEF Apart
  <2>2. Kept(s, k) \/ Sent(s, k) BY <1>2 DEF Kept, Sent, Believed
  <2>. QED BY <2>1, <2>2, AgreedStep DEF KnownInv
<1>4. \A c \in Sync : CallShape(c)' BY <1>2 DEF Goes, CallShape, KnownInv
<1>. QED BY <1>1, <1>3, <1>4 DEF KnownInv

LEMMA CheckedType ==
  ASSUME TypeOK, NEW k \in Patient, Checked(k)
  PROVE  since' \in [Patient -> {"never", "recent", "long"}]
BY DEF TypeOK, Checked

LEMMA BeginKeeps ==
  ASSUME KnownInv, NEW s \in Sync, NEW again \in BOOLEAN, Begin(s, again)
  PROVE  KnownInv'
<1>0. TypeOK /\ CallShape(s) BY DEF KnownInv
<1>1. request[s] = NoRequest BY <1>0 DEF Begin, CallShape, Idle, At
<1>2. At("db", again) \in Call BY ConstantTypes
<1>3. /\ sync' \in [Sync -> Call] /\ sync'[s] = At("db", again)
      /\ \A c \in Sync \ {s} : sync'[c] = sync[c]
  BY <1>0, <1>2 DEF Begin, TypeOK
<1>4. request' = request /\ doubt' = doubt BY DEF Begin
<1>5. Goes(s) BY <1>1, <1>3, <1>4 DEF Goes, CallShape, At
<1>6. Follows(s, request[s], {}) BY <1>4 DEF Follows
<1>. QED BY <1>0, <1>4, <1>5, <1>6, AsksKeep DEF Begin, TypeOK, Requests

LEMMA CheckDbKeeps ==
  ASSUME KnownInv, NEW s \in Sync, CheckDb(s)
  PROVE  KnownInv'
<1>0. TypeOK /\ CallShape(s) /\ Wanted(bad[Db]) \in Action
  BY ConstantTypes, IncidentAssumption DEF KnownInv, TypeOK
<1>1. request[s] = NoRequest BY <1>0 DEF CheckDb, CallShape
<1>2. Db \in Patient BY DEF Patient
<1>3. \/ Rest(s, NoRequest, state, FALSE, FALSE, {})
      \/ DbWish(s, NoRequest, state, Wanted(bad[Db]), {})
  BY <1>1 DEF CheckDb
<1>4. state \in [Incident -> Status] BY <1>0 DEF TypeOK
<1>5. /\ request' \in [Sync -> Requests] /\ doubt' \in [Incident -> BOOLEAN]
      /\ Follows(s, NoRequest, {}) /\ Goes(s)
  BY <1>0, <1>3, <1>4, RestGoes, DbWishGoes
<1>6. since' \in [Patient -> {"never", "recent", "long"}] BY <1>0, <1>2, CheckedType DEF CheckDb
<1>. QED BY <1>1, <1>5, <1>6, AsksKeep DEF CheckDb

LEMMA OutboxStatsKeeps ==
  ASSUME KnownInv, NEW s \in Sync, OutboxStats(s)
  PROVE  KnownInv'
<1>0. TypeOK /\ CallShape(s) BY DEF KnownInv
<1>1. request[s] = NoRequest BY <1>0 DEF OutboxStats, CallShape
<1>2. PICK stats \in BOOLEAN, outboxError \in BOOLEAN :
        Rest(s, NoRequest, state, stats, outboxError, {})
  <2>1. bad[Unavailable] \in BOOLEAN BY <1>0, IncidentAssumption DEF TypeOK
  <2>2. Rest(s, NoRequest, state, ~bad[Unavailable], bad[Unavailable], {})
    BY <1>1 DEF OutboxStats
  <2>3. PICK found \in BOOLEAN : found = bad[Unavailable] BY <2>1
  <2>4. (~found) \in BOOLEAN OBVIOUS
  <2>5. Rest(s, NoRequest, state, ~found, found, {}) BY <2>2, <2>3
  <2>. QED BY <2>4, <2>5
<1>4. state \in [Incident -> Status] BY <1>0 DEF TypeOK
<1>5. /\ request' \in [Sync -> Requests] /\ doubt' \in [Incident -> BOOLEAN]
      /\ Follows(s, NoRequest, {}) /\ Goes(s)
  BY <1>0, <1>2, <1>4, RestGoes
<1>. QED BY <1>0, <1>1, <1>5, AsksKeep DEF OutboxStats, TypeOK

LEMMA AskWhatsAppKeeps ==
  ASSUME KnownInv, NEW s \in Sync, AskWhatsApp(s)
  PROVE  KnownInv'
<1>0. TypeOK /\ CallShape(s) /\ request[s] \in Requests /\ sync \in [Sync -> Call]
  BY DEF KnownInv, TypeOK, Requests
<1>1. PICK i \in {WhatsApp, Db}, to \in Action \cup {"none"} :
        Ask(s, request[s], state, Only(i, to), {}) /\ (to # "none" => i = WhatsApp)
  <2>1. ASSUME NEW b \in BOOLEAN, Ask(s, request[s], state, Only(WhatsApp, Wanted(b)), {})
        PROVE  \E to \in Action : Ask(s, request[s], state, Only(WhatsApp, to), {})
    BY <2>1, ConstantTypes
  <2>2. CASE bad[WhatsApp] \in BOOLEAN BY <2>1, <2>2, NothingIsOnly DEF AskWhatsApp
  <2>3. Wanted(bad[WhatsApp]) \in Action BY DEF Wanted, Action
  <2>. QED BY <2>3, NothingIsOnly DEF AskWhatsApp
<1>2. i \in Incident /\ to # "none" => request[s][i] = None
  BY <1>0, <1>1 DEF CallShape, AskWhatsApp
<1>3. state \in [Incident -> Status] BY <1>0 DEF TypeOK
<1>4. /\ request' \in [Sync -> Requests] /\ doubt' \in [Incident -> BOOLEAN]
      /\ Follows(s, request[s], {})
      /\ \A k \in Incident : k # i \/ to = "none" => request'[s][k] = request[s][k]
  BY <1>0, <1>1, <1>2, <1>3, KeptGoes
<1>5. sync[s].at = "rest" BY <1>0 DEF CallShape, AskWhatsApp, Call
<1>6. sync' = [sync EXCEPT ![s] = [@ EXCEPT !.asking = FALSE]] BY DEF AskWhatsApp
<1>7. [sync[s] EXCEPT !.asking = FALSE] \in Call BY <1>0 DEF Call
<1>8. /\ sync' \in [Sync -> Call] /\ \A c \in Sync \ {s} : sync'[c] = sync[c]
      /\ sync'[s] = [sync[s] EXCEPT !.asking = FALSE]
  BY <1>0, <1>6, <1>7
<1>9. sync'[s].at = "rest" /\ ~sync'[s].asking /\ sync'[s].backlog = sync[s].backlog
  BY <1>0, <1>5, <1>8 DEF Call
<1>10. Db # WhatsApp /\ WhatsApp # Backlog BY DEF Db, WhatsApp, Backlog
<1>11. Db \in Incident BY IncidentAssumption
<1>12. request'[s][Db] = None BY <1>0, <1>1, <1>4, <1>5, <1>10, <1>11 DEF CallShape
<1>13. sync'[s].backlog # "none" /\ Backlog \in Incident => request'[s][Backlog] = None
  BY <1>0, <1>1, <1>4, <1>9, <1>10 DEF CallShape
<1>14. CallShape(s)' BY <1>9, <1>12, <1>13 DEF CallShape
<1>15. Goes(s) BY <1>8, <1>14 DEF Goes
<1>16. WhatsApp \in Patient BY DEF Patient
<1>17. since' \in [Patient -> {"never", "recent", "long"}]
  BY <1>0, <1>16, CheckedType DEF AskWhatsApp
<1>. QED BY <1>4, <1>15, <1>17, AsksKeep DEF AskWhatsApp

LEMMA EndCallKeeps ==
  ASSUME KnownInv, NEW s \in Sync, EndCall(s)
  PROVE  KnownInv'
<1>0. TypeOK /\ CallShape(s) /\ Idle \in Call BY ConstantTypes DEF KnownInv
<1>1. request[s] = NoRequest /\ request' = request /\ doubt' = doubt BY DEF EndCall
<1>2. /\ sync' \in [Sync -> Call] /\ sync'[s] = Idle /\ \A c \in Sync \ {s} : sync'[c] = sync[c]
  BY <1>0 DEF EndCall, TypeOK
<1>3. Goes(s) BY <1>1, <1>2 DEF Goes, CallShape, Idle, At
<1>4. Follows(s, request[s], {}) BY <1>1 DEF Follows
<1>. QED BY <1>0, <1>1, <1>3, <1>4, AsksKeep DEF EndCall, TypeOK, Requests

LEMMA AnsweredKeeps ==
  ASSUME KnownInv, NEW s \in Sync, NEW j \in Incident, Answered(s, j)
  PROVE  KnownInv'
<1>0. TypeOK /\ CallShape(s) BY DEF KnownInv
<1>1. request[s][j] \in Request /\ request[s][j].at = "taken" /\ request[s][j] # None
  BY <1>0 DEF Answered, TypeOK, None
<1>2. Known(s, j) \in [Incident -> Status] /\ Known(s, j)[j] = request[s][j].to
      /\ \A i \in Incident \ {j} : Known(s, j)[i] = state[i]
  BY <1>0, <1>1 DEF Known, TypeOK, Request, Status
<1>3. Ends(s, j, {}) BY <1>0, <1>1, <1>2, ContinuesEnds DEF Answered
<1>4. state' = Known(s, j) /\ file' = Known(s, j) /\ stale' = [stale EXCEPT ![j] = FALSE]
      /\ UNCHANGED <<scene, bad, since, stray, open, changes, faults>>
  BY DEF Answered
<1>5. TypeOK' BY <1>0, <1>2, <1>3, <1>4 DEF TypeOK, Ends, Goes, Requests
<1>6. \A i \in Incident \ {j} : Believed(i) BY <1>0, <1>2, <1>4 DEF Believed, TypeOK
<1>7. /\ \A k \in Incident : Agreed(k)'
      /\ \A c \in Sync : CallShape(c)'
  BY <1>1, <1>2, <1>3, <1>4, <1>6, EndsAgree
<1>. QED BY <1>5, <1>7 DEF KnownInv

LEMMA FaultCounts ==
  ASSUME TypeOK, Fault
  PROVE  faults' \in 0..MaxFaults
BY IncidentAssumption DEF TypeOK, Fault

LEMMA FaultsKeep ==
  ASSUME KnownInv, NEW s \in Sync, NEW j \in Incident, FaultStep(s, j)
  PROVE  KnownInv'
<1>0. TypeOK /\ state \in [Incident -> Status] /\ file \in [Incident -> Status]
  BY DEF KnownInv, TypeOK
<1>1. request[s][j] # None => request[s][j] \in Request BY <1>0 DEF TypeOK
<1>2. CASE Refused(s, j)
  <2>1. request[s][j] # None BY <1>2 DEF Refused, None
  <2>2. faults' \in 0..MaxFaults BY <1>0, <1>2, FaultCounts DEF Refused
  <2>. QED BY <1>0, <1>2, <2>1, <2>2, ThrowsKeeps DEF Refused
<1>3. CASE GivesUp(s, j)
  <2>2. faults' \in 0..MaxFaults BY <1>0, <1>3, FaultCounts DEF GivesUp
  <2>. QED BY <1>0, <1>3, <2>2, ThrowsKeeps DEF GivesUp
<1>4. CASE PersistFails(s, j)
  <2>1. request[s][j] # None /\ request[s][j].at = "taken" BY <1>4 DEF PersistFails, None
  <2>2. faults' \in 0..MaxFaults BY <1>0, <1>4, FaultCounts DEF PersistFails
  <2>3. Known(s, j) \in [Incident -> Status] /\ Known(s, j)[j] = request[s][j].to
        /\ \A i \in Incident \ {j} : Known(s, j)[i] = state[i]
    BY <1>0, <1>1, <2>1 DEF Known, TypeOK, Request, Status
  <2>4. PICK left \in {file, Unknown} : Throws(s, j, Known(s, j), left, {})
    BY <1>4 DEF PersistFails
  <2>5. left \in [Incident -> Status] BY <1>0, <2>4 DEF Unknown, Status
  <2>. QED BY <1>4, <2>1, <2>2, <2>3, <2>4, <2>5, ThrowsKeeps DEF PersistFails
<1>. QED BY <1>2, <1>3, <1>4 DEF FaultStep

LEMMA CrashKeeps ==
  ASSUME KnownInv, Crash
  PROVE  KnownInv'
<1>0. TypeOK /\ state \in [Incident -> Status] /\ file \in [Incident -> Status]
  BY DEF KnownInv, TypeOK
<1>1. Unknown \in [Incident -> Status] BY DEF Unknown, Status
<1>2. faults' \in 0..MaxFaults BY <1>0, FaultCounts DEF Crash
<1>. QED BY <1>0, <1>1, <1>2, RestartKeeps DEF Crash

LEMMA TakesKeeps ==
  ASSUME KnownInv, NEW s \in Sync, NEW j \in Incident, Takes(s, j)
  PROVE  KnownInv'
<1>0. TypeOK BY DEF KnownInv
<1>1. request \in [Sync -> Requests] BY <1>0 DEF TypeOK, Requests
<1>2. request[s][j] \in Request /\ request[s][j].at = "sent" /\ request[s][j] # None
  BY <1>1 DEF Takes, None, Requests
<1>. DEFINE taken == [to |-> request[s][j].to, at |-> "taken"]
<1>3. taken \in Request /\ taken # None /\ taken.at = "taken" /\ taken.to = request[s][j].to
  BY <1>2 DEF Request, None
<1>4. request' = [request EXCEPT ![s][j] = taken] BY DEF Takes
<1>. HIDE DEF taken
<1>5. [request[s] EXCEPT ![j] = taken] \in Requests BY <1>1, <1>3 DEF Requests
<1>6. /\ request' \in [Sync -> Requests] /\ request'[s][j] = taken
      /\ \A c \in Sync, k \in Incident : c # s \/ k # j => request'[c][k] = request[c][k]
  BY <1>1, <1>4, <1>5 DEF Requests
<1>7. open' = [open EXCEPT ![j] = request[s][j].to = "triggered"]
      /\ UNCHANGED <<scene, bad, since, state, file, sync, stray, doubt, stale, changes, faults>>
  BY DEF Takes
<1>8. open' \in [Incident -> BOOLEAN] /\ open'[j] = (request[s][j].to = "triggered")
      /\ \A k \in Incident \ {j} : open'[k] = open[k]
  BY <1>0, <1>7 DEF TypeOK
<1>9. TypeOK' BY <1>0, <1>6, <1>7, <1>8 DEF TypeOK, Requests
<1>10. \A c \in Sync, k \in Incident : request'[c][k] = None <=> request[c][k] = None
  BY <1>2, <1>3, <1>6
<1>11. ASSUME NEW c \in Sync PROVE CallShape(c)'
  <2>1. request[c] = NoRequest => request'[c] = NoRequest
    BY <1>1, <1>6, <1>10 DEF NoRequest, Requests
  <2>2. CallShape(c) BY DEF KnownInv
  <2>. QED BY <1>7, <1>10, <2>1, <2>2, IncidentAssumption DEF CallShape
<1>12. ASSUME NEW k \in Incident, ~doubt'[k] PROVE Agreed(k)'
  <2>1. ~doubt[k] /\ Agreed(k) BY <1>7, <1>12 DEF KnownInv
  <2>2. \A to \in Action : <<k, to>> \notin stray' BY <1>7, <2>1 DEF Agreed
  <2>3. \A c \in Sync : request'[c][k].to = request[c][k].to BY <1>3, <1>6
  <2>4. \A c, d \in Sync : request'[c][k] # None /\ request'[d][k] # None =>
          request'[c][k].to = request'[d][k].to
    BY <1>10, <2>1, <2>3 DEF Agreed
  <2>5. CASE k = j
    <3>1. \A c \in Sync : request'[c][j].at = "taken" => open'[j] = (request'[c][j].to = "triggered")
      <4>1. \A c \in Sync : request'[c][j].at = "taken" => request'[c][j] # None BY DEF None
      <4>2. request'[s][j] # None /\ request'[s][j].to = request[s][j].to BY <1>3, <1>6
      <4>. QED BY <1>8, <2>4, <2>5, <4>1, <4>2
    <3>2. request'[s][j].at = "taken" BY <1>3, <1>6
    <3>. QED BY <2>2, <2>4, <2>5, <3>1, <3>2 DEF Agreed
  <2>6. CASE k # j
    <3>1. \A c \in Sync : request'[c][k] = request[c][k] BY <1>6, <2>6
    <3>2. open'[k] = open[k] /\ state'[k] = state[k] /\ stale'[k] = stale[k] BY <1>7, <1>8, <2>6
    <3>. QED BY <2>1, <2>2, <3>1, <3>2 DEF Agreed
  <2>. QED BY <2>5, <2>6
<1>13. \A k \in Incident : Agreed(k)' BY <1>12 DEF Agreed
<1>. QED BY <1>9, <1>11, <1>13 DEF KnownInv

\* A request that is taken when its caller has given it up leaves no trust.
LEMMA StrayTakenKeeps ==
  ASSUME KnownInv, NEW j \in Incident, NEW to \in Action, StrayTaken(j, to)
  PROVE  KnownInv'
<1>0. TypeOK /\ \A k \in Incident : Agreed(k) BY DEF KnownInv
<1>1. doubt[j] /\ <<j, to>> \in stray BY <1>0 DEF StrayTaken, Agreed, TypeOK
<1>2. /\ stray' = stray \ {<<j, to>>} /\ open' = [open EXCEPT ![j] = to = "triggered"]
      /\ UNCHANGED <<scene, bad, since, state, file, sync, request, doubt, stale, changes, faults>>
  BY DEF StrayTaken
<1>3. open' \in [Incident -> BOOLEAN] /\ \A k \in Incident \ {j} : open'[k] = open[k]
  BY <1>0, <1>2 DEF TypeOK
<1>4. TypeOK' BY <1>0, <1>2, <1>3 DEF TypeOK
<1>5. \A c \in Sync : CallShape(c)' BY <1>2 DEF CallShape, KnownInv
<1>6. Agreed(j)' BY <1>1, <1>2 DEF Agreed
<1>7. ASSUME NEW k \in Incident \ {j} PROVE Agreed(k)'
  <2>1. open'[k] = open[k] /\ stray' \subseteq stray BY <1>2, <1>3
  <2>. QED BY <1>0, <1>2, <2>1 DEF Agreed
<1>. QED BY <1>4, <1>5, <1>6, <1>7 DEF KnownInv

\* No step about the conditions, the clock or nothing at all touches what is remembered.
LEMMA OthersKeep ==
  ASSUME KnownInv, UNCHANGED <<scene, state, file, sync, request, stray, open, doubt, stale, faults>>,
         bad' \in [Incident -> BOOLEAN], since' \in [Patient -> {"never", "recent", "long"}],
         changes' \in 0..MaxChanges
  PROVE  KnownInv'
<1>1. TypeOK' BY DEF KnownInv, TypeOK
<1>2. \A c \in Sync : CallShape(c)' BY DEF CallShape, KnownInv
<1>3. \A k \in Incident : Agreed(k)' BY DEF Agreed, KnownInv
<1>. QED BY <1>1, <1>2, <1>3 DEF KnownInv

LEMMA InitKnown == Init => KnownInv
<1>. SUFFICES ASSUME Init PROVE KnownInv OBVIOUS
<1>0. MaxChanges \in Nat /\ MaxFaults \in Nat BY IncidentAssumption
<1>1. 0 \in 0..MaxChanges /\ 0 \in 0..MaxFaults BY <1>0
<1>2. /\ sync = [s \in Sync |-> Idle] /\ request = [s \in Sync |-> NoRequest]
      /\ state = Unknown /\ file = Unknown /\ stray = {}
  BY DEF Init
<1>3. sync \in [Sync -> Call] /\ request \in [Sync -> Requests] BY <1>2, ConstantTypes
<1>4. state \in [Incident -> Status] /\ file \in [Incident -> Status] BY <1>2 DEF Unknown, Status
<1>5. TypeOK BY <1>1, <1>3, <1>4 DEF Init, TypeOK, Requests
<1>6. \A s \in Sync : sync[s] = Idle /\ request[s] = NoRequest BY <1>2
<1>7. \A s \in Sync : CallShape(s)
  BY <1>6, IncidentAssumption DEF CallShape, Idle, At, NoRequest
<1>8. \A k \in Incident : state[k] = "unknown" /\ \A s \in Sync : request[s][k] = None
  BY <1>2, <1>6 DEF Unknown, NoRequest
<1>9. \A k \in Incident : Agreed(k) BY <1>2, <1>8 DEF Agreed, None
<1>. QED BY <1>5, <1>7, <1>9 DEF KnownInv

LEMMA NextKeepsKnown == KnownInv /\ [Next]_vars => KnownInv'
<1>. SUFFICES ASSUME KnownInv, [Next]_vars PROVE KnownInv' OBVIOUS
<1>0. TypeOK BY DEF KnownInv
<1>1. CASE \E s \in Sync : (\E again \in BOOLEAN : Begin(s, again)) \/ CallStep(s)
  BY <1>1, BeginKeeps, CheckDbKeeps, OutboxStatsKeeps, AskWhatsAppKeeps, EndCallKeeps DEF CallStep
<1>2. CASE \E s \in Sync, k \in Incident : AnswerStep(s, k) \/ FaultStep(s, k)
  BY <1>2, TakesKeeps, AnsweredKeeps, FaultsKeep DEF AnswerStep
<1>3. CASE Crash BY <1>3, CrashKeeps
<1>4. CASE \E k \in Incident, to \in Action : StrayTaken(k, to) BY <1>4, StrayTakenKeeps
<1>5. CASE \E k \in Incident : Changes(k)
  <2>1. PICK k \in Incident : Changes(k) BY <1>5
  <2>2. changes' \in 0..MaxChanges BY <1>0, <2>1, IncidentAssumption DEF Changes, TypeOK
  <2>3. bad' \in [Incident -> BOOLEAN] BY <1>0, <2>1 DEF Changes, TypeOK
  <2>4. since' \in [Patient -> {"never", "recent", "long"}] BY <1>0, <2>1 DEF Changes, TypeOK
  <2>. QED BY <2>1, <2>2, <2>3, <2>4, OthersKeep DEF Changes
<1>6. CASE \E k \in Patient : TimePasses(k)
  <2>1. PICK k \in Patient : TimePasses(k) BY <1>6
  <2>2. since' \in [Patient -> {"never", "recent", "long"}]
    BY <1>0, <2>1 DEF TimePasses, TypeOK
  <2>. QED BY <1>0, <2>1, <2>2, OthersKeep DEF TimePasses, TypeOK
<1>7. CASE UNCHANGED vars BY <1>0, <1>7, OthersKeep DEF vars, TypeOK
<1>. QED BY <1>1, <1>2, <1>3, <1>4, <1>5, <1>6, <1>7 DEF Next

\* Requests, their callers and what is remembered always have the form that the
\* tasks of syncPagerDutyHealth give them.
THEOREM IncidentsTypes == Spec => []TypeOK
<1>1. KnownInv => TypeOK BY DEF KnownInv
<1>. QED BY <1>1, InitKnown, NextKeepsKnown, PTL DEF Spec

\* However many calls of syncPagerDutyHealth overlap, fail and die: what the manager
\* remembers of an incident is what PagerDuty has, so that the requests skipped as
\* unchanged are unnecessary; unless an answer was lost, an opposite request crossed
\* another, or a start has read what a failed write left old and no answer came since.
THEOREM KnownStaysTrue == Spec => []KnownIsTrue
<1>1. KnownInv => KnownIsTrue
  <2>. SUFFICES ASSUME KnownInv, NEW k \in Incident, state[k] # "unknown", ~doubt[k], ~stale[k],
                       \A s \in Sync : request[s][k] = None
                PROVE  open[k] = (state[k] = "triggered")
    BY DEF KnownIsTrue
  <2>1. \A s \in Sync : request[s][k].at # "taken" BY DEF None
  <2>. QED BY <2>1 DEF KnownInv, Agreed
<1>. QED BY <1>1, InitKnown, NextKeepsKnown, PTL DEF Spec
=============================================================================
