--------------------------- MODULE RealtimeSources ---------------------------
(***************************************************************************)
(* The push sources: the MQTT listeners (oref-mqtt.js), the Tzevaadom      *)
(* websocket (sources.js), their start-up (source-runtime.js) and what the *)
(* poller's monitor is told of them (monitor-state.js).                    *)
(***************************************************************************)
EXTENDS Naturals

CONSTANTS
  Listener,    \* the MQTT listeners; {}: oref_mqtt is not an active source
  MaxFaults    \* bound: failed attempts and requests, broken connections, bad frames

ASSUME RealtimeAssumption == MaxFaults \in Nat

Mqtt == "oref_mqtt"
Tzevaadom == "tzevaadom"
Source == {Mqtt, Tzevaadom}

VARIABLES
  boot,       \* the step of start-up that is under way
  stored,     \* the credentials in the file, as the broker sees them
  started,    \* the listeners' streams have been started
  \* OrefMqttStream, per listener
  client,     \* client[l]: the connection of this.client
  subscribed, \* subscribed[l]: the answer to its SUBSCRIBE
  connected,  \* connected[l]: this.connected
  timer,      \* timer[l]: the rotation timer is set
  old,        \* old[l]: the client it replaces has not been ended yet
  \* TzevaadomStream
  sockets,    \* websockets that are connecting or open
  tzOpen,     \* this.connected
  tzTimer,    \* the reconnect timer is set
  garbled,    \* this.lastParseError is set
  \* the monitor
  health,     \* monitor.sourceFailures
  faults      \* so far

listeners == <<client, subscribed, connected, timer, old>>
tz == <<sockets, tzOpen, tzTimer, garbled>>
vars == <<boot, stored, started, listeners, tz, health, faults>>

\* closing: an 'error' has been emitted and 'close' follows; waiting: mqtt.js tries
\* again after reconnectPeriod.
Connection == {"none", "connecting", "open", "closing", "waiting"}
Report == [is: {"none", "up", "down"}, since: {"never", "recent", "long"},
           error: {"none", "disconnected", "other"}]

TypeOK ==
  /\ boot \in {"cities", "credentials", "register", "topics", "tzevaadom", "done"}
  /\ stored \in {"none", "usable", "revoked"} /\ started \in BOOLEAN
  /\ client \in [Listener -> Connection]
  /\ subscribed \in [Listener -> {"no", "pending", "yes", "refused"}]
  /\ connected \in [Listener -> BOOLEAN]
  /\ timer \in [Listener -> BOOLEAN] /\ old \in [Listener -> BOOLEAN]
  /\ sockets \in Nat /\ tzOpen \in BOOLEAN /\ tzTimer \in BOOLEAN /\ garbled \in BOOLEAN
  /\ health \in [Source -> Report]
  /\ faults \in 0..MaxFaults

Unheard == [is |-> "none", since |-> "never", error |-> "none"]

\* With no listener the MQTT runtime does nothing at start-up.
FirstStep == IF Listener = {} THEN "tzevaadom" ELSE "cities"

Init ==
  /\ boot = FirstStep /\ stored \in {"none", "usable", "revoked"} /\ started = FALSE
  /\ client = [l \in Listener |-> "none"] /\ subscribed = [l \in Listener |-> "no"]
  /\ connected = [l \in Listener |-> FALSE]
  /\ timer = [l \in Listener |-> FALSE] /\ old = [l \in Listener |-> FALSE]
  /\ sockets = 0 /\ tzOpen = FALSE /\ tzTimer = FALSE /\ garbled = FALSE
  /\ health = [s \in Source |-> Unheard]
  /\ faults = 0

Fault == faults < MaxFaults /\ faults' = faults + 1

-----------------------------------------------------------------------------
(* The monitor *)

\* applySourceHealthUpdate: the time of the first failure stays.
Reported(was, up, error) ==
  IF up THEN [is |-> "up", since |-> "never", error |-> "none"]
  ELSE [is |-> "down", error |-> error,
        since |-> IF was.since = "never" THEN "recent" ELSE was.since]

Tell(s, up, error) == health' = [health EXCEPT ![s] = Reported(health[s], up, error)]

\* summarizeListenerStatuses: one connected listener will do.
AnyConnected(flags) == \E l \in Listener : flags[l]

TellMqtt == Tell(Mqtt, AnyConnected(connected'), "other")

\* resolveRealtimeSourceError: a parse error, which nothing clears, before "websocket
\* disconnected".
TzError == IF garbled THEN "other" ELSE "disconnected"

TellTz == Tell(Tzevaadom, tzOpen', TzError)

\* collectRealtimeSourceResults of a poll; polls begin when start-up is over.
Poll ==
  /\ boot = "done"
  /\ health' = [s \in Source |->
       IF s = Tzevaadom THEN Reported(health[s], tzOpen, TzError)
       ELSE IF Listener = {} THEN health[s]
       ELSE Reported(health[s], AnyConnected(connected), "other")]
  /\ UNCHANGED <<boot, stored, started, listeners, tz, faults>>

TimePasses ==
  /\ \E s \in Source : health[s].since = "recent"
                      /\ health' = [health EXCEPT ![s] = [@ EXCEPT !.since = "long"]]
  /\ UNCHANGED <<boot, stored, started, listeners, tz, faults>>

\* syncPagerDutyTzevaadom: what a sync wants of the incident.
TzevaadomWish ==
  IF health[Tzevaadom].is = "down" /\ health[Tzevaadom].error = "disconnected"
     /\ health[Tzevaadom].since = "long"
  THEN "triggered" ELSE "resolved"

-----------------------------------------------------------------------------
(* startRealtimeSources: one source after the other *)

\* The maps of the cities, for both sources: without one a stream starts all the same.
FetchesCities ==
  /\ boot = "cities" /\ boot' = "credentials"
  /\ UNCHANGED <<stored, started, listeners, tz, health>>
  /\ Fault \/ UNCHANGED faults

\* resolveCredentials: stored ones that the broker accepts are used.
Validates ==
  /\ boot = "credentials" /\ stored = "usable" /\ boot' = "topics"
  /\ UNCHANGED <<stored, started, listeners, tz, health, faults>>

\* None are stored, or they are refused; so are good ones when the broker cannot be asked.
ValidationFails ==
  /\ boot = "credentials" /\ boot' = "register"
  /\ IF stored = "usable" THEN Fault ELSE UNCHANGED faults
  /\ UNCHANGED <<stored, started, listeners, tz, health>>

\* registerDevice, persistCredentials
Registers ==
  /\ boot = "register" /\ boot' = "topics" /\ stored' = "usable"
  /\ UNCHANGED <<started, listeners, tz, health, faults>>

\* There is no new device, or its credentials cannot be written, the file perhaps being
\* cut off: reported, and the listeners stay off until the poller restarts.
RegistrationFails ==
  /\ boot = "register" /\ Fault /\ boot' = "tzevaadom"
  /\ stored' \in {stored, "none"}
  /\ Tell(Mqtt, FALSE, "other")
  /\ UNCHANGED <<started, listeners, tz>>

\* subscribeTopics, whether it works or not, and stream.start() for each listener.
StartsListeners ==
  /\ boot = "topics" /\ boot' = "tzevaadom"
  /\ started' = TRUE /\ client' = [l \in Listener |-> "connecting"]
  /\ UNCHANGED <<stored, subscribed, connected, timer, old, tz, health>>
  /\ Fault \/ UNCHANGED faults

StartsTzevaadom ==
  /\ boot = "tzevaadom" /\ boot' = "done" /\ sockets' = sockets + 1
  /\ UNCHANGED <<stored, started, listeners, tzOpen, tzTimer, garbled, health>>
  /\ Fault \/ UNCHANGED faults

\* The factory throws at once.
TzStartFails ==
  /\ boot = "tzevaadom" /\ boot' = "done" /\ Fault
  /\ tzTimer' = TRUE /\ UNCHANGED <<sockets, tzOpen, garbled>> /\ TellTz
  /\ UNCHANGED <<stored, started, listeners>>

-----------------------------------------------------------------------------
(* OrefMqttStream *)

\* 'connect': teardown ends the old client; the monitor is told after SUBSCRIBE.
Connects(l) ==
  /\ client[l] = "connecting" /\ client' = [client EXCEPT ![l] = "open"]
  /\ connected' = [connected EXCEPT ![l] = TRUE]
  /\ subscribed' = [subscribed EXCEPT ![l] = "pending"]
  /\ old' = [old EXCEPT ![l] = FALSE]
  /\ UNCHANGED <<boot, stored, started, timer, tz, health, faults>>

Subscribed(l) ==
  /\ client[l] = "open" /\ subscribed[l] = "pending"
  /\ subscribed' = [subscribed EXCEPT ![l] = "yes"]
  /\ timer' = [timer EXCEPT ![l] = TRUE]
  /\ UNCHANGED <<client, connected, old>> /\ TellMqtt
  /\ UNCHANGED <<boot, stored, started, tz, faults>>

\* Nobody asks again while the connection lasts.
SubscribeRefused(l) ==
  /\ client[l] = "open" /\ subscribed[l] = "pending" /\ Fault
  /\ subscribed' = [subscribed EXCEPT ![l] = "refused"]
  /\ UNCHANGED <<client, connected, timer, old>> /\ TellMqtt
  /\ UNCHANGED <<boot, stored, started, tz>>

\* 'error', of an attempt or of an open connection.
Errors(l) ==
  /\ client[l] \in {"connecting", "open"} /\ Fault
  /\ client' = [client EXCEPT ![l] = "closing"]
  /\ timer' = [timer EXCEPT ![l] = FALSE] /\ old' = [old EXCEPT ![l] = FALSE]
  /\ UNCHANGED <<subscribed, connected>> /\ TellMqtt
  /\ UNCHANGED <<boot, stored, started, tz>>

\* The connection closes: after an error, or without one.
Ends(l) ==
  \/ client[l] = "closing" /\ UNCHANGED faults
  \/ client[l] \in {"connecting", "open"} /\ Fault

\* Mutant: a rotation that is due is left to happen.
ClosesKeepingTimer(l) ==
  /\ Ends(l)
  /\ client' = [client EXCEPT ![l] = "waiting"]
  /\ connected' = [connected EXCEPT ![l] = FALSE]
  /\ subscribed' = [subscribed EXCEPT ![l] = "no"]
  /\ UNCHANGED <<timer, old>> /\ TellMqtt
  /\ UNCHANGED <<boot, stored, started, tz>>

\* Mutant: mqtt.js is expected to report the lost connection with its next attempt.
ClosesUntold(l) ==
  /\ Ends(l)
  /\ client' = [client EXCEPT ![l] = "waiting"]
  /\ connected' = [connected EXCEPT ![l] = FALSE]
  /\ subscribed' = [subscribed EXCEPT ![l] = "no"]
  /\ timer' = [timer EXCEPT ![l] = FALSE]
  /\ UNCHANGED <<boot, stored, started, old, tz, health>>

\* Mutant: mqtt.js is left without a reconnectPeriod.
ClosesForGood(l) ==
  /\ Ends(l)
  /\ client' = [client EXCEPT ![l] = "none"]
  /\ connected' = [connected EXCEPT ![l] = FALSE]
  /\ subscribed' = [subscribed EXCEPT ![l] = "no"]
  /\ timer' = [timer EXCEPT ![l] = FALSE]
  /\ UNCHANGED old /\ TellMqtt
  /\ UNCHANGED <<boot, stored, started, tz>>

\* What the monitor shows when 'close' arrives: a SUBSCRIBE under way has failed and told.
ToldOf(l) ==
  IF subscribed[l] = "pending" THEN Reported(health[Mqtt], AnyConnected(connected), "other")
  ELSE health[Mqtt]

\* 'close'
Closes(l) ==
  /\ Ends(l)
  /\ client' = [client EXCEPT ![l] = "waiting"]
  /\ connected' = [connected EXCEPT ![l] = FALSE]
  /\ subscribed' = [subscribed EXCEPT ![l] = "no"]
  /\ timer' = [timer EXCEPT ![l] = FALSE]
  /\ health' = [health EXCEPT ![Mqtt] = Reported(ToldOf(l), AnyConnected(connected'), "other")]
  /\ UNCHANGED <<boot, stored, started, old, tz>>

\* Mutant: the event's name is taken for the state.
RetriesAsEvent(l) ==
  /\ client[l] = "waiting" /\ client' = [client EXCEPT ![l] = "reconnect"]
  /\ UNCHANGED <<boot, stored, started, subscribed, connected, timer, old, tz, health, faults>>

\* 'reconnect'
Retries(l) ==
  /\ client[l] = "waiting" /\ client' = [client EXCEPT ![l] = "connecting"]
  /\ connected' = [connected EXCEPT ![l] = FALSE]
  /\ timer' = [timer EXCEPT ![l] = FALSE]
  /\ UNCHANGED <<subscribed, old>> /\ TellMqtt
  /\ UNCHANGED <<boot, stored, started, tz, faults>>

\* rotateBroker: this.connected still speaks of the old client, whose events and
\* messages are no longer looked at.
Rotates(l) ==
  /\ timer[l] /\ timer' = [timer EXCEPT ![l] = FALSE]
  /\ client' = [client EXCEPT ![l] = "connecting"] /\ old' = [old EXCEPT ![l] = TRUE]
  /\ subscribed' = [subscribed EXCEPT ![l] = "no"]
  /\ UNCHANGED <<boot, stored, started, connected, tz, health, faults>>

-----------------------------------------------------------------------------
(* TzevaadomStream *)

TzConnects ==
  /\ sockets > 0 /\ ~tzOpen /\ tzOpen' = TRUE
  /\ UNCHANGED <<sockets, tzTimer, garbled>> /\ TellTz
  /\ UNCHANGED <<boot, stored, started, listeners, faults>>

\* A frame that does not parse, or that the normalizer does not understand.
TzGarbles ==
  /\ tzOpen /\ Fault /\ garbled' = TRUE
  /\ UNCHANGED <<boot, stored, started, listeners, sockets, tzOpen, tzTimer, health>>

\* Mutant: an error is taken for the end of its socket, whose 'close' is still to come.
TzClosesTwice ==
  /\ sockets > 0 /\ Fault /\ sockets' \in {sockets - 1, sockets}
  /\ tzOpen' = FALSE /\ tzTimer' = TRUE
  /\ UNCHANGED garbled /\ TellTz
  /\ UNCHANGED <<boot, stored, started, listeners>>

\* onclose, of an attempt or of an open socket; onerror before it only logs.
TzCloses ==
  /\ sockets > 0 /\ Fault /\ sockets' = sockets - 1
  /\ tzOpen' = FALSE /\ tzTimer' = TRUE
  /\ UNCHANGED garbled /\ TellTz
  /\ UNCHANGED <<boot, stored, started, listeners>>

TzRetries ==
  /\ tzTimer /\ tzTimer' = FALSE /\ sockets' = sockets + 1
  /\ UNCHANGED <<boot, stored, started, listeners, tzOpen, garbled, health, faults>>

\* The factory throws: caught, told, and tried again later.
TzRetryFails ==
  /\ tzTimer /\ Fault /\ tzTimer' = TRUE
  /\ UNCHANGED <<sockets, tzOpen, garbled>> /\ TellTz
  /\ UNCHANGED <<boot, stored, started, listeners>>

\* The poller is killed and started again.
Restarts ==
  /\ Fault /\ boot' = FirstStep /\ started' = FALSE
  /\ client' = [l \in Listener |-> "none"] /\ subscribed' = [l \in Listener |-> "no"]
  /\ connected' = [l \in Listener |-> FALSE]
  /\ timer' = [l \in Listener |-> FALSE] /\ old' = [l \in Listener |-> FALSE]
  /\ sockets' = 0 /\ tzOpen' = FALSE /\ tzTimer' = FALSE /\ garbled' = FALSE
  /\ health' = [s \in Source |-> Unheard]
  /\ UNCHANGED stored

-----------------------------------------------------------------------------
Boots ==
  \/ FetchesCities \/ Validates \/ Registers \/ StartsListeners \/ StartsTzevaadom
  \/ (stored # "usable" /\ ValidationFails)

\* What brings a listener back.
Recovers(l) == Connects(l) \/ Subscribed(l) \/ (client[l] = "closing" /\ Closes(l)) \/ Retries(l)
TzRecovers == TzConnects \/ TzRetries

ListenerStep(l) ==
  \/ Connects(l) \/ Subscribed(l) \/ SubscribeRefused(l) \/ Errors(l)
  \/ Closes(l) \/ Retries(l) \/ Rotates(l)
TzStep == TzRecovers \/ TzGarbles \/ TzCloses \/ TzRetryFails

Next ==
  \/ Boots \/ ValidationFails \/ RegistrationFails \/ TzStartFails \/ Restarts
  \/ \E l \in Listener : ListenerStep(l)
  \/ TzStep \/ Poll \/ TimePasses

Spec == Init /\ [][Next]_vars

\* Start-up goes on, reconnect timers fire, and attempts are answered.
FairSpec ==
  /\ Spec /\ WF_vars(Boots) /\ WF_vars(TzRecovers)
  /\ \A l \in Listener : WF_vars(Recovers(l))

-----------------------------------------------------------------------------
(* Properties *)

Hears(l) == client[l] = "open" /\ subscribed[l] = "yes"

\* A source the monitor shows as up has a connection: the current one of a listener, the
\* one its rotation is replacing (oref-mqtt.js:528), or the open websocket.
ReportedUpIsUp ==
  /\ health[Mqtt].is = "up" =>
       \E l \in Listener : \/ client[l] \in {"open", "closing"}
                           \/ client[l] = "connecting" /\ old[l]
  /\ health[Tzevaadom].is = "up" => tzOpen /\ sockets > 0

\* A rotation is due only for a client that hears and that has seen the client before it
\* ended: none is rotated away from its reconnects.
OnlyHearingClientsRotate == \A l \in Listener : timer[l] => Hears(l) /\ ~old[l]

\* There is one websocket or one reconnect timer.
OneSocketOrTimer ==
  boot = "done" => sockets + (IF tzTimer THEN 1 ELSE 0) = 1 /\ (tzOpen => sockets = 1)

\* Whatever the order of errors, closes, rotations and retries, a listener has no third
\* client (oref-mqtt.js:528) and the websocket, whose handlers do not ask whether it is the
\* current one, no second (sources.js:607).
ConnectionsDoNotPileUp == OnlyHearingClientsRotate /\ OneSocketOrTimer

\* After broken connections, failed attempts and rotations a listener hears again, unless
\* its SUBSCRIBE was refused, and so does the websocket.
HearsAgain ==
  /\ \A l \in Listener : []<>(started => Hears(l) \/ subscribed[l] = "refused")
  /\ []<>tzOpen

\* docs/deploy.md:177: "Current PagerDuty coverage includes ... prolonged Tzevaadom
\* disconnects."
ProlongedDisconnectPaged ==
  health[Tzevaadom].is = "down" /\ health[Tzevaadom].since = "long" => TzevaadomWish = "triggered"

-----------------------------------------------------------------------------
(* Inductive strengthenings *)

\* The clients of a listener: flag and rotation timer belong to a client there is.
ListenerShape(l) ==
  /\ client[l] = "none" => ~connected[l] /\ ~timer[l]
  /\ client[l] = "open" => ~old[l]
  /\ connected[l] => client[l] \in {"open", "closing"} \/ (client[l] = "connecting" /\ old[l])
  /\ timer[l] => Hears(l) /\ ~old[l]

\* No listener before its step of start-up, nor a websocket.
BootShape ==
  /\ boot \notin {"tzevaadom", "done"} => \A l \in Listener : client[l] = "none"
  /\ boot # "done" => sockets = 0 /\ ~tzTimer /\ ~tzOpen

\* The monitor believes in a source no longer than its flag does.
HealthShape ==
  /\ health[Mqtt].is = "up" => AnyConnected(connected)
  /\ health[Tzevaadom].is = "up" => tzOpen

SourcesInv ==
  /\ TypeOK /\ (\A l \in Listener : ListenerShape(l))
  /\ BootShape /\ HealthShape /\ OneSocketOrTimer
=============================================================================
