------------------------- MODULE PollRuntime_proofs -------------------------
(* Theorems about RealtimeSources and PollRuntime for any listeners, polled   *)
(* sources and bounds.                                                        *)
EXTENDS PollRuntime, TLAPS

-----------------------------------------------------------------------------
(* The monitor *)

LEMMA ReportedType ==
  ASSUME NEW was \in Report, NEW up \in BOOLEAN, NEW error \in {"none", "disconnected", "other"}
  PROVE  Reported(was, up, error) \in Report /\ (Reported(was, up, error).is = "up" <=> up)
BY DEF Reported, Report

LEMMA FlagTypes ==
  ASSUME TypeOK
  PROVE  /\ TzError \in {"none", "disconnected", "other"}
         /\ \A flags : AnyConnected(flags) \in BOOLEAN
BY DEF TzError, AnyConnected

\* What the monitor is told of one source changes that source's entry alone.
LEMMA TellsOne ==
  ASSUME TypeOK, NEW s \in Source, NEW up \in BOOLEAN,
         NEW error \in {"none", "disconnected", "other"}, Tell(s, up, error)
  PROVE  /\ health' \in [Source -> Report]
         /\ health'[s].is = "up" <=> up
         /\ \A r \in Source \ {s} : health'[r] = health[r]
<1>1. health \in [Source -> Report] BY DEF TypeOK
<1>2. Reported(health[s], up, error) \in Report /\ (Reported(health[s], up, error).is = "up" <=> up)
  BY <1>1, ReportedType
<1>3. health' = [health EXCEPT ![s] = Reported(health[s], up, error)] BY DEF Tell
<1>. QED BY <1>1, <1>2, <1>3

LEMMA TellsMqtt ==
  ASSUME TypeOK, TellMqtt
  PROVE  /\ health' \in [Source -> Report]
         /\ health'[Mqtt].is = "up" <=> AnyConnected(connected')
         /\ health'[Tzevaadom] = health[Tzevaadom]
<1>1. Tell(Mqtt, AnyConnected(connected'), "other") BY DEF TellMqtt
<1>2. Mqtt \in Source /\ Tzevaadom \in Source \ {Mqtt} BY DEF Source, Mqtt, Tzevaadom
<1>3. AnyConnected(connected') \in BOOLEAN BY DEF AnyConnected
<1>. QED BY <1>1, <1>2, <1>3, TellsOne

LEMMA TellsTz ==
  ASSUME TypeOK, tzOpen' \in BOOLEAN, TellTz
  PROVE  /\ health' \in [Source -> Report]
         /\ health'[Tzevaadom].is = "up" <=> tzOpen'
         /\ health'[Mqtt] = health[Mqtt]
<1>1. Tell(Tzevaadom, tzOpen', TzError) BY DEF TellTz
<1>2. Tzevaadom \in Source /\ Mqtt \in Source \ {Tzevaadom} BY DEF Source, Mqtt, Tzevaadom
<1>. QED BY <1>1, <1>2, TellsOne, FlagTypes

LEMMA PollTells ==
  ASSUME TypeOK, Poll
  PROVE  /\ health' \in [Source -> Report]
         /\ health'[Mqtt].is = "up" => AnyConnected(connected) \/ health[Mqtt].is = "up"
         /\ health'[Tzevaadom].is = "up" <=> tzOpen
<1>1. health \in [Source -> Report] /\ tzOpen \in BOOLEAN BY DEF TypeOK
<1>2. Mqtt \in Source /\ Tzevaadom \in Source /\ Mqtt # Tzevaadom
  BY DEF Source, Mqtt, Tzevaadom
<1>3. \A s \in Source :
        /\ Reported(health[s], tzOpen, TzError) \in Report
        /\ Reported(health[s], tzOpen, TzError).is = "up" <=> tzOpen
        /\ Reported(health[s], AnyConnected(connected), "other") \in Report
        /\ Reported(health[s], AnyConnected(connected), "other").is = "up" <=> AnyConnected(connected)
  BY <1>1, ReportedType, FlagTypes
<1>4. health' = [s \in Source |->
        IF s = Tzevaadom THEN Reported(health[s], tzOpen, TzError)
        ELSE IF Listener = {} THEN health[s]
        ELSE Reported(health[s], AnyConnected(connected), "other")]
  BY DEF Poll
<1>. HIDE DEF Mqtt, Tzevaadom, Source
<1>. QED BY <1>1, <1>2, <1>3, <1>4

LEMMA ClosesTells ==
  ASSUME TypeOK, NEW l \in Listener, Closes(l)
  PROVE  /\ health' \in [Source -> Report]
         /\ health'[Mqtt].is = "up" <=> AnyConnected(connected')
         /\ health'[Tzevaadom] = health[Tzevaadom]
<1>1. health \in [Source -> Report] BY DEF TypeOK
<1>2. Mqtt \in Source /\ Tzevaadom \in Source \ {Mqtt} BY DEF Source, Mqtt, Tzevaadom
<1>3. ToldOf(l) \in Report BY <1>1, <1>2, ReportedType, FlagTypes DEF ToldOf
<1>4. AnyConnected(connected') \in BOOLEAN BY DEF AnyConnected
<1>5. /\ Reported(ToldOf(l), AnyConnected(connected'), "other") \in Report
      /\ Reported(ToldOf(l), AnyConnected(connected'), "other").is = "up" <=> AnyConnected(connected')
  BY <1>3, <1>4, ReportedType
<1>6. health' = [health EXCEPT ![Mqtt] = Reported(ToldOf(l), AnyConnected(connected'), "other")]
  BY DEF Closes
<1>. QED BY <1>1, <1>2, <1>5, <1>6

-----------------------------------------------------------------------------
(* Types *)

LEMMA ListenerTypes ==
  ASSUME TypeOK, NEW l \in Listener, ListenerStep(l)
  PROVE  TypeOK'
<1>1. /\ client' \in [Listener -> Connection]
      /\ subscribed' \in [Listener -> {"no", "pending", "yes", "refused"}]
  BY DEF ListenerStep, TypeOK, Connection, Connects, Subscribed, SubscribeRefused, Errors,
         Closes, Retries, Rotates
<1>2. /\ connected' \in [Listener -> BOOLEAN] /\ timer' \in [Listener -> BOOLEAN]
      /\ old' \in [Listener -> BOOLEAN]
  BY Zenon DEF ListenerStep, TypeOK, Connects, Subscribed, SubscribeRefused, Errors,
               Closes, Retries, Rotates
<1>3. health' \in [Source -> Report]
  <2>1. \/ TellMqtt \/ Closes(l) \/ health' = health
    BY DEF ListenerStep, Connects, Subscribed, SubscribeRefused, Errors, Retries, Rotates
  <2>. QED BY <2>1, TellsMqtt, ClosesTells DEF TypeOK
<1>4. faults' \in 0..MaxFaults
  BY RealtimeAssumption DEF ListenerStep, TypeOK, Connects, Subscribed, SubscribeRefused,
     Errors, Closes, Ends, Retries, Rotates, Fault
<1>5. UNCHANGED <<boot, stored, started, tz>>
  BY DEF ListenerStep, Connects, Subscribed, SubscribeRefused, Errors, Closes, Retries, Rotates
<1>. QED BY <1>1, <1>2, <1>3, <1>4, <1>5 DEF TypeOK, tz

LEMMA TzTypes ==
  ASSUME TypeOK, TzStep \/ StartsTzevaadom \/ TzStartFails
  PROVE  TypeOK'
<1>. USE DEF TzStep, TzRecovers, StartsTzevaadom, TzStartFails, TzConnects, TzGarbles, TzCloses,
             TzRetries, TzRetryFails
<1>1. sockets' \in Nat BY DEF TypeOK
<1>2. tzOpen' \in BOOLEAN /\ tzTimer' \in BOOLEAN /\ garbled' \in BOOLEAN BY DEF TypeOK
<1>3. health' \in [Source -> Report] BY <1>2, TellsTz DEF TypeOK
<1>4. faults' \in 0..MaxFaults BY RealtimeAssumption DEF TypeOK, Fault
<1>5. boot' \in {boot, "done"} /\ UNCHANGED <<stored, started, listeners>> BY DEF TypeOK
<1>. QED BY <1>1, <1>2, <1>3, <1>4, <1>5 DEF TypeOK, listeners

LEMMA RestTypes ==
  ASSUME TypeOK, \/ FetchesCities \/ Validates \/ Registers \/ StartsListeners
                 \/ ValidationFails \/ RegistrationFails \/ Restarts \/ Poll \/ TimePasses
  PROVE  TypeOK'
<1>1. health' \in [Source -> Report]
  <2>1. CASE RegistrationFails
    <3>1. Tell(Mqtt, FALSE, "other") BY <2>1 DEF RegistrationFails
    <3>. QED BY <3>1, TellsOne DEF Source
  <2>2. CASE Poll BY <2>2, PollTells
  <2>3. CASE TimePasses
    <3>1. PICK s \in Source : health' = [health EXCEPT ![s] = [@ EXCEPT !.since = "long"]]
      BY <2>3 DEF TimePasses
    <3>2. health \in [Source -> Report] BY DEF TypeOK
    <3>3. \A r \in Report : [r EXCEPT !.since = "long"] \in Report BY DEF Report
    <3>. QED BY <3>1, <3>2, <3>3
  <2>4. CASE Restarts BY <2>4 DEF Restarts, Report, Unheard
  <2>. QED BY <2>1, <2>2, <2>3, <2>4 DEF TypeOK, FetchesCities, Validates, Registers,
                                          StartsListeners, ValidationFails
<1>2. Poll \/ TimePasses => UNCHANGED <<boot, stored, started, listeners, tz, faults>>
  BY DEF Poll, TimePasses
<1>3. faults' \in 0..MaxFaults
  <2>1. faults' = faults \/ Fault
    BY <1>2 DEF FetchesCities, Validates, Registers, StartsListeners, ValidationFails,
                RegistrationFails, Restarts
  <2>. QED BY <2>1, RealtimeAssumption DEF TypeOK, Fault
<1>4. /\ client' \in [Listener -> Connection]
      /\ subscribed' \in [Listener -> {"no", "pending", "yes", "refused"}]
  BY <1>2 DEF TypeOK, Connection, listeners, FetchesCities, Validates, Registers, StartsListeners,
     ValidationFails, RegistrationFails, Restarts
<1>5. /\ connected' \in [Listener -> BOOLEAN] /\ timer' \in [Listener -> BOOLEAN]
      /\ old' \in [Listener -> BOOLEAN] /\ started' \in BOOLEAN
      /\ tzOpen' \in BOOLEAN /\ tzTimer' \in BOOLEAN /\ garbled' \in BOOLEAN
  BY <1>2 DEF TypeOK, listeners, tz, FetchesCities, Validates, Registers, StartsListeners,
     ValidationFails, RegistrationFails, Restarts
<1>6. boot' \in {"cities", "credentials", "register", "topics", "tzevaadom", "done"}
  <2>1. boot' \in {boot, FirstStep, "credentials", "register", "topics", "tzevaadom"}
    BY <1>2 DEF FetchesCities, Validates, Registers, StartsListeners, ValidationFails,
                RegistrationFails, Restarts
  <2>. QED BY <2>1 DEF TypeOK, FirstStep
<1>7. stored' \in {"none", "usable", "revoked"}
  BY <1>2 DEF TypeOK, FetchesCities, Validates, Registers, StartsListeners, ValidationFails,
              RegistrationFails, Restarts
<1>8. sockets' \in Nat
  <2>1. sockets' \in {sockets, 0}
    BY <1>2 DEF tz, FetchesCities, Validates, Registers, StartsListeners, ValidationFails,
                RegistrationFails, Restarts
  <2>. QED BY <2>1 DEF TypeOK
<1>. QED BY <1>1, <1>3, <1>4, <1>5, <1>6, <1>7, <1>8 DEF TypeOK

LEMMA InitTypes == Init => TypeOK
<1>1. Unheard \in Report BY DEF Unheard, Report
<1>2. FirstStep \in {"cities", "tzevaadom"} BY DEF FirstStep
<1>3. SUFFICES ASSUME Init PROVE TypeOK OBVIOUS
<1>4. /\ client \in [Listener -> Connection] /\ health \in [Source -> Report]
      /\ subscribed \in [Listener -> {"no", "pending", "yes", "refused"}]
  BY <1>1, <1>3 DEF Init, Connection
<1>5. /\ connected \in [Listener -> BOOLEAN] /\ timer \in [Listener -> BOOLEAN]
      /\ old \in [Listener -> BOOLEAN]
      /\ started \in BOOLEAN /\ tzOpen \in BOOLEAN /\ tzTimer \in BOOLEAN /\ garbled \in BOOLEAN
  BY <1>3 DEF Init
<1>6. sockets \in Nat /\ faults \in 0..MaxFaults BY <1>3, RealtimeAssumption DEF Init
<1>7. /\ boot \in {"cities", "credentials", "register", "topics", "tzevaadom", "done"}
      /\ stored \in {"none", "usable", "revoked"}
  BY <1>2, <1>3 DEF Init
<1>. QED BY <1>4, <1>5, <1>6, <1>7 DEF TypeOK

LEMMA NextTypes == ASSUME TypeOK, Next PROVE TypeOK'
BY ListenerTypes, TzTypes, RestTypes DEF Next, Boots

\* Clients, sockets, timers and what is reported of them keep their form.
THEOREM SourcesTypes == Spec => []TypeOK
<1>1. TypeOK /\ [Next]_vars => TypeOK'
  <2>1. TypeOK /\ UNCHANGED vars => TypeOK'
    BY DEF TypeOK, vars, listeners, tz
  <2>. QED BY <2>1, NextTypes
<1>. QED BY <1>1, InitTypes, PTL DEF Spec

-----------------------------------------------------------------------------
(* What is up and what is connected *)

LEMMA ListenerShapes ==
  ASSUME SourcesInv, NEW l \in Listener, ListenerStep(l)
  PROVE  \A m \in Listener : ListenerShape(m)'
<1>0. /\ \A m \in Listener : ListenerShape(m)
      /\ client \in [Listener -> Connection]
      /\ subscribed \in [Listener -> {"no", "pending", "yes", "refused"}]
      /\ connected \in [Listener -> BOOLEAN] /\ timer \in [Listener -> BOOLEAN]
      /\ old \in [Listener -> BOOLEAN]
  BY DEF SourcesInv, TypeOK
<1>1. \A m \in Listener \ {l} :
        /\ client'[m] = client[m] /\ subscribed'[m] = subscribed[m]
        /\ connected'[m] = connected[m] /\ timer'[m] = timer[m] /\ old'[m] = old[m]
  BY <1>0 DEF ListenerStep, Connects, Subscribed, SubscribeRefused, Errors, Closes, Retries, Rotates
<1>2. \A m \in Listener \ {l} : ListenerShape(m)' BY <1>0, <1>1 DEF ListenerShape, Hears
<1>. USE <1>0 DEF ListenerShape, Hears
<1>3. CASE Connects(l) BY <1>3 DEF Connects
<1>4. CASE Subscribed(l) BY <1>4 DEF Subscribed
<1>5. CASE SubscribeRefused(l) BY <1>5 DEF SubscribeRefused
<1>6. CASE Errors(l) BY <1>6 DEF Errors
<1>7. CASE Closes(l) BY <1>7 DEF Closes, Ends
<1>8. CASE Retries(l) BY <1>8 DEF Retries
<1>9. CASE Rotates(l) BY <1>9 DEF Rotates
<1>10. ListenerShape(l)' BY <1>3, <1>4, <1>5, <1>6, <1>7, <1>8, <1>9 DEF ListenerStep
<1>. QED BY <1>2, <1>10

\* Start-up, the websocket and the polls leave the listeners alone; StartsListeners gives
\* each its first client.
LEMMA OtherShapes ==
  ASSUME SourcesInv,
         \/ FetchesCities \/ Validates \/ Registers \/ StartsListeners \/ StartsTzevaadom
         \/ ValidationFails \/ RegistrationFails \/ TzStartFails \/ Restarts
         \/ TzStep \/ Poll \/ TimePasses
  PROVE  \A m \in Listener : ListenerShape(m)'
<1>0. /\ \A m \in Listener : ListenerShape(m)
      /\ BootShape
  BY DEF SourcesInv
<1>1. CASE StartsListeners
  BY <1>0, <1>1 DEF StartsListeners, BootShape, ListenerShape, Hears
<1>2. CASE Restarts BY <1>2 DEF Restarts, ListenerShape, Hears
<1>3. CASE UNCHANGED listeners BY <1>0, <1>3 DEF listeners, ListenerShape, Hears
<1>4. UNCHANGED listeners \/ StartsListeners \/ Restarts
  BY DEF listeners, FetchesCities, Validates, Registers, StartsTzevaadom, ValidationFails,
     RegistrationFails, TzStartFails, TzStep, TzRecovers, TzConnects, TzGarbles, TzCloses,
     TzRetries, TzRetryFails, Poll, TimePasses
<1>. QED BY <1>1, <1>2, <1>3, <1>4

LEMMA BootShapes ==
  ASSUME SourcesInv, Next
  PROVE  BootShape' /\ OneSocketOrTimer'
<1>0. /\ BootShape /\ OneSocketOrTimer /\ \A l \in Listener : ListenerShape(l)
      /\ sockets \in Nat /\ tzOpen \in BOOLEAN /\ tzTimer \in BOOLEAN
      /\ client \in [Listener -> Connection]
  BY DEF SourcesInv, TypeOK
<1>1. CASE \/ FetchesCities \/ Validates \/ Registers \/ StartsListeners
           \/ ValidationFails \/ RegistrationFails
  <2>1. /\ boot # "done" /\ boot' # "done" /\ UNCHANGED tz
        /\ boot' = "tzevaadom" \/ (boot # "tzevaadom" /\ UNCHANGED client)
    BY <1>1 DEF FetchesCities, Validates, Registers, StartsListeners, ValidationFails,
                RegistrationFails, listeners
  <2>. QED BY <1>0, <2>1 DEF tz, BootShape, OneSocketOrTimer
<1>2. CASE \E l \in Listener : ListenerStep(l)
  <2>1. PICK l \in Listener : ListenerStep(l) BY <1>2
  <2>2. UNCHANGED <<boot, tz>>
    BY <2>1 DEF ListenerStep, Connects, Subscribed, SubscribeRefused, Errors, Closes, Retries, Rotates
  <2>3. client[l] # "none"
    BY <1>0, <2>1 DEF ListenerShape, ListenerStep, Connects, Subscribed, SubscribeRefused, Errors,
                      Closes, Ends, Retries, Rotates
  <2>4. boot \in {"tzevaadom", "done"} BY <1>0, <2>3 DEF BootShape
  <2>. QED BY <1>0, <2>2, <2>4 DEF tz, BootShape, OneSocketOrTimer
<1>3. CASE StartsTzevaadom \/ TzStartFails
  <2>1. /\ boot = "tzevaadom" /\ boot' = "done" /\ tzOpen' = tzOpen
        /\ \/ sockets' = sockets + 1 /\ tzTimer' = tzTimer
           \/ sockets' = sockets /\ tzTimer' = TRUE
    BY <1>3 DEF StartsTzevaadom, TzStartFails
  <2>. QED BY <1>0, <2>1 DEF BootShape, OneSocketOrTimer
<1>4. CASE TzStep
  <2>1. /\ boot' = boot /\ UNCHANGED client
        /\ \/ sockets > 0 /\ tzOpen' = TRUE /\ UNCHANGED <<sockets, tzTimer>>
           \/ UNCHANGED <<sockets, tzOpen, tzTimer>>
           \/ sockets > 0 /\ sockets' = sockets - 1 /\ tzOpen' = FALSE /\ tzTimer' = TRUE
           \/ tzTimer /\ tzTimer' = FALSE /\ sockets' = sockets + 1 /\ tzOpen' = tzOpen
           \/ tzTimer /\ tzTimer' = TRUE /\ UNCHANGED <<sockets, tzOpen>>
    BY <1>4 DEF TzStep, TzRecovers, TzConnects, TzGarbles, TzCloses, TzRetries, TzRetryFails, listeners
  <2>2. OneSocketOrTimer' /\ (boot # "done" => sockets' = 0 /\ ~tzTimer' /\ ~tzOpen')
    BY <1>0, <2>1 DEF BootShape, OneSocketOrTimer
  <2>. QED BY <1>0, <2>1, <2>2 DEF BootShape
<1>5. CASE Poll \/ TimePasses
  <2>1. UNCHANGED <<boot, client, tz>> BY <1>5 DEF Poll, TimePasses, listeners
  <2>. QED BY <1>0, <2>1 DEF tz, BootShape, OneSocketOrTimer
<1>6. CASE Restarts
  <2>1. /\ boot' # "done" /\ \A l \in Listener : client'[l] = "none"
        /\ sockets' = 0 /\ tzTimer' = FALSE /\ tzOpen' = FALSE
    BY <1>6 DEF Restarts, FirstStep
  <2>. QED BY <2>1 DEF BootShape, OneSocketOrTimer
<1>. QED BY <1>1, <1>2, <1>3, <1>4, <1>5, <1>6 DEF Next, Boots

LEMMA HealthShapes ==
  ASSUME SourcesInv, Next
  PROVE  HealthShape'
<1>0. /\ TypeOK /\ HealthShape /\ health \in [Source -> Report]
      /\ connected \in [Listener -> BOOLEAN]
  BY DEF SourcesInv, TypeOK
<1>1. Mqtt \in Source /\ Tzevaadom \in Source /\ Mqtt # Tzevaadom
  BY DEF Source, Mqtt, Tzevaadom
<1>2. CASE \E l \in Listener : ListenerStep(l)
  <2>1. PICK l \in Listener : ListenerStep(l) BY <1>2
  <2>2. tzOpen' = tzOpen
    BY <2>1 DEF ListenerStep, Connects, Subscribed, SubscribeRefused, Errors, Closes, Retries,
                Rotates, tz
  <2>3. CASE TellMqtt BY <1>0, <2>2, <2>3, TellsMqtt DEF HealthShape
  <2>4. CASE Closes(l) BY <1>0, <2>2, <2>4, ClosesTells DEF HealthShape
  <2>5. CASE Connects(l) \/ Rotates(l)
    <3>1. health' = health /\ \A m \in Listener : connected[m] => connected'[m]
      BY <1>0, <2>5 DEF Connects, Rotates
    <3>. QED BY <1>0, <2>2, <3>1 DEF HealthShape, AnyConnected
  <2>. QED BY <2>1, <2>3, <2>4, <2>5 DEF ListenerStep, Subscribed, SubscribeRefused, Errors, Retries
<1>3. CASE Poll
  <2>1. UNCHANGED <<connected, tzOpen>> BY <1>3 DEF Poll, listeners, tz
  <2>. QED BY <1>0, <1>3, <2>1, PollTells DEF HealthShape, AnyConnected
<1>4. CASE TimePasses
  <2>1. PICK s \in Source : health' = [health EXCEPT ![s] = [@ EXCEPT !.since = "long"]]
    BY <1>4 DEF TimePasses
  <2>2. \A r \in Report : [r EXCEPT !.since = "long"].is = r.is BY DEF Report
  <2>3. \A r \in Source : health'[r].is = health[r].is BY <1>0, <2>1, <2>2
  <2>4. UNCHANGED <<connected, tzOpen>> BY <1>4 DEF TimePasses, listeners, tz
  <2>. QED BY <1>0, <1>1, <2>3, <2>4 DEF HealthShape, AnyConnected
<1>5. CASE TzStartFails \/ TzConnects \/ TzCloses \/ TzRetryFails
  <2>1. TellTz /\ UNCHANGED connected /\ tzOpen' \in BOOLEAN
    BY <1>0, <1>5 DEF TzStartFails, TzConnects, TzCloses, TzRetryFails, listeners, TypeOK
  <2>. QED BY <1>0, <2>1, TellsTz DEF HealthShape, AnyConnected
<1>6. CASE RegistrationFails
  <2>1. Tell(Mqtt, FALSE, "other") /\ UNCHANGED <<connected, tzOpen>>
    BY <1>6 DEF RegistrationFails, listeners, tz
  <2>2. ~(health'[Mqtt].is = "up") /\ health'[Tzevaadom] = health[Tzevaadom]
    BY <1>0, <1>1, <2>1, TellsOne
  <2>. QED BY <1>0, <2>1, <2>2 DEF HealthShape
<1>7. CASE Restarts
  <2>1. \A s \in Source : health'[s] = Unheard BY <1>7 DEF Restarts
  <2>. QED BY <1>1, <2>1 DEF HealthShape, Unheard
<1>8. CASE \/ FetchesCities \/ Validates \/ Registers \/ StartsListeners \/ StartsTzevaadom
           \/ ValidationFails \/ TzGarbles \/ TzRetries
  <2>1. UNCHANGED <<health, connected, tzOpen>>
    BY <1>8 DEF FetchesCities, Validates, Registers, StartsListeners, StartsTzevaadom,
                ValidationFails, TzGarbles, TzRetries, listeners, tz
  <2>. QED BY <1>0, <2>1 DEF HealthShape, AnyConnected
<1>. QED BY <1>2, <1>3, <1>4, <1>5, <1>6, <1>7, <1>8 DEF Next, Boots, TzStep, TzRecovers

LEMMA SourcesInductive == Spec => []SourcesInv
<1>1. Init => SourcesInv
  <2>1. Init => TypeOK BY InitTypes
  <2>2. SUFFICES ASSUME Init PROVE SourcesInv OBVIOUS
  <2>3. \A l \in Listener : ListenerShape(l) BY <2>2 DEF Init, ListenerShape, Hears
  <2>4. boot # "done" /\ BootShape BY <2>2 DEF Init, FirstStep, BootShape
  <2>5. Mqtt \in Source /\ Tzevaadom \in Source BY DEF Source
  <2>6. HealthShape BY <2>2, <2>5 DEF Init, HealthShape, Unheard
  <2>. QED BY <2>1, <2>2, <2>3, <2>4, <2>6 DEF SourcesInv, OneSocketOrTimer
<1>2. SourcesInv /\ [Next]_vars => SourcesInv'
  <2>1. CASE UNCHANGED vars
    BY <2>1 DEF SourcesInv, TypeOK, ListenerShape, Hears, BootShape, HealthShape, AnyConnected,
                OneSocketOrTimer, vars, listeners, tz
  <2>2. ASSUME SourcesInv, Next PROVE SourcesInv'
    <3>1. TypeOK' BY <2>2, NextTypes DEF SourcesInv
    <3>2. \A m \in Listener : ListenerShape(m)'
      BY <2>2, ListenerShapes, OtherShapes DEF Next, Boots
    <3>. QED BY <2>2, <3>1, <3>2, BootShapes, HealthShapes DEF SourcesInv
  <2>. QED BY <2>1, <2>2
<1>. QED BY <1>1, <1>2, PTL DEF Spec

\* Nothing is shown as up that has no connection.
THEOREM ReportsAreTrue == Spec => []ReportedUpIsUp
<1>1. SourcesInv => ReportedUpIsUp
  <2>1. ASSUME SourcesInv PROVE health[Mqtt].is = "up" =>
          \E l \in Listener : \/ client[l] \in {"open", "closing"}
                              \/ client[l] = "connecting" /\ old[l]
    BY <2>1 DEF SourcesInv, HealthShape, AnyConnected, ListenerShape
  <2>2. ASSUME SourcesInv, health[Tzevaadom].is = "up" PROVE tzOpen /\ sockets > 0
    BY <2>2 DEF SourcesInv, HealthShape, BootShape, OneSocketOrTimer
  <2>. QED BY <2>1, <2>2 DEF ReportedUpIsUp
<1>. QED BY <1>1, SourcesInductive, PTL

\* Rotations, reconnects and late closes at any moment leave no second connection
\* but the one being replaced.
THEOREM ConnectionsStaySingle == Spec => []ConnectionsDoNotPileUp
<1>1. SourcesInv => ConnectionsDoNotPileUp
  BY DEF SourcesInv, ListenerShape, ConnectionsDoNotPileUp, OnlyHearingClientsRotate
<1>. QED BY <1>1, SourcesInductive, PTL

-----------------------------------------------------------------------------
(* The polls *)

\* A step of the poller is one of the push sources, which collecting for a poll and
\* restarting are, or none of theirs.
LEMMA PollerSteps ==
  ASSUME [PollerNext]_pollerVars
  PROVE  [Next]_vars
<1>1. CASE SourceStep BY <1>1 DEF SourceStep, Next
<1>2. CASE PollerRestarts BY <1>2 DEF PollerRestarts, Next
<1>3. CASE \E p \in Polled : Ticks(p) \/ Polls(p) \/ TaskThrows(p)
  <2>1. PICK p \in Polled : Ticks(p) \/ Polls(p) \/ TaskThrows(p) BY <1>3
  <2>2. UNCHANGED vars \/ Poll
    BY <2>1 DEF Ticks, Polls, Fetches, TaskBegins, TaskEnds, FailedEnds, TaskThrows
  <2>. QED BY <2>2 DEF Next
<1>4. CASE UNCHANGED pollerVars BY <1>4 DEF pollerVars
<1>. QED BY <1>1, <1>2, <1>3, <1>4 DEF PollerNext

\* With polls the push sources behave as they do on their own.
THEOREM PollerKeepsSources == PollerSpec => Spec
<1>1. PollerInit => Init BY DEF PollerInit
<1>. QED BY <1>1, PollerSteps, PTL DEF PollerSpec, Spec

\* So what is proved of the sources holds of the poller.
COROLLARY PolledSourcesAreUp == PollerSpec => []ReportedUpIsUp /\ []ConnectionsDoNotPileUp
BY PollerKeepsSources, ReportsAreTrue, ConnectionsStaySingle, PTL

LEMMA ChainInductive ==
  ASSUME PollsInv, [PollerNext]_pollerVars, TypeOK'
  PROVE  PollsInv'
<1>0. /\ phase \in [Polled -> Phase] /\ queued \in [Polled -> BOOLEAN] /\ tail \in Seq(Polled)
      /\ throws \in 0..MaxThrows /\ ChainShape
  BY DEF PollsInv, PollsTypeOK
<1>1. CASE UNCHANGED polls
  <2>1. UNCHANGED <<phase, queued, tail, throws>> BY <1>1 DEF polls
  <2>2. ChainShape' BY <1>0, <2>1 DEF ChainShape
  <2>. QED BY <1>0, <2>1, <2>2 DEF PollsInv, PollsTypeOK
<1>2. CASE PollerRestarts
  <2>1. /\ phase' = [p \in Polled |-> "idle"] /\ queued' = [p \in Polled |-> FALSE]
        /\ tail' = <<>> /\ throws' = throws
    BY <1>2 DEF PollerRestarts
  <2>. QED BY <1>0, <2>1 DEF PollsInv, PollsTypeOK, ChainShape, Phase
<1>3. CASE \E p \in Polled : Ticks(p) \/ Polls(p) \/ TaskThrows(p)
  <2>1. PICK p \in Polled : Ticks(p) \/ Polls(p) \/ TaskThrows(p) BY <1>3
  <2>2. phase' \in [Polled -> Phase]
    BY <1>0, <2>1 DEF Ticks, Polls, Fetches, TaskBegins, TaskEnds, FailedEnds, TaskThrows, PollEnds, Phase
  <2>3. queued' \in [Polled -> BOOLEAN]
    BY <1>0, <2>1 DEF Ticks, Polls, Fetches, TaskBegins, TaskEnds, FailedEnds, TaskThrows, PollEnds
  <2>4. throws' \in 0..MaxThrows
    <3>1. throws' = throws \/ (throws < MaxThrows /\ throws' = throws + 1)
      BY <2>1 DEF Ticks, Polls, Fetches, TaskBegins, TaskEnds, FailedEnds, TaskThrows
    <3>. QED BY <1>0, <3>1, PollAssumption
  <2>5. ASSUME phase[p] = "task", tail' = Tail(tail), phase'[p] \notin {"chained", "task"},
               \A q \in Polled \ {p} : phase'[q] = phase[q]
        PROVE  tail' \in Seq(Polled) /\ ChainShape'
    <3>1. tail # <<>> /\ tail[1] = p BY <1>0, <2>5 DEF ChainShape
    <3>2. /\ Tail(tail) \in Seq(Polled) /\ Len(Tail(tail)) = Len(tail) - 1 /\ Len(tail) \in Nat
          /\ \A i \in 1..(Len(tail) - 1) : Tail(tail)[i] = tail[i + 1]
      BY <1>0, <3>1
    <3>3. ASSUME NEW q \in Polled, phase'[q] \in {"chained", "task"}
          PROVE  (\E i \in 1..Len(tail') : tail'[i] = q) /\ phase'[q] # "task"
      <4>1. q # p /\ phase[q] = phase'[q] BY <2>5, <3>3
      <4>2. PICK i \in 1..Len(tail) : tail[i] = q BY <1>0, <3>3, <4>1 DEF ChainShape
      <4>3. i # 1 BY <3>1, <4>1, <4>2
      <4>4. i - 1 \in 1..Len(tail') /\ tail'[i - 1] = q BY <2>5, <3>2, <4>2, <4>3
      <4>5. phase'[q] # "task" BY <1>0, <3>1, <4>1 DEF ChainShape
      <4>. QED BY <4>4, <4>5
    <3>. QED BY <2>5, <3>2, <3>3 DEF ChainShape
  <2>6. CASE Ticks(p)
    <3>1. tail' = tail BY <2>6 DEF Ticks
    <3>2. \A q \in Polled : phase'[q] \in {"chained", "task"} => phase'[q] = phase[q]
      BY <1>0, <2>6 DEF Ticks
    <3>3. ChainShape' BY <1>0, <3>1, <3>2 DEF ChainShape
    <3>. QED BY <1>0, <2>2, <2>3, <2>4, <3>1, <3>3 DEF PollsInv, PollsTypeOK
  <2>7. CASE Fetches(p)
    <3>1. tail' = Append(tail, p) /\ phase' = [phase EXCEPT ![p] = "chained"]
      BY <2>7 DEF Fetches
    <3>2. /\ tail' \in Seq(Polled) /\ Len(tail') = Len(tail) + 1 /\ Len(tail) \in Nat
          /\ tail'[Len(tail) + 1] = p /\ \A i \in 1..Len(tail) : tail'[i] = tail[i]
      BY <1>0, <3>1
    <3>3. ASSUME NEW q \in Polled, phase'[q] \in {"chained", "task"}
          PROVE  /\ \E i \in 1..Len(tail') : tail'[i] = q
                 /\ phase'[q] = "task" => tail'[1] = q
      <4>1. CASE q = p BY <1>0, <3>1, <3>2, <4>1
      <4>2. CASE q # p
        <5>1. phase'[q] = phase[q] BY <1>0, <3>1, <4>2
        <5>2. PICK i \in 1..Len(tail) : tail[i] = q BY <1>0, <3>3, <5>1 DEF ChainShape
        <5>3. i \in 1..Len(tail') /\ tail'[i] = q /\ 1 \in 1..Len(tail) BY <3>2, <5>2
        <5>. QED BY <1>0, <3>2, <5>1, <5>3 DEF ChainShape
      <4>. QED BY <4>1, <4>2
    <3>4. ChainShape' BY <3>3 DEF ChainShape
    <3>. QED BY <2>2, <2>3, <2>4, <3>2, <3>4 DEF PollsInv, PollsTypeOK
  <2>8. CASE TaskBegins(p)
    <3>1. /\ phase[p] = "chained" /\ p = Head(tail) /\ phase' = [phase EXCEPT ![p] = "task"]
          /\ tail' = tail /\ \A q \in Polled : phase[q] # "task"
      BY <2>8 DEF TaskBegins
    <3>2. tail # <<>> BY <1>0, <3>1 DEF ChainShape
    <3>3. tail[1] = p BY <1>0, <3>1, <3>2
    <3>4. ChainShape' BY <1>0, <3>1, <3>3 DEF ChainShape
    <3>. QED BY <1>0, <2>2, <2>3, <2>4, <3>1, <3>4 DEF PollsInv, PollsTypeOK
  <2>9. CASE TaskEnds(p) \/ TaskThrows(p)
    <3>1. /\ phase[p] = "task" /\ tail' = Tail(tail) /\ phase'[p] \notin {"chained", "task"}
          /\ \A q \in Polled \ {p} : phase'[q] = phase[q]
      BY <1>0, <2>9 DEF TaskEnds, TaskThrows, PollEnds
    <3>. QED BY <2>2, <2>3, <2>4, <2>5, <3>1 DEF PollsInv, PollsTypeOK
  <2>10. CASE FailedEnds(p)
    <3>1. tail' = tail /\ \A q \in Polled : phase'[q] \in {"chained", "task"} => phase'[q] = phase[q]
      BY <1>0, <2>10 DEF FailedEnds, PollEnds
    <3>2. ChainShape' BY <1>0, <3>1 DEF ChainShape
    <3>. QED BY <1>0, <2>2, <2>3, <2>4, <3>1, <3>2 DEF PollsInv, PollsTypeOK
  <2>. QED BY <2>1, <2>6, <2>7, <2>8, <2>9, <2>10 DEF Polls
<1>. QED BY <1>1, <1>2, <1>3 DEF PollerNext, SourceStep, pollerVars

\* No tick, poll or exception leaves the chain of tasks out of shape.
THEOREM PollsTypes == PollerSpec => []PollsTypeOK
<1>1. PollerInit => PollsInv
  BY InitTypes, PollAssumption
     DEF PollerInit, NoPolls, PollsInv, PollsTypeOK, ChainShape, Phase
<1>2. PollsInv /\ [PollerNext]_pollerVars => PollsInv'
  <2>1. ASSUME PollsInv, [PollerNext]_pollerVars PROVE TypeOK'
    <3>1. TypeOK /\ UNCHANGED vars => TypeOK' BY DEF TypeOK, vars, listeners, tz
    <3>. QED BY <2>1, <3>1, PollerSteps, NextTypes DEF PollsInv, PollsTypeOK
  <2>. QED BY <2>1, ChainInductive
<1>3. PollsInv => PollsTypeOK BY DEF PollsInv
<1>. QED BY <1>1, <1>2, <1>3, PTL DEF PollerSpec
=============================================================================
