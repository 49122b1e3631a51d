--------------------------- MODULE CentralBridge ---------------------------
(***************************************************************************)
(* The loop of the central around its IoTNode: WiFi, the packets its       *)
(* handler gets, the buzzer and its timer, the window of STATE_REQUESTs,   *)
(* the MQTT manager with its modes LOCAL and HA, and what the broker was   *)
(* told.  One pass of loop() is the sequence of stages pc names.           *)
(*                                                                         *)
(* Around it WiFi and the broker come and go, and a session with the       *)
(* broker may break without the client noticing at once: alive is whether  *)
(* the session really stands, conn what mqtt.connected() says.             *)
(*                                                                         *)
(* Every comparison with millis() is of a difference, unsigned or signed,  *)
(* so a timer is kept as the time that has passed since it was set, or     *)
(* that is left until it is due.  Time passes between two passes, and      *)
(* while connect() blocks the loop.                                        *)
(***************************************************************************)
EXTENDS Integers

CONSTANTS
    InitialDelay,       \* MQTT_INITIAL_DELAY_MS, 1 s
    ReconnectInterval,  \* MQTT_RECONNECT_INTERVAL_MS, 15 s
    ConnectTime,        \* the longest that mqtt.connect() blocks
    ProbeInterval,      \* MQTT_SONDEO_INTERVAL_MS, 5 min
    ProbeDeferral,      \* 30 s
    ProbeAfterFall,     \* MQTT_SONDEO_DESPUES_DE_CAIDA_MS, 60 s
    MaxFailures,        \* 3
    MaxRequests,        \* STATE_REQUEST_MAX_ATTEMPTS, 3
    RequestDelays,      \* stateRequestDelay, by attempts made
    MotionDuration,     \* DURACION_BOCINA_MOTION_MS
    TimbreDuration,     \* DURACION_BOCINA_TIMBRE_MS
    DoorDuration,       \* DURACION_BOCINA_PUERTA_MS
    SmokeDuration,      \* 5 s
    FloodDuration,      \* 3 s
    Codes               \* the event codes that may arrive

Durations ==
    {MotionDuration, TimbreDuration, DoorDuration, SmokeDuration, FloodDuration}

ASSUME BridgeAssumption ==
    /\ ReconnectInterval \in Nat /\ ConnectTime \in Nat
    /\ ProbeInterval \in Nat \ {0}
    /\ InitialDelay \in 0 .. ProbeInterval
    /\ ProbeDeferral \in 1 .. ProbeInterval
    /\ ProbeAfterFall \in 1 .. ProbeInterval
    /\ ReconnectInterval < ProbeDeferral /\ ReconnectInterval < ProbeAfterFall
    /\ MaxFailures \in Nat \ {0}
    /\ MaxRequests \in Nat \ {0}
    /\ RequestDelays \in [0 .. MaxRequests -> Nat]
    /\ RequestDelays[0] = 0
    /\ Durations \subseteq Nat \ {0}

VARIABLES
    pc,             \* stage of loop()
    wifi,           \* WiFi.status() == WL_CONNECTED
    broker,         \* the broker answers
    alive,          \* the session with the broker stands
    conn,           \* mqtt.connected()
    told,           \* what the broker was last told: buzzer, alarm mode
    on,             \* buzzer: _state
    left,           \* buzzer: _offTime - millis()
    lastBuzzer,     \* loop(): lastBuzzer
    armed,          \* modoAlarma == "armado"
    mode,           \* modoMQTT
    available,      \* mqttDisponible
    firstPending,   \* primerIntentoPendiente
    failures,       \* fallosConsecutivos
    syncAsked,      \* solicitarStateSync
    sinceInit,      \* time since inicioMQTT
    sinceProbe,     \* time since ultimoSondeo
    sinceTry,       \* time since ultimoIntentoMQTT
    wifiSeen,       \* stateRequestWifiWasConnected
    pending,        \* stateRequestPending
    requests,       \* stateRequestAttempts
    wait,           \* nextStateRequestAt - millis()
    owed,           \* history: a recovery with no STATE_REQUEST sent since
    attempt,        \* history: the attempt to connect of this pass
    sinceFailure    \* history: time since an attempt to connect last failed

world == <<wifi, broker, alive>>
buzzer == <<on, left>>
manager == <<mode, available, firstPending, failures>>
timers == <<sinceInit, sinceProbe, sinceTry>>
sync == <<wifiSeen, pending, requests, wait>>
history == <<owed, attempt, sinceFailure>>
vars == <<pc, world, conn, told, buzzer, lastBuzzer, armed, manager, syncAsked,
          timers, sync, history>>

-----------------------------------------------------------------------------

(* Timers stop where the code sees no further difference.                  *)
Capped(t, cap) == IF t > cap THEN cap ELSE t

Elapsed(t, d, cap) == Capped(t + d, cap)

Remaining(t, d) == IF t > d THEN t - d ELSE 0

(* After setup(): the first attempt to connect is left to loop().          *)
Init ==
    /\ pc = "wifi"
    /\ wifi \in BOOLEAN /\ broker \in BOOLEAN
    /\ alive = FALSE
    /\ conn = FALSE
    /\ told \in [on : BOOLEAN, armed : BOOLEAN]
    /\ on = FALSE /\ left = 0
    /\ lastBuzzer = FALSE
    /\ armed = TRUE
    /\ mode = "LOCAL"
    /\ available = FALSE
    /\ firstPending = TRUE
    /\ failures = 0
    /\ syncAsked = FALSE
    /\ sinceInit = 0 /\ sinceProbe = 0
    /\ sinceTry = ReconnectInterval + 1
    /\ wifiSeen = FALSE
    /\ pending = TRUE
    /\ requests = 0
    /\ wait = 0
    /\ owed = FALSE /\ attempt = "none"
    /\ sinceFailure = ReconnectInterval + 1

-----------------------------------------------------------------------------
(* The world.                                                              *)

WifiChanges ==
    /\ wifi' = ~wifi
    /\ UNCHANGED <<pc, broker, alive, conn, told, buzzer, lastBuzzer, armed,
                   manager, syncAsked, timers, sync, history>>

BrokerChanges ==
    /\ broker' = ~broker
    /\ alive' = FALSE
    /\ UNCHANGED <<pc, wifi, conn, told, buzzer, lastBuzzer, armed, manager,
                   syncAsked, timers, sync, history>>

SessionBreaks ==
    /\ alive
    /\ alive' = FALSE
    /\ UNCHANGED <<pc, wifi, broker, conn, told, buzzer, lastBuzzer, armed,
                   manager, syncAsked, timers, sync, history>>

(* The client notices: TCP reports it, or the keep-alive is not answered.  *)
BreakNoticed ==
    /\ conn /\ ~alive
    /\ conn' = FALSE
    /\ UNCHANGED <<pc, world, told, buzzer, lastBuzzer, armed, manager,
                   syncAsked, timers, sync, history>>

Tick ==
    /\ pc = "wifi"
    /\ left' = Remaining(left, 1)
    /\ sinceInit' = Elapsed(sinceInit, 1, InitialDelay)
    /\ sinceProbe' = Elapsed(sinceProbe, 1, ProbeInterval)
    /\ sinceTry' = Elapsed(sinceTry, 1, ReconnectInterval + 1)
    /\ wait' = Remaining(wait, 1)
    /\ sinceFailure' = Elapsed(sinceFailure, 1, ReconnectInterval + 1)
    /\ UNCHANGED <<pc, world, conn, told, on, lastBuzzer, armed, manager,
                   syncAsked, wifiSeen, pending, requests, owed, attempt>>

-----------------------------------------------------------------------------
(* The stages of loop().                                                   *)

WithoutWifi ==
    /\ pc = "wifi"
    /\ ~wifi
    /\ available' = FALSE
    /\ wifiSeen' = FALSE
    /\ pc' = "node"
    /\ UNCHANGED <<world, conn, told, buzzer, lastBuzzer, armed, mode,
                   firstPending, failures, syncAsked, timers, pending,
                   requests, wait, history>>

(* Mutant of WifiRecovered: the window of requests is not opened again.    *)
WifiRecoveredQuietly ==
    /\ pc = "wifi"
    /\ wifi /\ ~wifiSeen
    /\ wifiSeen' = TRUE
    /\ owed' = TRUE
    /\ pc' = "node"
    /\ UNCHANGED <<world, conn, told, buzzer, lastBuzzer, armed, manager,
                   syncAsked, timers, pending, requests, wait, attempt,
                   sinceFailure>>

WifiRecovered ==
    /\ pc = "wifi"
    /\ wifi /\ ~wifiSeen
    /\ wifiSeen' = TRUE
    /\ pending' = TRUE
    /\ requests' = 0
    /\ wait' = 0
    /\ owed' = TRUE
    /\ pc' = "node"
    /\ UNCHANGED <<world, conn, told, buzzer, lastBuzzer, armed, manager,
                   syncAsked, timers, attempt, sinceFailure>>

WifiStays ==
    /\ pc = "wifi"
    /\ wifi /\ wifiSeen
    /\ pc' = "node"
    /\ UNCHANGED <<world, conn, told, buzzer, lastBuzzer, armed, manager,
                   syncAsked, timers, sync, history>>

duracionPorEvento(code) ==
    CASE code = "MOTION"                    -> MotionDuration
      [] code \in {"TIMBRE", "BUTTON_PRESS"} -> TimbreDuration
      [] code = "DOOR_OPEN"                 -> DoorDuration
      [] code = "SMOKE"                     -> SmokeDuration
      [] code = "FLOOD"                     -> FloodDuration
      [] OTHER                              -> 0

(* An allowlist: a code it does not name never sounds.                     *)
debeActivarBocina(code) ==
    \/ code \in {"TIMBRE", "BUTTON_PRESS", "SMOKE", "FLOOD"}
    \/ code \in {"MOTION", "DOOR_OPEN"} /\ armed

TimedOn(duration) == on' = TRUE /\ left' = duration

Off == on' = FALSE /\ left' = 0

(* handleIoTPacket, for an EVENT.  What it publishes of the event, and     *)
(* what the other types of packet make it publish, is not kept.            *)
HandleEvent(code, value) ==
    /\ pc = "node"
    /\ value > 0 /\ debeActivarBocina(code)
    /\ TimedOn(duracionPorEvento(code))
    /\ UNCHANGED <<pc, world, conn, told, lastBuzzer, armed, manager,
                   syncAsked, timers, sync, history>>

(* Mutant of BuzzerLoop: the timer is served only while WiFi is there.     *)
BuzzerLoopOnline ==
    /\ pc = "node"
    /\ IF wifi /\ on /\ left = 0 THEN Off ELSE UNCHANGED buzzer
    /\ pc' = "sync"
    /\ UNCHANGED <<world, conn, told, lastBuzzer, armed, manager, syncAsked,
                   timers, sync, history>>

(* After the packets, so that an event renews an alarm that is due.        *)
BuzzerLoop ==
    /\ pc = "node"
    /\ IF on /\ left = 0 THEN Off ELSE UNCHANGED buzzer
    /\ pc' = "sync"
    /\ UNCHANGED <<world, conn, told, lastBuzzer, armed, manager, syncAsked,
                   timers, sync, history>>

NoStateRequest ==
    /\ pc = "sync"
    /\ ~pending \/ ~wifi \/ wait > 0
    /\ pc' = "mqtt"
    /\ UNCHANGED <<world, conn, told, buzzer, lastBuzzer, armed, manager,
                   syncAsked, timers, sync, history>>

EnviarStateRequest ==
    /\ pc = "sync"
    /\ pending /\ wifi /\ wait = 0
    /\ owed' = FALSE
    /\ requests' = requests + 1
    /\ IF requests' >= MaxRequests
       THEN /\ pending' = FALSE
            /\ UNCHANGED wait
       ELSE /\ wait' = RequestDelays[requests']
            /\ UNCHANGED pending
    /\ pc' = "mqtt"
    /\ UNCHANGED <<world, conn, told, buzzer, lastBuzzer, armed, manager,
                   syncAsked, timers, wifiSeen, attempt, sinceFailure>>

-----------------------------------------------------------------------------
(* manejarMQTT().                                                          *)

Status == [on |-> on, armed |-> armed]

(* What a new session is told; mutant: not the alarm mode.                 *)
AnnouncedWithoutMode == [told EXCEPT !.on = on]

Announced == Status

(***************************************************************************)
(* connect() blocks the loop for some time d before it tells its outcome.  *)
(* The stamps its callers leave were read before it.  The buzzer, whose    *)
(* timer nobody serves meanwhile, is silent when it is called.             *)
(***************************************************************************)
Blocks(d) ==
    /\ sinceInit' = Elapsed(sinceInit, d, InitialDelay)
    /\ wait' = Remaining(wait, d)
    /\ UNCHANGED <<wifiSeen, pending, requests>>

StampedBefore(d, cap) == Elapsed(0, d, cap)

(* Mutant of Connects: the mode is not changed.                            *)
ConnectsInPlace(d) ==
    /\ broker
    /\ attempt' = "ok"
    /\ conn' = TRUE /\ alive' = TRUE
    /\ told' = Announced
    /\ available' = TRUE
    /\ syncAsked' = TRUE
    /\ failures' = 0
    /\ owed' = TRUE
    /\ sinceFailure' = Elapsed(sinceFailure, d, ReconnectInterval + 1)
    /\ UNCHANGED mode

(* intentarConexionMQTT() when the broker accepts: the modes are published *)
(* and a STATE_REQUEST is asked for.  Every caller then is in mode HA.     *)
Connects(d) ==
    /\ broker
    /\ attempt' = "ok"
    /\ conn' = TRUE /\ alive' = TRUE
    /\ told' = Announced
    /\ mode' = "HA"
    /\ available' = TRUE
    /\ syncAsked' = TRUE
    /\ failures' = 0
    /\ owed' = TRUE
    /\ sinceFailure' = Elapsed(sinceFailure, d, ReconnectInterval + 1)

(* ... and when it does not, which is known when connect() returns: the    *)
(* time since the failure counts from the end of d.  Failures count on in  *)
(* LOCAL, where nothing reads them before the success that clears them.    *)
Refused ==
    /\ ~broker
    /\ attempt' = "failed"
    /\ sinceFailure' = 0
    /\ available' = FALSE
    /\ UNCHANGED <<conn, alive, told, syncAsked, owed>>

NextFailures == Capped(failures + 1, MaxFailures)

FirstDue == firstPending /\ sinceInit >= InitialDelay

MqttWithoutWifi ==
    /\ pc = "mqtt"
    /\ ~wifi
    /\ available' = FALSE
    /\ pc' = "end"
    /\ UNCHANGED <<world, conn, told, buzzer, lastBuzzer, armed, mode,
                   firstPending, failures, syncAsked, timers, sync, history>>

FirstAttemptWaits ==
    /\ pc = "mqtt"
    /\ wifi /\ FirstDue /\ on
    /\ pc' = "end"
    /\ UNCHANGED <<world, conn, told, buzzer, lastBuzzer, armed, manager,
                   syncAsked, timers, sync, history>>

FirstAttempt(d) ==
    /\ pc = "mqtt"
    /\ wifi /\ FirstDue /\ ~on
    /\ firstPending' = FALSE
    /\ \/ /\ Connects(d)
          /\ sinceProbe' = Elapsed(sinceProbe, d, ProbeInterval)
       \/ /\ Refused
          /\ mode' = "LOCAL"
          /\ failures' = NextFailures
          /\ sinceProbe' = StampedBefore(d, ProbeInterval)
    /\ sinceTry' = Elapsed(sinceTry, d, ReconnectInterval + 1)
    /\ Blocks(d)
    /\ pc' = "end"
    /\ UNCHANGED <<wifi, broker, buzzer, lastBuzzer, armed>>

ProbeDue == sinceProbe >= ProbeInterval

LocalWaits ==
    /\ pc = "mqtt"
    /\ wifi /\ ~FirstDue /\ mode = "LOCAL"
    /\ ~ProbeDue
    /\ pc' = "end"
    /\ UNCHANGED <<world, conn, told, buzzer, lastBuzzer, armed, manager,
                   syncAsked, timers, sync, history>>

LocalPostponesProbe ==
    /\ pc = "mqtt"
    /\ wifi /\ ~FirstDue /\ mode = "LOCAL"
    /\ ProbeDue /\ on
    /\ sinceProbe' = ProbeInterval - ProbeDeferral
    /\ pc' = "end"
    /\ UNCHANGED <<world, conn, told, buzzer, lastBuzzer, armed, manager,
                   syncAsked, sinceInit, sinceTry, sync, history>>

LocalProbes(d) ==
    /\ pc = "mqtt"
    /\ wifi /\ ~FirstDue /\ mode = "LOCAL"
    /\ ProbeDue /\ ~on
    /\ sinceProbe' = StampedBefore(d, ProbeInterval)
    /\ \/ Connects(d)
       \/ /\ Refused
          /\ failures' = NextFailures
          /\ UNCHANGED mode
    /\ sinceTry' = Elapsed(sinceTry, d, ReconnectInterval + 1)
    /\ Blocks(d)
    /\ pc' = "end"
    /\ UNCHANGED <<wifi, broker, buzzer, lastBuzzer, armed, firstPending>>

(* A fall seen here, while available still stands, is stamped.             *)
SinceTry == IF available THEN 0 ELSE sinceTry

HADown == pc = "mqtt" /\ wifi /\ ~FirstDue /\ mode = "HA" /\ ~conn

HAWaits ==
    /\ HADown
    /\ SinceTry <= ReconnectInterval
    /\ sinceTry' = SinceTry
    /\ available' = FALSE
    /\ pc' = "end"
    /\ UNCHANGED <<world, conn, told, buzzer, lastBuzzer, armed, mode,
                   firstPending, failures, syncAsked, sinceInit, sinceProbe,
                   sync, history>>

HASoundsInstead ==
    /\ HADown
    /\ SinceTry > ReconnectInterval /\ on
    /\ sinceTry' = 0
    /\ available' = FALSE
    /\ pc' = "end"
    /\ UNCHANGED <<world, conn, told, buzzer, lastBuzzer, armed, mode,
                   firstPending, failures, syncAsked, sinceInit, sinceProbe,
                   sync, history>>

HADue == HADown /\ SinceTry > ReconnectInterval /\ ~on

HAReconnects(d) ==
    /\ HADue
    /\ Connects(d)
    /\ sinceTry' = StampedBefore(d, ReconnectInterval + 1)
    /\ sinceProbe' = Elapsed(sinceProbe, d, ProbeInterval)
    /\ Blocks(d)
    /\ pc' = "end"
    /\ UNCHANGED <<wifi, broker, buzzer, lastBuzzer, armed, firstPending>>

(* The third failure in a row gives the broker up, for a probe that is     *)
(* counted from the end of the attempt.                                    *)
FallsBack(d) ==
    IF NextFailures >= MaxFailures
    THEN /\ mode' = "LOCAL"
         /\ sinceProbe' = ProbeInterval - ProbeAfterFall
         /\ failures' = 0
    ELSE /\ failures' = NextFailures
         /\ sinceProbe' = Elapsed(sinceProbe, d, ProbeInterval)
         /\ UNCHANGED mode

(* Mutant of HAFails: a failed attempt is not stamped.                     *)
HAFailsUnstamped(d) ==
    /\ HADue
    /\ Refused
    /\ FallsBack(d)
    /\ sinceTry' = Elapsed(sinceTry, d, ReconnectInterval + 1)
    /\ Blocks(d)
    /\ pc' = "end"
    /\ UNCHANGED <<wifi, broker, buzzer, lastBuzzer, armed, firstPending>>

HAFails(d) ==
    /\ HADue
    /\ Refused
    /\ FallsBack(d)
    /\ sinceTry' = StampedBefore(d, ReconnectInterval + 1)
    /\ Blocks(d)
    /\ pc' = "end"
    /\ UNCHANGED <<wifi, broker, buzzer, lastBuzzer, armed, firstPending>>

HAUp == pc = "mqtt" /\ wifi /\ ~FirstDue /\ mode = "HA" /\ conn

(* mqtt.loop() finds the session broken.                                   *)
MqttLoopFails ==
    /\ HAUp
    /\ ~alive
    /\ conn' = FALSE
    /\ available' = FALSE
    /\ pc' = "end"
    /\ UNCHANGED <<world, told, buzzer, lastBuzzer, armed, mode, firstPending,
                   failures, syncAsked, timers, sync, history>>

(* mqtt.loop() with nothing to deliver; a broken session may not show yet. *)
MqttLoopIdle ==
    /\ HAUp
    /\ available' = TRUE
    /\ pc' = "end"
    /\ UNCHANGED <<world, conn, told, buzzer, lastBuzzer, armed, mode,
                   firstPending, failures, syncAsked, timers, sync, history>>

(* It delivers at most one command.                                        *)
ComandoBocina(command) ==
    /\ HAUp
    /\ alive
    /\ IF command = "ON" THEN TimedOn(MotionDuration) /\ UNCHANGED told
       ELSE Off /\ told' = [told EXCEPT !.on = FALSE]
    /\ available' = TRUE
    /\ pc' = "end"
    /\ UNCHANGED <<world, conn, lastBuzzer, armed, mode, firstPending,
                   failures, syncAsked, timers, sync, history>>

ComandoModo(arm) ==
    /\ HAUp
    /\ alive
    /\ armed' = arm
    /\ told' = [told EXCEPT !.armed = arm]
    /\ available' = TRUE
    /\ pc' = "end"
    /\ UNCHANGED <<world, conn, buzzer, lastBuzzer, mode, firstPending,
                   failures, syncAsked, timers, sync, history>>

-----------------------------------------------------------------------------
(* The end of the pass: a new session opens the window of requests, and    *)
(* the buzzer is published if it changed.                                  *)

(* Mutant of OpensWindow: the requests made are not forgotten.             *)
OpensWindowCounted ==
    IF syncAsked
    THEN /\ pending' = TRUE
         /\ wait' = 0
         /\ UNCHANGED requests
    ELSE UNCHANGED <<pending, requests, wait>>

OpensWindow ==
    IF syncAsked
    THEN /\ pending' = TRUE
         /\ requests' = 0
         /\ wait' = 0
    ELSE UNCHANGED <<pending, requests, wait>>

EndOfPass ==
    /\ pc = "end"
    /\ syncAsked' = FALSE
    /\ OpensWindow
    /\ lastBuzzer' = on
    /\ told' = IF on # lastBuzzer /\ conn /\ alive
               THEN [told EXCEPT !.on = on]
               ELSE told
    /\ attempt' = "none"
    /\ pc' = "wifi"
    /\ UNCHANGED <<world, conn, buzzer, armed, manager, timers, wifiSeen, owed,
                   sinceFailure>>

-----------------------------------------------------------------------------

Loop ==
    \/ WithoutWifi \/ WifiRecovered \/ WifiStays
    \/ BuzzerLoop
    \/ NoStateRequest \/ EnviarStateRequest
    \/ MqttWithoutWifi \/ FirstAttemptWaits
    \/ LocalWaits \/ LocalPostponesProbe
    \/ HAWaits \/ HASoundsInstead
    \/ \E d \in 0 .. ConnectTime :
          FirstAttempt(d) \/ LocalProbes(d) \/ HAReconnects(d) \/ HAFails(d)
    \/ MqttLoopFails \/ MqttLoopIdle
    \/ \E command \in {"ON", "OFF"} : ComandoBocina(command)
    \/ \E arm \in BOOLEAN : ComandoModo(arm)
    \/ EndOfPass

Environment ==
    \/ WifiChanges \/ BrokerChanges \/ SessionBreaks \/ BreakNoticed
    \/ Tick
    \/ \E code \in Codes, value \in 0 .. 1 : HandleEvent(code, value)

Next == Loop \/ Environment

(* The loop runs on, time passes, and TCP or the keep-alive shows a broken *)
(* session in the end.                                                     *)
Fairness ==
    /\ WF_vars(Loop)
    /\ SF_vars(Tick)
    /\ WF_vars(BreakNoticed)

Spec == Init /\ [][Next]_vars /\ Fairness

-----------------------------------------------------------------------------

(* The type invariant: the window of requests is open exactly while fewer  *)
(* than MaxRequests were made, and a silent buzzer has no time left.       *)
TypeOK ==
    /\ pc \in {"wifi", "node", "sync", "mqtt", "end"}
    /\ {wifi, broker, alive, conn, on, lastBuzzer, armed, available,
        firstPending, syncAsked, wifiSeen, pending, owed} \subseteq BOOLEAN
    /\ alive => broker
    /\ told \in [on : BOOLEAN, armed : BOOLEAN]
    /\ left \in UNION {0 .. d : d \in Durations} /\ (~on => left = 0)
    /\ mode \in {"LOCAL", "HA"}
    /\ failures \in 0 .. MaxFailures
    /\ sinceInit \in 0 .. InitialDelay
    /\ sinceProbe \in 0 .. ProbeInterval
    /\ {sinceTry, sinceFailure} \subseteq 0 .. (ReconnectInterval + 1)
    /\ requests \in 0 .. MaxRequests
    /\ pending <=> (requests < MaxRequests)
    /\ wait \in UNION {0 .. RequestDelays[n] : n \in 0 .. MaxRequests}
    /\ attempt \in {"none", "ok", "failed"}

(* At the end of every pass a session that stands has been told the buzzer *)
(* and the alarm mode as they are: whatever changed them -an event, the    *)
(* timer, a command, or anything while there was no session- was published *)
(* (main.cpp:351-355, mqtt_manager.cpp:97-101).                            *)
ToldIsTrue == pc = "wifi" /\ conn /\ alive => told = Status

Attempts == attempt' # attempt /\ attempt' # "none"

(* After a failed attempt the loop has MQTT_RECONNECT_INTERVAL_MS for the  *)
(* node before the next one, in this mode or the other, less the time that *)
(* connect() blocked: the stamps are read before it, the failure is known  *)
(* after it (mqtt_manager.cpp:112, 143-154, 162-167, 187-199).             *)
FailedAttemptsAreSpaced ==
    [][Attempts => sinceFailure + ConnectTime > ReconnectInterval]_vars

(* An alarm that is not renewed ends, with WiFi or without, whatever the   *)
(* manager is doing.                                                       *)
AlarmEnds == <>[][left' <= left]_left => <>[](~on)

(* Where WiFi stays and alarms end, the mode comes to follow the broker:   *)
(* with one that stays the central ends in mode HA, available again after  *)
(* every break of the session; without one it ends in mode LOCAL.          *)
ModeFollowsBroker ==
    /\ <>[](wifi /\ broker /\ ~on) => <>[](mode = "HA") /\ []<>available
    /\ <>[](wifi /\ ~broker /\ ~on) => <>[](mode = "LOCAL" /\ ~available)

(* A STATE_REQUEST follows every recovery, of WiFi or of the session with  *)
(* the broker, unless WiFi goes again (main.cpp:322-328, 342-348).         *)
SyncFollowsRecovery == owed ~> (~owed \/ ~wifi)

=============================================================================
