---------------------------- MODULE EmitterLoop ----------------------------
(***************************************************************************)
(* The loop of the emitter around its IoTNode: WiFi, over-the-air updates, *)
(* and the two sensors with their edges and debounce.  One pass of loop()  *)
(* is the sequence of stages pc names; the retry of the mount before them  *)
(* is RemoteConfig's and BootStorage's.                                    *)
(*                                                                         *)
(* Around it the levels of the sensors change at any moment, the access    *)
(* point comes and goes, and the node may restart.  The queue of the node  *)
(* is kept as the number of packets in it.                                 *)
(***************************************************************************)
EXTENDS Integers

CONSTANTS
    PirDebounces,       \* antireboteMs, as CONFIG may set it
    TimbreDebounce,     \* ANTIREBOTE_TIMBRE_MS
    QueueSize,          \* IOT_QUEUE_SIZE
    JoinTime,           \* what the access point takes to let the node in
    WifiRetry,          \* 5 s
    MaxRestarts         \* bound: restarts

ASSUME EmitterAssumption ==
    /\ PirDebounces \subseteq Nat
    /\ \E longest \in PirDebounces : \A d \in PirDebounces : d <= longest
    /\ TimbreDebounce \in Nat
    /\ QueueSize \in Nat \ {0}
    /\ WifiRetry \in Nat
    /\ JoinTime \in 1 .. WifiRetry
    /\ MaxRestarts \in Nat

Sensors == {"pir", "timbre"}

(* What no debounce exceeds.                                               *)
Longest == CHOOSE d \in PirDebounces \cup {TimbreDebounce} :
               \A e \in PirDebounces \cup {TimbreDebounce} : e <= d

VARIABLES
    pc,         \* stage of loop()
    level,      \* the sensors: TRUE is active
    previous,   \* pirAnterior, timbreAnterior
    since,      \* time since ultimaDeteccionPIR, ultimaDeteccionTimbre
    debounce,   \* config().antireboteMs
    queued,     \* packets in the queue of the node
    ap,         \* the access point is there
    joined,     \* progress of the association; WL_CONNECTED at JoinTime
    connecting, \* wifiConectando
    sinceBegin, \* time since ultimoIntentoWiFi, while connecting
    otaReady,   \* otaInicializada
    ota,        \* actualizacionEnProgreso
    spent,      \* history: detections in this activation, or 1 from boot on
    restarts    \* history: number of restarts

sensors == <<previous, since>>
wlan == <<joined, connecting, sinceBegin>>
vars == <<pc, level, sensors, debounce, queued, ap, wlan, otaReady, ota, spent, restarts>>

-----------------------------------------------------------------------------

Wifi == joined = JoinTime

Debounce(s) == IF s = "pir" THEN debounce ELSE TimbreDebounce

Elapsed(t, cap) == IF t < cap THEN t + 1 ELSE t

(* Mutant of PreviousAtBoot: the levels are not read.                      *)
PreviousAtBootIdle == [s \in Sensors |-> FALSE]

(* setup(): the levels are read first, HELLO is queued last.  millis()     *)
(* starts from 0, and so do the times of the last detections.              *)
PreviousAtBoot == level

SpentAtBoot == [s \in Sensors |-> IF level[s] THEN 1 ELSE 0]

Init ==
    /\ pc = "wifi"
    /\ level \in [Sensors -> BOOLEAN]
    /\ previous = PreviousAtBoot
    /\ since = [s \in Sensors |-> 0]
    /\ debounce \in PirDebounces
    /\ queued = 1
    /\ ap \in BOOLEAN
    /\ joined = 0 /\ connecting = TRUE /\ sinceBegin = 0
    /\ otaReady = FALSE /\ ota = FALSE
    /\ spent = SpentAtBoot
    /\ restarts = 0

-----------------------------------------------------------------------------
(* The world.                                                              *)

LevelChanges(s) ==
    /\ level' = [level EXCEPT ![s] = ~@]
    /\ spent' = IF level[s] THEN [spent EXCEPT ![s] = 0] ELSE spent
    /\ UNCHANGED <<pc, sensors, debounce, queued, ap, wlan, otaReady, ota,
                   restarts>>

ApChanges ==
    /\ ap' = ~ap
    /\ joined' = 0
    /\ UNCHANGED <<pc, level, sensors, debounce, queued, connecting,
                   sinceBegin, otaReady, ota, spent, restarts>>

(* A pass is short for these intervals: time passes between two of them.   *)
Tick ==
    /\ pc = "wifi"
    /\ since' = [s \in Sensors |-> Elapsed(since[s], Longest + 1)]
    /\ joined' = IF ap THEN Elapsed(joined, JoinTime) ELSE joined
    /\ sinceBegin' = IF connecting THEN Elapsed(sinceBegin, WifiRetry + 1) ELSE 0
    /\ UNCHANGED <<pc, level, previous, debounce, queued, ap, connecting,
                   otaReady, ota, spent, restarts>>

(* A new firmware, a command, the watchdog, the power.                     *)
Restart ==
    /\ restarts < MaxRestarts
    /\ restarts' = restarts + 1
    /\ pc' = "wifi"
    /\ previous' = PreviousAtBoot
    /\ since' = [s \in Sensors |-> 0]
    /\ queued' = 1
    /\ joined' = 0 /\ connecting' = TRUE /\ sinceBegin' = 0
    /\ otaReady' = FALSE /\ ota' = FALSE
    /\ spent' = SpentAtBoot
    /\ debounce' \in PirDebounces
    /\ UNCHANGED <<level, ap>>

-----------------------------------------------------------------------------
(* The stages of loop().                                                   *)

(* Updates are set up at the first connection and stay so.                 *)
WifiIsUp ==
    /\ pc = "wifi"
    /\ Wifi
    /\ connecting' = FALSE /\ sinceBegin' = 0
    /\ otaReady' = TRUE
    /\ pc' = "ota"
    /\ UNCHANGED <<level, sensors, debounce, queued, ap, joined, ota, spent,
                   restarts>>

(* Mutant of BeginDue: it begins again in every pass.                      *)
BeginDueAlways == TRUE

BeginDue == ~connecting \/ sinceBegin > WifiRetry

BeginWifi ==
    /\ pc = "wifi"
    /\ ~Wifi /\ BeginDue
    /\ joined' = 0
    /\ connecting' = TRUE
    /\ sinceBegin' = 0
    /\ pc' = "ota"
    /\ UNCHANGED <<level, sensors, debounce, queued, ap, otaReady, ota, spent,
                   restarts>>

AwaitWifi ==
    /\ pc = "wifi"
    /\ ~Wifi /\ ~BeginDue
    /\ pc' = "ota"
    /\ UNCHANGED <<level, sensors, debounce, queued, ap, wlan, otaReady, ota,
                   spent, restarts>>

(* handleOTA(): the library may begin an update, go on with it, or end it, *)
(* well or badly; a pass that finds one in progress ends here.             *)
AfterOta == IF ota' THEN "wifi" ELSE "node"

OtaStarts ==
    /\ pc = "ota"
    /\ otaReady /\ Wifi /\ ~ota
    /\ ota' = TRUE
    /\ pc' = AfterOta
    /\ UNCHANGED <<level, sensors, debounce, queued, ap, wlan, otaReady, spent,
                   restarts>>

OtaIdles ==
    /\ pc = "ota"
    /\ ota' = ota
    /\ pc' = AfterOta
    /\ UNCHANGED <<level, sensors, debounce, queued, ap, wlan, otaReady, spent,
                   restarts>>

(* Mutant of OtaStops: the flag is lowered only when the update succeeded. *)
OtaStopsWell ==
    /\ pc = "ota"
    /\ ota
    /\ ota' = ~Wifi
    /\ pc' = AfterOta
    /\ UNCHANGED <<level, sensors, debounce, queued, ap, wlan, otaReady, spent,
                   restarts>>

OtaStops ==
    /\ pc = "ota"
    /\ ota
    /\ ota' = FALSE
    /\ pc' = AfterOta
    /\ UNCHANGED <<level, sensors, debounce, queued, ap, wlan, otaReady, spent,
                   restarts>>

(* node.loop(): the queue may move, and a CONFIG may arrive.  A            *)
(* STATE_REQUEST is answered with the levels last seen.                    *)
StateReport == previous

NodeLoop ==
    /\ pc = "node"
    /\ queued' \in IF Wifi /\ queued > 0 THEN {queued - 1, queued} ELSE {queued}
    /\ debounce' \in IF Wifi THEN PirDebounces ELSE {debounce}
    /\ pc' = "pir"
    /\ UNCHANGED <<level, sensors, ap, wlan, otaReady, ota, spent, restarts>>

After(s) == IF s = "pir" THEN "timbre" ELSE "wifi"

(* Mutant of NoEdge: only activations are taken note of.                   *)
NoEdgeUnnoted(s) ==
    /\ pc = s
    /\ ~(level[s] /\ ~previous[s])
    /\ pc' = After(s)
    /\ UNCHANGED <<level, sensors, debounce, queued, ap, wlan, otaReady, ota,
                   spent, restarts>>

NoEdge(s) ==
    /\ pc = s
    /\ ~(level[s] /\ ~previous[s])
    /\ previous' = [previous EXCEPT ![s] = level[s]]
    /\ pc' = After(s)
    /\ UNCHANGED <<level, since, debounce, queued, ap, wlan, otaReady, ota,
                   spent, restarts>>

(* An edge inside the debounce is taken note of and forgotten.             *)
Bounce(s) ==
    /\ pc = s
    /\ level[s] /\ ~previous[s]
    /\ since[s] <= Debounce(s)
    /\ previous' = [previous EXCEPT ![s] = TRUE]
    /\ pc' = After(s)
    /\ UNCHANGED <<level, since, debounce, queued, ap, wlan, otaReady, ota,
                   spent, restarts>>

(* sendEvent() queues nothing when the queue is full of events.            *)
Enqueued == IF queued < QueueSize THEN queued + 1 ELSE queued

Spend(s) == spent' = [spent EXCEPT ![s] = IF @ < 2 THEN @ + 1 ELSE @]

(* An event is sent, or lost and logged if the queue is full: a detection, *)
(* stamped, in both cases.                                                 *)
Detect(s) ==
    /\ pc = s
    /\ level[s] /\ ~previous[s]
    /\ since[s] > Debounce(s)
    /\ since' = [since EXCEPT ![s] = 0]
    /\ queued' = Enqueued
    /\ previous' = [previous EXCEPT ![s] = TRUE]
    /\ Spend(s)
    /\ pc' = After(s)
    /\ UNCHANGED <<level, debounce, ap, wlan, otaReady, ota, restarts>>

-----------------------------------------------------------------------------

Loop ==
    \/ WifiIsUp \/ BeginWifi \/ AwaitWifi
    \/ OtaStarts \/ OtaIdles \/ OtaStops
    \/ NodeLoop
    \/ \E s \in Sensors : NoEdge(s) \/ Bounce(s) \/ Detect(s)

Environment ==
    \/ \E s \in Sensors : LevelChanges(s)
    \/ ApChanges \/ Tick \/ Restart

Next == Loop \/ Environment

(* The loop runs on, time passes, and a transfer ends or times out.        *)
Fairness ==
    /\ WF_vars(Loop)
    /\ SF_vars(Tick)
    /\ SF_vars(OtaStops)

Spec == Init /\ [][Next]_vars /\ Fairness

-----------------------------------------------------------------------------

(* The type invariant: updates are in progress only once set up.           *)
TypeOK ==
    /\ pc \in {"wifi", "ota", "node", "pir", "timbre"}
    /\ level \in [Sensors -> BOOLEAN] /\ previous \in [Sensors -> BOOLEAN]
    /\ since \in [Sensors -> 0 .. (Longest + 1)]
    /\ debounce \in PirDebounces
    /\ queued \in 0 .. QueueSize
    /\ {ap, connecting, otaReady, ota} \subseteq BOOLEAN
    /\ joined \in 0 .. JoinTime /\ (joined > 0 => ap)
    /\ sinceBegin \in 0 .. (WifiRetry + 1)
    /\ ota => otaReady
    /\ spent \in [Sensors -> 0 .. 2]
    /\ restarts \in 0 .. MaxRestarts

(* One activation of a sensor is at most one detection, and one that stood *)
(* at boot is none, whatever happens meanwhile: the debounce changed by    *)
(* CONFIG, an update, a full queue ("Una pulsación produce un solo evento", *)
(* MATRIZ_UNIFICACION_V3_V4.md:28; main.cpp:320-321).                      *)
OncePerActivation == \A s \in Sensors : spent[s] <= 1

(* Once an update has begun, nothing is sent, detected or taken note of    *)
(* until it ends (main.cpp:397): not even by the pass it began in.         *)
OtaIsQuiet == [][ota => UNCHANGED <<queued, previous, debounce>> \/ ~ota']_vars

(* An activation that lasts, after a time without detections longer than   *)
(* any debounce, is detected, also one that began during an update.        *)
ActivationIsDetected ==
    \A s \in Sensors :
        level[s] /\ ~previous[s] /\ spent[s] = 0 /\ since[s] > Longest
            ~> (spent[s] > 0 \/ ~level[s])

(* A level that lasts gets to be what a STATE_REPORT says, through updates *)
(* that fail and restarts.                                                 *)
LevelIsLearnt ==
    \A s \in Sensors, b \in BOOLEAN :
        <>[](level[s] = b) => <>[](StateReport[s] = b)

(* With an access point that stays the node joins it, for it does not      *)
(* begin again before the association had its time, and can be updated.    *)
WifiIsJoined == <>[]ap => <>[](Wifi /\ otaReady)

=============================================================================
