------------------------ MODULE EmitterLoop_proofs ------------------------
(***************************************************************************)
(* That one activation of a sensor is at most one detection, and that an   *)
(* update silences the loop, for all debounces, queues and intervals.      *)
(***************************************************************************)
EXTENDS EmitterLoop, TLAPS

(* An activation that has been spent still stands and was taken note of:   *)
(* there is no second edge in it.                                          *)
SpentIsNoted ==
    \A s \in Sensors : spent[s] > 0 => level[s] /\ previous[s]

(* A pass ends where it finds an update in progress.                       *)
OtaHoldsLoop == ota => pc \in {"wifi", "ota"}

(* What every step needs of the types, and of the loop.                    *)
IInv == TypeOK /\ OncePerActivation /\ SpentIsNoted /\ OtaHoldsLoop

(* The longest debounce is one of them.                                    *)
LEMMA LongestIsNat == Longest \in Nat
<1> DEFINE All == PirDebounces \cup {TimbreDebounce}
<1>1. All \subseteq Nat
  BY EmitterAssumption
<1>2. \E d \in All : \A e \in All : e <= d
  <2>1. PICK m \in PirDebounces : \A d \in PirDebounces : d <= m
    BY EmitterAssumption
  <2>2. CASE TimbreDebounce <= m
    BY <2>1, <2>2
  <2>3. CASE ~(TimbreDebounce <= m)
    <3>1. m \in Nat /\ TimbreDebounce \in Nat
      BY <2>1, EmitterAssumption
    <3>2. \A e \in All : e <= TimbreDebounce
      BY <2>1, <2>3, <3>1, <1>1
    <3> QED BY <3>2
  <2> QED BY <2>2, <2>3
<1>3. Longest \in All
  BY <1>2 DEF Longest
<1> QED BY <1>1, <1>3

LEMMA ElapsedIsBounded ==
    ASSUME NEW cap \in Nat, NEW t \in 0 .. cap
    PROVE  Elapsed(t, cap) \in 0 .. cap
BY DEF Elapsed

(* setup() establishes the invariant.                                      *)
LEMMA Initially == Init => IInv
<1> SUFFICES ASSUME Init PROVE IInv
  OBVIOUS
<1> USE DEF Init, PreviousAtBoot, SpentAtBoot
<1>1. spent \in [Sensors -> 0 .. 1]
  OBVIOUS
<1>2. {ap, connecting, otaReady, ota} \subseteq BOOLEAN
  OBVIOUS
<1>3. TypeOK
  BY <1>1, <1>2, LongestIsNat, EmitterAssumption DEF TypeOK
<1>4. OncePerActivation /\ SpentIsNoted
  BY DEF OncePerActivation, SpentIsNoted
<1>5. OtaHoldsLoop
  BY DEF OtaHoldsLoop
<1> QED BY <1>3, <1>4, <1>5 DEF IInv

(* Every variable keeps its type.                                          *)
LEMMA TypeIsKept == IInv /\ [Next]_vars => TypeOK'
<1> SUFFICES ASSUME IInv, [Next]_vars PROVE TypeOK'
  OBVIOUS
<1> USE LongestIsNat, EmitterAssumption DEF IInv, TypeOK, Sensors
<1>1. ASSUME NEW s \in Sensors, LevelChanges(s) PROVE TypeOK'
  <2>1. level' \in [Sensors -> BOOLEAN]
    BY <1>1 DEF LevelChanges
  <2>2. spent' \in [Sensors -> 0 .. 2]
    BY <1>1 DEF LevelChanges
  <2> QED BY <1>1, <2>1, <2>2 DEF LevelChanges, sensors, wlan
<1>2. CASE ApChanges
  <2>1. {ap', connecting', otaReady', ota'} \subseteq BOOLEAN
    BY <1>2 DEF ApChanges
  <2> QED BY <1>2, <2>1 DEF ApChanges, sensors
<1>3. CASE Tick
  <2>1. \A s \in Sensors : since'[s] \in 0 .. (Longest + 1)
    BY <1>3, ElapsedIsBounded DEF Tick
  <2>2. since' \in [Sensors -> 0 .. (Longest + 1)]
    BY <1>3, <2>1 DEF Tick
  <2>3. joined' \in 0 .. JoinTime /\ (joined' > 0 => ap')
    BY <1>3 DEF Tick, Elapsed
  <2>4. sinceBegin' \in 0 .. (WifiRetry + 1)
    BY <1>3 DEF Tick, Elapsed
  <2> QED BY <1>3, <2>2, <2>3, <2>4 DEF Tick
<1>4. CASE Restart
  <2>1. spent' \in [Sensors -> 0 .. 2]
    BY <1>4 DEF Restart, SpentAtBoot
  <2>2. since' \in [Sensors -> 0 .. (Longest + 1)]
    BY <1>4 DEF Restart
  <2>3. {ap', connecting', otaReady', ota'} \subseteq BOOLEAN
    BY <1>4 DEF Restart
  <2> QED BY <1>4, <2>1, <2>2, <2>3 DEF Restart, PreviousAtBoot
<1>5. CASE WifiIsUp \/ BeginWifi \/ AwaitWifi
  <2>1. CASE WifiIsUp
    <3>1. {ap', connecting', otaReady', ota'} \subseteq BOOLEAN
      BY <2>1 DEF WifiIsUp
    <3> QED BY <2>1, <3>1 DEF WifiIsUp, sensors
  <2>2. CASE BeginWifi
    <3>1. {ap', connecting', otaReady', ota'} \subseteq BOOLEAN
      BY <2>2 DEF BeginWifi
    <3> QED BY <2>2, <3>1 DEF BeginWifi, sensors
  <2>3. CASE AwaitWifi
    BY <2>3 DEF AwaitWifi, sensors, wlan
  <2> QED BY <1>5, <2>1, <2>2, <2>3
<1>6. CASE OtaStarts \/ OtaIdles \/ OtaStops
  <2>1. /\ UNCHANGED <<level, sensors, debounce, queued, ap, wlan, otaReady,
                       spent, restarts>>
        /\ pc' \in {"wifi", "node"}
    BY <1>6 DEF OtaStarts, OtaIdles, OtaStops, AfterOta
  <2>2. ota' \in BOOLEAN /\ (ota' => otaReady)
    <3>1. ota \in BOOLEAN
      OBVIOUS
    <3>2. CASE OtaStarts
      BY <3>2 DEF OtaStarts
    <3>3. CASE OtaIdles
      BY <3>1, <3>3 DEF OtaIdles
    <3>4. CASE OtaStops
      BY <3>4 DEF OtaStops
    <3> QED BY <1>6, <3>2, <3>3, <3>4
  <2> QED BY <2>1, <2>2 DEF sensors, wlan
<1>7. CASE NodeLoop
  <2>1. queued' \in 0 .. QueueSize /\ debounce' \in PirDebounces
    BY <1>7 DEF NodeLoop
  <2> QED BY <1>7, <2>1 DEF NodeLoop, sensors, wlan
<1>8. ASSUME NEW s \in Sensors, NoEdge(s) \/ Bounce(s) PROVE TypeOK'
  <2>1. previous' \in [Sensors -> BOOLEAN]
    BY <1>8 DEF NoEdge, Bounce
  <2>2. /\ UNCHANGED <<level, since, debounce, queued, ap, wlan, otaReady,
                       ota, spent, restarts>>
        /\ pc' \in {"timbre", "wifi"}
    BY <1>8 DEF NoEdge, Bounce, After
  <2> QED BY <2>1, <2>2 DEF wlan
<1>9. ASSUME NEW s \in Sensors, Detect(s) PROVE TypeOK'
  BY <1>9 DEF Detect, Enqueued, Spend, After, sensors, wlan
<1>10. CASE UNCHANGED vars
  BY <1>10 DEF vars, sensors, wlan
<1> QED
  BY <1>1, <1>2, <1>3, <1>4, <1>5, <1>6, <1>7, <1>8, <1>9, <1>10
  DEF Next, Loop, Environment

(* A detection finds an edge, and there is none in a spent activation.     *)
LEMMA ActivationsAreKept ==
    IInv /\ [Next]_vars => OncePerActivation' /\ SpentIsNoted'
<1> SUFFICES ASSUME IInv, [Next]_vars
             PROVE  OncePerActivation' /\ SpentIsNoted'
  OBVIOUS
<1> USE DEF IInv, TypeOK, OncePerActivation, SpentIsNoted, Sensors
<1>1. ASSUME NEW s \in Sensors, LevelChanges(s)
      PROVE  OncePerActivation' /\ SpentIsNoted'
  BY <1>1 DEF LevelChanges, sensors
<1>2. CASE Restart
  BY <1>2 DEF Restart, PreviousAtBoot, SpentAtBoot
<1>3. ASSUME NEW s \in Sensors, NoEdge(s) \/ Bounce(s)
      PROVE  OncePerActivation' /\ SpentIsNoted'
  BY <1>3 DEF NoEdge, Bounce
<1>4. ASSUME NEW s \in Sensors, Detect(s)
      PROVE  OncePerActivation' /\ SpentIsNoted'
  <2>1. spent[s] = 0
    BY <1>4 DEF Detect
  <2> QED BY <1>4, <2>1 DEF Detect, Spend
<1>5. CASE ApChanges \/ Tick \/ NodeLoop
  BY <1>5 DEF ApChanges, Tick, NodeLoop, sensors
<1>6. CASE WifiIsUp \/ BeginWifi \/ AwaitWifi
  BY <1>6 DEF WifiIsUp, BeginWifi, AwaitWifi, sensors
<1>7. CASE OtaStarts \/ OtaIdles \/ OtaStops
  BY <1>7 DEF OtaStarts, OtaIdles, OtaStops, sensors
<1>8. CASE UNCHANGED vars
  BY <1>8 DEF vars, sensors
<1> QED
  BY <1>1, <1>2, <1>3, <1>4, <1>5, <1>6, <1>7, <1>8
  DEF Next, Loop, Environment

(* Only the stage of the update begins one, and it ends the pass.          *)
LEMMA LoopIsHeld == IInv /\ [Next]_vars => OtaHoldsLoop'
<1> SUFFICES ASSUME IInv, [Next]_vars PROVE OtaHoldsLoop'
  OBVIOUS
<1> USE DEF IInv, OtaHoldsLoop
<1>1. CASE Environment
  BY <1>1 DEF Environment, LevelChanges, ApChanges, Tick, Restart
<1>2. CASE WifiIsUp \/ BeginWifi \/ AwaitWifi \/ NodeLoop
  BY <1>2 DEF WifiIsUp, BeginWifi, AwaitWifi, NodeLoop
<1>3. CASE OtaStarts \/ OtaIdles \/ OtaStops
  BY <1>3 DEF OtaStarts, OtaIdles, OtaStops, AfterOta
<1>4. ASSUME NEW s \in Sensors, NoEdge(s) \/ Bounce(s) \/ Detect(s)
      PROVE  OtaHoldsLoop'
  BY <1>4 DEF NoEdge, Bounce, Detect, Sensors
<1>5. CASE UNCHANGED vars
  BY <1>5 DEF vars
<1> QED BY <1>1, <1>2, <1>3, <1>4, <1>5 DEF Next, Loop

LEMMA Inductive == IInv /\ [Next]_vars => IInv'
BY TypeIsKept, ActivationsAreKept, LoopIsHeld DEF IInv

THEOREM Invariance == Spec => []IInv
BY Initially, Inductive, PTL DEF Spec

(* Every variable keeps its type: the queue counts no more than its size,  *)
(* and no update is in progress before it was set up (ota.cpp:18-21).      *)
THEOREM TypeCorrectness == Spec => []TypeOK
<1>1. IInv => TypeOK
  BY DEF IInv
<1> QED BY Invariance, <1>1, PTL

(* One activation is at most one detection, and one that stood at boot is  *)
(* none (main.cpp:320-321, 412-448).                                       *)
THEOREM DetectedOnce == Spec => []OncePerActivation
<1>1. IInv => OncePerActivation
  BY DEF IInv
<1> QED BY Invariance, <1>1, PTL

(* Nothing is sent, detected or taken note of while an update goes on      *)
(* (main.cpp:397).                                                         *)
THEOREM UpdateSilencesLoop == Spec => OtaIsQuiet
<1>1. IInv /\ [Next]_vars
        => [ota => UNCHANGED <<queued, previous, debounce>> \/ ~ota']_vars
  <2> SUFFICES ASSUME IInv, [Next]_vars, ota
               PROVE  UNCHANGED <<queued, previous, debounce>> \/ ~ota'
    OBVIOUS
  <2>1. pc \in {"wifi", "ota"}
    BY DEF IInv, OtaHoldsLoop
  <2>2. CASE Environment
    BY <2>2 DEF Environment, LevelChanges, ApChanges, Tick, Restart, sensors
  <2>3. CASE WifiIsUp \/ BeginWifi \/ AwaitWifi
    BY <2>3 DEF WifiIsUp, BeginWifi, AwaitWifi, sensors
  <2>4. CASE OtaStarts \/ OtaIdles \/ OtaStops
    BY <2>4 DEF OtaStarts, OtaIdles, OtaStops, sensors
  <2>5. CASE NodeLoop
    BY <2>1, <2>5 DEF NodeLoop
  <2>6. ASSUME NEW s \in Sensors, NoEdge(s) \/ Bounce(s) \/ Detect(s)
        PROVE  FALSE
    BY <2>1, <2>6 DEF NoEdge, Bounce, Detect, Sensors
  <2>7. CASE UNCHANGED vars
    BY <2>7 DEF vars, sensors
  <2> QED BY <2>2, <2>3, <2>4, <2>5, <2>6, <2>7 DEF Next, Loop
<1> QED BY Invariance, <1>1, PTL DEF Spec, OtaIsQuiet
=============================================================================
