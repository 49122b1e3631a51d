------------------------ MODULE CentralBridge_proofs ------------------------
(***************************************************************************)
(* What the loop of the central promises for every value of its intervals: *)
(* types, what the broker was told, and the pace of its attempts.          *)
(***************************************************************************)
EXTENDS CentralBridge, TLAPS

Lefts == UNION {0 .. d : d \in Durations}

Waits == UNION {0 .. RequestDelays[n] : n \in 0 .. MaxRequests}

(* The two timers that run down stay within what they were set to.         *)
LEMMA RunningDown ==
    /\ 0 \in Lefts /\ Durations \subseteq Lefts
    /\ \A t \in Lefts, e \in Nat : Remaining(t, e) \in Lefts
    /\ 0 \in Waits /\ \A n \in 0 .. MaxRequests : RequestDelays[n] \in Waits
    /\ \A t \in Waits, e \in Nat : Remaining(t, e) \in Waits
<1>1. /\ \A d \in Durations : d \in Nat
      /\ MotionDuration \in Durations
  BY BridgeAssumption DEF BridgeAssumption, Durations
<1>2. /\ 0 \in 0 .. MaxRequests
      /\ \A n \in 0 .. MaxRequests : RequestDelays[n] \in Nat
  BY BridgeAssumption DEF BridgeAssumption
<1>3. ASSUME NEW d \in Nat
      PROVE  /\ 0 \in 0 .. d /\ d \in 0 .. d
             /\ \A t \in 0 .. d, e \in Nat : Remaining(t, e) \in 0 .. d
  BY DEF Remaining
<1>4. 0 \in Lefts /\ Durations \subseteq Lefts
  BY <1>1, <1>3 DEF Lefts
<1>5. ASSUME NEW t \in Lefts, NEW e \in Nat PROVE Remaining(t, e) \in Lefts
  <2>1. PICK d \in Durations : t \in 0 .. d
    BY DEF Lefts
  <2> QED
    BY <1>1, <1>3, <2>1 DEF Lefts
<1>6. 0 \in Waits /\ \A n \in 0 .. MaxRequests : RequestDelays[n] \in Waits
  BY <1>2, <1>3 DEF Waits
<1>7. ASSUME NEW t \in Waits, NEW e \in Nat PROVE Remaining(t, e) \in Waits
  <2>1. PICK n \in 0 .. MaxRequests : t \in 0 .. RequestDelays[n]
    BY DEF Waits
  <2> QED
    BY <1>2, <1>3, <2>1 DEF Waits
<1> QED
  BY <1>4, <1>5, <1>6, <1>7

(* A timer that runs while connect() blocks, or is stamped before it, is   *)
(* still within its cap.                                                   *)
LEMMA RunningUp ==
    ASSUME NEW cap \in Nat, NEW t \in 0 .. cap, NEW d \in Nat
    PROVE  Elapsed(t, d, cap) \in 0 .. cap /\ StampedBefore(d, cap) \in 0 .. cap
BY DEF Elapsed, StampedBefore, Capped

Flags ==
    {wifi, broker, alive, conn, on, lastBuzzer, armed, available,
     firstPending, syncAsked, wifiSeen, pending, owed} \subseteq BOOLEAN

(* The parts of the type invariant, apart.                                 *)
Ranges ==
    /\ pc \in {"wifi", "node", "sync", "mqtt", "end"}
    /\ alive => broker
    /\ told \in [on : BOOLEAN, armed : BOOLEAN]
    /\ left \in Lefts /\ (~on => left = 0)
    /\ mode \in {"LOCAL", "HA"}
    /\ failures \in 0 .. MaxFailures
    /\ sinceInit \in 0 .. InitialDelay
    /\ sinceProbe \in 0 .. ProbeInterval
    /\ sinceTry \in 0 .. (ReconnectInterval + 1)
    /\ sinceFailure \in 0 .. (ReconnectInterval + 1)
    /\ requests \in 0 .. MaxRequests
    /\ pending <=> (requests < MaxRequests)
    /\ wait \in Waits
    /\ attempt \in {"none", "ok", "failed"}

LEMMA TypeParts == TypeOK <=> Flags /\ Ranges
BY DEF TypeOK, Flags, Ranges, Lefts, Waits

LEMMA NextFlags == Flags /\ [Next]_vars => Flags'
<1> SUFFICES ASSUME Flags, [Next]_vars PROVE Flags'
  OBVIOUS
<1> USE DEF Flags, world, buzzer, manager, timers, sync, history
<1>1. CASE WithoutWifi \/ WifiRecovered \/ WifiStays
  BY <1>1 DEF WithoutWifi, WifiRecovered, WifiStays
<1>2. CASE BuzzerLoop \/ NoStateRequest \/ EnviarStateRequest
  BY <1>2 DEF BuzzerLoop, Off, NoStateRequest, EnviarStateRequest
<1>3. CASE MqttWithoutWifi \/ FirstAttemptWaits \/ LocalWaits
           \/ LocalPostponesProbe
  BY <1>3 DEF MqttWithoutWifi, FirstAttemptWaits, LocalWaits,
              LocalPostponesProbe
<1>4. ASSUME NEW d \in 0 .. ConnectTime,
             FirstAttempt(d) \/ LocalProbes(d) \/ HAReconnects(d) \/ HAFails(d)
      PROVE  Flags'
  BY <1>4 DEF FirstAttempt, LocalProbes, HAReconnects, HAFails, Connects,
              Refused, Blocks
<1>5. CASE HAWaits \/ HASoundsInstead \/ MqttLoopFails \/ MqttLoopIdle
  BY <1>5 DEF HAWaits, HASoundsInstead, MqttLoopFails, MqttLoopIdle
<1>6. ASSUME NEW command \in {"ON", "OFF"}, ComandoBocina(command)
      PROVE  Flags'
  BY <1>6 DEF ComandoBocina, TimedOn, Off
<1>7. ASSUME NEW arm \in BOOLEAN, ComandoModo(arm) PROVE Flags'
  BY <1>7 DEF ComandoModo
<1>8. CASE EndOfPass
  BY <1>8 DEF EndOfPass, OpensWindow
<1>9. ASSUME NEW code \in Codes, NEW value \in 0 .. 1, HandleEvent(code, value)
      PROVE  Flags'
  BY <1>9 DEF HandleEvent, TimedOn
<1>10. CASE WifiChanges \/ BrokerChanges
  BY <1>10 DEF WifiChanges, BrokerChanges
<1>11. CASE SessionBreaks \/ BreakNoticed \/ Tick
  BY <1>11 DEF SessionBreaks, BreakNoticed, Tick
<1>12. CASE UNCHANGED vars
  BY <1>12 DEF vars
<1> QED
  BY <1>1, <1>2, <1>3, <1>4, <1>5, <1>6, <1>7, <1>8, <1>9, <1>10, <1>11, <1>12
  DEF Next, Loop, Environment

LEMMA NextRanges == Flags /\ Ranges /\ [Next]_vars => Ranges'
<1> SUFFICES ASSUME Flags, Ranges, [Next]_vars PROVE Ranges'
  OBVIOUS
<1>0. /\ ReconnectInterval \in Nat /\ ConnectTime \in Nat
      /\ ProbeInterval \in Nat /\ InitialDelay \in Nat
      /\ ProbeInterval - ProbeDeferral \in 0 .. ProbeInterval
      /\ ProbeInterval - ProbeAfterFall \in 0 .. ProbeInterval
      /\ MaxFailures \in Nat \ {0} /\ MaxRequests \in Nat \ {0}
  BY BridgeAssumption DEF BridgeAssumption
<1>a. /\ NextFailures \in 0 .. MaxFailures
      /\ Status \in [on : BOOLEAN, armed : BOOLEAN]
      /\ SinceTry \in 0 .. (ReconnectInterval + 1)
  <2>1. NextFailures \in 0 .. MaxFailures
    BY <1>0 DEF Ranges, NextFailures, Capped
  <2>2. Status \in [on : BOOLEAN, armed : BOOLEAN]
    BY DEF Flags, Status
  <2>3. SinceTry \in 0 .. (ReconnectInterval + 1)
    BY <1>0 DEF Ranges, SinceTry
  <2> QED
    BY <2>1, <2>2, <2>3
<1>c. /\ 0 \in Lefts /\ Durations \subseteq Lefts
      /\ 0 \in Waits /\ \A n \in 0 .. MaxRequests : RequestDelays[n] \in Waits
  BY RunningDown
<1> USE DEF world, buzzer, manager, timers, sync, history
<1>1. CASE WithoutWifi \/ WifiRecovered \/ WifiStays
  BY <1>0, <1>1, <1>c
  DEF Ranges, WithoutWifi, WifiRecovered, WifiStays
<1>2. CASE BuzzerLoop \/ NoStateRequest
  BY <1>2, <1>c DEF Ranges, BuzzerLoop, Off, NoStateRequest
<1>3. CASE EnviarStateRequest
  <2>1. requests' = requests + 1 /\ requests' \in 0 .. MaxRequests
    BY <1>0, <1>3 DEF EnviarStateRequest, Ranges
  <2>2. wait' \in Waits
    BY <1>3, <2>1, <1>c DEF EnviarStateRequest, Ranges
  <2>3. pending' <=> (requests' < MaxRequests)
    <3>1. CASE requests' >= MaxRequests
      BY <1>0, <1>3, <2>1, <3>1 DEF EnviarStateRequest
    <3>2. CASE ~(requests' >= MaxRequests)
      <4>1. pending' = pending /\ pending
        BY <1>3, <3>2 DEF EnviarStateRequest
      <4>2. requests' < MaxRequests
        BY <1>0, <2>1, <3>2
      <4> QED
        BY <4>1, <4>2
    <3> QED
      BY <3>1, <3>2
  <2> QED
    BY <1>3, <2>1, <2>2, <2>3 DEF EnviarStateRequest, Ranges
<1>4. CASE MqttWithoutWifi \/ FirstAttemptWaits \/ LocalWaits
           \/ LocalPostponesProbe
  BY <1>0, <1>4 DEF Ranges, MqttWithoutWifi, FirstAttemptWaits, LocalWaits,
                    LocalPostponesProbe
<1>b. ASSUME NEW d \in 0 .. ConnectTime
      PROVE  /\ Elapsed(sinceInit, d, InitialDelay) \in 0 .. InitialDelay
             /\ Elapsed(sinceProbe, d, ProbeInterval) \in 0 .. ProbeInterval
             /\ StampedBefore(d, ProbeInterval) \in 0 .. ProbeInterval
             /\ Elapsed(sinceTry, d, ReconnectInterval + 1)
                   \in 0 .. (ReconnectInterval + 1)
             /\ StampedBefore(d, ReconnectInterval + 1)
                   \in 0 .. (ReconnectInterval + 1)
             /\ Elapsed(sinceFailure, d, ReconnectInterval + 1)
                   \in 0 .. (ReconnectInterval + 1)
             /\ Remaining(wait, d) \in Waits
  <2>1. d \in Nat /\ ReconnectInterval + 1 \in Nat
    BY <1>0
  <2>2. /\ sinceInit \in 0 .. InitialDelay /\ sinceProbe \in 0 .. ProbeInterval
        /\ sinceTry \in 0 .. (ReconnectInterval + 1)
        /\ sinceFailure \in 0 .. (ReconnectInterval + 1)
        /\ wait \in Waits
    BY DEF Ranges
  <2> QED
    BY <1>0, <2>1, <2>2, RunningUp, RunningDown
<1>5. ASSUME NEW d \in 0 .. ConnectTime, FirstAttempt(d) \/ LocalProbes(d)
      PROVE  Ranges'
  <2>1. /\ pc' = "end"
        /\ sinceProbe' \in {Elapsed(sinceProbe, d, ProbeInterval),
                            StampedBefore(d, ProbeInterval)}
        /\ sinceTry' = Elapsed(sinceTry, d, ReconnectInterval + 1)
        /\ mode' \in {"LOCAL", "HA"}
        /\ failures' \in {0, NextFailures}
        /\ attempt' \in {"ok", "failed"}
        /\ told' \in {told, Status}
        /\ sinceFailure' \in {Elapsed(sinceFailure, d, ReconnectInterval + 1), 0}
        /\ broker' = broker /\ (alive' => alive \/ broker)
        /\ sinceInit' = Elapsed(sinceInit, d, InitialDelay)
        /\ wait' = Remaining(wait, d)
        /\ UNCHANGED <<left, on, pending, requests>>
    BY <1>5 DEF FirstAttempt, LocalProbes, Connects, Refused, Announced,
                Ranges, Blocks
  <2> QED
    BY <1>0, <1>a, <1>b, <2>1 DEF Ranges
<1>6. CASE HAWaits \/ HASoundsInstead
  BY <1>0, <1>a, <1>6 DEF Ranges, HAWaits, HASoundsInstead
<1>7. ASSUME NEW d \in 0 .. ConnectTime, HAReconnects(d) \/ HAFails(d)
      PROVE  Ranges'
  <2>1. /\ pc' = "end"
        /\ sinceTry' = StampedBefore(d, ReconnectInterval + 1)
        /\ sinceProbe' \in {Elapsed(sinceProbe, d, ProbeInterval),
                            ProbeInterval - ProbeAfterFall}
        /\ mode' \in {mode, "LOCAL", "HA"}
        /\ failures' \in {0, NextFailures}
        /\ attempt' \in {"ok", "failed"}
        /\ told' \in {told, Status}
        /\ sinceFailure' \in {Elapsed(sinceFailure, d, ReconnectInterval + 1), 0}
        /\ broker' = broker /\ (alive' => alive \/ broker)
        /\ sinceInit' = Elapsed(sinceInit, d, InitialDelay)
        /\ wait' = Remaining(wait, d)
        /\ UNCHANGED <<left, on, pending, requests>>
    BY <1>7 DEF HAReconnects, HAFails, FallsBack, Connects, Refused,
                Announced, Blocks
  <2> QED
    BY <1>0, <1>a, <1>b, <2>1 DEF Ranges
<1>8. CASE MqttLoopFails \/ MqttLoopIdle
  BY <1>8 DEF Ranges, MqttLoopFails, MqttLoopIdle
<1>9. ASSUME NEW command \in {"ON", "OFF"}, ComandoBocina(command)
      PROVE  Ranges'
  <2>1. /\ left' \in {MotionDuration, 0} /\ (~on' => left' = 0)
    BY <1>9 DEF ComandoBocina, TimedOn, Off
  <2>2. left' \in Lefts
    BY <2>1, <1>c DEF Durations
  <2>3. told' \in [on : BOOLEAN, armed : BOOLEAN]
    BY <1>9 DEF ComandoBocina, Ranges
  <2> QED
    BY <1>9, <2>1, <2>2, <2>3 DEF Ranges, ComandoBocina
<1>10. ASSUME NEW arm \in BOOLEAN, ComandoModo(arm) PROVE Ranges'
  BY <1>10 DEF Ranges, ComandoModo
<1>11. CASE EndOfPass
  <2>1. told' \in [on : BOOLEAN, armed : BOOLEAN]
    BY <1>11 DEF EndOfPass, Ranges, Flags
  <2>2. /\ requests' \in 0 .. MaxRequests /\ wait' \in Waits
        /\ pending' <=> (requests' < MaxRequests)
    BY <1>0, <1>11, <1>c DEF EndOfPass, OpensWindow, Ranges
  <2> QED
    BY <1>11, <2>1, <2>2 DEF Ranges, EndOfPass
<1>12. ASSUME NEW code \in Codes, NEW value \in 0 .. 1, HandleEvent(code, value)
       PROVE  Ranges'
  <2>1. on' = TRUE /\ left' = duracionPorEvento(code)
    BY <1>12 DEF HandleEvent, TimedOn
  <2>2. duracionPorEvento(code) \in Durations \cup {0}
    BY DEF duracionPorEvento, Durations
  <2>3. left' \in Lefts
    BY <2>1, <2>2, <1>c
  <2> QED
    BY <1>12, <2>1, <2>3 DEF Ranges, HandleEvent
<1>13. CASE WifiChanges \/ BrokerChanges \/ SessionBreaks \/ BreakNoticed
  BY <1>13 DEF Ranges, WifiChanges, BrokerChanges, SessionBreaks, BreakNoticed
<1>14. CASE Tick
  <2>1. /\ left' \in Lefts /\ wait' \in Waits /\ (left = 0 => left' = 0)
    BY <1>14, RunningDown DEF Tick, Ranges, Remaining
  <2>2. /\ sinceInit' \in 0 .. InitialDelay
        /\ sinceProbe' \in 0 .. ProbeInterval
        /\ sinceTry' \in 0 .. (ReconnectInterval + 1)
        /\ sinceFailure' \in 0 .. (ReconnectInterval + 1)
    BY <1>0, <1>14 DEF Tick, Ranges, Elapsed, Capped
  <2> QED
    BY <1>14, <2>1, <2>2 DEF Ranges, Tick
<1>15. CASE UNCHANGED vars
  BY <1>15 DEF Ranges, vars
<1> QED
  BY <1>1, <1>2, <1>3, <1>4, <1>5, <1>6, <1>7, <1>8, <1>9, <1>10, <1>11,
     <1>12, <1>13, <1>14, <1>15
  DEF Next, Loop, Environment

LEMMA InitTypeOK == Init => TypeOK
<1> SUFFICES ASSUME Init PROVE TypeOK
  OBVIOUS
<1>1. Flags
  BY DEF Init, Flags
<1>2. Ranges
  BY RunningDown, BridgeAssumption DEF Init, Ranges, BridgeAssumption
<1> QED
  BY <1>1, <1>2, TypeParts

LEMMA NextTypeOK == TypeOK /\ [Next]_vars => TypeOK'
<1>1. TypeOK' <=> Flags' /\ Ranges'
  BY DEF TypeOK, Flags, Ranges, Lefts, Waits
<1> QED
  BY <1>1, TypeParts, NextFlags, NextRanges

(***************************************************************************)
(* Every variable keeps its type: the window of STATE_REQUESTs is open     *)
(* exactly while fewer than its maximum were made, and a silent buzzer has *)
(* no time left (main.cpp:274-345).                                        *)
(***************************************************************************)
THEOREM TypeCorrectness == Spec => []TypeOK
BY InitTypeOK, NextTypeOK, PTL DEF Spec

-----------------------------------------------------------------------------

(***************************************************************************)
(* What a session that stands was told: the alarm mode always, the buzzer  *)
(* as it was at the end of the last pass, or as it is now if the session   *)
(* has just begun or a command has just been obeyed.                       *)
(***************************************************************************)
ToldSoFar ==
    /\ pc = "wifi" => lastBuzzer = on
    /\ conn /\ alive =>
          /\ told.armed = armed
          /\ pc # "end" => told.on = lastBuzzer
          /\ pc = "end" => told.on \in {lastBuzzer, on}

ToldInv == TypeOK /\ ToldSoFar

LEMMA InitToldInv == Init => ToldInv
BY InitTypeOK DEF Init, ToldInv, ToldSoFar

LEMMA NextToldInv == ToldInv /\ [Next]_vars => ToldInv'
<1> SUFFICES ASSUME ToldInv, [Next]_vars PROVE ToldInv'
  OBVIOUS
<1>0. TypeOK' /\ ToldSoFar
  BY NextTypeOK DEF ToldInv
<1> SUFFICES ToldSoFar'
  BY <1>0 DEF ToldInv
<1>a. told \in [on : BOOLEAN, armed : BOOLEAN]
  BY DEF ToldInv, TypeOK
<1> USE DEF ToldSoFar
<1>1. CASE /\ UNCHANGED <<conn, alive, told, on, lastBuzzer, armed>>
           /\ pc # "end" /\ pc' # "wifi"
  BY <1>0, <1>1
<1>2. CASE \/ WithoutWifi \/ WifiRecovered \/ WifiStays
           \/ NoStateRequest \/ EnviarStateRequest
           \/ MqttWithoutWifi \/ FirstAttemptWaits \/ LocalWaits
           \/ LocalPostponesProbe \/ HAWaits \/ HASoundsInstead
           \/ MqttLoopIdle
  BY <1>1, <1>2
  DEF WithoutWifi, WifiRecovered, WifiStays, NoStateRequest,
      EnviarStateRequest, MqttWithoutWifi, FirstAttemptWaits, LocalWaits,
      LocalPostponesProbe, HADown, HAWaits, HASoundsInstead, HAUp,
      MqttLoopIdle, world, buzzer
<1>3. CASE BuzzerLoop
  BY <1>0, <1>3 DEF BuzzerLoop, Off, world, buzzer
<1>4. ASSUME NEW d \in 0 .. ConnectTime,
             FirstAttempt(d) \/ LocalProbes(d) \/ HAReconnects(d) \/ HAFails(d)
      PROVE  ToldSoFar'
  <2>1. /\ pc = "mqtt" /\ pc' = "end" /\ UNCHANGED <<on, lastBuzzer, armed>>
        /\ \/ told' = Status
           \/ UNCHANGED <<conn, alive, told>>
    BY <1>4 DEF FirstAttempt, LocalProbes, HADown, HADue, HAReconnects, HAFails,
                Connects, Refused, Announced, buzzer
  <2> QED
    BY <1>0, <2>1 DEF Status
<1>5. CASE MqttLoopFails
  BY <1>5 DEF MqttLoopFails
<1>6. ASSUME NEW command \in {"ON", "OFF"}, ComandoBocina(command)
      PROVE  ToldSoFar'
  BY <1>0, <1>a, <1>6 DEF ComandoBocina, HAUp, TimedOn, Off, world
<1>7. ASSUME NEW arm \in BOOLEAN, ComandoModo(arm) PROVE ToldSoFar'
  BY <1>0, <1>a, <1>7 DEF ComandoModo, HAUp, world, buzzer
<1>8. CASE EndOfPass
  BY <1>0, <1>a, <1>8 DEF EndOfPass, world, buzzer
<1>9. ASSUME NEW code \in Codes, NEW value \in 0 .. 1, HandleEvent(code, value)
      PROVE  ToldSoFar'
  BY <1>0, <1>9 DEF HandleEvent, world
<1>10. CASE WifiChanges \/ BrokerChanges \/ SessionBreaks \/ BreakNoticed
  BY <1>0, <1>10
  DEF WifiChanges, BrokerChanges, SessionBreaks, BreakNoticed, buzzer, world
<1>11. CASE Tick
  BY <1>0, <1>11 DEF Tick, world
<1>12. CASE UNCHANGED vars
  BY <1>0, <1>12 DEF vars, world, buzzer
<1> QED
  BY <1>2, <1>3, <1>4, <1>5, <1>6, <1>7, <1>8, <1>9, <1>10, <1>11, <1>12
  DEF Next, Loop, Environment

(***************************************************************************)
(* Between two passes a session that stands has been told the buzzer and   *)
(* the alarm mode as they are (main.cpp:340-345, mqtt_manager.cpp:96-100). *)
(***************************************************************************)
THEOREM BrokerIsToldTheTruth == Spec => []ToldIsTrue
<1>1. ToldInv => ToldIsTrue
  <2> SUFFICES ASSUME ToldInv, pc = "wifi", conn, alive PROVE told = Status
    BY DEF ToldIsTrue
  <2>1. told \in [on : BOOLEAN, armed : BOOLEAN]
    BY DEF ToldInv, TypeOK
  <2>2. told.on = on /\ told.armed = armed
    BY DEF ToldInv, ToldSoFar
  <2> QED
    BY <2>1, <2>2 DEF Status
<1> QED
  BY <1>1, InitToldInv, NextToldInv, PTL DEF Spec

-----------------------------------------------------------------------------

(***************************************************************************)
(* The timer that lets the next attempt come, in LOCAL the probe's and in  *)
(* HA that of the last attempt, was stamped before that attempt blocked:   *)
(* it has not been running for longer than the last failure is ago and     *)
(* the time connect() takes.  Before the first attempt nothing had failed. *)
(***************************************************************************)
FailureIsOld == sinceFailure + ConnectTime > ReconnectInterval

PaceOK ==
    /\ firstPending =>
          /\ mode = "LOCAL" /\ FailureIsOld
          /\ sinceInit < InitialDelay => sinceProbe = sinceInit
    /\ mode = "LOCAL" =>
          \/ FailureIsOld
          \/ sinceProbe + ReconnectInterval + 1
                 <= ProbeInterval + sinceFailure + ConnectTime
    /\ mode = "HA" =>
          \/ FailureIsOld
          \/ sinceTry <= sinceFailure + ConnectTime

PaceInv == TypeOK /\ PaceOK

LEMMA InitPaceInv == Init => PaceInv
<1>1. ReconnectInterval + 1 + ConnectTime > ReconnectInterval
  BY BridgeAssumption DEF BridgeAssumption
<1> QED
  BY <1>1, InitTypeOK DEF Init, PaceInv, PaceOK, FailureIsOld

LEMMA PaceTypes ==
    ASSUME TypeOK
    PROVE  /\ ReconnectInterval \in Nat /\ ProbeInterval \in Nat
           /\ ConnectTime \in Nat
           /\ InitialDelay \in 0 .. ProbeInterval
           /\ ProbeDeferral \in Nat /\ ProbeAfterFall \in Nat
           /\ ReconnectInterval < ProbeDeferral
           /\ ReconnectInterval < ProbeAfterFall
           /\ ReconnectInterval < ProbeInterval
           /\ sinceInit \in 0 .. InitialDelay
           /\ sinceProbe \in 0 .. ProbeInterval
           /\ sinceTry \in 0 .. (ReconnectInterval + 1)
           /\ sinceFailure \in 0 .. (ReconnectInterval + 1)
           /\ mode \in {"LOCAL", "HA"}
BY BridgeAssumption DEF BridgeAssumption, TypeOK

(* Wherever an attempt is made the last failure is old enough.             *)
LEMMA AttemptsAreDue ==
    ASSUME PaceInv, NEW d \in 0 .. ConnectTime,
           FirstAttempt(d) \/ LocalProbes(d) \/ HAReconnects(d) \/ HAFails(d)
    PROVE  FailureIsOld
<1> USE PaceTypes DEF PaceInv, PaceOK
<1>1. CASE FirstAttempt(d)
  BY <1>1 DEF FirstAttempt, FirstDue
<1>2. CASE LocalProbes(d)
  <2>1. mode = "LOCAL" /\ sinceProbe = ProbeInterval
    BY <1>2 DEF LocalProbes, ProbeDue
  <2> QED
    BY <2>1 DEF FailureIsOld
<1>3. CASE HAReconnects(d) \/ HAFails(d)
  <2>1. mode = "HA" /\ SinceTry > ReconnectInterval
    BY <1>3 DEF HAReconnects, HAFails, HADue, HADown
  <2>2. sinceTry > ReconnectInterval
    BY <2>1 DEF SinceTry
  <2> QED
    BY <2>1, <2>2 DEF FailureIsOld
<1> QED
  BY <1>1, <1>2, <1>3

(* An old failure stays old while connect() blocks.                        *)
LEMMA OldStaysOld ==
    ASSUME TypeOK, FailureIsOld, NEW d \in 0 .. ConnectTime,
           sinceFailure' = Elapsed(sinceFailure, d, ReconnectInterval + 1)
    PROVE  FailureIsOld'
BY PaceTypes DEF FailureIsOld, Elapsed, Capped

(* A stamp made before connect() blocked is no older than connect() takes. *)
LEMMA StampsAreFresh ==
    ASSUME TypeOK, NEW d \in 0 .. ConnectTime, NEW cap \in Nat
    PROVE  StampedBefore(d, cap) \in Nat /\ StampedBefore(d, cap) <= ConnectTime
BY PaceTypes DEF StampedBefore, Elapsed, Capped

LEMMA NextPaceInv == PaceInv /\ [Next]_vars => PaceInv'
<1> SUFFICES ASSUME PaceInv, [Next]_vars PROVE PaceInv'
  OBVIOUS
<1>0. TypeOK' /\ TypeOK /\ PaceOK
  BY NextTypeOK DEF PaceInv
<1> SUFFICES PaceOK'
  BY <1>0 DEF PaceInv
<1>a. UNCHANGED <<mode, firstPending, sinceInit, sinceProbe, sinceTry,
                  sinceFailure>> => PaceOK'
  BY <1>0 DEF PaceOK, FailureIsOld
<1>1. CASE \/ WithoutWifi \/ WifiRecovered \/ WifiStays
           \/ BuzzerLoop \/ NoStateRequest \/ EnviarStateRequest
  BY <1>a, <1>1
  DEF WithoutWifi, WifiRecovered, WifiStays, BuzzerLoop, NoStateRequest,
      EnviarStateRequest, manager, timers, history
<1>2. CASE \/ MqttWithoutWifi \/ FirstAttemptWaits \/ LocalWaits
           \/ MqttLoopFails \/ MqttLoopIdle
           \/ \E command \in {"ON", "OFF"} : ComandoBocina(command)
           \/ \E arm \in BOOLEAN : ComandoModo(arm)
           \/ EndOfPass
  BY <1>a, <1>2
  DEF MqttWithoutWifi, FirstAttemptWaits, LocalWaits, MqttLoopFails,
      MqttLoopIdle, ComandoBocina, ComandoModo, EndOfPass, manager, timers,
      history
<1>3. CASE \/ WifiChanges \/ BrokerChanges \/ SessionBreaks \/ BreakNoticed
           \/ \E code \in Codes, value \in 0 .. 1 : HandleEvent(code, value)
  BY <1>a, <1>3
  DEF WifiChanges, BrokerChanges, SessionBreaks, BreakNoticed, HandleEvent,
      manager, timers, history
<1>4. CASE UNCHANGED vars
  BY <1>a, <1>4 DEF vars, manager, timers, history
<1>5. CASE Tick
  <2>1. /\ UNCHANGED <<mode, firstPending>>
        /\ sinceInit' = IF sinceInit + 1 > InitialDelay THEN InitialDelay
                        ELSE sinceInit + 1
        /\ sinceProbe' = IF sinceProbe + 1 > ProbeInterval THEN ProbeInterval
                         ELSE sinceProbe + 1
        /\ sinceTry' = IF sinceTry + 1 > ReconnectInterval + 1
                       THEN ReconnectInterval + 1 ELSE sinceTry + 1
        /\ sinceFailure' = IF sinceFailure + 1 > ReconnectInterval + 1
                           THEN ReconnectInterval + 1 ELSE sinceFailure + 1
    BY <1>5 DEF Tick, manager, Elapsed, Capped
  <2> QED
    BY <1>0, <2>1, PaceTypes DEF PaceOK, FailureIsOld
<1>6. ASSUME NEW d \in 0 .. ConnectTime, FirstAttempt(d) \/ LocalProbes(d)
      PROVE  PaceOK'
  <2>1. FailureIsOld
    BY <1>6, AttemptsAreDue
  <2>2. ~firstPending'
    BY <1>0, <1>6, PaceTypes
    DEF FirstAttempt, LocalProbes, FirstDue, ProbeDue, PaceOK
  <2>3. CASE Connects(d)
    <3>1. mode' = "HA" /\ FailureIsOld'
      BY <1>0, <2>1, <2>3, OldStaysOld DEF Connects
    <3> QED
      BY <2>2, <3>1 DEF PaceOK
  <2>4. CASE Refused
    <3>1. /\ mode' = "LOCAL" /\ sinceFailure' = 0
          /\ sinceProbe' = StampedBefore(d, ProbeInterval)
      BY <1>6, <2>4 DEF FirstAttempt, LocalProbes, Connects, Refused
    <3>2. sinceProbe' \in Nat /\ sinceProbe' <= ConnectTime
      BY <1>0, <3>1, StampsAreFresh, PaceTypes
    <3> QED
      BY <1>0, <2>2, <3>1, <3>2, PaceTypes DEF PaceOK
  <2> QED
    BY <1>6, <2>3, <2>4 DEF FirstAttempt, LocalProbes
<1>7. CASE LocalPostponesProbe
  <2>1. /\ sinceProbe' = ProbeInterval - ProbeDeferral
        /\ sinceProbe = ProbeInterval
        /\ ~FirstDue /\ mode = "LOCAL"
        /\ UNCHANGED <<mode, firstPending, sinceInit, sinceTry, sinceFailure>>
    BY <1>0, <1>7, PaceTypes
    DEF LocalPostponesProbe, ProbeDue, manager, history
  <2>2. FailureIsOld
    BY <1>0, <2>1, PaceTypes DEF PaceOK, FailureIsOld
  <2>3. ~firstPending
    BY <1>0, <2>1, PaceTypes DEF PaceOK, FirstDue
  <2> QED
    BY <2>1, <2>2, <2>3 DEF PaceOK, FailureIsOld
<1>8. CASE HAWaits \/ HASoundsInstead
  <2>1. mode = "HA" /\ ~firstPending /\ firstPending' = firstPending
    BY <1>0, <1>8 DEF HADown, HAWaits, HASoundsInstead, PaceOK
  <2>2. /\ sinceTry' \in {sinceTry, 0}
        /\ UNCHANGED <<mode, sinceFailure>>
    BY <1>8 DEF HAWaits, HASoundsInstead, SinceTry, history
  <2> QED
    BY <1>0, <2>1, <2>2, PaceTypes DEF PaceOK, FailureIsOld
<1>9. ASSUME NEW d \in 0 .. ConnectTime, HAReconnects(d) \/ HAFails(d)
      PROVE  PaceOK'
  <2>1. mode = "HA" /\ ~firstPending /\ firstPending' = firstPending
    BY <1>0, <1>9 DEF HADown, HADue, HAReconnects, HAFails, PaceOK
  <2>2. CASE HAReconnects(d)
    <3>1. mode' = "HA" /\ FailureIsOld'
      BY <1>0, <2>2, AttemptsAreDue, OldStaysOld
      DEF HAReconnects, Connects
    <3> QED
      BY <2>1, <3>1 DEF PaceOK
  <2>3. CASE HAFails(d)
    <3>1. /\ sinceTry' = StampedBefore(d, ReconnectInterval + 1)
          /\ sinceFailure' = 0
          /\ \/ mode' = "LOCAL" /\ sinceProbe' = ProbeInterval - ProbeAfterFall
             \/ mode' = mode
      BY <2>3 DEF HAFails, Refused, FallsBack
    <3>2. sinceTry' \in Nat /\ sinceTry' <= ConnectTime
      BY <1>0, <3>1, StampsAreFresh, PaceTypes
    <3> QED
      BY <1>0, <2>1, <3>1, <3>2, PaceTypes DEF PaceOK, FailureIsOld
  <2> QED
    BY <1>9, <2>2, <2>3
<1> QED
  BY <1>1, <1>2, <1>3, <1>4, <1>5, <1>6, <1>7, <1>8, <1>9
  DEF Next, Loop, Environment

(***************************************************************************)
(* After a failed attempt to connect the next one, in the same mode or the *)
(* other, comes when more than MQTT_RECONNECT_INTERVAL_MS have passed,     *)
(* less the time connect() blocks: the stamps are read before it, and the  *)
(* failure is known after it (mqtt_manager.cpp:112, 143-203).              *)
(***************************************************************************)
THEOREM AttemptsKeepTheirPace == Spec => FailedAttemptsAreSpaced
<1>1. PaceInv /\ [Next]_vars => [Attempts => FailureIsOld]_vars
  <2> SUFFICES ASSUME PaceInv, [Next]_vars, Attempts PROVE FailureIsOld
    OBVIOUS
  <2>1. attempt' # attempt /\ attempt' # "none"
    BY DEF Attempts
  <2>2. PICK d \in 0 .. ConnectTime :
           FirstAttempt(d) \/ LocalProbes(d) \/ HAReconnects(d) \/ HAFails(d)
    BY <2>1
    DEF Next, Loop, Environment, WithoutWifi, WifiRecovered, WifiStays,
        BuzzerLoop, NoStateRequest, EnviarStateRequest, MqttWithoutWifi,
        FirstAttemptWaits, LocalWaits, LocalPostponesProbe, HAWaits,
        HASoundsInstead, MqttLoopFails, MqttLoopIdle, ComandoBocina,
        ComandoModo, EndOfPass, WifiChanges, BrokerChanges, SessionBreaks,
        BreakNoticed, HandleEvent, Tick, vars, history
  <2> QED
    BY <2>2, AttemptsAreDue
<1>2. [][Attempts => FailureIsOld]_vars => FailedAttemptsAreSpaced
  BY PTL DEF FailedAttemptsAreSpaced, FailureIsOld
<1> QED
  BY <1>1, <1>2, InitPaceInv, NextPaceInv, PTL DEF Spec

=============================================================================
