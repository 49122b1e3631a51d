-------------------------- MODULE ReliableChannel --------------------------
(***************************************************************************)
(* The timing of the one reliable packet an IoTNode keeps in flight:       *)
(* transmission, retries with a growing backoff, abandonment after         *)
(* IOT_MAX_RETRIES attempts, with WiFi coming and going and a millisecond  *)
(* clock that rolls over.                                                  *)
(*                                                                         *)
(* now is millis(): its modulus is 2^32 in the code.  The deadline is      *)
(* compared as the code compares it, ahora < nextRetryAt, on the raw       *)
(* unsigned values.  Which packet is in flight and what its ACK must carry *)
(* is the matter of AlarmLink; here an ACK that the channel accepts may    *)
(* arrive at any time after a transmission.                                *)
(***************************************************************************)
EXTENDS Integers

CONSTANTS
    MaxRetries,     \* IOT_MAX_RETRIES, 5 in the code
    BackoffBase,    \* IOT_ACK_TIMEOUT_BASE, 300 ms
    BackoffMax,     \* IOT_ACK_TIMEOUT_MAX, 2000 ms
    WifiRetry,      \* the 1000 ms between checks without WiFi
    ClockModulus    \* 2^32 ms

ASSUME ChannelAssumption ==
    /\ MaxRetries \in Nat \ {0}
    /\ BackoffBase \in Nat \ {0}
    /\ BackoffMax \in Nat /\ BackoffBase <= BackoffMax
    /\ WifiRetry \in Nat \ {0}
    /\ ClockModulus \in Nat
    /\ BackoffMax < ClockModulus /\ WifiRetry < ClockModulus

VARIABLES
    now,            \* millis()
    wifiConnected,  \* WiFi.status() == WL_CONNECTED
    active,         \* _reliable.active
    waitingAck,     \* _reliable.waitingAck
    attempt,        \* _reliable.attempt
    nextRetryAt,    \* _reliable.nextRetryAt
    sent,           \* history: transmissions of the packet in flight
    window,         \* history: the backoff the last transmission was given
    elapsed,        \* history: true time since then, up to the backoff
    wrapped,        \* history: its deadline lies beyond the rollover
    outage,         \* history: an attempt was used up without WiFi
    outcome         \* history: how the last packet ended

channel == <<active, waitingAck, attempt, nextRetryAt>>
history == <<sent, window, elapsed, wrapped, outage, outcome>>
channelVars == <<now, wifiConnected, channel, history>>

Plus(t, d) == (t + d) % ClockModulus

(* _calcBackoff: 3/2 per attempt, saturating.                              *)
CalcBackoff[a \in Nat] ==
    IF a = 0 THEN BackoffBase
    ELSE LET ms == (CalcBackoff[a - 1] * 3) \div 2
         IN  IF ms > BackoffMax THEN BackoffMax ELSE ms

ChannelInit ==
    /\ now = 0
    /\ wifiConnected = FALSE
    /\ active = FALSE
    /\ waitingAck = FALSE
    /\ attempt = 0
    /\ nextRetryAt = 0
    /\ sent = 0
    /\ window = 0
    /\ elapsed = 0
    /\ wrapped = FALSE
    /\ outage = FALSE
    /\ outcome = "none"

-----------------------------------------------------------------------------

(* _processQueue loads the next reliable packet into the free channel.     *)
Load ==
    /\ ~active
    /\ active' = TRUE
    /\ waitingAck' = FALSE
    /\ attempt' = 0
    /\ nextRetryAt' = 0
    /\ sent' = 0
    /\ window' = 0
    /\ elapsed' = 0
    /\ wrapped' = FALSE
    /\ outage' = FALSE
    /\ outcome' = "none"
    /\ UNCHANGED <<now, wifiConnected>>

(* Mutant of Due: the deadline is not looked at.                           *)
DueAtOnce == active

(* The deadline test of _processReliable.                                  *)
Due == active /\ ~(waitingAck /\ now < nextRetryAt)

(* Mutant of CurrentAttempt: a retry does not count.                       *)
UncountedAttempt == attempt

(* The attempt this pass of _processReliable is on.                        *)
CurrentAttempt == IF waitingAck THEN attempt + 1 ELSE attempt

(* Mutants of Exhausted: one attempt too many, one too few.                *)
ExhaustedLate == waitingAck /\ CurrentAttempt > MaxRetries
ExhaustedEarly == waitingAck /\ CurrentAttempt >= MaxRetries - 1

Exhausted == waitingAck /\ CurrentAttempt >= MaxRetries

(* The last attempt went unanswered: the packet is abandoned.              *)
GiveUp ==
    /\ Due
    /\ Exhausted
    /\ active' = FALSE
    /\ attempt' = CurrentAttempt
    /\ outcome' = "abandoned"
    /\ UNCHANGED <<now, wifiConnected, waitingAck, nextRetryAt,
                   sent, window, elapsed, wrapped, outage>>

(* The packet is transmitted, for the first time or again.                 *)
Transmit ==
    /\ Due
    /\ ~Exhausted
    /\ wifiConnected
    /\ attempt' = CurrentAttempt
    /\ waitingAck' = TRUE
    /\ nextRetryAt' = Plus(now, CalcBackoff[CurrentAttempt])
    /\ sent' = sent + 1
    /\ window' = CalcBackoff[CurrentAttempt]
    /\ elapsed' = 0
    /\ wrapped' = (nextRetryAt' < now)
    /\ UNCHANGED <<now, wifiConnected, active, outage, outcome>>

(* There is no WiFi: the attempt counts, but nothing is transmitted.       *)
SkipTransmission ==
    /\ Due
    /\ ~Exhausted
    /\ ~wifiConnected
    /\ attempt' = CurrentAttempt
    /\ nextRetryAt' = Plus(now, WifiRetry)
    /\ outage' = (outage \/ waitingAck)
    /\ UNCHANGED <<now, wifiConnected, active, waitingAck,
                   sent, window, elapsed, wrapped, outcome>>

ProcessReliable == GiveUp \/ Transmit \/ SkipTransmission

(* _handleAck accepts the acknowledgement of the packet in flight.         *)
HandleAck ==
    /\ active
    /\ waitingAck
    /\ active' = FALSE
    /\ outcome' = "acked"
    /\ UNCHANGED <<now, wifiConnected, waitingAck, attempt, nextRetryAt,
                   sent, window, elapsed, wrapped, outage>>

(* One tick of the clock.  loop() may be held up for any number of ticks   *)
(* (an OTA transfer suspends node.loop(), main.cpp:399-401).               *)
Tick ==
    /\ now' = Plus(now, 1)
    /\ elapsed' = IF elapsed < window THEN elapsed + 1 ELSE elapsed
    /\ UNCHANGED <<wifiConnected, channel, sent, window, wrapped, outage, outcome>>

WifiUp ==
    /\ ~wifiConnected
    /\ wifiConnected' = TRUE
    /\ UNCHANGED <<now, channel, history>>

WifiDown ==
    /\ wifiConnected
    /\ wifiConnected' = FALSE
    /\ UNCHANGED <<now, channel, history>>

ChannelNext ==
    \/ Load
    \/ ProcessReliable
    \/ HandleAck
    \/ Tick
    \/ WifiUp
    \/ WifiDown

ChannelSpec == ChannelInit /\ [][ChannelNext]_channelVars

(***************************************************************************)
(* The clock advances, the station reconnects (manejarWiFi retries every   *)
(* five seconds for ever), and loop(), which runs every few milliseconds,  *)
(* is served whenever the deadline keeps passing, however WiFi flaps.      *)
(***************************************************************************)
Fairness ==
    /\ WF_channelVars(Tick)
    /\ WF_channelVars(WifiUp)
    /\ SF_channelVars(GiveUp)
    /\ SF_channelVars(Transmit)
    /\ SF_channelVars(SkipTransmission)

FairSpec == ChannelSpec /\ Fairness

-----------------------------------------------------------------------------

(* Every variable keeps its type.                                          *)
ChannelTypeOK ==
    /\ now \in 0 .. ClockModulus - 1
    /\ wifiConnected \in BOOLEAN
    /\ active \in BOOLEAN
    /\ waitingAck \in BOOLEAN
    /\ attempt \in 0 .. MaxRetries
    /\ nextRetryAt \in 0 .. ClockModulus - 1
    /\ sent \in 0 .. MaxRetries
    /\ window \in 0 .. BackoffMax
    /\ elapsed \in 0 .. BackoffMax
    /\ wrapped \in BOOLEAN
    /\ outage \in BOOLEAN
    /\ outcome \in {"none", "acked", "abandoned"}

Presses == active /\ sent > 0 /\ (sent' > sent \/ outcome' = "abandoned")

(* An answer has the whole backoff of its transmission to arrive: neither  *)
(* the next transmission nor the abandonment comes earlier, unless the     *)
(* deadline wrapped (IoTNode.cpp:114, 130).                                *)
AckHasItsWindow == [][Presses => elapsed = window \/ wrapped]_channelVars

(* A packet is given up only after it was transmitted, and after all the   *)
(* IOT_MAX_RETRIES transmissions unless an outage consumed some of them.   *)
AbandonedAfterAllAttempts ==
    outcome = "abandoned" =>
        /\ sent >= 1
        /\ ~outage => sent = MaxRetries

(* The channel never holds the queue for ever: a packet loaded is          *)
(* acknowledged or abandoned.                                              *)
ChannelIsFreed == active ~> ~active

-----------------------------------------------------------------------------
(* What the documentation says, and a run refutes.                         *)

(* "Comparaciones de tiempo seguras ante rollover de millis()"             *)
(* (.ai/CODING_STYLE.md:39): the same holds when the deadline wraps.       *)
AckHasItsWindowAtRollover == [][Presses => elapsed = window]_channelVars

=============================================================================
