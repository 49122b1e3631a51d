----------------------------- MODULE AlarmLink -----------------------------
(***************************************************************************)
(* A sensor node and the central, each an IoTNode, across a network that   *)
(* loses, duplicates, delays and reorders datagrams, with either node      *)
(* rebooting at any time.                                                  *)
(*                                                                         *)
(* The emitter queues a HELLO at boot and an EVENT per detection, sends    *)
(* them one at a time through its reliable channel, and sends telemetry    *)
(* (HEARTBEAT, STATE_REPORT) directly.  The central acknowledges every     *)
(* reliable packet, then decides from BOOT_ID and SEQ whether it reaches   *)
(* the handler.  A STATE_REQUEST of the central is how the emitter learns  *)
(* that the central rebooted.                                              *)
(*                                                                         *)
(* The network is the set of the datagrams sent so far: any of them may    *)
(* arrive at any time, again, or never.  Timers are left out (they are in  *)
(* ReliableChannel): a retry or an abandonment may come at any time, and   *)
(* at each transmission WiFi may be up or down.  Both nodes are single-    *)
(* threaded: one pass over one datagram is one step.                       *)
(***************************************************************************)
EXTENDS SeqWindow, SlotQueue, FiniteSets

CONSTANTS
    BootModulus,        \* 2^16 in the code
    MaxRetries,         \* IOT_MAX_RETRIES, 5 in the code
    EmitterVolatileIds, \* what _volatileBootId may return in the emitter;
    CentralVolatileIds, \* and in the central; {} while LittleFS works
    MaxSeq,             \* bound on the packets numbered in one boot
    MaxBoots,           \* bound on the boots of the emitter
    MaxCentralBoots     \* bound on the boots of the central

ASSUME LinkAssumption ==
    /\ BootModulus \in Nat \ {0, 1}
    /\ MaxRetries \in Nat \ {0}
    /\ EmitterVolatileIds \subseteq 1 .. BootModulus - 1
    /\ CentralVolatileIds \subseteq 1 .. BootModulus - 1
    /\ MaxSeq \in Nat \ {0} /\ 2 * MaxSeq <= SeqModulus
    /\ MaxBoots \in Nat \ {0} /\ 2 * MaxBoots <= BootModulus
    /\ MaxCentralBoots \in Nat \ {0} /\ 2 * MaxCentralBoots <= BootModulus

VARIABLES
    bootCount,      \* emitter: /iot/boot_count in flash
    bootId,         \* emitter: _bootId
    seq,            \* emitter: _seq
    queue,          \* emitter: _queue, each packet known by its SEQ
    reliable,       \* emitter: _reliable
    remote,         \* emitter: bootId of the central in _remotes (0: none)
    cBootCount,     \* central: /iot/boot_count in flash
    cBootId,        \* central: _bootId
    session,        \* central: bootId of the emitter in _remotes (0: none)
    window,         \* central: its deduplication window for the emitter
    net,            \* the datagrams sent so far
    boots,          \* history: boots of the emitter
    cBoots,         \* history: boots of the central
    confirmed,      \* history: packets the emitter took an ACK for
    handled,        \* history: reliable packets given to the handler
    repeated        \* history: those given twice during one central boot

emitter == <<bootCount, bootId, seq, queue, reliable, remote>>
central == <<cBootCount, cBootId, session, window>>
history == <<boots, cBoots, confirmed, handled, repeated>>
vars == <<emitter, central, net, history>>

-----------------------------------------------------------------------------

ReliableTypes == {"HELLO", "EVENT"}

(* A reliable packet carries the SEQ of its boot; boot is the BOOT_ID on   *)
(* the wire and ord, a history field, the boot it really comes from.       *)
Packet(type, s) == [type |-> type, ord |-> boots, boot |-> bootId, seq |-> s]

(* HEARTBEAT and STATE_REPORT do to the registry the same thing, and their *)
(* SEQ is read by nobody.                                                  *)
Telemetry == [type |-> "TELEMETRY", ord |-> boots, boot |-> bootId, seq |-> 0]

(* _sendAutoAck: the SEQ of the packet, the BOOT_ID of the central.  ord   *)
(* is history: the boot of the emitter whose packet is acknowledged.       *)
Ack(m) == [type |-> "ACK", ord |-> m.ord, boot |-> cBootId, seq |-> m.seq]

StateRequest == [type |-> "STATE_REQUEST", ord |-> 0, boot |-> cBootId, seq |-> 0]

bootIdIsNewer(candidate, current) == IsNewer(candidate, current, BootModulus)

(* Mutant of IsOldSession: any other session is taken for an old one.      *)
IsOtherSession(known, boot) == known # 0 /\ known # boot

(* _updateRemote refuses a packet of a session older than the known one.   *)
IsOldSession(known, boot) ==
    known # 0 /\ known # boot /\ ~bootIdIsNewer(boot, known)

(* getBootId when the counter reached flash; 0 is never used.              *)
StoredBootId(count) ==
    IF count % BootModulus = 0 THEN 1 ELSE count % BootModulus

(* The fields of an inactive channel are overwritten before they are read. *)
(* expectedBootKnown is expectedBootId # 0.                                *)
IdleChannel ==
    [active |-> FALSE, waitingAck |-> FALSE, seq |-> 0, attempt |-> 0,
     expectedBootId |-> 0]

HelloSeq == 1

HelloQueue == [EmptyQueue EXCEPT ![0] = Filled(HelloSeq, NORMAL)]

TypeOf(s) == IF s = HelloSeq THEN "HELLO" ELSE "EVENT"

(* The emitter after setup(): the HELLO numbered and queued.               *)
Init ==
    /\ bootCount = 1
    /\ bootId = StoredBootId(1)
    /\ seq = HelloSeq
    /\ queue = HelloQueue
    /\ reliable = IdleChannel
    /\ remote = 0
    /\ cBootCount = 1
    /\ cBootId = StoredBootId(1)
    /\ session = 0
    /\ window = EmptyWindow
    /\ net = {}
    /\ boots = 1
    /\ cBoots = 1
    /\ confirmed = {}
    /\ handled = {}
    /\ repeated = {}

-----------------------------------------------------------------------------
(* The emitter.                                                            *)

(* sendEvent reserves the next SEQ and commits it if there is a free slot. *)
(* No slot ever holds a BACKGROUND packet, so a full queue has no victim:  *)
(* the event is refused, and neither the queue nor the SEQ changes.        *)
SendEvent ==
    /\ seq < MaxSeq
    /\ seq' = NextNonZero(seq, SeqModulus)
    /\ \E i \in Slots :
          /\ IsFirstFree(queue, i)
          /\ queue' = [queue EXCEPT ![i] = Filled(seq', URGENT)]
    /\ UNCHANGED <<bootCount, bootId, reliable, remote, central, net, history>>

(* _sendHeartbeat numbers its packet even when WiFi is down.               *)
SendHeartbeat ==
    /\ seq < MaxSeq
    /\ seq' = NextNonZero(seq, SeqModulus)
    /\ net' = net \cup {Telemetry}
    /\ UNCHANGED <<bootCount, bootId, queue, reliable, remote, central, history>>

(* _processQueue loads the channel; what it expects of the ACK is the      *)
(* session of the central it knows by then.                                *)
ProcessQueue ==
    /\ ~reliable.active
    /\ \E i \in Slots :
          /\ IsHighestPriorityEntry(queue, i)
          /\ reliable' = [active |-> TRUE, waitingAck |-> FALSE,
                          seq |-> queue[i].pkt, attempt |-> 0,
                          expectedBootId |-> remote]
          /\ queue' = [queue EXCEPT ![i] = FreeSlot]
    /\ UNCHANGED <<bootCount, bootId, seq, remote, central, net, history>>

CurrentAttempt ==
    IF reliable.waitingAck THEN reliable.attempt + 1 ELSE reliable.attempt

Exhausted == reliable.waitingAck /\ CurrentAttempt >= MaxRetries

(* _processReliable, the three ways out once the deadline has passed.      *)
GiveUp ==
    /\ reliable.active
    /\ Exhausted
    /\ reliable' = IdleChannel
    /\ UNCHANGED <<bootCount, bootId, seq, queue, remote, central, net, history>>

Transmit ==
    /\ reliable.active
    /\ ~Exhausted
    /\ net' = net \cup {Packet(TypeOf(reliable.seq), reliable.seq)}
    /\ reliable' = [reliable EXCEPT !.waitingAck = TRUE,
                                    !.attempt = CurrentAttempt]
    /\ UNCHANGED <<bootCount, bootId, seq, queue, remote, central, history>>

SkipTransmission ==
    /\ reliable.active
    /\ ~Exhausted
    /\ reliable.waitingAck
    /\ reliable' = [reliable EXCEPT !.attempt = CurrentAttempt]
    /\ UNCHANGED <<bootCount, bootId, seq, queue, remote, central, net, history>>

(* Mutant of AckMatches: the SEQ is not compared.                          *)
AckMatchesAny(m) == reliable.active /\ reliable.waitingAck

(* _handleAck: only the packet in flight can be confirmed.  The ACK must   *)
(* come from the known session of the central, unless none was known yet:  *)
(* then it is the ACK that establishes it.                                 *)
AckMatches(m) ==
    /\ reliable.active
    /\ reliable.waitingAck
    /\ m.seq = reliable.seq

Bootstrap == reliable.expectedBootId = 0 /\ remote = 0

AckInSession(m) == remote # 0 /\ m.boot = remote /\ m.boot = reliable.expectedBootId

HandleAck(m) ==
    /\ m.type = "ACK"
    /\ AckMatches(m)
    /\ Bootstrap \/ AckInSession(m)
    /\ remote' = m.boot
    /\ reliable' = IdleChannel
    /\ confirmed' = confirmed \cup {[ord |-> boots, seq |-> reliable.seq]}
    /\ UNCHANGED <<bootCount, bootId, seq, queue, central, net,
                   boots, cBoots, handled, repeated>>

(* Mutant of ReceiveStateRequest: a packet in flight is bound to the first *)
(* session of the central heard of, and never rebound to a later one.      *)
ReceiveBindingOnce(m) ==
    /\ m.type = "STATE_REQUEST"
    /\ ~IsOldSession(remote, m.boot)
    /\ seq < MaxSeq
    /\ remote' = m.boot
    /\ reliable' = IF reliable.active /\ remote = 0
                   THEN [reliable EXCEPT !.expectedBootId = m.boot]
                   ELSE reliable
    /\ seq' = NextNonZero(seq, SeqModulus)
    /\ net' = net \cup {Telemetry}
    /\ UNCHANGED <<bootCount, bootId, queue, central, history>>

(* A STATE_REQUEST updates the registry, rebinds the packet in flight to a *)
(* new session of the central, and is answered with a numbered             *)
(* STATE_REPORT; one of an old session is dropped.                         *)
ReceiveStateRequest(m) ==
    /\ m.type = "STATE_REQUEST"
    /\ ~IsOldSession(remote, m.boot)
    /\ seq < MaxSeq
    /\ remote' = m.boot
    /\ reliable' = IF reliable.active /\ remote # m.boot
                   THEN [reliable EXCEPT !.expectedBootId = m.boot]
                   ELSE reliable
    /\ seq' = NextNonZero(seq, SeqModulus)
    /\ net' = net \cup {Telemetry}
    /\ UNCHANGED <<bootCount, bootId, queue, central, history>>

(* A reset: only flash survives.  getBootId takes the next count, or, when *)
(* storage fails, a number with no relation to the earlier ones.           *)
EmitterReboot ==
    /\ boots < MaxBoots
    /\ boots' = boots + 1
    /\ \/ /\ bootCount' = bootCount + 1
          /\ bootId' = StoredBootId(bootCount')
       \/ /\ bootId' \in EmitterVolatileIds
          /\ UNCHANGED bootCount
    /\ seq' = HelloSeq
    /\ queue' = HelloQueue
    /\ reliable' = IdleChannel
    /\ remote' = 0
    /\ UNCHANGED <<central, net, cBoots, confirmed, handled, repeated>>

-----------------------------------------------------------------------------
(* The central.  _processIncoming acknowledges a reliable packet before it *)
(* looks at the session or at the window.                                  *)

IsReliable(m) == m.type \in ReliableTypes

FromEmitter(m) == IsReliable(m) \/ m.type = "TELEMETRY"

AutoAck(m) == net' = IF IsReliable(m) THEN net \cup {Ack(m)} ELSE net

(* Mutant of WindowFor: telemetry of the session empties the window too.   *)
WindowForReliable(m) ==
    IF session = m.boot /\ IsReliable(m) THEN window ELSE EmptyWindow

(* The window once _updateRemote has seen m: a new session empties it.     *)
WindowFor(m) == IF session = m.boot THEN window ELSE EmptyWindow

DiscardOldSession(m) ==
    /\ FromEmitter(m)
    /\ IsOldSession(session, m.boot)
    /\ AutoAck(m)
    /\ UNCHANGED <<emitter, central, history>>

(* A packet of a new session cannot be a duplicate: its window is empty.   *)
DiscardDuplicate(m) ==
    /\ IsReliable(m)
    /\ ~IsOldSession(session, m.boot)
    /\ IsDuplicate(WindowFor(m), m.seq)
    /\ AutoAck(m)
    /\ UNCHANGED <<emitter, central, history>>

(* The packet reaches the handler.  Telemetry is not deduplicated.         *)
Handle(m) ==
    LET p == [epoch |-> cBoots, ord |-> m.ord, seq |-> m.seq] IN
    /\ FromEmitter(m)
    /\ ~IsOldSession(session, m.boot)
    /\ IsReliable(m) => ~IsDuplicate(WindowFor(m), m.seq)
    /\ AutoAck(m)
    /\ session' = m.boot
    /\ IF IsReliable(m)
       THEN /\ window' = Accept(WindowFor(m), m.seq)
            /\ handled' = handled \cup {p}
            /\ repeated' = repeated \cup ({p} \cap handled)
       ELSE /\ window' = WindowFor(m)
            /\ UNCHANGED <<handled, repeated>>
    /\ UNCHANGED <<emitter, cBootCount, cBootId, boots, cBoots, confirmed>>

SendStateRequest ==
    /\ net' = net \cup {StateRequest}
    /\ UNCHANGED <<emitter, central, history>>

CentralReboot ==
    /\ cBoots < MaxCentralBoots
    /\ cBoots' = cBoots + 1
    /\ \/ /\ cBootCount' = cBootCount + 1
          /\ cBootId' = StoredBootId(cBootCount')
       \/ /\ cBootId' \in CentralVolatileIds
          /\ UNCHANGED cBootCount
    /\ session' = 0
    /\ window' = EmptyWindow
    /\ UNCHANGED <<emitter, net, boots, confirmed, handled, repeated>>

-----------------------------------------------------------------------------

Next ==
    \/ SendEvent
    \/ SendHeartbeat
    \/ ProcessQueue
    \/ GiveUp
    \/ Transmit
    \/ SkipTransmission
    \/ EmitterReboot
    \/ SendStateRequest
    \/ CentralReboot
    \/ \E m \in net :
          \/ HandleAck(m)
          \/ ReceiveStateRequest(m)
          \/ DiscardOldSession(m)
          \/ DiscardDuplicate(m)
          \/ Handle(m)

Spec == Init /\ [][Next]_vars

-----------------------------------------------------------------------------

BootIds == 1 .. BootModulus - 1

Messages ==
    [type : ReliableTypes \cup {"ACK"}, ord : 1 .. MaxBoots,
     boot : BootIds, seq : 1 .. MaxSeq]
    \cup [type : {"TELEMETRY"}, ord : 1 .. MaxBoots, boot : BootIds, seq : {0}]
    \cup [type : {"STATE_REQUEST"}, ord : {0}, boot : BootIds, seq : {0}]

(* Every variable keeps its type.                                          *)
TypeOK ==
    /\ bootCount \in 1 .. MaxBoots
    /\ bootId \in BootIds
    /\ seq \in 1 .. MaxSeq
    /\ queue \in [Slots -> Entries]
    /\ reliable \in [active : BOOLEAN, waitingAck : BOOLEAN,
                     seq : 0 .. MaxSeq, attempt : 0 .. MaxRetries - 1,
                     expectedBootId : 0 .. BootModulus - 1]
    /\ remote \in 0 .. BootModulus - 1
    /\ cBootCount \in 1 .. MaxCentralBoots
    /\ cBootId \in BootIds
    /\ session \in 0 .. BootModulus - 1
    /\ window \in Windows
    /\ net \subseteq Messages
    /\ boots \in 1 .. MaxBoots
    /\ cBoots \in 1 .. MaxCentralBoots
    /\ confirmed \subseteq [ord : 1 .. MaxBoots, seq : 1 .. MaxSeq]
    /\ handled \subseteq [epoch : 1 .. MaxCentralBoots,
                          ord : 1 .. MaxBoots, seq : 1 .. MaxSeq]
    /\ repeated \subseteq handled

(* The channel and the registry of the emitter never disagree on the       *)
(* session of the central, though the one is a copy of the other made when *)
(* the packet was loaded.  If they did, every ACK would be refused and the *)
(* packet retried until abandoned (IoTNode.cpp:350-354, 397-407).          *)
SessionAgreement ==
    reliable.active => reliable.expectedBootId = remote

(* During one boot of the central no packet is handled twice, whatever the *)
(* network repeats and however often the emitter reboots                   *)
(* (IoTNode.cpp:345, 358).                                                 *)
AtMostOncePerBoot == repeated = {}

(* Once a packet of one boot of the emitter was handled, none of an        *)
(* earlier boot is: the replay protection BOOT_ID is for                   *)
(* (IoTNode.cpp:551-554).                                                  *)
HandledInBootOrder ==
    [][\A h \in handled' \ handled, g \in handled :
          h.epoch = g.epoch => g.ord <= h.ord]_vars

WasHandled(p) == \E h \in handled : h.ord = p.ord /\ h.seq = p.seq

(* A later packet of the same boot, a whole window ahead, was handled.     *)
WasOvertaken(p) ==
    \E h \in handled : h.ord = p.ord /\ h.seq >= p.seq + WindowSize

(* A packet of an earlier boot with the same SEQ was sent: an ACK names    *)
(* the packet it answers by its SEQ alone.                                 *)
IsAmbiguous(p) ==
    \E m \in net : IsReliable(m) /\ m.ord < p.ord /\ m.seq = p.seq

(* The ways a packet can be confirmed to the emitter and yet never reach   *)
(* the handler of the central are exactly two: the window moved past it,   *)
(* or the ACK answered an earlier boot.                                    *)
ConfirmedLossIsExplained ==
    \A p \in confirmed : WasHandled(p) \/ WasOvertaken(p) \/ IsAmbiguous(p)

(* A node whose counter has reached flash at every boot so far is not shut *)
(* out: the other never takes a packet of its present boot for one of an   *)
(* old session (IoTNode.cpp:551-554).                                      *)
NeverShutOut ==
    /\ boots = bootCount =>
          \A m \in net : FromEmitter(m) /\ m.ord = boots
                            => ~IsOldSession(session, m.boot)
    /\ cBoots = cBootCount => ~IsOldSession(remote, cBootId)

(* What IoTStorage.cpp:116-121 says of a boot whose number is volatile: it *)
(* may lose its first events, until their SEQ is past the window of the    *)
(* central.  The code does not keep to it: a number behind the known one   *)
(* loses every packet of the boot, whatever its SEQ (IoTNode.cpp:553).     *)
OnlyFirstSeqsAreLost ==
    \A m \in net :
        /\ IsReliable(m) /\ m.ord = boots
        /\ ~IsFirst(window) /\ m.seq > window.highest
        => ~IsOldSession(session, m.boot)

(* A node boots at least as often as its counter reaches flash.            *)
CountersBehindBoots == bootCount <= boots /\ cBootCount <= cBoots

(* The packets held by the emitter are numbered ones of this boot.         *)
PacketsNumbered ==
    /\ \A i \in Occupied(queue) : queue[i].pkt \in 1 .. seq
    /\ reliable.active => reliable.seq \in 1 .. seq

(* The inductive invariant behind SessionAgreement and the types.          *)
IInv ==
    /\ TypeOK
    /\ CountersBehindBoots
    /\ PacketsNumbered
    /\ SessionAgreement

(***************************************************************************)
(* While the counter of the emitter reaches flash, its boot numbers count  *)
(* its boots, and the rest of what the central relies on follows.          *)
(***************************************************************************)
EmitterIdsCount ==
    /\ bootCount = boots /\ bootId = boots
    /\ session <= boots
    /\ \A m \in net : FromEmitter(m) => m.boot = m.ord /\ m.ord <= boots

CentralIdsCount ==
    /\ cBootCount = cBoots /\ cBootId = cBoots
    /\ remote <= cBoots
    /\ \A m \in net : ~FromEmitter(m) => m.boot <= cBoots

(* What was handled in this boot of the central is behind the session or   *)
(* remembered by the window.                                               *)
HandledIsRemembered ==
    \A h \in handled :
        /\ h.epoch <= cBoots
        /\ h.epoch = cBoots => h.ord <= session
        /\ h.epoch = cBoots /\ h.ord = session => Remembers(window, h.seq)

(* And the window remembers nothing else.                                  *)
WindowIsEarned ==
    ~IsFirst(window) =>
        /\ 0 \in window.bitmap
        /\ window.highest \in 1 .. MaxSeq
        /\ \A age \in window.bitmap :
              WasHandled([ord |-> session, seq |-> window.highest - age])

(* An ACK answers a packet that was sent, and that was handled, overtaken, *)
(* or of a boot that is over.                                              *)
AcksAreExplained ==
    \A a \in net : a.type = "ACK" =>
        /\ \E m \in net : IsReliable(m) /\ m.ord = a.ord /\ m.seq = a.seq
        /\ WasHandled(a) \/ WasOvertaken(a) \/ a.ord < boots

(* The inductive invariant behind AtMostOncePerBoot, HandledInBootOrder    *)
(* and ConfirmedLossIsExplained while the emitter's storage works.         *)
DeliveryInv ==
    /\ IInv
    /\ EmitterIdsCount
    /\ HandledIsRemembered
    /\ WindowIsEarned
    /\ AcksAreExplained
    /\ AtMostOncePerBoot
    /\ ConfirmedLossIsExplained

=============================================================================
