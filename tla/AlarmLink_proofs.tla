-------------------------- MODULE AlarmLink_proofs -------------------------
(***************************************************************************)
(* The link, for every size of the queue, the window and the counters and  *)
(* any number of reboots within the bounds.  Four parts:                   *)
(*   - types and the agreement on sessions, with volatile boot numbers too;*)
(*   - delivery while the boot counter of the emitter reaches flash        *)
(*     (EmitterVolatileIds = {}): at most once per boot of the central, in *)
(*     the order of the boots, lost after confirmation in two ways only;   *)
(*   - that a node whose counter reached flash at every boot is not shut   *)
(*     out, whatever the storage of the other does;                        *)
(*   - that the link implements EventDelivery under the same assumption as *)
(*     delivery.                                                           *)
(***************************************************************************)
EXTENDS AlarmLinkDelivery, TLAPS

(* An unsigned difference stays within the counter.                        *)
LEMMA DeltaType ==
    ASSUME NEW a \in 0 .. SeqModulus - 1, NEW b \in 0 .. SeqModulus - 1
    PROVE  Delta(a, b, SeqModulus) \in 0 .. SeqModulus - 1
BY SeqWindowAssumption DEF Delta, SeqWindowAssumption

(* What Accept makes of a window is a window, and no longer an empty one.  *)
LEMMA AcceptType ==
    ASSUME NEW w \in Windows, NEW s \in 0 .. SeqModulus - 1,
           ~IsDuplicate(w, s)
    PROVE  /\ Accept(w, s) \in Windows
           /\ ~IsFirst(Accept(w, s))
<1>1. 0 \in Ages
  BY SeqWindowAssumption DEF Ages, SeqWindowAssumption
<1>2. Slide(w, s) \subseteq Ages
  BY DEF Slide
<1>3. CASE IsFirst(w)
  BY <1>1, <1>3 DEF Accept, Windows, IsFirst
<1>4. CASE ~IsFirst(w) /\ seqIsNewer(s, w.highest)
  BY <1>1, <1>2, <1>4 DEF Accept, Windows, IsFirst
<1>5. CASE ~IsFirst(w) /\ ~seqIsNewer(s, w.highest)
  <2>1. Age(w, s) \in Ages
    BY <1>5, DeltaType, SeqWindowAssumption
    DEF IsDuplicate, Age, Ages, Windows, SeqWindowAssumption
  <2> QED
    BY <1>5, <2>1 DEF Accept, Windows, IsFirst
<1> QED
  BY <1>3, <1>4, <1>5

(***************************************************************************)
(* Among numbers less than half a cycle apart the wire order is the order  *)
(* of the numbers.                                                         *)
(***************************************************************************)
LEMMA SmallSeqs ==
    ASSUME NEW N \in Nat, 2 * N <= SeqModulus,
           NEW a \in 1 .. N, NEW b \in 1 .. N
    PROVE  /\ seqIsNewer(a, b) <=> a > b
           /\ a >= b => Delta(a, b, SeqModulus) = a - b
BY SeqWindowAssumption DEF seqIsNewer, IsNewer, Delta, SeqWindowAssumption

(* What is remembered is refused.                                          *)
LEMMA RememberedIsDuplicate ==
    ASSUME NEW N \in Nat, 2 * N <= SeqModulus,
           NEW w \in Windows, w.highest \in 1 .. N,
           NEW s \in 1 .. N, Remembers(w, s)
    PROVE  IsDuplicate(w, s)
BY SmallSeqs, SeqWindowAssumption
DEF IsDuplicate, Remembers, Age, Windows, SeqWindowAssumption

(***************************************************************************)
(* Accepting s remembers s and all that was remembered, and sets no bit    *)
(* but that of s.                                                          *)
(***************************************************************************)
LEMMA AcceptRemembers ==
    ASSUME NEW N \in Nat, 2 * N <= SeqModulus,
           NEW w \in Windows, NEW s \in 1 .. N, ~IsDuplicate(w, s),
           ~IsFirst(w) => w.highest \in 1 .. N /\ 0 \in w.bitmap
    PROVE  LET v == Accept(w, s) IN
           /\ v.highest \in 1 .. N
           /\ 0 \in v.bitmap
           /\ Remembers(v, s)
           /\ \A r \in 1 .. N : Remembers(w, r) => Remembers(v, r)
           /\ \A age \in v.bitmap :
                 \/ v.highest - age = s
                 \/ /\ ~IsFirst(w)
                    /\ w.highest - (v.highest - age) \in w.bitmap
<1> DEFINE v == Accept(w, s)
<1>1. CASE IsFirst(w)
  <2>1. v.highest = s /\ v.bitmap = {0}
    BY <1>1 DEF Accept
  <2> QED
    BY <1>1, <2>1 DEF Remembers, IsFirst
<1>2. CASE ~IsFirst(w) /\ seqIsNewer(s, w.highest)
  <2>1. /\ v.highest = s
        /\ v.bitmap = {0} \cup Slide(w, s)
    BY <1>2 DEF Accept
  <2>2. /\ w.highest \in 1 .. N /\ s > w.highest
        /\ Delta(s, w.highest, SeqModulus) = s - w.highest
    BY <1>2, SmallSeqs
  <2>3. \A age \in Slide(w, s) :
          age \in Ages /\ age - (s - w.highest) \in w.bitmap
    BY <2>2 DEF Slide
  <2>4. \A age \in Ages :
          age - (s - w.highest) \in w.bitmap => age \in Slide(w, s)
    BY <2>2 DEF Slide
  <2>5. Remembers(v, s)
    BY <2>1 DEF Remembers, IsFirst
  <2>6. ASSUME NEW r \in 1 .. N, Remembers(w, r) PROVE Remembers(v, r)
    <3>1. r <= w.highest /\ w.highest - r < WindowSize
                              => w.highest - r \in w.bitmap
      BY <2>6 DEF Remembers
    <3>2. ASSUME s - r < WindowSize PROVE s - r \in v.bitmap
      <4>1. s - r \in Ages /\ w.highest - r < WindowSize
        BY <2>2, <2>6, <3>1, <3>2, SeqWindowAssumption
        DEF Ages, Remembers, SeqWindowAssumption
      <4>2. (s - r) - (s - w.highest) = w.highest - r
        BY <2>2
      <4> QED
        BY <2>1, <2>4, <2>6, <3>1, <4>1, <4>2 DEF Remembers
    <3> QED
      BY <2>1, <2>2, <2>6, <3>2 DEF Remembers, IsFirst
  <2>7. ASSUME NEW age \in v.bitmap
        PROVE  v.highest - age = s \/ w.highest - (v.highest - age) \in w.bitmap
    <3>1. CASE age = 0
      BY <2>1, <3>1
    <3>2. CASE age \in Slide(w, s)
      <4>1. age \in Int /\ w.highest - (s - age) = age - (s - w.highest)
        BY <2>2, <2>3, <3>2 DEF Ages
      <4> QED
        BY <2>1, <2>3, <3>2, <4>1
    <3> QED
      BY <2>1, <2>7, <3>1, <3>2
  <2> QED
    BY <1>2, <2>1, <2>5, <2>6, <2>7
<1>3. CASE ~IsFirst(w) /\ ~seqIsNewer(s, w.highest)
  <2>1. /\ v.highest = w.highest
        /\ v.bitmap = w.bitmap \cup {w.highest - s}
        /\ w.highest \in 1 .. N /\ s <= w.highest
    BY <1>3, SmallSeqs DEF Accept, Age
  <2> QED
    BY <1>3, <2>1 DEF Remembers, IsFirst, Windows, Ages
<1> QED
  BY <1>1, <1>2, <1>3

(* Away from the wrap the next SEQ is the next number.                     *)
LEMMA NextSeq ==
    ASSUME NEW s \in 1 .. MaxSeq, s < MaxSeq
    PROVE  NextNonZero(s, SeqModulus) = s + 1
BY LinkAssumption, SeqWindowAssumption
DEF NextNonZero, LinkAssumption, SeqWindowAssumption

(* A stored boot number is never 0 and fits its width.                     *)
LEMMA StoredBootIdType ==
    ASSUME NEW n \in Nat
    PROVE  StoredBootId(n) \in BootIds
<1>1. n % BootModulus \in 0 .. BootModulus - 1
  BY LinkAssumption, SMT DEF LinkAssumption
<1> QED
  BY <1>1, LinkAssumption DEF StoredBootId, BootIds, LinkAssumption

(* What the slots of the queue may hold.                                   *)
LEMMA SlotTypes ==
    /\ FreeSlot \in Entries
    /\ \A p \in Nat, pri \in Priorities :
          /\ Filled(p, pri) \in Entries
          /\ Filled(p, pri).pkt = p
BY DEF FreeSlot, Filled, Entries, Priorities, BACKGROUND

(* The queue after a boot holds the HELLO alone.                           *)
LEMMA HelloQueueType ==
    /\ HelloQueue \in [Slots -> Entries]
    /\ \A i \in Occupied(HelloQueue) : HelloQueue[i].pkt = HelloSeq
<1>1. 0 \in Slots
  BY QueueSizeAssumption DEF Slots, QueueSizeAssumption
<1>2. NORMAL \in Priorities /\ HelloSeq \in Nat
  BY DEF Priorities, HelloSeq
<1>3. EmptyQueue \in [Slots -> Entries]
  BY SlotTypes DEF EmptyQueue
<1>4. HelloQueue \in [Slots -> Entries]
  BY <1>1, <1>2, <1>3, SlotTypes DEF HelloQueue
<1>5. /\ HelloQueue[0] = Filled(HelloSeq, NORMAL)
      /\ \A i \in Slots \ {0} : HelloQueue[i] = FreeSlot
  BY <1>1 DEF HelloQueue, EmptyQueue
<1> QED
  BY <1>2, <1>4, <1>5, SlotTypes DEF Occupied, FreeSlot

LEMMA InitIInv == Init => IInv
<1> SUFFICES ASSUME Init PROVE IInv
  OBVIOUS
<1>2. StoredBootId(1) \in BootIds
  BY StoredBootIdType
<1>3. TypeOK
  BY HelloQueueType, <1>2, LinkAssumption, SeqWindowAssumption
  DEF Init, TypeOK, IdleChannel, Windows, EmptyWindow, HelloSeq,
      LinkAssumption, SeqWindowAssumption
<1>4. PacketsNumbered
  BY HelloQueueType DEF Init, PacketsNumbered, IdleChannel, HelloSeq
<1> QED
  BY <1>3, <1>4
  DEF Init, IInv, CountersBehindBoots, SessionAgreement, IdleChannel

(* Filling a free slot with the next SEQ keeps the queue well formed.      *)
LEMMA QueueAfterEvent ==
    ASSUME TypeOK, PacketsNumbered, SendEvent
    PROVE  /\ queue' \in [Slots -> Entries]
           /\ seq' = seq + 1 /\ seq' \in 1 .. MaxSeq
           /\ PacketsNumbered'
<1>1. seq \in 1 .. MaxSeq /\ seq < MaxSeq /\ seq' = NextNonZero(seq, SeqModulus)
  BY DEF SendEvent, TypeOK
<1>2. seq' = seq + 1 /\ seq' \in 1 .. MaxSeq /\ seq' \in Nat
  BY <1>1, NextSeq, LinkAssumption DEF LinkAssumption
<1>3. PICK i \in Slots : queue' = [queue EXCEPT ![i] = Filled(seq', URGENT)]
  BY DEF SendEvent
<1>4. /\ queue \in [Slots -> Entries]
      /\ Filled(seq', URGENT) \in Entries
  BY <1>2, SlotTypes DEF TypeOK, Priorities
<1>5. /\ queue' \in [Slots -> Entries]
      /\ queue'[i].pkt = seq'
      /\ \A j \in Slots \ {i} : queue'[j] = queue[j]
  BY <1>3, <1>4 DEF Filled
<1>6. \A j \in Occupied(queue') : queue'[j].pkt \in 1 .. seq'
  BY <1>2, <1>5, <1>1 DEF PacketsNumbered, Occupied
<1>7. reliable' = reliable
  BY DEF SendEvent
<1> QED
  BY <1>1, <1>2, <1>5, <1>6, <1>7 DEF PacketsNumbered, TypeOK

LEMMA EventKeepsIInv ==
    ASSUME IInv, SendEvent PROVE IInv'
BY QueueAfterEvent
DEF IInv, SendEvent, TypeOK, CountersBehindBoots, SessionAgreement,
    central, history

(* A message made of the present state is a message.                       *)
LEMMA MessageTypes ==
    ASSUME TypeOK
    PROVE  /\ Telemetry \in Messages
           /\ StateRequest \in Messages
           /\ \A s \in 1 .. MaxSeq : Packet(TypeOf(s), s) \in Messages
           /\ \A m \in Messages : IsReliable(m) => Ack(m) \in Messages
BY DEF TypeOK, Telemetry, StateRequest, Packet, Ack, TypeOf, IsReliable,
       Messages, ReliableTypes

LEMMA HeartbeatKeepsIInv ==
    ASSUME IInv, SendHeartbeat PROVE IInv'
<1>1. seq' = seq + 1 /\ seq' \in 1 .. MaxSeq /\ seq \in 1 .. MaxSeq
  BY NextSeq, LinkAssumption DEF SendHeartbeat, IInv, TypeOK, LinkAssumption
<1>2. net' \subseteq Messages
  BY MessageTypes DEF SendHeartbeat, IInv, TypeOK
<1>3. PacketsNumbered'
  BY <1>1 DEF IInv, PacketsNumbered, SendHeartbeat, TypeOK, Entries, Occupied
<1> QED
  BY <1>1, <1>2, <1>3
  DEF IInv, SendHeartbeat, TypeOK, CountersBehindBoots, SessionAgreement,
      central, history

LEMMA ProcessQueueKeepsIInv ==
    ASSUME IInv, ProcessQueue PROVE IInv'
<1>1. PICK i \in Slots :
        /\ i \in Occupied(queue)
        /\ reliable' = [active |-> TRUE, waitingAck |-> FALSE,
                        seq |-> queue[i].pkt, attempt |-> 0,
                        expectedBootId |-> remote]
        /\ queue' = [queue EXCEPT ![i] = FreeSlot]
  BY DEF ProcessQueue, IsHighestPriorityEntry
<1>2. queue[i].pkt \in 1 .. seq /\ seq \in 1 .. MaxSeq
  BY <1>1 DEF IInv, PacketsNumbered, TypeOK
<1>4. /\ queue' \in [Slots -> Entries]
      /\ queue'[i] = FreeSlot
      /\ \A j \in Slots \ {i} : queue'[j] = queue[j]
  BY <1>1, SlotTypes DEF IInv, TypeOK
<1>5. PacketsNumbered'
  BY <1>1, <1>2, <1>4
  DEF IInv, PacketsNumbered, ProcessQueue, Occupied, FreeSlot
<1>6. reliable' \in [active : BOOLEAN, waitingAck : BOOLEAN,
                     seq : 0 .. MaxSeq, attempt : 0 .. MaxRetries - 1,
                     expectedBootId : 0 .. BootModulus - 1]
  BY <1>1, <1>2, LinkAssumption DEF IInv, TypeOK, LinkAssumption
<1>7. TypeOK'
  BY <1>4, <1>6 DEF IInv, TypeOK, ProcessQueue, central, history
<1> QED
  BY <1>1, <1>5, <1>7
  DEF IInv, ProcessQueue, CountersBehindBoots, SessionAgreement,
      central, history

(* The channel keeps its type through an attempt.                          *)
LEMMA AttemptType ==
    ASSUME TypeOK, ~Exhausted
    PROVE  CurrentAttempt \in 0 .. MaxRetries - 1
BY LinkAssumption DEF TypeOK, Exhausted, CurrentAttempt, LinkAssumption

Channels ==
    [active : BOOLEAN, waitingAck : BOOLEAN, seq : 0 .. MaxSeq,
     attempt : 0 .. MaxRetries - 1, expectedBootId : 0 .. BootModulus - 1]

LEMMA IdleChannelType == IdleChannel \in Channels /\ ~IdleChannel.active
BY LinkAssumption DEF IdleChannel, Channels, LinkAssumption

LEMMA GiveUpKeepsIInv ==
    ASSUME IInv, GiveUp PROVE IInv'
BY IdleChannelType
DEF IInv, GiveUp, TypeOK, Channels, CountersBehindBoots, PacketsNumbered,
    SessionAgreement, Occupied, central, history

LEMMA TransmitKeepsIInv ==
    ASSUME IInv, Transmit PROVE IInv'
<1>1. net' \subseteq Messages
  BY MessageTypes DEF Transmit, IInv, TypeOK, PacketsNumbered
<1>2. /\ reliable' \in Channels
      /\ reliable'.active = reliable.active
      /\ reliable'.seq = reliable.seq
      /\ reliable'.expectedBootId = reliable.expectedBootId
  BY AttemptType DEF Transmit, IInv, TypeOK, Channels
<1> QED
  BY <1>1, <1>2
  DEF IInv, Transmit, TypeOK, Channels, CountersBehindBoots, PacketsNumbered,
      SessionAgreement, Occupied, central, history

LEMMA SkipTransmissionKeepsIInv ==
    ASSUME IInv, SkipTransmission PROVE IInv'
<1>1. /\ reliable' \in Channels
      /\ reliable'.active = reliable.active
      /\ reliable'.seq = reliable.seq
      /\ reliable'.expectedBootId = reliable.expectedBootId
  BY AttemptType DEF SkipTransmission, IInv, TypeOK, Channels
<1> QED
  BY <1>1
  DEF IInv, SkipTransmission, TypeOK, Channels, CountersBehindBoots,
      PacketsNumbered, SessionAgreement, Occupied, central, history

LEMMA HandleAckKeepsIInv ==
    ASSUME IInv, NEW m \in net, HandleAck(m) PROVE IInv'
<1>1. m \in Messages /\ reliable.seq \in 1 .. MaxSeq
  BY DEF IInv, TypeOK, HandleAck, AckMatches, PacketsNumbered
<1>2. remote' \in 0 .. BootModulus - 1
  BY <1>1 DEF HandleAck, Messages, BootIds
<1>3. confirmed' \subseteq [ord : 1 .. MaxBoots, seq : 1 .. MaxSeq]
  BY <1>1 DEF HandleAck, IInv, TypeOK
<1> QED
  BY <1>2, <1>3, IdleChannelType
  DEF IInv, HandleAck, TypeOK, Channels, CountersBehindBoots,
      PacketsNumbered, SessionAgreement, Occupied, central, history

(* A new session of the central reaches the registry and the packet in     *)
(* flight in the same step.                                                *)
LEMMA StateRequestKeepsIInv ==
    ASSUME IInv, NEW m \in net, ReceiveStateRequest(m) PROVE IInv'
<1>1. m \in Messages
  BY DEF IInv, TypeOK
<1>2. remote' = m.boot /\ m.boot \in 0 .. BootModulus - 1
  BY <1>1 DEF ReceiveStateRequest, Messages, BootIds
<1>3. seq' = seq + 1 /\ seq' \in 1 .. MaxSeq /\ seq \in 1 .. MaxSeq
  BY NextSeq, LinkAssumption
  DEF ReceiveStateRequest, IInv, TypeOK, LinkAssumption
<1>4. net' \subseteq Messages
  BY MessageTypes DEF ReceiveStateRequest, IInv, TypeOK
<1>5. /\ reliable' \in Channels
      /\ reliable'.active = reliable.active
      /\ reliable'.seq = reliable.seq
      /\ reliable.active => reliable'.expectedBootId = m.boot
  BY <1>2 DEF ReceiveStateRequest, IInv, TypeOK, Channels, SessionAgreement
<1>6. PacketsNumbered'
  BY <1>3, <1>5
  DEF IInv, PacketsNumbered, ReceiveStateRequest, TypeOK, Entries, Occupied
<1>7. SessionAgreement'
  BY <1>2, <1>5 DEF SessionAgreement
<1> QED
  BY <1>2, <1>3, <1>4, <1>5, <1>6, <1>7
  DEF IInv, ReceiveStateRequest, TypeOK, Channels, CountersBehindBoots,
      central, history

LEMMA EmitterRebootKeepsIInv ==
    ASSUME IInv, EmitterReboot PROVE IInv'
<1>1. boots' \in 1 .. MaxBoots /\ boots' = boots + 1
  BY LinkAssumption DEF EmitterReboot, IInv, TypeOK, LinkAssumption
<1>2. bootCount \in 1 .. boots
  BY DEF IInv, TypeOK, CountersBehindBoots
<1>3. /\ bootCount' \in 1 .. MaxBoots
      /\ bootCount' <= boots'
      /\ bootId' \in BootIds
  <2>1. CASE bootCount' = bootCount + 1 /\ bootId' = StoredBootId(bootCount')
    <3>1. bootCount' \in 1 .. boots'
      BY <1>1, <1>2, <2>1, LinkAssumption DEF IInv, TypeOK, LinkAssumption
    <3>2. bootCount' \in Nat
      BY <3>1
    <3> QED
      BY <1>1, <2>1, <3>1, <3>2, StoredBootIdType, LinkAssumption
      DEF LinkAssumption
  <2>2. CASE bootId' \in EmitterVolatileIds /\ bootCount' = bootCount
    BY <1>1, <1>2, <2>2, LinkAssumption DEF IInv, TypeOK, LinkAssumption, BootIds
  <2> QED
    BY <2>1, <2>2 DEF EmitterReboot
<1>4. seq' \in 1 .. MaxSeq /\ remote' \in 0 .. BootModulus - 1
  BY LinkAssumption DEF EmitterReboot, HelloSeq, LinkAssumption
<1>5. PacketsNumbered'
  BY HelloQueueType, IdleChannelType
  DEF EmitterReboot, PacketsNumbered, HelloSeq, Occupied
<1> QED
  BY <1>1, <1>2, <1>3, <1>4, <1>5, HelloQueueType, IdleChannelType
  DEF IInv, EmitterReboot, TypeOK, Channels, CountersBehindBoots,
      SessionAgreement, central

(* The replies of the central are messages.                                *)
LEMMA AutoAckType ==
    ASSUME TypeOK, NEW m \in net, AutoAck(m)
    PROVE  net' \subseteq Messages
BY MessageTypes DEF AutoAck, TypeOK

LEMMA DiscardKeepsIInv ==
    ASSUME IInv, NEW m \in net, DiscardOldSession(m) \/ DiscardDuplicate(m)
    PROVE  IInv'
BY AutoAckType
DEF IInv, DiscardOldSession, DiscardDuplicate, TypeOK, CountersBehindBoots,
    PacketsNumbered, SessionAgreement, Occupied, emitter, central, history

(* Accepting a packet keeps the window one.                                *)
LEMMA WindowAfterHandle ==
    ASSUME TypeOK, NEW m \in net, Handle(m)
    PROVE  window' \in Windows
<1>1. m \in Messages /\ window \in Windows
  BY DEF TypeOK
<1>2. EmptyWindow \in Windows
  BY SeqWindowAssumption DEF EmptyWindow, Windows, SeqWindowAssumption
<1>3. WindowFor(m) \in Windows
  BY <1>1, <1>2 DEF WindowFor
<1>4. m.seq \in 0 .. SeqModulus - 1
  BY <1>1, LinkAssumption, SeqWindowAssumption
  DEF Messages, LinkAssumption, SeqWindowAssumption
<1>5. CASE IsReliable(m)
  <2>1. window' = Accept(WindowFor(m), m.seq) /\ ~IsDuplicate(WindowFor(m), m.seq)
    BY <1>5 DEF Handle
  <2> QED
    BY <1>3, <1>4, <2>1, AcceptType
<1>6. CASE ~IsReliable(m)
  BY <1>3, <1>6 DEF Handle
<1> QED
  BY <1>5, <1>6

LEMMA HandleKeepsIInv ==
    ASSUME IInv, NEW m \in net, Handle(m) PROVE IInv'
<1> DEFINE p == [epoch |-> cBoots, ord |-> m.ord, seq |-> m.seq]
<1>1. m \in Messages
  BY DEF IInv, TypeOK
<1>2. session' = m.boot /\ m.boot \in 0 .. BootModulus - 1
  BY <1>1 DEF Handle, Messages, BootIds
<1>3. net' \subseteq Messages
  BY AutoAckType DEF Handle, IInv
<1>4. window' \in Windows
  BY WindowAfterHandle DEF IInv
<1>5. IsReliable(m) => p \in [epoch : 1 .. MaxCentralBoots,
                              ord : 1 .. MaxBoots, seq : 1 .. MaxSeq]
  BY <1>1 DEF IInv, TypeOK, IsReliable, ReliableTypes, Messages
<1>6. /\ handled' \subseteq [epoch : 1 .. MaxCentralBoots,
                             ord : 1 .. MaxBoots, seq : 1 .. MaxSeq]
      /\ repeated' \subseteq handled'
  <2>1. CASE IsReliable(m)
    BY <1>5, <2>1 DEF Handle, IInv, TypeOK
  <2>2. CASE ~IsReliable(m)
    BY <2>2 DEF Handle, IInv, TypeOK
  <2> QED
    BY <2>1, <2>2
<1> QED
  BY <1>2, <1>3, <1>4, <1>6
  DEF IInv, Handle, TypeOK, CountersBehindBoots,
      PacketsNumbered, SessionAgreement, Occupied, emitter

LEMMA SendStateRequestKeepsIInv ==
    ASSUME IInv, SendStateRequest PROVE IInv'
BY MessageTypes
DEF IInv, SendStateRequest, TypeOK, CountersBehindBoots, PacketsNumbered,
    SessionAgreement, Occupied, emitter, central, history

LEMMA CentralRebootKeepsIInv ==
    ASSUME IInv, CentralReboot PROVE IInv'
<1>1. cBoots' \in 1 .. MaxCentralBoots /\ cBoots' = cBoots + 1
  BY LinkAssumption DEF CentralReboot, IInv, TypeOK, LinkAssumption
<1>2. cBootCount \in 1 .. cBoots
  BY DEF IInv, TypeOK, CountersBehindBoots
<1>3. /\ cBootCount' \in 1 .. MaxCentralBoots
      /\ cBootCount' <= cBoots'
      /\ cBootId' \in BootIds
  <2>1. CASE /\ cBootCount' = cBootCount + 1
             /\ cBootId' = StoredBootId(cBootCount')
    <3>1. cBootCount' \in 1 .. cBoots'
      BY <1>1, <1>2, <2>1, LinkAssumption DEF IInv, TypeOK, LinkAssumption
    <3>2. cBootCount' \in Nat
      BY <3>1
    <3> QED
      BY <1>1, <2>1, <3>1, <3>2, StoredBootIdType, LinkAssumption
      DEF LinkAssumption
  <2>2. CASE cBootId' \in CentralVolatileIds /\ cBootCount' = cBootCount
    BY <1>1, <1>2, <2>2, LinkAssumption DEF IInv, TypeOK, LinkAssumption, BootIds
  <2> QED
    BY <2>1, <2>2 DEF CentralReboot
<1>4. window' \in Windows /\ session' \in 0 .. BootModulus - 1
  BY SeqWindowAssumption, LinkAssumption
  DEF CentralReboot, EmptyWindow, Windows, SeqWindowAssumption, LinkAssumption
<1> QED
  BY <1>1, <1>3, <1>4
  DEF IInv, CentralReboot, TypeOK, CountersBehindBoots,
      PacketsNumbered, SessionAgreement, Occupied, emitter

LEMMA StepKeepsIInv == IInv /\ [Next]_vars => IInv'
<1> SUFFICES ASSUME IInv, [Next]_vars PROVE IInv'
  OBVIOUS
<1>1. CASE SendEvent
  BY <1>1, EventKeepsIInv
<1>2. CASE SendHeartbeat
  BY <1>2, HeartbeatKeepsIInv
<1>3. CASE ProcessQueue
  BY <1>3, ProcessQueueKeepsIInv
<1>4. CASE GiveUp
  BY <1>4, GiveUpKeepsIInv
<1>5. CASE Transmit
  BY <1>5, TransmitKeepsIInv
<1>6. CASE SkipTransmission
  BY <1>6, SkipTransmissionKeepsIInv
<1>7. CASE EmitterReboot
  BY <1>7, EmitterRebootKeepsIInv
<1>8. CASE SendStateRequest
  BY <1>8, SendStateRequestKeepsIInv
<1>9. CASE CentralReboot
  BY <1>9, CentralRebootKeepsIInv
<1>10. ASSUME NEW m \in net, HandleAck(m) PROVE IInv'
  BY <1>10, HandleAckKeepsIInv
<1>11. ASSUME NEW m \in net, ReceiveStateRequest(m) PROVE IInv'
  BY <1>11, StateRequestKeepsIInv
<1>12. ASSUME NEW m \in net, DiscardOldSession(m) \/ DiscardDuplicate(m)
       PROVE  IInv'
  BY <1>12, DiscardKeepsIInv
<1>13. ASSUME NEW m \in net, Handle(m) PROVE IInv'
  BY <1>13, HandleKeepsIInv
<1>14. CASE UNCHANGED vars
  BY <1>14
  DEF IInv, TypeOK, CountersBehindBoots, PacketsNumbered, SessionAgreement,
      Occupied, vars, emitter, central, history
<1> QED
  BY <1>1, <1>2, <1>3, <1>4, <1>5, <1>6, <1>7, <1>8, <1>9, <1>10, <1>11,
     <1>12, <1>13, <1>14 DEF Next

(* Every behaviour keeps the inductive invariant.                          *)
THEOREM Invariance == Spec => []IInv
BY InitIInv, StepKeepsIInv, PTL DEF Spec

(* Every variable of the two nodes and of the network keeps its type.      *)
THEOREM TypeCorrectness == Spec => []TypeOK
<1>1. IInv => TypeOK
  BY DEF IInv
<1> QED
  BY Invariance, <1>1, PTL

(* The packet in flight and the registry of the emitter always agree on    *)
(* the session of the central, however both nodes reboot.                  *)
THEOREM SessionsAgree == Spec => []SessionAgreement
<1>1. IInv => SessionAgreement
  BY DEF IInv
<1> QED
  BY Invariance, <1>1, PTL

-----------------------------------------------------------------------------
(* Delivery while the boot counter of the emitter reaches flash.           *)

(* Boot numbers that count boots are ordered as the boots are.             *)
LEMMA BootOrder ==
    ASSUME NEW N \in Nat, 2 * N <= BootModulus,
           NEW known \in 0 .. N, NEW b \in 1 .. N
    PROVE  IsOldSession(known, b) <=> known > b
BY LinkAssumption
DEF IsOldSession, bootIdIsNewer, IsNewer, Delta, LinkAssumption

LEMMA StoredBootIdIsCount ==
    ASSUME NEW N \in Nat, 2 * N <= BootModulus, NEW n \in 1 .. N
    PROVE  StoredBootId(n) = n
<1>1. n \in Nat /\ 0 < n /\ n < BootModulus /\ BootModulus \in Nat
  BY LinkAssumption DEF LinkAssumption
<1>2. n % BootModulus = n
  BY <1>1
<1> QED
  BY <1>1, <1>2 DEF StoredBootId

LEMMA DeliveryInit == Init => DeliveryInv
<1> SUFFICES ASSUME Init PROVE DeliveryInv
  OBVIOUS
<1>1. StoredBootId(1) = 1
  BY StoredBootIdIsCount, LinkAssumption DEF LinkAssumption
<1>2. IInv
  BY InitIInv
<1> QED
  BY <1>1, <1>2
  DEF Init, DeliveryInv, EmitterIdsCount, HandledIsRemembered, WindowIsEarned,
      AcksAreExplained, AtMostOncePerBoot, ConfirmedLossIsExplained,
      EmptyWindow, IsFirst

(***************************************************************************)
(* The steps of the emitter other than taking an ACK and rebooting send    *)
(* packets of this boot, and touch nothing else the invariant speaks of.   *)
(***************************************************************************)
LEMMA EmitterSends ==
    ASSUME DeliveryInv, IInv',
           UNCHANGED <<bootCount, bootId, central, history>>,
           net' = net \/ \E m \in Messages :
                            /\ net' = net \cup {m}
                            /\ FromEmitter(m) /\ m.ord = boots /\ m.boot = bootId
    PROVE  DeliveryInv'
<1> USE DEF DeliveryInv, central, history
<1>1. net \subseteq net'
  OBVIOUS
<1>2. \A m \in net' \ net :
        FromEmitter(m) /\ m.type # "ACK" /\ m.ord = boots /\ m.boot = boots
  BY DEF FromEmitter, IsReliable, ReliableTypes, EmitterIdsCount
<1>3. \A p : WasHandled(p)' = WasHandled(p) /\ WasOvertaken(p)' = WasOvertaken(p)
  BY DEF WasHandled, WasOvertaken
<1>4. EmitterIdsCount'
  <2>1. \A m \in net' : FromEmitter(m) => m.boot = m.ord /\ m.ord <= boots
    BY <1>2 DEF EmitterIdsCount, IInv, TypeOK
  <2> QED
    BY <2>1 DEF EmitterIdsCount
<1>5. HandledIsRemembered'
  BY DEF HandledIsRemembered
<1>6. WindowIsEarned'
  BY <1>3 DEF WindowIsEarned
<1>7. AcksAreExplained'
  BY <1>1, <1>2, <1>3 DEF AcksAreExplained
<1>8. AtMostOncePerBoot'
  BY DEF AtMostOncePerBoot
<1>9. ConfirmedLossIsExplained'
  BY <1>1, <1>3 DEF ConfirmedLossIsExplained, IsAmbiguous
<1> QED
  BY <1>4, <1>5, <1>6, <1>7, <1>8, <1>9

LEMMA EmitterMessages ==
    ASSUME IInv
    PROVE  /\ /\ Telemetry \in Messages
              /\ FromEmitter(Telemetry)
              /\ Telemetry.ord = boots /\ Telemetry.boot = bootId
           /\ \A s \in 1 .. MaxSeq :
                 /\ Packet(TypeOf(s), s) \in Messages
                 /\ FromEmitter(Packet(TypeOf(s), s))
                 /\ Packet(TypeOf(s), s).ord = boots
                 /\ Packet(TypeOf(s), s).boot = bootId
BY MessageTypes
DEF IInv, Telemetry, Packet, TypeOf, FromEmitter, IsReliable, ReliableTypes

LEMMA EmitterStepsKeepDelivery ==
    ASSUME DeliveryInv, IInv',
           \/ SendEvent \/ SendHeartbeat \/ ProcessQueue \/ GiveUp
           \/ Transmit \/ SkipTransmission
           \/ \E m \in net : ReceiveStateRequest(m)
    PROVE  DeliveryInv'
<1>1. CASE SendEvent \/ ProcessQueue \/ GiveUp \/ SkipTransmission
  BY <1>1, EmitterSends
  DEF SendEvent, ProcessQueue, GiveUp, SkipTransmission, history
<1>2. CASE SendHeartbeat
  BY <1>2, EmitterSends, EmitterMessages DEF SendHeartbeat, history, DeliveryInv
<1>3. CASE Transmit
  <2>1. reliable.seq \in 1 .. MaxSeq
    BY <1>3 DEF Transmit, DeliveryInv, IInv, TypeOK, PacketsNumbered
  <2> QED
    BY <1>3, <2>1, EmitterSends, EmitterMessages
    DEF Transmit, history, DeliveryInv
<1>4. CASE \E m \in net : ReceiveStateRequest(m)
  BY <1>4, EmitterSends, EmitterMessages
  DEF ReceiveStateRequest, history, DeliveryInv
<1> QED
  BY <1>1, <1>2, <1>3, <1>4

(***************************************************************************)
(* An ACK taken answers this boot's packet, and is explained already, or   *)
(* an earlier boot's packet of the same SEQ, and is ambiguous.             *)
(***************************************************************************)
LEMMA HandleAckKeepsDelivery ==
    ASSUME DeliveryInv, IInv', NEW a \in net, HandleAck(a)
    PROVE  DeliveryInv'
<1> USE DEF DeliveryInv
<1> DEFINE p == [ord |-> boots, seq |-> reliable.seq]
<1>1. /\ a.type = "ACK" /\ a.seq = p.seq
      /\ confirmed' = confirmed \cup {p}
      /\ UNCHANGED <<bootCount, bootId, central, net, boots, cBoots,
                     handled, repeated>>
  BY DEF HandleAck, AckMatches
<1>2. /\ \E m \in net : IsReliable(m) /\ m.ord = a.ord /\ m.seq = a.seq
      /\ WasHandled(a) \/ WasOvertaken(a) \/ a.ord < boots
  BY <1>1 DEF AcksAreExplained
<1>3. a.ord <= boots
  <2>1. PICK m \in net : IsReliable(m) /\ m.ord = a.ord
    BY <1>2
  <2> QED
    BY <2>1 DEF EmitterIdsCount, FromEmitter
<1>4. a.ord \in Nat /\ boots \in Nat
  BY DEF IInv, TypeOK, Messages
<1>5. WasHandled(p) \/ WasOvertaken(p) \/ IsAmbiguous(p)
  <2>1. CASE a.ord = boots
    BY <1>1, <1>2, <1>4, <2>1 DEF WasHandled, WasOvertaken
  <2>2. CASE a.ord < boots
    BY <1>1, <1>2, <2>2 DEF IsAmbiguous
  <2> QED
    BY <1>3, <1>4, <2>1, <2>2
<1>6. \A q : /\ WasHandled(q)' = WasHandled(q)
             /\ WasOvertaken(q)' = WasOvertaken(q)
             /\ IsAmbiguous(q)' = IsAmbiguous(q)
  BY <1>1 DEF WasHandled, WasOvertaken, IsAmbiguous
<1>7. ConfirmedLossIsExplained'
  BY <1>1, <1>5, <1>6 DEF ConfirmedLossIsExplained
<1> QED
  BY <1>1, <1>6, <1>7
  DEF EmitterIdsCount, HandledIsRemembered, WindowIsEarned, AcksAreExplained,
      AtMostOncePerBoot, central

(* A reboot takes the next number: what was said of earlier boots stays.   *)
LEMMA EmitterRebootKeepsDelivery ==
    ASSUME EmitterVolatileIds = {}, DeliveryInv, IInv', EmitterReboot
    PROVE  DeliveryInv'
<1> USE DEF DeliveryInv
<1>1. /\ boots' = boots + 1 /\ boots' \in 1 .. MaxBoots /\ boots \in Nat
      /\ bootCount' = bootCount + 1 /\ bootId' = StoredBootId(bootCount')
      /\ UNCHANGED <<central, net, cBoots, confirmed, handled, repeated>>
  BY DEF EmitterReboot, IInv, TypeOK
<1>2. bootCount' = boots' /\ bootId' = boots'
  BY <1>1, StoredBootIdIsCount, LinkAssumption
  DEF EmitterIdsCount, LinkAssumption
<1>3. session' = session /\ window' = window /\ session \in Nat
  BY <1>1 DEF central, IInv, TypeOK
<1>4. EmitterIdsCount'
  <2>1. \A m \in net : FromEmitter(m) => m.boot = m.ord /\ m.ord <= boots + 1
    BY <1>1 DEF EmitterIdsCount, IInv, TypeOK, Messages
  <2> QED
    BY <1>1, <1>2, <1>3, <2>1 DEF EmitterIdsCount
<1>5. \A q : /\ WasHandled(q)' = WasHandled(q)
             /\ WasOvertaken(q)' = WasOvertaken(q)
             /\ IsAmbiguous(q)' = IsAmbiguous(q)
  BY <1>1 DEF WasHandled, WasOvertaken, IsAmbiguous
<1>6. AcksAreExplained'
  <2>1. \A a \in net : a.ord \in Nat
    BY DEF IInv, TypeOK, Messages
  <2> QED
    BY <1>1, <1>5, <2>1 DEF AcksAreExplained
<1> QED
  BY <1>1, <1>3, <1>4, <1>5, <1>6
  DEF HandledIsRemembered, WindowIsEarned, AtMostOncePerBoot,
      ConfirmedLossIsExplained

(* A packet of the emitter names its boot.                                 *)
LEMMA PacketFacts ==
    ASSUME DeliveryInv, NEW m \in net, FromEmitter(m)
    PROVE  /\ m.boot = m.ord /\ m.ord \in 1 .. boots /\ m.ord \in 1 .. MaxBoots
           /\ session \in 0 .. MaxBoots /\ session <= boots
           /\ IsReliable(m) => m.seq \in 1 .. MaxSeq
           /\ IsOldSession(session, m.boot) <=> session > m.ord
<1>1. m \in Messages /\ boots \in 1 .. MaxBoots /\ session \in Nat
  BY DEF DeliveryInv, IInv, TypeOK
<1>2. m.boot = m.ord /\ m.ord <= boots /\ session <= boots
  BY DEF DeliveryInv, EmitterIdsCount
<1>3. m.ord \in 1 .. MaxBoots /\ m.ord \in 1 .. boots
  BY <1>1, <1>2 DEF FromEmitter, IsReliable, ReliableTypes, Messages
<1>4. session \in 0 .. MaxBoots
  BY <1>1, <1>2, LinkAssumption DEF LinkAssumption
<1>5. IsReliable(m) => m.seq \in 1 .. MaxSeq
  BY <1>1 DEF IsReliable, ReliableTypes, Messages
<1> QED
  BY <1>2, <1>3, <1>4, <1>5, BootOrder, LinkAssumption DEF LinkAssumption

(***************************************************************************)
(* Answering a packet keeps AcksAreExplained once the packet is accounted  *)
(* for in the state after the step.                                        *)
(***************************************************************************)
LEMMA AnswerIsExplained ==
    ASSUME DeliveryInv, NEW m \in net, FromEmitter(m), AutoAck(m),
           boots' = boots, handled \subseteq handled',
           IsReliable(m) =>
              WasHandled(m)' \/ WasOvertaken(m)' \/ m.ord < boots
    PROVE  /\ AcksAreExplained'
           /\ \A n \in net' : FromEmitter(n) => n.boot = n.ord /\ n.ord <= boots
           /\ net \subseteq net'
<1>1. net \subseteq net'
  BY DEF AutoAck
<1>2. \A q : /\ WasHandled(q) => WasHandled(q)'
             /\ WasOvertaken(q) => WasOvertaken(q)'
  BY DEF WasHandled, WasOvertaken
<1>3. ASSUME NEW a \in net', a.type = "ACK"
      PROVE  /\ \E n \in net' : IsReliable(n) /\ n.ord = a.ord /\ n.seq = a.seq
             /\ WasHandled(a)' \/ WasOvertaken(a)' \/ a.ord < boots
  <2>1. CASE a \in net
    BY <1>1, <1>2, <1>3, <2>1 DEF DeliveryInv, AcksAreExplained
  <2>2. CASE a \notin net
    <3>1. IsReliable(m) /\ a = Ack(m)
      BY <2>2 DEF AutoAck
    <3>2. a.ord = m.ord /\ a.seq = m.seq
      BY <3>1 DEF Ack
    <3> QED
      BY <1>1, <3>1, <3>2 DEF WasHandled, WasOvertaken
  <2> QED
    BY <2>1, <2>2
<1>4. AcksAreExplained'
  BY <1>3 DEF AcksAreExplained
<1>5. ASSUME NEW n \in net', FromEmitter(n)
      PROVE  n \in net
  BY <1>5 DEF AutoAck, Ack, FromEmitter, IsReliable, ReliableTypes
<1> QED
  BY <1>1, <1>4, <1>5 DEF DeliveryInv, EmitterIdsCount

(* A packet discarded was handled, overtaken, or belongs to an old boot.   *)
LEMMA DiscardedIsExplained ==
    ASSUME DeliveryInv, NEW m \in net, IsReliable(m),
           \/ IsOldSession(session, m.boot)
           \/ IsDuplicate(WindowFor(m), m.seq)
    PROVE  WasHandled(m) \/ WasOvertaken(m) \/ m.ord < boots
<1> USE DEF DeliveryInv
<1>1. /\ m.boot = m.ord /\ m.ord \in Nat /\ session \in Nat /\ boots \in Nat
      /\ session <= boots
      /\ m.seq \in 1 .. MaxSeq
      /\ IsOldSession(session, m.boot) <=> session > m.ord
  BY PacketFacts DEF FromEmitter, IInv, TypeOK
<1>2. CASE IsOldSession(session, m.boot)
  BY <1>1, <1>2
<1>3. CASE IsDuplicate(WindowFor(m), m.seq)
  <2>1. session = m.ord /\ WindowFor(m) = window
    BY <1>1, <1>3 DEF WindowFor, EmptyWindow, IsDuplicate, IsFirst
  <2>2. /\ ~IsFirst(window) /\ ~seqIsNewer(m.seq, window.highest)
        /\ \/ Age(window, m.seq) >= WindowSize
           \/ Age(window, m.seq) \in window.bitmap
    BY <1>3, <2>1 DEF IsDuplicate
  <2>3. /\ window.highest \in 1 .. MaxSeq
        /\ 0 \in window.bitmap
        /\ \A age \in window.bitmap :
              WasHandled([ord |-> session, seq |-> window.highest - age])
    BY <2>2 DEF WindowIsEarned
  <2>4. 2 * MaxSeq <= SeqModulus /\ MaxSeq \in Nat
    BY LinkAssumption DEF LinkAssumption
  <2>5. Age(window, m.seq) = window.highest - m.seq
    BY <1>1, <2>2, <2>3, <2>4, SmallSeqs DEF Age
  <2>6. CASE Age(window, m.seq) >= WindowSize
    <3>1. WasHandled([ord |-> session, seq |-> window.highest - 0])
      BY <2>3
    <3>2. window.highest >= m.seq + WindowSize
      BY <1>1, <2>3, <2>5, <2>6, SeqWindowAssumption DEF SeqWindowAssumption
    <3> QED
      BY <2>1, <2>3, <3>1, <3>2 DEF WasHandled, WasOvertaken
  <2>7. CASE Age(window, m.seq) \in window.bitmap
    <3>1. WasHandled([ord |-> session,
                      seq |-> window.highest - (window.highest - m.seq)])
      BY <2>3, <2>5, <2>7
    <3>2. window.highest - (window.highest - m.seq) = m.seq
      BY <1>1, <2>3
    <3> QED
      BY <2>1, <3>1, <3>2 DEF WasHandled
  <2> QED
    BY <2>2, <2>6, <2>7
<1> QED
  BY <1>2, <1>3

LEMMA DiscardKeepsDelivery ==
    ASSUME DeliveryInv, IInv', NEW m \in net,
           DiscardOldSession(m) \/ DiscardDuplicate(m)
    PROVE  DeliveryInv'
<1> USE DEF DeliveryInv
<1>1. /\ FromEmitter(m) /\ AutoAck(m)
      /\ UNCHANGED <<bootCount, bootId, session, window, boots, cBoots,
                     confirmed, handled, repeated>>
  BY DEF DiscardOldSession, DiscardDuplicate, FromEmitter, emitter, central,
         history
<1>2. \A q : WasHandled(q)' = WasHandled(q) /\ WasOvertaken(q)' = WasOvertaken(q)
  BY <1>1 DEF WasHandled, WasOvertaken
<1>3. IsReliable(m) => WasHandled(m)' \/ WasOvertaken(m)' \/ m.ord < boots
  BY <1>2, DiscardedIsExplained DEF DiscardOldSession, DiscardDuplicate
<1>4. /\ AcksAreExplained'
      /\ \A n \in net' : FromEmitter(n) => n.boot = n.ord /\ n.ord <= boots
      /\ net \subseteq net'
  BY <1>1, <1>3, AnswerIsExplained
<1> QED
  BY <1>1, <1>2, <1>4
  DEF EmitterIdsCount, HandledIsRemembered, WindowIsEarned,
      AtMostOncePerBoot, ConfirmedLossIsExplained, IsAmbiguous

(* The window a packet that is handled is judged by.                       *)
LEMMA WindowForFacts ==
    ASSUME DeliveryInv, NEW m \in net, FromEmitter(m),
           ~IsOldSession(session, m.boot)
    PROVE  /\ session <= m.ord
           /\ WindowFor(m) \in Windows
           /\ session = m.ord => WindowFor(m) = window
           /\ session # m.ord => IsFirst(WindowFor(m))
           /\ ~IsFirst(WindowFor(m)) =>
                 /\ session = m.ord
                 /\ WindowFor(m).highest \in 1 .. MaxSeq
                 /\ 0 \in WindowFor(m).bitmap
<1>1. /\ m.boot = m.ord /\ session <= m.ord
  BY PacketFacts
<1>2. window \in Windows /\ EmptyWindow \in Windows /\ IsFirst(EmptyWindow)
  BY SeqWindowAssumption
  DEF DeliveryInv, IInv, TypeOK, EmptyWindow, Windows, IsFirst,
      SeqWindowAssumption
<1> QED
  BY <1>1, <1>2 DEF WindowFor, DeliveryInv, WindowIsEarned

(* What is remembered of this boot of the central is never handled again.  *)
LEMMA HandledIsNew ==
    ASSUME DeliveryInv, NEW m \in net, Handle(m), IsReliable(m)
    PROVE  [epoch |-> cBoots, ord |-> m.ord, seq |-> m.seq] \notin handled
<1> DEFINE p == [epoch |-> cBoots, ord |-> m.ord, seq |-> m.seq]
<1> SUFFICES ASSUME p \in handled PROVE FALSE
  OBVIOUS
<1>1. p.ord <= session /\ (p.ord = session => Remembers(window, p.seq))
  BY DEF DeliveryInv, HandledIsRemembered
<1>2. /\ session <= m.ord /\ m.ord \in Nat /\ session \in Nat
      /\ m.seq \in 1 .. MaxSeq
      /\ session = m.ord => WindowFor(m) = window
      /\ ~IsDuplicate(WindowFor(m), m.seq)
  BY PacketFacts, WindowForFacts DEF Handle
<1>3. Remembers(window, m.seq) /\ ~IsDuplicate(window, m.seq)
  BY <1>1, <1>2
<1>4. /\ window \in Windows /\ window.highest \in 1 .. MaxSeq
      /\ MaxSeq \in Nat /\ 2 * MaxSeq <= SeqModulus
  BY <1>3, LinkAssumption
  DEF DeliveryInv, IInv, TypeOK, WindowIsEarned, Remembers, LinkAssumption
<1> QED
  BY <1>2, <1>3, <1>4, RememberedIsDuplicate

LEMMA HandleReliableKeepsDelivery ==
    ASSUME DeliveryInv, IInv', NEW m \in net, Handle(m), IsReliable(m)
    PROVE  DeliveryInv'
<1> USE DEF DeliveryInv
<1> DEFINE p == [epoch |-> cBoots, ord |-> m.ord, seq |-> m.seq]
<1> DEFINE w == WindowFor(m)
<1>1. /\ FromEmitter(m) /\ AutoAck(m) /\ ~IsOldSession(session, m.boot)
      /\ ~IsDuplicate(w, m.seq)
      /\ session' = m.boot /\ window' = Accept(w, m.seq)
      /\ handled' = handled \cup {p}
      /\ repeated' = repeated \cup ({p} \cap handled)
      /\ UNCHANGED <<bootCount, bootId, boots, cBoots, confirmed>>
  BY DEF Handle, emitter
<1>2. /\ m.boot = m.ord /\ m.ord \in 1 .. boots /\ m.seq \in 1 .. MaxSeq
      /\ session <= m.ord /\ session \in Nat /\ m.ord \in Nat
      /\ w \in Windows
      /\ session = m.ord => w = window
      /\ ~IsFirst(w) => /\ session = m.ord
                        /\ w.highest \in 1 .. MaxSeq
                        /\ 0 \in w.bitmap
  BY <1>1, PacketFacts, WindowForFacts
<1>3. MaxSeq \in Nat /\ 2 * MaxSeq <= SeqModulus
  BY LinkAssumption DEF LinkAssumption
<1> HIDE DEF w
<1>4. /\ window'.highest \in 1 .. MaxSeq
      /\ 0 \in window'.bitmap
      /\ Remembers(window', m.seq)
      /\ \A r \in 1 .. MaxSeq : Remembers(w, r) => Remembers(window', r)
      /\ \A age \in window'.bitmap :
            \/ window'.highest - age = m.seq
            \/ /\ ~IsFirst(w)
               /\ w.highest - (window'.highest - age) \in w.bitmap
  BY <1>1, <1>2, <1>3, AcceptRemembers
<1>5. repeated' = {}
  BY <1>1, HandledIsNew DEF AtMostOncePerBoot
<1>6. \A q : /\ WasHandled(q) => WasHandled(q)'
             /\ WasOvertaken(q) => WasOvertaken(q)'
  BY <1>1 DEF WasHandled, WasOvertaken
<1>7. /\ \E h \in handled' : h.ord = m.ord /\ h.seq = m.seq
      /\ WasHandled(m)'
  <2>1. p \in handled' /\ p.ord = m.ord /\ p.seq = m.seq
    BY <1>1
  <2> QED
    BY <2>1 DEF WasHandled
<1>8. /\ AcksAreExplained'
      /\ \A n \in net' : FromEmitter(n) => n.boot = n.ord /\ n.ord <= boots
      /\ net \subseteq net'
  BY <1>1, <1>7, AnswerIsExplained
<1>9. EmitterIdsCount'
  BY <1>1, <1>2, <1>8 DEF EmitterIdsCount
<1>10. HandledIsRemembered'
  <2> SUFFICES ASSUME NEW h \in handled'
               PROVE  /\ h.epoch <= cBoots
                      /\ h.epoch = cBoots => h.ord <= m.ord
                      /\ h.epoch = cBoots /\ h.ord = m.ord
                            => Remembers(window', h.seq)
    BY <1>1, <1>2 DEF HandledIsRemembered
  <2>1. CASE h = p
    BY <1>4, <1>2, <2>1 DEF IInv, TypeOK
  <2>2. CASE h \in handled
    <3>1. /\ h.epoch <= cBoots
          /\ h.epoch = cBoots => h.ord <= session
          /\ h.epoch = cBoots /\ h.ord = session => Remembers(window, h.seq)
          /\ h.ord \in Nat /\ h.seq \in 1 .. MaxSeq
      BY <2>2 DEF HandledIsRemembered, IInv, TypeOK
    <3> QED
      BY <1>2, <1>4, <3>1
  <2> QED
    BY <1>1, <2>1, <2>2
<1>11. WindowIsEarned'
  <2> SUFFICES ASSUME NEW age \in window'.bitmap
               PROVE  \E h \in handled' : /\ h.ord = m.ord
                                          /\ h.seq = window'.highest - age
    BY <1>1, <1>2, <1>4 DEF WindowIsEarned, WasHandled
  <2>1. CASE window'.highest - age = m.seq
    BY <1>7, <2>1
  <2>2. CASE ~IsFirst(w) /\ w.highest - (window'.highest - age) \in w.bitmap
    <3> DEFINE old == w.highest - (window'.highest - age)
    <3>1. session = m.ord /\ w = window /\ w.highest \in 1 .. MaxSeq
      BY <1>2, <2>2
    <3>2. WasHandled([ord |-> session, seq |-> window.highest - old])
      BY <2>2, <3>1 DEF WindowIsEarned
    <3>3. age \in Int
      BY DEF IInv, TypeOK, Windows, Ages
    <3>4. window.highest - old = window'.highest - age
      BY <1>4, <3>1, <3>3
    <3>5. \E h \in handled : h.ord = m.ord /\ h.seq = window.highest - old
      BY <3>1, <3>2 DEF WasHandled
    <3> QED
      BY <1>1, <3>4, <3>5
  <2> QED
    BY <1>4, <2>1, <2>2
<1>12. ConfirmedLossIsExplained'
  BY <1>1, <1>6, <1>8 DEF ConfirmedLossIsExplained, IsAmbiguous
<1> QED
  BY <1>5, <1>8, <1>9, <1>10, <1>11, <1>12 DEF AtMostOncePerBoot

(* Telemetry may open a session, and never moves the window of one.        *)
LEMMA HandleTelemetryKeepsDelivery ==
    ASSUME DeliveryInv, IInv', NEW m \in net, Handle(m), ~IsReliable(m)
    PROVE  DeliveryInv'
<1> USE DEF DeliveryInv
<1>1. /\ FromEmitter(m) /\ AutoAck(m) /\ ~IsOldSession(session, m.boot)
      /\ session' = m.boot /\ window' = WindowFor(m)
      /\ net' = net
      /\ UNCHANGED <<bootCount, bootId, boots, cBoots, confirmed, handled,
                     repeated>>
  BY DEF Handle, emitter, AutoAck
<1>2. /\ m.boot = m.ord /\ m.ord \in 1 .. boots /\ m.ord \in Nat
      /\ session <= m.ord /\ session \in Nat
      /\ session = m.ord => window' = window
      /\ ~IsFirst(window') => session = m.ord
  BY <1>1, PacketFacts, WindowForFacts
<1>3. EmitterIdsCount'
  BY <1>1, <1>2 DEF EmitterIdsCount
<1>4. HandledIsRemembered'
  <2> SUFFICES ASSUME NEW h \in handled
               PROVE  /\ h.epoch <= cBoots
                      /\ h.epoch = cBoots => h.ord <= m.ord
                      /\ h.epoch = cBoots /\ h.ord = m.ord
                            => Remembers(window', h.seq)
    BY <1>1, <1>2 DEF HandledIsRemembered
  <2>1. h.ord \in Nat
    BY DEF IInv, TypeOK
  <2> QED
    BY <1>2, <2>1 DEF HandledIsRemembered
<1>5. \A q : /\ WasHandled(q)' = WasHandled(q)
             /\ WasOvertaken(q)' = WasOvertaken(q)
             /\ IsAmbiguous(q)' = IsAmbiguous(q)
  BY <1>1 DEF WasHandled, WasOvertaken, IsAmbiguous
<1>6. WindowIsEarned'
  <2> SUFFICES ASSUME ~IsFirst(window') PROVE WindowIsEarned'
    BY DEF WindowIsEarned
  <2>1. window' = window /\ session' = session
    BY <1>1, <1>2
  <2> QED
    BY <1>1, <2>1 DEF WindowIsEarned, WasHandled
<1> QED
  BY <1>1, <1>3, <1>4, <1>5, <1>6
  DEF AcksAreExplained, AtMostOncePerBoot, ConfirmedLossIsExplained

LEMMA SendStateRequestKeepsDelivery ==
    ASSUME DeliveryInv, IInv', SendStateRequest
    PROVE  DeliveryInv'
<1> USE DEF DeliveryInv
<1>1. /\ net' = net \cup {StateRequest}
      /\ UNCHANGED <<emitter, central, history>>
  BY DEF SendStateRequest
<1>2. ~FromEmitter(StateRequest) /\ StateRequest.type # "ACK"
  BY DEF StateRequest, FromEmitter, IsReliable, ReliableTypes
<1>3. \A q : /\ WasHandled(q)' = WasHandled(q)
             /\ WasOvertaken(q)' = WasOvertaken(q)
             /\ IsAmbiguous(q) => IsAmbiguous(q)'
  BY <1>1 DEF WasHandled, WasOvertaken, IsAmbiguous, history
<1> QED
  BY <1>1, <1>2, <1>3
  DEF EmitterIdsCount, HandledIsRemembered, WindowIsEarned, AcksAreExplained,
      AtMostOncePerBoot, ConfirmedLossIsExplained, emitter, central, history

(* A reboot of the central forgets the session and opens a new epoch.      *)
LEMMA CentralRebootKeepsDelivery ==
    ASSUME DeliveryInv, IInv', CentralReboot
    PROVE  DeliveryInv'
<1> USE DEF DeliveryInv
<1>1. /\ cBoots' = cBoots + 1 /\ session' = 0 /\ window' = EmptyWindow
      /\ cBoots \in Nat /\ boots \in Nat
      /\ UNCHANGED <<emitter, net, boots, confirmed, handled, repeated>>
  BY DEF CentralReboot, IInv, TypeOK
<1>2. \A q : /\ WasHandled(q)' = WasHandled(q)
             /\ WasOvertaken(q)' = WasOvertaken(q)
             /\ IsAmbiguous(q)' = IsAmbiguous(q)
  BY <1>1 DEF WasHandled, WasOvertaken, IsAmbiguous
<1>3. HandledIsRemembered'
  <2> SUFFICES ASSUME NEW h \in handled
               PROVE  h.epoch <= cBoots + 1 /\ h.epoch # cBoots + 1
    BY <1>1 DEF HandledIsRemembered
  <2>1. h.epoch <= cBoots /\ h.epoch \in Nat
    BY DEF HandledIsRemembered, IInv, TypeOK
  <2> QED
    BY <1>1, <2>1
<1> QED
  BY <1>1, <1>2, <1>3
  DEF EmitterIdsCount, WindowIsEarned, AcksAreExplained, AtMostOncePerBoot,
      ConfirmedLossIsExplained, EmptyWindow, IsFirst, emitter

-----------------------------------------------------------------------------

LEMMA StepKeepsDelivery ==
    ASSUME EmitterVolatileIds = {}
    PROVE  DeliveryInv /\ [Next]_vars => DeliveryInv'
<1> SUFFICES ASSUME DeliveryInv, [Next]_vars PROVE DeliveryInv'
  OBVIOUS
<1>1. IInv'
  BY StepKeepsIInv DEF DeliveryInv
<1>2. CASE \/ SendEvent \/ SendHeartbeat \/ ProcessQueue \/ GiveUp
           \/ Transmit \/ SkipTransmission
           \/ \E m \in net : ReceiveStateRequest(m)
  BY <1>1, <1>2, EmitterStepsKeepDelivery
<1>3. CASE EmitterReboot
  BY <1>1, <1>3, EmitterRebootKeepsDelivery
<1>4. CASE SendStateRequest
  BY <1>1, <1>4, SendStateRequestKeepsDelivery
<1>5. CASE CentralReboot
  BY <1>1, <1>5, CentralRebootKeepsDelivery
<1>6. ASSUME NEW m \in net, HandleAck(m) PROVE DeliveryInv'
  BY <1>1, <1>6, HandleAckKeepsDelivery
<1>7. ASSUME NEW m \in net, DiscardOldSession(m) \/ DiscardDuplicate(m)
      PROVE  DeliveryInv'
  BY <1>1, <1>7, DiscardKeepsDelivery
<1>8. ASSUME NEW m \in net, Handle(m) PROVE DeliveryInv'
  BY <1>1, <1>8, HandleReliableKeepsDelivery, HandleTelemetryKeepsDelivery
<1>9. CASE UNCHANGED vars
  BY <1>1, <1>9
  DEF DeliveryInv, EmitterIdsCount, HandledIsRemembered, WindowIsEarned,
      AcksAreExplained, AtMostOncePerBoot, ConfirmedLossIsExplained,
      WasHandled, WasOvertaken, IsAmbiguous, vars, emitter, central, history
<1> QED
  BY <1>2, <1>3, <1>4, <1>5, <1>6, <1>7, <1>8, <1>9 DEF Next

(* The invariant of delivery, while the emitter's boot counter persists.   *)
THEOREM DeliveryInvariance ==
    ASSUME EmitterVolatileIds = {}
    PROVE  Spec => []DeliveryInv
BY DeliveryInit, StepKeepsDelivery, PTL DEF Spec

(* No packet is handled twice during one boot of the central.              *)
THEOREM AtMostOncePerCentralBoot ==
    ASSUME EmitterVolatileIds = {}
    PROVE  Spec => []AtMostOncePerBoot
<1>1. DeliveryInv => AtMostOncePerBoot
  BY DEF DeliveryInv
<1> QED
  BY DeliveryInvariance, <1>1, PTL

(* A packet confirmed to the emitter reached the handler, or the window    *)
(* had moved past it, or its ACK answered an earlier boot.                 *)
THEOREM ConfirmedLosses ==
    ASSUME EmitterVolatileIds = {}
    PROVE  Spec => []ConfirmedLossIsExplained
<1>1. DeliveryInv => ConfirmedLossIsExplained
  BY DEF DeliveryInv
<1> QED
  BY DeliveryInvariance, <1>1, PTL

(* Only a packet of the known session or of a newer one is handled.        *)
LEMMA HandleInOrder ==
    ASSUME DeliveryInv, [Next]_vars,
           NEW h \in handled' \ handled, NEW g \in handled, h.epoch = g.epoch
    PROVE  g.ord <= h.ord
<1>1. PICK m \in net : Handle(m)
  BY DEF Next, vars, history, SendEvent, SendHeartbeat, ProcessQueue, GiveUp,
         Transmit, SkipTransmission, EmitterReboot, SendStateRequest,
         CentralReboot, HandleAck, ReceiveStateRequest, DiscardOldSession,
         DiscardDuplicate
<1>2. /\ FromEmitter(m) /\ ~IsOldSession(session, m.boot)
      /\ h = [epoch |-> cBoots, ord |-> m.ord, seq |-> m.seq]
  BY <1>1 DEF Handle
<1>3. session <= m.ord /\ session \in Nat /\ m.ord \in Nat /\ g.ord \in Nat
  BY <1>2, PacketFacts, WindowForFacts DEF DeliveryInv, IInv, TypeOK
<1>4. g.ord <= session
  BY <1>2 DEF DeliveryInv, HandledIsRemembered
<1> QED
  BY <1>2, <1>3, <1>4

(* During one boot of the central, packets are handled in the order of the *)
(* boots of the emitter.                                                   *)
THEOREM BootsInOrder ==
    ASSUME EmitterVolatileIds = {}
    PROVE  Spec => HandledInBootOrder
<1>1. DeliveryInv /\ [Next]_vars =>
        [\A h \in handled' \ handled, g \in handled :
            h.epoch = g.epoch => g.ord <= h.ord]_vars
  BY HandleInOrder
<1> QED
  BY DeliveryInvariance, <1>1, PTL DEF Spec, HandledInBootOrder

-----------------------------------------------------------------------------

(***************************************************************************)
(* Boot numbers, whatever storage does later: while the counter of a node  *)
(* has reached flash at every boot so far, its numbers count its boots and *)
(* what the other node knows of it is never ahead of it.                   *)
(***************************************************************************)
CountedIds ==
    /\ boots = bootCount => EmitterIdsCount
    /\ cBoots = cBootCount => CentralIdsCount

LEMMA CountedIdsInit == Init => CountedIds
BY StoredBootIdIsCount, LinkAssumption
DEF Init, CountedIds, EmitterIdsCount, CentralIdsCount, LinkAssumption

own == <<boots, bootCount, bootId, cBoots, cBootCount, cBootId>>

(* A message of the central is an ACK or a STATE_REQUEST with its number,  *)
(* one of the emitter has the number of the present boot.                  *)
LEMMA SentWithPresentId ==
    ASSUME IInv, [Next]_vars, ~EmitterReboot, ~CentralReboot
    PROVE  /\ UNCHANGED own
           /\ \A m \in net' :
                \/ m \in net
                \/ FromEmitter(m) /\ m.ord = boots /\ m.boot = bootId
                \/ ~FromEmitter(m) /\ m.boot = cBootId
<1>1. CASE \/ SendEvent \/ SendHeartbeat \/ ProcessQueue \/ GiveUp
           \/ Transmit \/ SkipTransmission
  BY <1>1
  DEF own, SendEvent, SendHeartbeat, ProcessQueue, GiveUp, Transmit,
      SkipTransmission, central, history, Telemetry, Packet, TypeOf,
      FromEmitter, IsReliable, ReliableTypes
<1>2. ASSUME NEW m \in net, ReceiveStateRequest(m) \/ HandleAck(m)
      PROVE  /\ UNCHANGED own
             /\ \A n \in net' :
                  \/ n \in net
                  \/ FromEmitter(n) /\ n.ord = boots /\ n.boot = bootId
  BY <1>2
  DEF own, ReceiveStateRequest, HandleAck, central, history, Telemetry,
      FromEmitter
<1>3. ASSUME NEW m \in net,
             DiscardOldSession(m) \/ DiscardDuplicate(m) \/ Handle(m)
      PROVE  /\ UNCHANGED own
             /\ \A n \in net' :
                  \/ n \in net
                  \/ ~FromEmitter(n) /\ n.boot = cBootId
  BY <1>3
  DEF own, DiscardOldSession, DiscardDuplicate, Handle, AutoAck, Ack, emitter,
      central, history, FromEmitter, IsReliable, ReliableTypes
<1>4. CASE SendStateRequest
  BY <1>4
  DEF own, SendStateRequest, StateRequest, emitter, central, history,
      FromEmitter, IsReliable, ReliableTypes
<1>5. CASE UNCHANGED vars
  BY <1>5 DEF vars, own, emitter, central, history
<1> QED
  BY <1>1, <1>2, <1>3, <1>4, <1>5 DEF Next

(* The sessions the registries take are those of messages in the network.  *)
LEMMA SessionsAreSent ==
    ASSUME IInv, [Next]_vars, ~EmitterReboot, ~CentralReboot
    PROVE  /\ \/ session' = session
              \/ \E m \in net : FromEmitter(m) /\ session' = m.boot
           /\ \/ remote' = remote
              \/ \E m \in net : ~FromEmitter(m) /\ remote' = m.boot
<1>1. CASE \/ SendEvent \/ SendHeartbeat \/ ProcessQueue \/ GiveUp
           \/ Transmit \/ SkipTransmission \/ SendStateRequest
  BY <1>1
  DEF SendEvent, SendHeartbeat, ProcessQueue, GiveUp, Transmit, SkipTransmission,
      SendStateRequest, emitter, central
<1>2. ASSUME NEW m \in net, ReceiveStateRequest(m) \/ HandleAck(m)
      PROVE  session' = session /\ ~FromEmitter(m) /\ remote' = m.boot
  BY <1>2
  DEF ReceiveStateRequest, HandleAck, central, FromEmitter, IsReliable,
      ReliableTypes
<1>3. ASSUME NEW m \in net, DiscardOldSession(m) \/ DiscardDuplicate(m)
      PROVE  session' = session /\ remote' = remote
  BY <1>3 DEF DiscardOldSession, DiscardDuplicate, emitter, central
<1>4. ASSUME NEW m \in net, Handle(m)
      PROVE  FromEmitter(m) /\ session' = m.boot /\ remote' = remote
  BY <1>4 DEF Handle, emitter
<1>5. CASE UNCHANGED vars
  BY <1>5 DEF vars, emitter, central
<1> QED
  BY <1>1, <1>2, <1>3, <1>4, <1>5 DEF Next

LEMMA CountedIdsStep == IInv /\ CountedIds /\ [Next]_vars => CountedIds'
<1> SUFFICES ASSUME IInv, CountedIds, [Next]_vars PROVE CountedIds'
  OBVIOUS
<1>1. /\ boots \in 1 .. MaxBoots /\ bootCount \in Nat /\ bootCount <= boots
      /\ cBoots \in 1 .. MaxCentralBoots /\ cBootCount \in Nat
      /\ cBootCount <= cBoots
      /\ \A m \in net : m.ord \in Nat /\ m.boot \in Nat
  BY DEF IInv, TypeOK, CountersBehindBoots, Messages, BootIds
<1>2. /\ 2 * MaxBoots <= BootModulus /\ MaxBoots \in Nat
      /\ 2 * MaxCentralBoots <= BootModulus /\ MaxCentralBoots \in Nat
  BY LinkAssumption DEF LinkAssumption
<1>3. CASE ~EmitterReboot /\ ~CentralReboot
  <2>1. /\ UNCHANGED own
        /\ \A m \in net' :
             \/ m \in net
             \/ FromEmitter(m) /\ m.ord = boots /\ m.boot = bootId
             \/ ~FromEmitter(m) /\ m.boot = cBootId
    BY <1>3, SentWithPresentId
  <2>2. ASSUME boots = bootCount, EmitterIdsCount PROVE EmitterIdsCount'
    <3>1. session' <= boots
      BY <1>3, <2>2, SessionsAreSent DEF EmitterIdsCount
    <3>2. \A m \in net' : FromEmitter(m) => m.boot = m.ord /\ m.ord <= boots
      BY <1>1, <2>1, <2>2 DEF EmitterIdsCount
    <3> QED
      BY <2>1, <2>2, <3>1, <3>2 DEF EmitterIdsCount, own
  <2>3. ASSUME cBoots = cBootCount, CentralIdsCount PROVE CentralIdsCount'
    <3>1. remote' <= cBoots
      BY <1>3, <2>3, SessionsAreSent DEF CentralIdsCount
    <3>2. \A m \in net' : ~FromEmitter(m) => m.boot <= cBoots
      BY <1>1, <2>1, <2>3 DEF CentralIdsCount
    <3> QED
      BY <2>1, <2>3, <3>1, <3>2 DEF CentralIdsCount, own
  <2> QED
    BY <2>1, <2>2, <2>3 DEF CountedIds, own
<1>4. CASE EmitterReboot
  <2>1. /\ boots' = boots + 1 /\ boots' \in 1 .. MaxBoots /\ remote' = 0
        /\ UNCHANGED <<cBoots, cBootCount, cBootId, session, net>>
        /\ \/ bootCount' = bootCount + 1 /\ bootId' = StoredBootId(bootCount')
           \/ bootCount' = bootCount
    BY <1>1, <1>2, <1>4 DEF EmitterReboot, central
  <2>2. ASSUME boots' = bootCount' PROVE EmitterIdsCount'
    <3>1. boots = bootCount /\ bootId' = StoredBootId(boots')
      BY <1>1, <2>1, <2>2
    <3>2. bootId' = boots'
      BY <1>2, <2>1, <3>1, StoredBootIdIsCount
    <3>3. EmitterIdsCount
      BY <3>1 DEF CountedIds
    <3>4. session <= boots + 1
      BY <1>1, <3>3 DEF EmitterIdsCount, IInv, TypeOK
    <3>5. \A m \in net : FromEmitter(m) => m.boot = m.ord /\ m.ord <= boots + 1
      BY <1>1, <3>3 DEF EmitterIdsCount
    <3> QED
      BY <2>1, <2>2, <3>2, <3>4, <3>5 DEF EmitterIdsCount
  <2>3. ASSUME CentralIdsCount PROVE CentralIdsCount'
    BY <1>1, <2>1, <2>3 DEF CentralIdsCount
  <2> QED
    BY <2>1, <2>2, <2>3 DEF CountedIds
<1>5. CASE CentralReboot
  <2>1. /\ cBoots' = cBoots + 1 /\ cBoots' \in 1 .. MaxCentralBoots
        /\ session' = 0 /\ UNCHANGED <<boots, bootCount, bootId, remote, net>>
        /\ \/ cBootCount' = cBootCount + 1 /\ cBootId' = StoredBootId(cBootCount')
           \/ cBootCount' = cBootCount
    BY <1>1, <1>2, <1>5 DEF CentralReboot, emitter
  <2>2. ASSUME cBoots' = cBootCount' PROVE CentralIdsCount'
    <3>1. cBoots = cBootCount /\ cBootId' = StoredBootId(cBoots')
      BY <1>1, <2>1, <2>2
    <3>2. cBootId' = cBoots'
      BY <1>2, <2>1, <3>1, StoredBootIdIsCount
    <3>3. CentralIdsCount
      BY <3>1 DEF CountedIds
    <3>4. remote <= cBoots + 1
      BY <1>1, <3>3 DEF CentralIdsCount, IInv, TypeOK
    <3>5. \A m \in net : ~FromEmitter(m) => m.boot <= cBoots + 1
      BY <1>1, <3>3 DEF CentralIdsCount
    <3> QED
      BY <2>1, <2>2, <3>2, <3>4, <3>5 DEF CentralIdsCount
  <2>3. ASSUME EmitterIdsCount PROVE EmitterIdsCount'
    BY <1>1, <2>1, <2>3 DEF EmitterIdsCount
  <2> QED
    BY <2>1, <2>2, <2>3 DEF CountedIds
<1> QED
  BY <1>3, <1>4, <1>5

LEMMA OpenToCountedIds == IInv /\ CountedIds => NeverShutOut
<1> SUFFICES ASSUME IInv, CountedIds PROVE NeverShutOut
  OBVIOUS
<1>1. ASSUME NEW m \in net, FromEmitter(m), m.ord = boots, boots = bootCount
      PROVE  ~IsOldSession(session, m.boot)
  <2>1. m.boot = boots /\ boots \in 1 .. MaxBoots /\ session \in 0 .. MaxBoots
        /\ session <= boots
    BY <1>1, LinkAssumption
    DEF IInv, TypeOK, CountedIds, EmitterIdsCount, LinkAssumption
  <2> QED
    BY <2>1, BootOrder, LinkAssumption DEF LinkAssumption
<1>2. ASSUME cBoots = cBootCount PROVE ~IsOldSession(remote, cBootId)
  <2>1. /\ cBootId \in 1 .. MaxCentralBoots /\ remote \in 0 .. MaxCentralBoots
        /\ remote <= cBootId
    BY <1>2, LinkAssumption
    DEF IInv, TypeOK, CountedIds, CentralIdsCount, LinkAssumption
  <2> QED
    BY <2>1, BootOrder, LinkAssumption DEF LinkAssumption
<1> QED
  BY <1>1, <1>2 DEF NeverShutOut

(* A node whose counter has reached flash at every boot so far is never    *)
(* taken for an old session of itself, whatever the other node's storage   *)
(* does and whatever the network still delivers of earlier boots.          *)
THEOREM NobodyIsShutOut == Spec => []NeverShutOut
BY Invariance, CountedIdsInit, CountedIdsStep, OpenToCountedIds, PTL DEF Spec

-----------------------------------------------------------------------------
(* The refinement of EventDelivery, while the counter of the emitter       *)
(* reaches flash (EmitterVolatileIds = {}), as delivery asks.  Each action *)
(* maps to one abstract step or to a stutter; what the abstract guards ask *)
(* for is in DeliveryInv and in InFlightWasSent.                           *)

LEMMA InitRefines == Init => Delivery!Init
BY DEF Init, Delivery!Init, Sent

(* Only a reliable packet counts as sent.                                  *)
LEMMA OthersDoNotCount ==
    ASSUME NEW m, ~IsReliable(m), net' = net \cup {m}
    PROVE  Sent' = Sent
BY DEF Sent, IsReliable

LEMMA AcksDoNotCount ==
    ASSUME NEW m, AutoAck(m)
    PROVE  Sent' = Sent
<1>1. ~IsReliable(Ack(m))
  BY DEF IsReliable, ReliableTypes, Ack
<1> QED
  BY <1>1, OthersDoNotCount DEF AutoAck, Sent

(* What Transmit sends: the packet in flight, of this boot.                *)
LEMMA TransmitSends ==
    ASSUME Transmit
    PROVE  /\ Sent' = Sent \cup {[ord |-> boots, seq |-> reliable.seq]}
           /\ reliable'.seq = reliable.seq /\ boots' = boots
<1> DEFINE p == Packet(TypeOf(reliable.seq), reliable.seq)
<1>1. IsReliable(p) /\ p.ord = boots /\ p.seq = reliable.seq
  BY DEF IsReliable, ReliableTypes, Packet, TypeOf
<1>2. net' = net \cup {p}
  BY DEF Transmit
<1> HIDE DEF p
<1>3. Sent' = Sent \cup {[ord |-> p.ord, seq |-> p.seq]}
  BY <1>1, <1>2 DEF Sent, IsReliable
<1>4. boots' = boots /\ reliable'.seq = reliable.seq
  BY DEF Transmit, history
<1> QED
  BY <1>1, <1>3, <1>4

-----------------------------------------------------------------------------

(* The packet in flight was sent once it waits for its ACK.                *)
LEMMA InFlightInit == Init => InFlightWasSent
BY DEF Init, InFlightWasSent, IdleChannel

LEMMA SentGrows ==
    ASSUME [Next]_vars
    PROVE  Sent \subseteq Sent'
<1>1. net \subseteq net'
  BY DEF Next, vars, emitter, central, history, SendEvent, SendHeartbeat,
         ProcessQueue, GiveUp, Transmit, SkipTransmission, EmitterReboot,
         SendStateRequest, CentralReboot, HandleAck, ReceiveStateRequest,
         DiscardOldSession, DiscardDuplicate, Handle, AutoAck
<1> QED
  BY <1>1 DEF Sent, IsReliable

LEMMA InFlightStep ==
    ASSUME IInv, InFlightWasSent, [Next]_vars
    PROVE  InFlightWasSent'
<1>1. Sent \subseteq Sent'
  BY SentGrows
<1>2. CASE Transmit
  BY <1>2, TransmitSends DEF InFlightWasSent
<1>3. CASE ProcessQueue \/ GiveUp \/ EmitterReboot \/ \E m \in net : HandleAck(m)
  <2>1. ~(reliable'.active /\ reliable'.waitingAck)
    BY <1>3
    DEF ProcessQueue, GiveUp, EmitterReboot, HandleAck, IdleChannel
  <2> QED
    BY <2>1 DEF InFlightWasSent
<1>4. CASE SkipTransmission \/ \E m \in net : ReceiveStateRequest(m)
  <2>1. /\ reliable'.active = reliable.active
        /\ reliable'.waitingAck = reliable.waitingAck
        /\ reliable'.seq = reliable.seq
        /\ boots' = boots
    BY <1>4 DEF SkipTransmission, ReceiveStateRequest, history, IInv, TypeOK
  <2> QED
    BY <1>1, <2>1 DEF InFlightWasSent
<1>5. CASE \/ SendEvent \/ SendHeartbeat \/ SendStateRequest \/ CentralReboot
           \/ \E m \in net : \/ DiscardOldSession(m) \/ DiscardDuplicate(m)
                             \/ Handle(m)
           \/ UNCHANGED vars
  <2>1. reliable' = reliable /\ boots' = boots
    BY <1>5
    DEF SendEvent, SendHeartbeat, SendStateRequest, CentralReboot,
        DiscardOldSession, DiscardDuplicate, Handle, vars, emitter, history
  <2> QED
    BY <1>1, <2>1 DEF InFlightWasSent
<1> QED
  BY <1>2, <1>3, <1>4, <1>5 DEF Next

-----------------------------------------------------------------------------

LEMMA TransmitRefines ==
    ASSUME IInv, Transmit
    PROVE  Delivery!Next
<1>1. reliable.seq \in 1 .. MaxSeq
  BY LinkAssumption
  DEF IInv, TypeOK, PacketsNumbered, Transmit, LinkAssumption
<1>2. Delivery!Send(reliable.seq)
  BY TransmitSends DEF Delivery!Send, Transmit, central, history
<1> QED
  BY <1>1, <1>2 DEF Delivery!Next

LEMMA HandleAckRefines ==
    ASSUME InFlightWasSent, DeliveryInv', NEW m \in net, HandleAck(m)
    PROVE  Delivery!Next
<1> DEFINE p == [ord |-> boots, seq |-> reliable.seq]
<1>1. p \in Sent
  BY DEF HandleAck, AckMatches, InFlightWasSent
<1>2. /\ confirmed' = confirmed \cup {p}
      /\ net' = net /\ boots' = boots /\ cBoots' = cBoots
      /\ handled' = handled /\ repeated' = repeated
  BY DEF HandleAck
<1>3. WasHandled(p) \/ WasOvertaken(p) \/ IsAmbiguous(p)
  BY <1>2
  DEF DeliveryInv, ConfirmedLossIsExplained, WasHandled, WasOvertaken,
      IsAmbiguous
<1>4. p.ord = boots
  OBVIOUS
<1> HIDE DEF p
<1>5. ASSUME IsAmbiguous(p) PROVE Delivery!IsAmbiguous(p)
  <2>1. PICK n \in net : IsReliable(n) /\ n.ord < p.ord /\ n.seq = p.seq
    BY <1>5 DEF IsAmbiguous
  <2> DEFINE q == [ord |-> n.ord, seq |-> n.seq]
  <2>2. q \in Sent /\ q.ord < p.ord /\ q.seq = p.seq
    BY <2>1 DEF Sent
  <2> QED
    BY <2>2 DEF Delivery!IsAmbiguous
<1>6. Sent' = Sent
  BY <1>2 DEF Sent, IsReliable
<1>7. Delivery!Confirm(p)
  BY <1>2, <1>3, <1>4, <1>5, <1>6
  DEF Delivery!Confirm, Delivery!WasHandled, Delivery!WasOvertaken,
      WasHandled, WasOvertaken
<1> QED
  BY <1>1, <1>7 DEF Delivery!Next

LEMMA HandleRefines ==
    ASSUME DeliveryInv, NEW m \in net, Handle(m), IsReliable(m)
    PROVE  Delivery!Next
<1> DEFINE p == [ord |-> m.ord, seq |-> m.seq]
           h == [epoch |-> cBoots, ord |-> m.ord, seq |-> m.seq]
<1>1. p \in Sent
  BY DEF Sent
<1>2. h \notin handled
  BY HandledIsNew
<1>3. /\ handled' = handled \cup {h} /\ repeated' = repeated
      /\ boots' = boots /\ cBoots' = cBoots /\ confirmed' = confirmed
  BY <1>2 DEF Handle
<1>4. Sent' = Sent
  BY AcksDoNotCount DEF Handle
<1>5. \A g \in handled : g.epoch = cBoots => g.ord <= m.ord
  <2> SUFFICES ASSUME NEW g \in handled, g.epoch = cBoots
               PROVE  g.ord <= m.ord
    OBVIOUS
  <2>1. h \in handled' \ handled
    BY <1>2, <1>3
  <2>2. [Next]_vars
    BY DEF Next
  <2>3. g.ord <= h.ord
    BY <2>1, <2>2, HandleInOrder
  <2> QED
    BY <2>3
<1>6. Delivery!HandOver(p)
  BY <1>2, <1>3, <1>4, <1>5 DEF Delivery!HandOver
<1> QED
  BY <1>1, <1>6 DEF Delivery!Next

LEMMA RebootsRefine ==
    ASSUME EmitterReboot \/ CentralReboot
    PROVE  Delivery!Next
<1>1. net' = net
  BY DEF EmitterReboot, CentralReboot
<1>2. Sent' = Sent
  BY <1>1 DEF Sent, IsReliable
<1>3. CASE EmitterReboot
  BY <1>2, <1>3
  DEF EmitterReboot, Delivery!Next, Delivery!SenderRestarts, central
<1>4. CASE CentralReboot
  BY <1>2, <1>4
  DEF CentralReboot, Delivery!Next, Delivery!ReceiverRestarts, emitter
<1> QED
  BY <1>3, <1>4

(* The rest changes nothing the users of the link see.                     *)
LEMMA OthersStutter ==
    ASSUME \/ SendEvent \/ SendHeartbeat \/ ProcessQueue \/ GiveUp
           \/ SkipTransmission \/ SendStateRequest
           \/ \E m \in net : \/ ReceiveStateRequest(m)
                             \/ DiscardOldSession(m) \/ DiscardDuplicate(m)
                             \/ Handle(m) /\ ~IsReliable(m)
           \/ UNCHANGED vars
    PROVE  UNCHANGED Delivery!vars
<1>1. UNCHANGED <<boots, cBoots, handled, repeated, confirmed>>
  BY DEF SendEvent, SendHeartbeat, ProcessQueue, GiveUp, SkipTransmission,
         SendStateRequest, ReceiveStateRequest, DiscardOldSession,
         DiscardDuplicate, Handle, vars, history
<1>2. Sent' = Sent
  <2>1. CASE net' = net
    BY <2>1 DEF Sent, IsReliable
  <2>2. CASE \E m \in net : \/ DiscardOldSession(m) \/ DiscardDuplicate(m)
                            \/ Handle(m)
    BY <2>2, AcksDoNotCount DEF DiscardOldSession, DiscardDuplicate, Handle
  <2>3. CASE \/ SendHeartbeat \/ SendStateRequest
             \/ \E m \in net : ReceiveStateRequest(m)
    <3>1. ~IsReliable(Telemetry) /\ ~IsReliable(StateRequest)
      BY DEF IsReliable, ReliableTypes, Telemetry, StateRequest
    <3>2. net' = net \cup {Telemetry} \/ net' = net \cup {StateRequest}
      BY <2>3 DEF SendHeartbeat, SendStateRequest, ReceiveStateRequest
    <3> QED
      BY <3>1, <3>2, OthersDoNotCount
  <2> QED
    BY <2>1, <2>2, <2>3
    DEF SendEvent, ProcessQueue, GiveUp, SkipTransmission, vars
<1> QED
  BY <1>1, <1>2 DEF Delivery!vars

LEMMA StepRefines ==
    ASSUME DeliveryInv, DeliveryInv', InFlightWasSent, [Next]_vars
    PROVE  [Delivery!Next]_(Delivery!vars)
<1>1. CASE Transmit
  BY <1>1, TransmitRefines DEF DeliveryInv
<1>2. ASSUME NEW m \in net, HandleAck(m) PROVE Delivery!Next
  BY <1>2, HandleAckRefines
<1>3. ASSUME NEW m \in net, Handle(m), IsReliable(m) PROVE Delivery!Next
  BY <1>3, HandleRefines
<1>4. CASE EmitterReboot \/ CentralReboot
  BY <1>4, RebootsRefine
<1>5. CASE \/ SendEvent \/ SendHeartbeat \/ ProcessQueue \/ GiveUp
           \/ SkipTransmission \/ SendStateRequest
           \/ \E m \in net : \/ ReceiveStateRequest(m)
                             \/ DiscardOldSession(m) \/ DiscardDuplicate(m)
                             \/ Handle(m) /\ ~IsReliable(m)
           \/ UNCHANGED vars
  BY <1>5, OthersStutter
<1> QED
  BY <1>1, <1>2, <1>3, <1>4, <1>5 DEF Next

(* The link implements EventDelivery: at most once per boot of the         *)
(* central, in the order of the boots, and confirmed only when handed over *)
(* or lost in one of the two known ways.                                   *)
THEOREM LinkImplementsDelivery ==
    ASSUME EmitterVolatileIds = {}
    PROVE  Spec => LinkDelivers
<1>1. DeliveryInv => IInv
  BY DEF DeliveryInv
<1>2. DeliveryInv /\ InFlightWasSent /\ [Next]_vars => InFlightWasSent'
  BY <1>1, InFlightStep
<1>3. Spec => []InFlightWasSent
  BY DeliveryInvariance, InFlightInit, <1>2, PTL DEF Spec
<1>4. DeliveryInv /\ DeliveryInv' /\ InFlightWasSent /\ [Next]_vars
        => [Delivery!Next]_(Delivery!vars)
  BY StepRefines
<1> QED
  BY DeliveryInvariance, InitRefines, <1>3, <1>4, PTL
  DEF Spec, LinkDelivers, Delivery!Spec

=============================================================================
