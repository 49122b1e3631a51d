------------------------ MODULE Transmission_proofs ------------------------
(***************************************************************************)
(* What a node sends, for every size of the queue, every number of         *)
(* attempts, all backoffs and every width of the clock.  Two parts:        *)
(*   - the queue a packet waits in (NodeQueue);                            *)
(*   - the channel that sends the one in flight again until it is          *)
(*     acknowledged or abandoned (ReliableChannel).                        *)
(* The two components share no variable: the names of the channel carry    *)
(* its name so that one module can speak of both.                          *)
(***************************************************************************)
EXTENDS NodeQueue, ReliableChannel, FiniteSetTheorems, WellFoundedInduction,
        TLAPS

LEMMA SlotsFinite ==
    /\ IsFiniteSet(Slots)
    /\ Cardinality(Slots) = QueueSize
<1>1. 0 \in Int /\ QueueSize - 1 \in Int /\ ~(0 > QueueSize - 1)
  BY QueueSizeAssumption DEF QueueSizeAssumption
<1> QED
  BY <1>1, FS_Interval, QueueSizeAssumption DEF Slots, QueueSizeAssumption

LEMMA OccupiedFinite ==
    ASSUME NEW q
    PROVE  /\ IsFiniteSet(Occupied(q))
           /\ Cardinality(Occupied(q)) \in Nat
           /\ Cardinality(Occupied(q)) <= QueueSize
           /\ Cardinality(Occupied(q)) = QueueSize => Occupied(q) = Slots
<1>1. Occupied(q) \in SUBSET Slots
  BY DEF Occupied
<1> QED
  BY <1>1, SlotsFinite, FS_Subset, FS_CardinalityType

LEMMA FilledFacts ==
    ASSUME NEW pkt \in Nat, NEW pri \in Priorities
    PROVE  /\ Filled(pkt, pri) \in Entries
           /\ Filled(pkt, pri).occupied
           /\ Filled(pkt, pri).pkt = pkt
           /\ Filled(pkt, pri).priority = pri
BY DEF Filled, Entries

LEMMA FreeSlotFacts == FreeSlot \in Entries /\ ~FreeSlot.occupied
BY DEF FreeSlot, Entries, Priorities

LEMMA InitIInv == Init => IInv
<1> SUFFICES ASSUME Init PROVE IInv
  OBVIOUS
<1>1. Occupied(queue) = {}
  BY DEF Init, EmptyQueue, FreeSlot, Occupied
<1>2. TypeOK
  <2>1. FreeSlot \in Entries
    BY DEF FreeSlot, Entries, Priorities
  <2>2. queue \in [Slots -> Entries]
    BY <2>1 DEF Init, EmptyQueue
  <2>3. fate \in [Packets -> Fates]
    BY DEF Init, Fates
  <2>4. calls \in 0 .. MaxCalls
    BY MaxCallsAssumption DEF Init, MaxCallsAssumption
  <2> QED
    BY <2>2, <2>3, <2>4 DEF Init, TypeOK, Policies
<1>3. CountExact
  BY <1>1, FS_EmptySet DEF Init, CountExact
<1>4. Conserved /\ NumbersIssued
  BY <1>1 DEF Init, Conserved, NumbersIssued, Queued
<1> QED
  BY <1>2, <1>3, <1>4 DEF IInv

(* The parts of the invariant the steps below use together.                *)
LEMMA SlotFacts ==
    ASSUME IInv
    PROVE  /\ queue \in [Slots -> Entries]
           /\ fate \in [Packets -> Fates]
           /\ Occupied(queue) \subseteq Slots
           /\ \A i \in Occupied(queue) :
                 /\ queue[i].pkt \in Packets
                 /\ fate[queue[i].pkt] = "queued"
                 /\ \A j \in Occupied(queue) : queue[i].pkt = queue[j].pkt => i = j
<1>1. \A i \in Occupied(queue) : queue[i].pkt \in Packets
  BY MaxCallsAssumption
  DEF IInv, TypeOK, NumbersIssued, Packets, MaxCallsAssumption
<1> QED
  BY <1>1 DEF IInv, TypeOK, Conserved, Queued, Occupied

(* A new packet has a number no slot and no earlier call has.              *)
LEMMA NewPacket ==
    ASSUME IInv, calls < MaxCalls
    PROVE  /\ calls + 1 \in Packets
           /\ calls + 1 \in Nat
           /\ ~Queued(calls + 1)
           /\ \A i \in Occupied(queue) : queue[i].pkt # calls + 1
BY MaxCallsAssumption
DEF IInv, TypeOK, NumbersIssued, Packets, Queued, MaxCallsAssumption

LEMMA InsertKeepsIInv ==
    ASSUME IInv, NEW pri \in Priorities, NEW r \in BOOLEAN, NEW s \in BOOLEAN,
           Enqueue(pri, r, s), Insert(calls + 1, pri)
    PROVE  IInv'
<1> DEFINE pkt == calls + 1
<1>1. PICK i \in Slots : /\ i \notin Occupied(queue)
                         /\ queue' = [queue EXCEPT ![i] = Filled(pkt, pri)]
  BY DEF Insert, IsFirstFree
<1>2. /\ pkt \in Packets /\ pkt \in Nat /\ ~Queued(pkt) /\ pkt = calls + 1
      /\ \A j \in Occupied(queue) : queue[j].pkt # pkt
  BY NewPacket DEF Enqueue
<1> HIDE DEF pkt
<1>3. /\ queue' \in [Slots -> Entries]
      /\ Occupied(queue') = Occupied(queue) \cup {i}
      /\ queue'[i].pkt = pkt
      /\ \A j \in Slots \ {i} : queue'[j] = queue[j]
  <2>1. queue \in [Slots -> Entries]
    BY SlotFacts
  <2>2. /\ Filled(pkt, pri) \in Entries /\ Filled(pkt, pri).occupied
        /\ Filled(pkt, pri).pkt = pkt
    BY <1>2, FilledFacts
  <2>3. /\ queue' \in [Slots -> Entries]
        /\ queue'[i] = Filled(pkt, pri)
        /\ \A j \in Slots \ {i} : queue'[j] = queue[j]
    BY <1>1, <2>1, <2>2
  <2> QED
    BY <1>1, <2>2, <2>3 DEF Occupied
<1>4. TypeOK'
  BY <1>2, <1>3, MaxCallsAssumption
  DEF IInv, TypeOK, Enqueue, Insert, Fates, Packets, MaxCallsAssumption
<1>5. CountExact'
  BY <1>1, <1>3, OccupiedFinite, FS_AddElement DEF IInv, CountExact, Insert
<1>6. fate' = [fate EXCEPT ![pkt] = "queued"] /\ fate \in [Packets -> Fates]
  BY <1>2, SlotFacts DEF Insert
<1>7. Occupied(queue) \subseteq Slots
  BY DEF Occupied
<1>8. \A p : Queued(p)' <=> (Queued(p) \/ p = pkt)
  BY <1>1, <1>3, <1>7 DEF Queued
<1>9. Conserved'
  <2>1. ASSUME NEW p \in Packets
        PROVE  fate'[p] = "queued" <=> Queued(p)'
    BY <1>2, <1>6, <1>8 DEF IInv, Conserved
  <2>2. ASSUME NEW j \in Occupied(queue'), NEW k \in Occupied(queue'),
               queue'[j].pkt = queue'[k].pkt
        PROVE  j = k
    BY <1>1, <1>2, <1>3, <1>7, <2>2, SlotFacts
  <2> QED
    BY <2>1, <2>2 DEF Conserved
<1>10. NumbersIssued'
  BY <1>1, <1>2, <1>3, <1>7
  DEF IInv, TypeOK, NumbersIssued, Enqueue, Packets
<1> QED
  BY <1>4, <1>5, <1>9, <1>10 DEF IInv

LEMMA ReplaceKeepsIInv ==
    ASSUME IInv, NEW pri \in Priorities, NEW r \in BOOLEAN, NEW s \in BOOLEAN,
           Enqueue(pri, r, s), Replace(calls + 1, pri)
    PROVE  IInv'
<1> DEFINE pkt == calls + 1
<1>1. PICK i \in Slots :
        /\ i \in Occupied(queue)
        /\ queue' = [queue EXCEPT ![i] = Filled(pkt, pri)]
        /\ fate' = [fate EXCEPT ![pkt] = "queued", ![queue[i].pkt] = "evicted"]
  BY DEF Replace, IsVictim, IsFirstBackground, IsLowestPriorityEntry
<1>2. /\ pkt \in Packets /\ pkt \in Nat /\ ~Queued(pkt) /\ pkt = calls + 1
      /\ \A j \in Occupied(queue) : queue[j].pkt # pkt
  BY NewPacket DEF Enqueue
<1> HIDE DEF pkt
<1>3. /\ queue' \in [Slots -> Entries]
      /\ Occupied(queue') = Occupied(queue)
      /\ queue'[i].pkt = pkt
      /\ \A j \in Slots \ {i} : queue'[j] = queue[j]
  <2>1. queue \in [Slots -> Entries]
    BY SlotFacts
  <2>2. /\ Filled(pkt, pri) \in Entries /\ Filled(pkt, pri).occupied
        /\ Filled(pkt, pri).pkt = pkt
    BY <1>2, FilledFacts
  <2>3. /\ queue' \in [Slots -> Entries]
        /\ queue'[i] = Filled(pkt, pri)
        /\ \A j \in Slots \ {i} : queue'[j] = queue[j]
    BY <1>1, <2>1, <2>2
  <2> QED
    BY <1>1, <2>2, <2>3 DEF Occupied
<1>4. TypeOK'
  <2>1. fate' \in [Packets -> Fates]
    BY <1>1, SlotFacts DEF Fates
  <2>2. calls' \in 0 .. MaxCalls /\ reliable' \subseteq Packets
    BY <1>2, MaxCallsAssumption
    DEF IInv, TypeOK, Enqueue, Packets, MaxCallsAssumption
  <2> QED
    BY <1>3, <2>1, <2>2 DEF IInv, TypeOK, Enqueue, Replace
<1>5. CountExact'
  BY <1>3 DEF IInv, CountExact, Replace
<1>6. queue[i].pkt \in Packets /\ queue[i].pkt # pkt /\ fate \in [Packets -> Fates]
  BY <1>1, <1>2, SlotFacts
<1>7. Occupied(queue) \subseteq Slots
  BY DEF Occupied
<1>8. \A p : Queued(p)' <=> ((Queued(p) /\ p # queue[i].pkt) \/ p = pkt)
  BY <1>1, <1>3, <1>6, <1>7 DEF Queued, IInv, Conserved
<1>9. Conserved'
  <2>1. ASSUME NEW p \in Packets
        PROVE  fate'[p] = "queued" <=> Queued(p)'
    <3>1. fate'[p] = IF p = queue[i].pkt THEN "evicted"
                     ELSE IF p = pkt THEN "queued" ELSE fate[p]
      BY <1>1, <1>2, <1>6
    <3> QED
      BY <1>6, <1>8, <3>1 DEF IInv, Conserved
  <2>2. ASSUME NEW j \in Occupied(queue'), NEW k \in Occupied(queue'),
               queue'[j].pkt = queue'[k].pkt
        PROVE  j = k
    BY <1>1, <1>2, <1>3, <1>7, <2>2, SlotFacts
  <2> QED
    BY <2>1, <2>2 DEF Conserved
<1>10. NumbersIssued'
  BY <1>1, <1>2, <1>3, <1>7
  DEF IInv, TypeOK, NumbersIssued, Enqueue, Packets
<1> QED
  BY <1>4, <1>5, <1>9, <1>10 DEF IInv

LEMMA RejectKeepsIInv ==
    ASSUME IInv, NEW pri \in Priorities, NEW r \in BOOLEAN, NEW s \in BOOLEAN,
           Enqueue(pri, r, s), Reject(calls + 1, pri)
    PROVE  IInv'
<1> DEFINE pkt == calls + 1
<1>1. /\ queue' = queue /\ queueCount' = queueCount
      /\ fate' = [fate EXCEPT ![pkt] = "rejected"]
  BY DEF Reject
<1>2. pkt \in Packets /\ ~Queued(pkt)
  BY NewPacket DEF Enqueue
<1>3. TypeOK'
  BY <1>1, <1>2, MaxCallsAssumption
  DEF IInv, TypeOK, Enqueue, Fates, Packets, MaxCallsAssumption
<1>4. Conserved' /\ CountExact'
  BY <1>1, <1>2 DEF IInv, TypeOK, Conserved, CountExact, Queued
<1>5. NumbersIssued'
  BY <1>1 DEF IInv, TypeOK, NumbersIssued, Enqueue
<1> QED
  BY <1>3, <1>4, <1>5 DEF IInv

LEMMA UnsignedKeepsIInv ==
    ASSUME IInv, NEW pri \in Priorities, NEW r \in BOOLEAN, NEW s \in BOOLEAN,
           Enqueue(pri, r, s), Unsigned(calls + 1)
    PROVE  IInv'
<1> DEFINE pkt == calls + 1
<1>1. /\ queue' = queue /\ queueCount' = queueCount
      /\ fate' = [fate EXCEPT ![pkt] = "unsigned"]
  BY DEF Unsigned
<1>2. pkt \in Packets /\ ~Queued(pkt)
  BY NewPacket DEF Enqueue
<1>3. TypeOK'
  BY <1>1, <1>2, MaxCallsAssumption
  DEF IInv, TypeOK, Enqueue, Fates, Packets, MaxCallsAssumption
<1>4. Conserved' /\ CountExact'
  BY <1>1, <1>2 DEF IInv, TypeOK, Conserved, CountExact, Queued
<1>5. NumbersIssued'
  BY <1>1 DEF IInv, TypeOK, NumbersIssued, Enqueue
<1> QED
  BY <1>3, <1>4, <1>5 DEF IInv

LEMMA ProcessQueueKeepsIInv ==
    ASSUME IInv, ProcessQueue
    PROVE  IInv'
<1>1. PICK i \in Slots :
        /\ i \in Occupied(queue)
        /\ queue' = [queue EXCEPT ![i] = FreeSlot]
        /\ channelBusy' = (queue[i].pkt \in reliable)
        /\ fate' = [fate EXCEPT ![queue[i].pkt] =
                       IF queue[i].pkt \in reliable THEN "channel"
                       ELSE IF wifiUp THEN "sent" ELSE "unsent"]
  BY DEF ProcessQueue, IsHighestPriorityEntry
<1>2. /\ queue' \in [Slots -> Entries]
      /\ Occupied(queue') = Occupied(queue) \ {i}
      /\ \A j \in Slots \ {i} : queue'[j] = queue[j]
  <2>1. /\ queue' \in [Slots -> Entries]
        /\ queue'[i] = FreeSlot
        /\ \A j \in Slots \ {i} : queue'[j] = queue[j]
    BY <1>1, SlotFacts, FreeSlotFacts
  <2> QED
    BY <2>1, FreeSlotFacts DEF Occupied
<1>3. /\ queue[i].pkt \in Packets /\ fate \in [Packets -> Fates]
      /\ Occupied(queue) \subseteq Slots
  BY <1>1, SlotFacts
<1>4. CountExact' /\ queueCount' \in Nat
  <2>1. /\ IsFiniteSet(Occupied(queue)) /\ IsFiniteSet(Occupied(queue'))
        /\ Cardinality(Occupied(queue')) \in Nat
    BY OccupiedFinite
  <2>2. Cardinality(Occupied(queue')) = Cardinality(Occupied(queue)) - 1
    BY <1>1, <1>2, <2>1, FS_RemoveElement
  <2> QED
    BY <2>1, <2>2 DEF IInv, CountExact, ProcessQueue
<1>5. channelBusy' \in BOOLEAN
  BY <1>1
<1>6. fate' \in [Packets -> Fates]
  BY <1>1, <1>3 DEF Fates
<1>7. TypeOK'
  BY <1>2, <1>4, <1>5, <1>6 DEF IInv, TypeOK, ProcessQueue
<1>8. \A p : Queued(p)' <=> (Queued(p) /\ p # queue[i].pkt)
  BY <1>1, <1>2, <1>3 DEF Queued, IInv, Conserved
<1>9. Conserved'
  BY <1>1, <1>2, <1>3, <1>8 DEF IInv, Conserved
<1>10. NumbersIssued'
  BY <1>1, <1>2, <1>3 DEF IInv, NumbersIssued, ProcessQueue
<1> QED
  BY <1>4, <1>7, <1>9, <1>10 DEF IInv

-----------------------------------------------------------------------------

(* The invariant holds in every reachable state.                           *)
THEOREM Invariance == Spec => []IInv
<1>1. IInv /\ [Next]_vars => IInv'
  <2> SUFFICES ASSUME IInv, [Next]_vars PROVE IInv'
    OBVIOUS
  <2>1. ASSUME NEW pri \in Priorities, NEW r \in BOOLEAN, NEW s \in BOOLEAN,
               Enqueue(pri, r, s)
        PROVE  IInv'
    BY <2>1, InsertKeepsIInv, ReplaceKeepsIInv, RejectKeepsIInv,
       UnsignedKeepsIInv DEF Enqueue
  <2>2. CASE ProcessQueue
    BY <2>2, ProcessQueueKeepsIInv
  <2>3. ASSUME NEW policy \in Policies, SetOverflowPolicy(policy)
        PROVE  IInv'
    BY <2>3 DEF SetOverflowPolicy, IInv, TypeOK, CountExact, Conserved,
                NumbersIssued, Queued
  <2>4. CASE ChannelEnds \/ WifiChanges \/ UNCHANGED vars
    BY <2>4 DEF ChannelEnds, WifiChanges, vars, IInv, TypeOK, CountExact,
                Conserved, NumbersIssued, Queued
  <2> QED
    BY <2>1, <2>2, <2>3, <2>4 DEF Next
<1> QED
  BY InitIInv, <1>1, PTL DEF Spec

(* The hand-kept _queueCount is the number of occupied slots.              *)
THEOREM CountIsExact == Spec => []CountExact
<1>1. IInv => CountExact
  BY DEF IInv
<1> QED
  BY Invariance, <1>1, PTL

(* Every packet is in exactly one slot or has left for one known reason.   *)
THEOREM Conservation == Spec => []Conserved
<1>1. IInv => Conserved
  BY DEF IInv
<1> QED
  BY Invariance, <1>1, PTL

(* Unless the policy is DROP_OLDEST, an eviction costs a BACKGROUND packet,*)
(* under DROP_OLDEST_BG alone, and only for a packet that is not one.      *)
THEOREM EvictionOrder == Spec => EvictionRespectsPriority
<1> DEFINE A == \A i \in Occupied(queue) :
                  fate'[queue[i].pkt] = "evicted" /\ overflowPolicy # DROP_OLDEST =>
                    /\ overflowPolicy = DROP_OLDEST_BG
                    /\ queue[i].priority = BACKGROUND
                    /\ queue'[i].priority # BACKGROUND
<1>1. ASSUME IInv, Next PROVE A
  <2> SUFFICES ASSUME NEW i \in Occupied(queue),
                      fate'[queue[i].pkt] = "evicted",
                      overflowPolicy # DROP_OLDEST
               PROVE  /\ overflowPolicy = DROP_OLDEST_BG
                      /\ queue[i].priority = BACKGROUND
                      /\ queue'[i].priority # BACKGROUND
    OBVIOUS
  <2>1. /\ fate[queue[i].pkt] = "queued" /\ queue[i].pkt \in Packets
        /\ i \in Slots /\ queue \in [Slots -> Entries]
        /\ fate \in [Packets -> Fates]
    BY <1>1, SlotFacts
  <2>2. PICK pri \in Priorities, r \in BOOLEAN, s \in BOOLEAN :
          Enqueue(pri, r, s) /\ Replace(calls + 1, pri)
    <3>1. ~ProcessQueue
      <4> SUFFICES ASSUME ProcessQueue PROVE FALSE
        OBVIOUS
      <4>1. PICK k \in Slots :
              fate' = [fate EXCEPT ![queue[k].pkt] =
                         IF queue[k].pkt \in reliable THEN "channel"
                         ELSE IF wifiUp THEN "sent" ELSE "unsent"]
        BY DEF ProcessQueue
      <4> QED
        BY <2>1, <4>1
    <3>2. fate' # fate
      BY <2>1
    <3>3. PICK pri \in Priorities, r \in BOOLEAN, s \in BOOLEAN : Enqueue(pri, r, s)
      BY <1>1, <3>1, <3>2 DEF Next, ChannelEnds, SetOverflowPolicy, WifiChanges
    <3>4. /\ ~Insert(calls + 1, pri) /\ ~Reject(calls + 1, pri)
          /\ ~Unsigned(calls + 1)
      BY <2>1 DEF Insert, Reject, Unsigned
    <3> QED
      BY <3>3, <3>4 DEF Enqueue
  <2>3. PICK k \in Slots :
          /\ IsVictim(queue, overflowPolicy, pri, k)
          /\ queue' = [queue EXCEPT ![k] = Filled(calls + 1, pri)]
          /\ fate' = [fate EXCEPT ![calls + 1] = "queued",
                                  ![queue[k].pkt] = "evicted"]
    BY <2>2 DEF Replace
  <2>4. k \in Occupied(queue) /\ k = i
    <3>1. k \in Occupied(queue)
      BY <2>3 DEF IsVictim, IsFirstBackground, IsLowestPriorityEntry
    <3>2. queue[i].pkt # calls + 1
      BY <1>1, <2>2, NewPacket DEF Enqueue
    <3>3. queue[k].pkt = queue[i].pkt
      BY <2>1, <2>3, <3>2
    <3> QED
      BY <1>1, <3>1, <3>3, SlotFacts
  <2>5. queue'[i].priority = pri
    BY <2>1, <2>3, <2>4 DEF Filled
  <2> QED
    BY <2>3, <2>4, <2>5 DEF IsVictim, IsFirstBackground
<1>2. IInv /\ [Next]_vars => [A]_vars
  BY <1>1
<1> QED
  BY Invariance, <1>2, PTL DEF Spec, EvictionRespectsPriority

(* A packet that could be signed is refused only when no slot is free: the *)
(* count cannot drift into refusing packets a free slot could take.        *)
THEOREM RejectionMeansFull == Spec => RejectedOnlyWhenFull
<1> DEFINE A == \A p \in Packets :
                  (fate[p] # "rejected" /\ fate'[p] = "rejected") =>
                     Occupied(queue) = Slots
<1>1. ASSUME IInv, Next PROVE A
  <2> SUFFICES ASSUME NEW p \in Packets,
                      fate[p] # "rejected", fate'[p] = "rejected"
               PROVE  Occupied(queue) = Slots
    OBVIOUS
  <2>1. fate \in [Packets -> Fates]
    BY <1>1, SlotFacts
  <2>2. isQueueFull => Occupied(queue) = Slots
    BY <1>1, OccupiedFinite, QueueSizeAssumption
    DEF IInv, CountExact, isQueueFull, QueueSizeAssumption
  <2>3. CASE \E pri \in Priorities, r, s \in BOOLEAN : Enqueue(pri, r, s)
    <3>1. PICK pri \in Priorities :
            \/ Insert(calls + 1, pri) \/ Replace(calls + 1, pri)
            \/ Reject(calls + 1, pri) \/ Unsigned(calls + 1)
      BY <2>3 DEF Enqueue
    <3>2. ~Insert(calls + 1, pri) /\ ~Unsigned(calls + 1)
      BY <2>1 DEF Insert, Unsigned
    <3> QED
      BY <2>2, <3>1, <3>2 DEF Replace, Reject
  <2>4. CASE ProcessQueue
    <3>1. PICK k \in Slots :
            fate' = [fate EXCEPT ![queue[k].pkt] =
                       IF queue[k].pkt \in reliable THEN "channel"
                       ELSE IF wifiUp THEN "sent" ELSE "unsent"]
      BY <2>4 DEF ProcessQueue
    <3> QED
      BY <2>1, <3>1
  <2>5. fate' = fate \/ ProcessQueue
          \/ \E pri \in Priorities, r, s \in BOOLEAN : Enqueue(pri, r, s)
    BY <1>1 DEF Next, ChannelEnds, SetOverflowPolicy, WifiChanges
  <2> QED
    BY <2>3, <2>4, <2>5
<1>2. IInv /\ [Next]_vars => [A]_vars
  BY <1>1
<1> QED
  BY Invariance, <1>2, PTL DEF Spec, RejectedOnlyWhenFull

(* While something more important waits, nothing else is served.           *)
THEOREM ServiceOrder == Spec => ServedByPriority
<1> DEFINE Served == {"channel", "sent", "unsent"}
<1> DEFINE A == \A i, j \in Occupied(queue) :
                  fate'[queue[i].pkt] \in Served =>
                     queue[i].priority <= queue[j].priority
<1>1. ASSUME IInv, Next PROVE A
  <2> SUFFICES ASSUME NEW i \in Occupied(queue), NEW j \in Occupied(queue),
                      fate'[queue[i].pkt] \in Served
               PROVE  queue[i].priority <= queue[j].priority
    OBVIOUS
  <2>1. /\ fate[queue[i].pkt] = "queued" /\ queue[i].pkt \in Packets
        /\ i \in Slots /\ j \in Slots /\ queue \in [Slots -> Entries]
        /\ fate \in [Packets -> Fates]
    BY <1>1, SlotFacts
  <2>2. ProcessQueue
    <3>1. ASSUME NEW pri \in Priorities, NEW r \in BOOLEAN, NEW s \in BOOLEAN,
                 Enqueue(pri, r, s)
          PROVE  FALSE
      <4>1. \/ Insert(calls + 1, pri) \/ Replace(calls + 1, pri)
            \/ Reject(calls + 1, pri) \/ Unsigned(calls + 1)
        BY <3>1 DEF Enqueue
      <4>2. /\ ~Insert(calls + 1, pri) /\ ~Reject(calls + 1, pri)
            /\ ~Unsigned(calls + 1)
        BY <2>1 DEF Insert, Reject, Unsigned
      <4>3. ~Replace(calls + 1, pri)
        BY <2>1 DEF Replace
      <4> QED
        BY <4>1, <4>2, <4>3
    <3>2. fate' # fate
      BY <2>1
    <3> QED
      BY <1>1, <3>1, <3>2 DEF Next, ChannelEnds, SetOverflowPolicy, WifiChanges
  <2>3. PICK k \in Slots :
          /\ IsHighestPriorityEntry(queue, k)
          /\ fate' = [fate EXCEPT ![queue[k].pkt] =
                         IF queue[k].pkt \in reliable THEN "channel"
                         ELSE IF wifiUp THEN "sent" ELSE "unsent"]
    BY <2>2 DEF ProcessQueue
  <2>4. k = i
    <3>1. k \in Occupied(queue)
      BY <2>3 DEF IsHighestPriorityEntry
    <3>2. queue[k].pkt = queue[i].pkt
      BY <2>1, <2>3
    <3> QED
      BY <1>1, <3>1, <3>2, SlotFacts
  <2>5. queue[i].priority \in Nat /\ queue[j].priority \in Nat
    BY <2>1 DEF Entries, Priorities, URGENT, NORMAL, BACKGROUND
  <2> QED
    BY <2>3, <2>4, <2>5 DEF IsHighestPriorityEntry
<1>2. IInv /\ [Next]_vars => [A]_vars
  BY <1>1
<1> QED
  BY Invariance, <1>2, PTL DEF Spec, ServedByPriority

(* Every variable keeps its type.                                          *)
THEOREM TypeCorrectness == Spec => []TypeOK
<1>1. IInv => TypeOK
  BY DEF IInv
<1> QED
  BY Invariance, <1>1, PTL

-----------------------------------------------------------------------------
(* The channel.                                                            *)

(* A set of natural numbers has a least one: what induction rests on here. *)
LEMMA LeastNumber ==
    ASSUME NEW T \in SUBSET Nat, T # {}
    PROVE  \E n \in T : \A m \in T : ~(m < n)
<1>1. PICK n \in T : \A m \in T : <<m, n>> \notin OpToRel(<, Nat)
  BY NatLessThanWellFounded, WFMin
<1>2. \A m \in T : m < n => <<m, n>> \in OpToRel(<, Nat)
  BY DEF OpToRel
<1> QED
  BY <1>1, <1>2

Backoffs == 0 .. BackoffMax

(* What one more attempt makes of a backoff.                               *)
Rise(b) == LET ms == (b * 3) \div 2
           IN  IF ms > BackoffMax THEN BackoffMax ELSE ms

(* The first n + 1 backoffs.                                               *)
IsStart(f, n) ==
    /\ f \in [0 .. n -> Backoffs]
    /\ f[0] = BackoffBase
    /\ \A i \in 1 .. n : f[i] = Rise(f[i - 1])

LEMMA RiseType == ASSUME NEW b \in Backoffs PROVE Rise(b) \in Backoffs
BY ChannelAssumption DEF ChannelAssumption, Backoffs, Rise

(* They can be computed one by one, as the loop of _calcBackoff does.      *)
LEMMA StartExists ==
    ASSUME NEW k \in Nat
    PROVE  \E f : IsStart(f, k)
<1> DEFINE Missing == {n \in Nat : ~ \E f : IsStart(f, n)}
<1> SUFFICES ASSUME Missing # {} PROVE FALSE
  OBVIOUS
<1>1. PICK n \in Missing : \A m \in Missing : ~(m < n)
  BY LeastNumber
<1>2. CASE n = 0
  <2>1. IsStart([i \in 0 .. 0 |-> BackoffBase], 0)
    BY ChannelAssumption DEF ChannelAssumption, IsStart, Backoffs
  <2> QED
    BY <1>1, <1>2, <2>1
<1>3. CASE n # 0
  <2>1. n - 1 \in Nat /\ n - 1 < n /\ n \in Nat
    BY <1>1, <1>3
  <2>2. PICK f : IsStart(f, n - 1)
    BY <1>1, <2>1
  <2>3. f \in [0 .. n - 1 -> Backoffs] /\ f[n - 1] \in Backoffs
    BY <2>1, <2>2 DEF IsStart
  <2> DEFINE g == [i \in 0 .. n |-> IF i = n THEN Rise(f[n - 1]) ELSE f[i]]
  <2>4. g \in [0 .. n -> Backoffs]
    BY <2>1, <2>3, RiseType
  <2>5. g[0] = BackoffBase
    BY <1>3, <2>1, <2>2 DEF IsStart
  <2>6. \A i \in 1 .. n : g[i] = Rise(g[i - 1])
    BY <2>1, <2>2, SMTT(60) DEF IsStart
  <2>7. IsStart(g, n)
    BY <2>4, <2>5, <2>6 DEF IsStart
  <2> QED
    BY <1>1, <2>7
<1> QED
  BY <1>2, <1>3

(* Two computations agree as far as both go.                               *)
LEMMA StartsAgree ==
    ASSUME NEW n \in Nat, NEW m \in Nat, NEW f, NEW g,
           IsStart(f, n), IsStart(g, m),
           NEW k \in Nat, k <= n, k <= m
    PROVE  f[k] = g[k]
<1> DEFINE Differ == {i \in Nat : i <= n /\ i <= m /\ f[i] # g[i]}
<1> SUFFICES ASSUME Differ # {} PROVE FALSE
  OBVIOUS
<1>1. PICK i \in Differ : \A j \in Differ : ~(j < i)
  BY LeastNumber
<1>2. CASE i = 0
  BY <1>1, <1>2 DEF IsStart
<1>3. CASE i # 0
  <2>1. i - 1 \in Nat /\ i - 1 < i /\ i \in 1 .. n /\ i \in 1 .. m
    BY <1>1, <1>3
  <2>2. f[i - 1] = g[i - 1]
    BY <1>1, <2>1
  <2>3. f[i] = Rise(f[i - 1]) /\ g[i] = Rise(g[i - 1])
    BY <2>1 DEF IsStart
  <2> QED
    BY <1>1, <2>2, <2>3
<1> QED
  BY <1>2, <1>3

(***************************************************************************)
(* Hence _calcBackoff is what its recursive definition says: the base,     *)
(* then half as much again per attempt, and never more than the maximum.   *)
(***************************************************************************)
LEMMA Backoff ==
    /\ CalcBackoff \in [Nat -> Backoffs]
    /\ CalcBackoff[0] = BackoffBase
    /\ \A a \in Nat \ {0} : CalcBackoff[a] = Rise(CalcBackoff[a - 1])
<1> DEFINE Body(f) == [a \in Nat |-> IF a = 0 THEN BackoffBase
                                     ELSE Rise(f[a - 1])]
           Start(n) == CHOOSE f : IsStart(f, n)
           h == [a \in Nat |-> Start(a)[a]]
<1>1. \A n \in Nat : IsStart(Start(n), n)
  BY StartExists
<1>2. ASSUME NEW a \in Nat PROVE h[a] = Body(h)[a]
  <2>1. CASE a = 0
    BY <1>1, <2>1 DEF IsStart
  <2>2. CASE a # 0
    <3>1. a - 1 \in Nat /\ a \in 1 .. a
      BY <2>2
    <3>2. Start(a)[a] = Rise(Start(a)[a - 1])
      BY <1>1, <3>1 DEF IsStart
    <3>3. Start(a)[a - 1] = Start(a - 1)[a - 1]
      <4> HIDE DEF Start
      <4> QED
        BY <1>1, <3>1, StartsAgree
    <3> QED
      BY <2>2, <3>1, <3>2, <3>3
  <2> QED
    BY <2>1, <2>2
<1>3. h = Body(h)
  <2> HIDE DEF Start
  <2>1. DOMAIN h = Nat /\ DOMAIN Body(h) = Nat
    OBVIOUS
  <2>2. h = [a \in Nat |-> h[a]] /\ Body(h) = [a \in Nat |-> Body(h)[a]]
    OBVIOUS
  <2> HIDE DEF h, Body
  <2> QED
    BY <1>2, <2>2
<1>4. CalcBackoff = CHOOSE f : f = Body(f)
  BY DEF CalcBackoff, Rise
<1>5. CalcBackoff = Body(CalcBackoff)
  <2> HIDE DEF h, Body
  <2> QED
    BY <1>3, <1>4
<1>6. /\ CalcBackoff[0] = BackoffBase
      /\ \A a \in Nat \ {0} : CalcBackoff[a] = Rise(CalcBackoff[a - 1])
  <2>1. \A a \in Nat : CalcBackoff[a] = Body(CalcBackoff)[a]
    BY <1>5
  <2> QED
    BY <2>1
<1>7. \A a \in Nat : CalcBackoff[a] \in Backoffs
  <2> DEFINE Bad == {a \in Nat : CalcBackoff[a] \notin Backoffs}
  <2> SUFFICES ASSUME Bad # {} PROVE FALSE
    OBVIOUS
  <2>1. PICK a \in Bad : \A b \in Bad : ~(b < a)
    BY LeastNumber
  <2>2. CASE a = 0
    BY <1>6, <2>1, <2>2, ChannelAssumption DEF Backoffs, ChannelAssumption
  <2>3. CASE a # 0
    <3>1. a - 1 \in Nat /\ a - 1 < a /\ a \in Nat \ {0}
      BY <2>1, <2>3
    <3>2. CalcBackoff[a - 1] \in Backoffs
      BY <2>1, <3>1
    <3> QED
      BY <1>6, <2>1, <3>1, <3>2, RiseType
  <2> QED
    BY <2>2, <2>3
<1>8. CalcBackoff = [a \in Nat |-> CalcBackoff[a]]
  BY <1>5
<1> QED
  BY <1>6, <1>7, <1>8

(***************************************************************************)
(* Every attempt but the last was made, and every one was a transmission   *)
(* unless an outage consumed some.                                         *)
(***************************************************************************)
AttemptsCounted ==
    /\ waitingAck <=> sent > 0
    /\ active => outcome = "none" /\ attempt < MaxRetries
    /\ active /\ ~waitingAck => attempt = 0
    /\ active /\ waitingAck =>
          /\ sent <= attempt + 1
          /\ ~outage => sent = attempt + 1

(* Before the deadline as much time is left as the backoff still has.      *)
DeadlineHolds ==
    /\ elapsed <= window
    /\ active /\ sent > 0 /\ ~wrapped /\ elapsed < window
          => nextRetryAt = now + (window - elapsed)

ChannelInv == ChannelTypeOK /\ AttemptsCounted /\ DeadlineHolds
                 /\ AbandonedAfterAllAttempts

LEMMA PlusType ==
    ASSUME NEW t \in 0 .. ClockModulus - 1, NEW d \in 0 .. ClockModulus - 1
    PROVE  /\ Plus(t, d) \in 0 .. ClockModulus - 1
           /\ Plus(t, d) = t + d \/ Plus(t, d) < t
           /\ t + d < ClockModulus => Plus(t, d) = t + d
BY ChannelAssumption DEF ChannelAssumption, Plus

(* What a transmission is given.                                           *)
LEMMA TransmissionWindow ==
    ASSUME ChannelTypeOK
    PROVE  /\ CurrentAttempt \in Nat
           /\ CalcBackoff[CurrentAttempt] \in Backoffs
           /\ CalcBackoff[CurrentAttempt] \in 0 .. ClockModulus - 1
<1>1. CurrentAttempt \in Nat
  BY ChannelAssumption DEF ChannelAssumption, ChannelTypeOK, CurrentAttempt
<1>2. CalcBackoff[CurrentAttempt] \in Backoffs
  BY <1>1, Backoff
<1> QED
  BY <1>1, <1>2, ChannelAssumption DEF ChannelAssumption, Backoffs

Flags == {wifiConnected, active, waitingAck, wrapped, outage} \subseteq BOOLEAN

Ranges ==
    /\ now \in 0 .. ClockModulus - 1
    /\ attempt \in 0 .. MaxRetries
    /\ nextRetryAt \in 0 .. ClockModulus - 1
    /\ sent \in 0 .. MaxRetries
    /\ window \in 0 .. BackoffMax
    /\ elapsed \in 0 .. BackoffMax
    /\ outcome \in {"none", "acked", "abandoned"}

LEMMA TypeParts == ChannelTypeOK <=> Flags /\ Ranges
BY DEF ChannelTypeOK, Flags, Ranges

LEMMA TypePartsNext == ChannelTypeOK' <=> Flags' /\ Ranges'
BY DEF ChannelTypeOK, Flags, Ranges

LEMMA InitChannelInv == ChannelInit => ChannelInv
<1> SUFFICES ASSUME ChannelInit PROVE ChannelInv
  OBVIOUS
<1>1. Flags
  BY DEF ChannelInit, Flags
<1>2. Ranges
  BY ChannelAssumption DEF ChannelInit, Ranges, ChannelAssumption
<1>3. AttemptsCounted /\ DeadlineHolds /\ AbandonedAfterAllAttempts
  BY DEF ChannelInit, AttemptsCounted, DeadlineHolds,
         AbandonedAfterAllAttempts
<1> QED
  BY <1>1, <1>2, <1>3, TypeParts DEF ChannelInv

LEMMA NextFlags ==
    ASSUME ChannelTypeOK, [ChannelNext]_channelVars
    PROVE  Flags'
<1>1. Flags
  BY TypeParts
<1>2. (nextRetryAt' < now) \in BOOLEAN
  OBVIOUS
<1> QED
  BY <1>1, <1>2
  DEF Flags, ChannelNext, ProcessReliable, Load, GiveUp, Transmit,
      SkipTransmission, HandleAck, Tick, WifiUp, WifiDown, channelVars,
      channel, history

LEMMA NextChannelInv == ChannelInv /\ [ChannelNext]_channelVars => ChannelInv'
<1> SUFFICES ASSUME ChannelInv, [ChannelNext]_channelVars PROVE ChannelInv'
  OBVIOUS
<1> USE ChannelAssumption DEF ChannelAssumption
<1>0. /\ ChannelTypeOK /\ Ranges /\ Flags'
      /\ AttemptsCounted /\ DeadlineHolds /\ AbandonedAfterAllAttempts
  BY NextFlags, TypeParts DEF ChannelInv
<1> SUFFICES Ranges' /\ AttemptsCounted' /\ DeadlineHolds'
                     /\ AbandonedAfterAllAttempts'
  BY <1>0, TypePartsNext DEF ChannelInv
<1>1. CASE Load
  BY <1>0, <1>1 DEF Load, Ranges, AttemptsCounted, DeadlineHolds,
                    AbandonedAfterAllAttempts
<1>2. CASE GiveUp
  BY <1>0, <1>2
  DEF GiveUp, Due, Exhausted, CurrentAttempt, Ranges, AttemptsCounted,
      DeadlineHolds, AbandonedAfterAllAttempts
<1>3. CASE Transmit
  <2> DEFINE c == CalcBackoff[CurrentAttempt]
  <2>1. c \in 0 .. BackoffMax /\ c \in 0 .. ClockModulus - 1
    BY <1>0, TransmissionWindow DEF Backoffs
  <2>2. /\ nextRetryAt' = Plus(now, c) /\ window' = c /\ elapsed' = 0
        /\ wrapped' = (nextRetryAt' < now) /\ now' = now
    BY <1>3 DEF Transmit
  <2> HIDE DEF c
  <2>3. /\ nextRetryAt' \in 0 .. ClockModulus - 1
        /\ nextRetryAt' = now + window' \/ nextRetryAt' < now
    BY <1>0, <2>1, <2>2, PlusType DEF Ranges
  <2>4. /\ attempt' = CurrentAttempt /\ sent' = sent + 1
        /\ waitingAck' = TRUE /\ active' = active /\ active
        /\ outage' = outage /\ outcome' = outcome
    BY <1>3 DEF Transmit, Due
  <2>5. /\ attempt' \in 0 .. MaxRetries - 1
        /\ sent' \in 1 .. attempt' + 1
        /\ ~outage => sent' = attempt' + 1
    <3>1. CASE waitingAck
      BY <1>0, <1>3, <2>4, <3>1
      DEF Transmit, Exhausted, CurrentAttempt, Ranges, AttemptsCounted
    <3>2. CASE ~waitingAck
      BY <1>0, <2>4, <3>2 DEF CurrentAttempt, Ranges, AttemptsCounted
    <3> QED
      BY <3>1, <3>2
  <2>6. Ranges'
    BY <1>0, <2>1, <2>2, <2>3, <2>4, <2>5 DEF Ranges
  <2>7. AttemptsCounted' /\ AbandonedAfterAllAttempts'
    BY <1>0, <2>4, <2>5 DEF AttemptsCounted, AbandonedAfterAllAttempts
  <2>8. DeadlineHolds'
    <3>1. ~wrapped' => ~(nextRetryAt' < now)
      BY <2>2
    <3>2. ~wrapped' => nextRetryAt' = now' + (window' - elapsed')
      BY <1>0, <2>1, <2>2, <2>3, <3>1 DEF Ranges
    <3> QED
      BY <2>1, <2>2, <3>2 DEF DeadlineHolds
  <2> QED
    BY <2>6, <2>7, <2>8
<1>4. CASE SkipTransmission
  <2>1. nextRetryAt' \in 0 .. ClockModulus - 1
    BY <1>0, <1>4, PlusType DEF SkipTransmission, Ranges
  <2>2. attempt' \in 0 .. MaxRetries - 1
    BY <1>0, <1>4 DEF SkipTransmission, Due, Exhausted, CurrentAttempt,
                      Ranges, AttemptsCounted
  <2>3. Ranges'
    BY <1>0, <1>4, <2>1, <2>2 DEF SkipTransmission, Ranges
  <2>4. AttemptsCounted' /\ AbandonedAfterAllAttempts'
    <3>1. /\ ~outage' => ~outage /\ ~waitingAck
          /\ waitingAck' = waitingAck /\ active' = active /\ active
      BY <1>4 DEF SkipTransmission, Due
    <3>2. attempt' = CurrentAttempt /\ sent' = sent /\ outcome' = outcome
      BY <1>4 DEF SkipTransmission
    <3> QED
      BY <1>0, <2>2, <3>1, <3>2
      DEF CurrentAttempt, Ranges, AttemptsCounted, AbandonedAfterAllAttempts
  <2>5. DeadlineHolds'
    BY <1>0, <1>4 DEF SkipTransmission, Due, Ranges, AttemptsCounted,
                      DeadlineHolds
  <2> QED
    BY <2>3, <2>4, <2>5
<1>5. CASE HandleAck
  BY <1>0, <1>5 DEF HandleAck, Ranges, AttemptsCounted, DeadlineHolds,
                    AbandonedAfterAllAttempts
<1>6. CASE Tick
  <2>1. /\ now' \in 0 .. ClockModulus - 1
        /\ now + 1 < ClockModulus => now' = now + 1
    BY <1>0, <1>6 DEF Tick, Ranges, Plus
  <2>2. Ranges' /\ DeadlineHolds'
    BY <1>0, <1>6, <2>1 DEF Tick, channel, Ranges, DeadlineHolds
  <2>3. AttemptsCounted' /\ AbandonedAfterAllAttempts'
    BY <1>0, <1>6
    DEF Tick, channel, AttemptsCounted, AbandonedAfterAllAttempts
  <2> QED
    BY <2>2, <2>3
<1>7. CASE WifiUp \/ WifiDown \/ UNCHANGED channelVars
  BY <1>0, <1>7 DEF WifiUp, WifiDown, channelVars, channel, history, Ranges,
                    AttemptsCounted, DeadlineHolds, AbandonedAfterAllAttempts
<1> QED
  BY <1>1, <1>2, <1>3, <1>4, <1>5, <1>6, <1>7
  DEF ChannelNext, ProcessReliable

LEMMA ChannelInvariance == ChannelSpec => []ChannelInv
BY InitChannelInv, NextChannelInv, PTL DEF ChannelSpec

(***************************************************************************)
(* The fields of _reliable keep their types: at most MaxRetries attempts   *)
(* are made, and no backoff exceeds its maximum (IoTNode.cpp:110-143).     *)
(***************************************************************************)
THEOREM ChannelTypeCorrectness == ChannelSpec => []ChannelTypeOK
<1>1. ChannelInv => ChannelTypeOK
  BY DEF ChannelInv
<1> QED
  BY <1>1, ChannelInvariance, PTL

(***************************************************************************)
(* A packet is abandoned after MaxRetries transmissions, or fewer if an    *)
(* outage consumed attempts, and never before one (IoTNode.cpp:116-124).   *)
(***************************************************************************)
THEOREM AllAttemptsAreMade == ChannelSpec => []AbandonedAfterAllAttempts
<1>1. ChannelInv => AbandonedAfterAllAttempts
  BY DEF ChannelInv
<1> QED
  BY <1>1, ChannelInvariance, PTL

(***************************************************************************)
(* Neither a retry nor the abandonment comes before the backoff of the     *)
(* last transmission is over, unless its deadline lies beyond the rollover *)
(* of millis() (IoTNode.cpp:114, 130).                                     *)
(***************************************************************************)
THEOREM AnswersHaveTheirTime == ChannelSpec => AckHasItsWindow
<1>1. ChannelInv /\ [ChannelNext]_channelVars
        => [Presses => elapsed = window \/ wrapped]_channelVars
  <2> SUFFICES ASSUME ChannelInv, ChannelNext, Presses
               PROVE  elapsed = window \/ wrapped
    BY DEF channelVars
  <2>1. Ranges /\ AttemptsCounted /\ DeadlineHolds
    BY TypeParts DEF ChannelInv
  <2>2. GiveUp \/ Transmit
    <3>1. outcome = "none" /\ active /\ (sent' > sent \/ outcome' = "abandoned")
      BY <2>1 DEF Presses, AttemptsCounted
    <3>2. ~Load /\ ~HandleAck
      BY <2>1, <3>1 DEF Load, HandleAck, Ranges
    <3>3. ~(sent' = sent /\ outcome' = outcome)
      BY <2>1, <3>1 DEF Ranges
    <3> QED
      BY <3>2, <3>3
      DEF ChannelNext, ProcessReliable, SkipTransmission, Tick, WifiUp,
          WifiDown, history
  <2>3. ~(now < nextRetryAt) /\ active /\ sent > 0
    BY <2>1, <2>2 DEF GiveUp, Transmit, Due, Presses, AttemptsCounted
  <2> QED
    BY <2>1, <2>3 DEF Ranges, DeadlineHolds
<1> QED
  BY <1>1, ChannelInvariance, PTL DEF ChannelSpec, AckHasItsWindow

(* No retry is given less time than the one before it.                     *)
THEOREM BackoffGrows ==
    ASSUME NEW a \in Nat
    PROVE  /\ CalcBackoff[a] >= BackoffBase
           /\ CalcBackoff[a + 1] >= CalcBackoff[a]
           /\ BackoffMax >= CalcBackoff[a]
<1>1. \A b \in Backoffs : Rise(b) >= b
  BY ChannelAssumption DEF ChannelAssumption, Backoffs, Rise
<1>2. \A n \in Nat : CalcBackoff[n + 1] >= CalcBackoff[n]
  <2> TAKE n \in Nat
  <2>1. n + 1 \in Nat \ {0} /\ (n + 1) - 1 = n
    OBVIOUS
  <2>2. CalcBackoff[n + 1] = Rise(CalcBackoff[n]) /\ CalcBackoff[n] \in Backoffs
    BY <2>1, Backoff
  <2> QED
    BY <1>1, <2>2
<1>3. CalcBackoff[a] >= BackoffBase
  <2> DEFINE Low == {n \in Nat : CalcBackoff[n] < BackoffBase}
  <2> SUFFICES ASSUME Low # {} PROVE FALSE
    BY Backoff, ChannelAssumption DEF Backoffs, ChannelAssumption
  <2>1. PICK n \in Low : \A m \in Low : ~(m < n)
    BY LeastNumber
  <2>2. n \in Nat /\ n # 0
    BY <2>1, Backoff, ChannelAssumption DEF ChannelAssumption
  <2>3. n - 1 \in Nat /\ n - 1 < n /\ (n - 1) + 1 = n
    BY <2>2
  <2>4. ~(CalcBackoff[n - 1] < BackoffBase) /\ CalcBackoff[n] >= CalcBackoff[n - 1]
    BY <1>2, <2>1, <2>3
  <2>5. CalcBackoff[n] \in Int /\ CalcBackoff[n - 1] \in Int
    BY <2>2, <2>3, Backoff DEF Backoffs
  <2> QED
    BY <2>1, <2>4, <2>5, ChannelAssumption DEF ChannelAssumption
<1> QED
  BY <1>2, <1>3, Backoff DEF Backoffs

=============================================================================
