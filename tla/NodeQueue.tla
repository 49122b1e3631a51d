----------------------------- MODULE NodeQueue -----------------------------
(***************************************************************************)
(* The queue of an IoTNode between its callers (sendEvent, sendHello,      *)
(* enqueue) and its two ways out: the reliable channel, one packet at a    *)
(* time, and the direct transmission of packets that are not reliable.     *)
(*                                                                         *)
(* The channel is reduced here to busy or free; ReliableChannel models it. *)
(* A packet is the number of the enqueue call that produced it, so numbers *)
(* grow in the order of the calls.                                         *)
(***************************************************************************)
EXTENDS SlotQueue, FiniteSets

CONSTANT MaxCalls       \* bound on the calls of enqueue

ASSUME MaxCallsAssumption == MaxCalls \in Nat

VARIABLES
    queue,          \* _queue
    queueCount,     \* _queueCount
    overflowPolicy, \* _overflowPolicy
    channelBusy,    \* _reliable.active
    wifiUp,         \* WiFi.status() == WL_CONNECTED
    calls,          \* history: calls of enqueue so far
    reliable,       \* history: the packets that carry IOT_FLAG_RELIABLE
    fate            \* history: what became of each packet

vars == <<queue, queueCount, overflowPolicy, channelBusy, wifiUp,
          calls, reliable, fate>>

Packets == 1 .. MaxCalls

Fates ==
    {"none", "queued", "unsigned", "rejected", "evicted", "channel", "sent", "unsent"}

isQueueFull == queueCount >= QueueSize

Init ==
    /\ queue = EmptyQueue
    /\ queueCount = 0
    /\ overflowPolicy = DROP_OLDEST_BG
    /\ channelBusy = FALSE
    /\ wifiUp = FALSE
    /\ calls = 0
    /\ reliable = {}
    /\ fate = [p \in Packets |-> "none"]

-----------------------------------------------------------------------------

(* enqueue finds a free slot.                                              *)
Insert(pkt, pri) ==
    /\ ~isQueueFull
    /\ \E i \in Slots :
          /\ IsFirstFree(queue, i)
          /\ queue' = [queue EXCEPT ![i] = Filled(pkt, pri)]
    /\ queueCount' = queueCount + 1
    /\ fate' = [fate EXCEPT ![pkt] = "queued"]

(* Mutant of Replace: the victim's slot is counted once more.              *)
ReplaceAndCount(pkt, pri) ==
    /\ isQueueFull
    /\ \E i \in Slots :
          /\ IsVictim(queue, overflowPolicy, pri, i)
          /\ queue' = [queue EXCEPT ![i] = Filled(pkt, pri)]
          /\ fate' = [fate EXCEPT ![pkt] = "queued",
                                  ![queue[i].pkt] = "evicted"]
    /\ queueCount' = queueCount + 1

(* The queue is full and the policy names a victim: its slot is reused.    *)
Replace(pkt, pri) ==
    /\ isQueueFull
    /\ \E i \in Slots :
          /\ IsVictim(queue, overflowPolicy, pri, i)
          /\ queue' = [queue EXCEPT ![i] = Filled(pkt, pri)]
          /\ fate' = [fate EXCEPT ![pkt] = "queued",
                                  ![queue[i].pkt] = "evicted"]
    /\ UNCHANGED queueCount

(* The queue is full and the policy names none: the caller is told so.     *)
Reject(pkt, pri) ==
    /\ isQueueFull
    /\ ~\E i \in Slots : IsVictim(queue, overflowPolicy, pri, i)
    /\ fate' = [fate EXCEPT ![pkt] = "rejected"]
    /\ UNCHANGED <<queue, queueCount>>

(* _prepareOutgoing has to sign and there is no signer, or it finds no room*)
(* in the packet: the caller is told so, with slots free or not.           *)
Unsigned(pkt) ==
    /\ fate' = [fate EXCEPT ![pkt] = "unsigned"]
    /\ UNCHANGED <<queue, queueCount>>

Enqueue(pri, isReliable, isPrepared) ==
    LET pkt == calls + 1 IN
    /\ calls < MaxCalls
    /\ calls' = pkt
    /\ reliable' = IF isReliable THEN reliable \cup {pkt} ELSE reliable
    /\ \/ ~isPrepared /\ Unsigned(pkt)
       \/ isPrepared /\ (Insert(pkt, pri) \/ Replace(pkt, pri) \/ Reject(pkt, pri))
    /\ UNCHANGED <<overflowPolicy, channelBusy, wifiUp>>

(* Mutant of ProcessQueue: the slot is not released.                       *)
ProcessQueueKeepingSlot ==
    /\ ~channelBusy
    /\ queueCount # 0
    /\ \E i \in Slots :
          /\ IsHighestPriorityEntry(queue, i)
          /\ channelBusy' = (queue[i].pkt \in reliable)
          /\ fate' = [fate EXCEPT ![queue[i].pkt] = "channel"]
    /\ queueCount' = queueCount - 1
    /\ UNCHANGED <<queue, overflowPolicy, wifiUp, calls, reliable>>

(* _processQueue takes one packet while no reliable is in flight; one that *)
(* is not reliable leaves the queue whether or not it can be transmitted.  *)
ProcessQueue ==
    /\ ~channelBusy
    /\ queueCount # 0
    /\ \E i \in Slots :
          /\ IsHighestPriorityEntry(queue, i)
          /\ queue' = [queue EXCEPT ![i] = FreeSlot]
          /\ channelBusy' = (queue[i].pkt \in reliable)
          /\ fate' = [fate EXCEPT ![queue[i].pkt] =
                         IF queue[i].pkt \in reliable THEN "channel"
                         ELSE IF wifiUp THEN "sent" ELSE "unsent"]
    /\ queueCount' = queueCount - 1
    /\ UNCHANGED <<overflowPolicy, wifiUp, calls, reliable>>

(* The reliable in flight ends, acknowledged or abandoned.                 *)
ChannelEnds ==
    /\ channelBusy
    /\ channelBusy' = FALSE
    /\ UNCHANGED <<queue, queueCount, overflowPolicy, wifiUp,
                   calls, reliable, fate>>

SetOverflowPolicy(policy) ==
    /\ overflowPolicy' = policy
    /\ UNCHANGED <<queue, queueCount, channelBusy, wifiUp,
                   calls, reliable, fate>>

(* The station associates or loses the access point.                       *)
WifiChanges ==
    /\ wifiUp' = ~wifiUp
    /\ UNCHANGED <<queue, queueCount, overflowPolicy, channelBusy,
                   calls, reliable, fate>>

Next ==
    \/ \E pri \in Priorities, r, s \in BOOLEAN : Enqueue(pri, r, s)
    \/ ProcessQueue
    \/ ChannelEnds
    \/ \E policy \in Policies : SetOverflowPolicy(policy)
    \/ WifiChanges

Spec == Init /\ [][Next]_vars

-----------------------------------------------------------------------------

Queued(p) == \E i \in Occupied(queue) : queue[i].pkt = p

(* Every variable keeps its type.                                          *)
TypeOK ==
    /\ queue \in [Slots -> Entries]
    /\ queueCount \in Nat
    /\ overflowPolicy \in Policies
    /\ channelBusy \in BOOLEAN
    /\ wifiUp \in BOOLEAN
    /\ calls \in 0 .. MaxCalls
    /\ reliable \subseteq Packets
    /\ fate \in [Packets -> Fates]

(* _queueCount, kept by hand in four places and never recomputed, is the   *)
(* number of occupied slots: isQueueFull and the early return of           *)
(* _processQueue trust it.                                                 *)
CountExact == queueCount = Cardinality(Occupied(queue))

(* A packet is in one slot or has left the queue for one known reason:     *)
(* none is held twice, and none disappears without a verdict.              *)
Conserved ==
    /\ \A p \in Packets : fate[p] = "queued" <=> Queued(p)
    /\ \A i, j \in Occupied(queue) : queue[i].pkt = queue[j].pkt => i = j

(* Under the policies the nodes run with, an overflow never costs anything *)
(* but BACKGROUND telemetry, and that only for something more important    *)
(* (IoTNode.cpp:243-258).  DROP_OLDEST is left out: its own comment asks   *)
(* for "el mas viejo sin importar prioridad" (IoTNode.h:50), the code      *)
(* takes the first entry of the worst priority, and no caller sets it.     *)
EvictionRespectsPriority ==
    [][\A i \in Occupied(queue) :
          fate'[queue[i].pkt] = "evicted" /\ overflowPolicy # DROP_OLDEST =>
             /\ overflowPolicy = DROP_OLDEST_BG
             /\ queue[i].priority = BACKGROUND
             /\ queue'[i].priority # BACKGROUND]_vars

(* A packet that could be signed, or needed no signature, is refused only  *)
(* if every slot really holds a packet: _queueCount, which decides, is not *)
(* wrong (IoTNode.cpp:225-270).                                            *)
RejectedOnlyWhenFull ==
    [][\A p \in Packets :
          (fate[p] # "rejected" /\ fate'[p] = "rejected") =>
             Occupied(queue) = Slots]_vars

(* While something more important waits, nothing else leaves for the       *)
(* channel or the network (_findHighestPriorityEntry).                     *)
ServedByPriority ==
    [][\A i, j \in Occupied(queue) :
          fate'[queue[i].pkt] \in {"channel", "sent", "unsent"} =>
             queue[i].priority <= queue[j].priority]_vars

(* A slot holds the number of a call already made.                         *)
NumbersIssued == \A i \in Occupied(queue) : queue[i].pkt \in 1 .. calls

(* The inductive invariant behind the properties above.                    *)
IInv ==
    /\ TypeOK
    /\ CountExact
    /\ Conserved
    /\ NumbersIssued

=============================================================================
