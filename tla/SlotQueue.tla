----------------------------- MODULE SlotQueue -----------------------------
(***************************************************************************)
(* The transmit queue of an IoTNode (QueueEntry _queue[IOT_QUEUE_SIZE]): a *)
(* table of slots, each free or holding a packet with the priority its     *)
(* flags gave it.  A search of the code that returns an index is the       *)
(* predicate that holds of that index only.                                *)
(***************************************************************************)
EXTENDS Integers

CONSTANT QueueSize      \* IOT_QUEUE_SIZE, 8 in the code

ASSUME QueueSizeAssumption == QueueSize \in Nat \ {0}

Slots == 0 .. QueueSize - 1

URGENT == 0
NORMAL == 1
BACKGROUND == 2
Priorities == {URGENT, NORMAL, BACKGROUND}

(* What a free slot holds is never read: it has one canonical content.     *)
FreeSlot == [occupied |-> FALSE, pkt |-> 0, priority |-> BACKGROUND]

Filled(pkt, pri) == [occupied |-> TRUE, pkt |-> pkt, priority |-> pri]

Entries == [occupied : BOOLEAN, pkt : Nat, priority : Priorities]

EmptyQueue == [i \in Slots |-> FreeSlot]

Occupied(q) == {i \in Slots : q[i].occupied}

(* The slot an insertion takes: the first free one.                        *)
IsFirstFree(q, i) ==
    /\ i \in Slots \ Occupied(q)
    /\ \A j \in Slots \ Occupied(q) : i <= j

(* _findHighestPriorityEntry: the first slot of the best priority.         *)
IsHighestPriorityEntry(q, i) ==
    /\ i \in Occupied(q)
    /\ \A j \in Occupied(q) :
          \/ q[i].priority < q[j].priority
          \/ q[i].priority = q[j].priority /\ i <= j

(* _findLowestPriorityEntry: the first slot of the worst priority.         *)
IsLowestPriorityEntry(q, i) ==
    /\ i \in Occupied(q)
    /\ \A j \in Occupied(q) :
          \/ q[i].priority > q[j].priority
          \/ q[i].priority = q[j].priority /\ i <= j

(* The victim DROP_OLDEST_BG looks for: the first BACKGROUND slot.         *)
IsFirstBackground(q, i) ==
    /\ i \in Occupied(q)
    /\ q[i].priority = BACKGROUND
    /\ \A j \in Occupied(q) : q[j].priority = BACKGROUND => i <= j

(***************************************************************************)
(* The victim of the overflow policy when the queue is full and a packet   *)
(* of priority pri arrives; none for DROP_NEWEST.                          *)
(***************************************************************************)
DROP_NEWEST == "DROP_NEWEST"
DROP_OLDEST_BG == "DROP_OLDEST_BG"
DROP_OLDEST == "DROP_OLDEST"
Policies == {DROP_NEWEST, DROP_OLDEST_BG, DROP_OLDEST}

(* Mutant of IsVictim: DROP_OLDEST_BG takes _findLowestPriorityEntry too.  *)
IsVictimLowest(q, policy, pri, i) ==
    \/ /\ policy = DROP_OLDEST_BG
       /\ pri # BACKGROUND
       /\ IsLowestPriorityEntry(q, i)
    \/ /\ policy = DROP_OLDEST
       /\ IsLowestPriorityEntry(q, i)
       /\ q[i].priority >= pri

IsVictim(q, policy, pri, i) ==
    \/ /\ policy = DROP_OLDEST_BG
       /\ pri # BACKGROUND
       /\ IsFirstBackground(q, i)
    \/ /\ policy = DROP_OLDEST
       /\ IsLowestPriorityEntry(q, i)
       /\ q[i].priority >= pri

=============================================================================
