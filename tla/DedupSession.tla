---------------------------- MODULE DedupSession ---------------------------
(***************************************************************************)
(* One boot session of a sender, seen through the deduplication window the *)
(* receiver keeps for it.  The sender numbers its packets with a counter   *)
(* that wraps (IoTNode::getNextSeq); the network delivers any packet sent, *)
(* in any order, any number of times, or never; the receiver applies       *)
(* _isDuplicate to each arrival.                                           *)
(*                                                                         *)
(* A wire number alone does not identify a packet once the counter has     *)
(* wrapped.  The history variable lap counts the wraps: a position         *)
(* [lap, seq] is the identity of a packet, and only its seq is on the      *)
(* wire.  Two bounds of the environment make wire numbers usable at all,   *)
(* each half a cycle of the counter (2^31 packets in the code, thousands   *)
(* of years at the rate of the firmware):                                  *)
(*   - no packet outlives half a cycle in the network (guard of Arrive);   *)
(*   - the sender does not get half a cycle ahead of the last packet that  *)
(*     was accepted (guard of GetNextSeq).                                 *)
(***************************************************************************)
EXTENDS SeqWindow

CONSTANT MaxLap         \* bound on the number of wraps

ASSUME MaxLapAssumption == MaxLap \in Nat

VARIABLES
    newest,     \* position of the newest packet numbered ([0, 0]: none yet)
    win,        \* receiver: the window
    highLap,    \* history: the lap of win.highest
    accepted,   \* history: positions that reached the handler
    handledTwice    \* history: positions that reached it more than once

dedupVars == <<newest, win, highLap, accepted, handledTwice>>

Positions == [lap : Nat, seq : 0 .. SeqModulus - 1]

(* p is q or comes after it, by fewer than half a cycle of wire numbers.   *)
Follows(p, q) ==
    \/ /\ p.lap = q.lap
       /\ p.seq >= q.seq
       /\ 2 * (p.seq - q.seq) < SeqModulus
    \/ /\ p.lap = q.lap + 1
       /\ 2 * (SeqModulus + p.seq - q.seq) < SeqModulus

HighPos == [lap |-> highLap, seq |-> win.highest]

(* The packets the network can still deliver.                              *)
InFlight(p) ==
    /\ p \in Positions
    /\ p.seq # 0
    /\ Follows(newest, p)

Successor(p) ==
    [lap |-> IF p.seq + 1 = SeqModulus THEN p.lap + 1 ELSE p.lap,
     seq |-> NextNonZero(p.seq, SeqModulus)]

DedupInit ==
    /\ newest = [lap |-> 0, seq |-> 0]
    /\ win = EmptyWindow
    /\ highLap = 0
    /\ accepted = {}
    /\ handledTwice = {}

(* The sender numbers one more packet, reliable or not.                    *)
GetNextSeq ==
    /\ Successor(newest).lap <= MaxLap
    /\ ~IsFirst(win) => Follows(Successor(newest), HighPos)
    /\ newest' = Successor(newest)
    /\ UNCHANGED <<win, highLap, accepted, handledTwice>>

(* A reliable packet arrives and is dropped as duplicate or replay.        *)
Drop(p) ==
    /\ InFlight(p)
    /\ IsDuplicate(win, p.seq)
    /\ UNCHANGED dedupVars

(* A reliable packet arrives, is accepted and reaches the handler.         *)
Deliver(p) ==
    /\ InFlight(p)
    /\ ~IsDuplicate(win, p.seq)
    /\ win' = Accept(win, p.seq)
    /\ highLap' = IF win'.highest = p.seq THEN p.lap ELSE highLap
    /\ accepted' = accepted \cup {p}
    /\ handledTwice' = IF p \in accepted THEN handledTwice \cup {p} ELSE handledTwice
    /\ UNCHANGED newest

Wire == [lap : 0 .. MaxLap, seq : 1 .. SeqModulus - 1]

DedupNext ==
    \/ GetNextSeq
    \/ \E p \in Wire : Drop(p) \/ Deliver(p)

DedupSpec == DedupInit /\ [][DedupNext]_dedupVars

-----------------------------------------------------------------------------

(* Every variable keeps its type.                                          *)
DedupTypeOK ==
    /\ newest \in Positions
    /\ win \in Windows
    /\ highLap \in Nat
    /\ accepted \subseteq Positions
    /\ handledTwice \subseteq Positions

(* No packet of a session reaches the handler twice, whatever the network  *)
(* duplicates or reorders and across the wrap of SEQ (the drop of          *)
(* duplicates at IoTNode.cpp:358).                                         *)
AtMostOnce == handledTwice = {}

(* A packet that never arrived before is accepted unless it really is a    *)
(* full window behind the highest one: no packet is mistaken for another,  *)
(* nor a new one for an old, because their numbers are close or because    *)
(* the counter wrapped (IoTNode.cpp:484-511).                              *)
FirstArrivalAccepted ==
    \A p \in Wire :
        /\ InFlight(p)
        /\ IsDuplicate(win, p.seq)
        /\ p \notin accepted
        => Follows(HighPos, p) /\ Age(win, p.seq) >= WindowSize

-----------------------------------------------------------------------------

(* p was numbered no later than q.                                         *)
NotAfter(p, q) ==
    \/ p.lap < q.lap
    \/ p.lap = q.lap /\ p.seq <= q.seq

(* The highest accepted packet is still within half a cycle of the newest. *)
HighInReach ==
    ~IsFirst(win) => win.highest # 0 /\ Follows(newest, HighPos)

(* What was accepted was sent; and if the network can still deliver it, it *)
(* lies at or behind the highest one, with its bit set if it is inside.    *)
AcceptedIsRemembered ==
    \A p \in accepted :
        /\ p.seq # 0
        /\ NotAfter(p, newest)
        /\ ~IsFirst(win)
        /\ InFlight(p) =>
               /\ Follows(HighPos, p)
               /\ Age(win, p.seq) < WindowSize => Age(win, p.seq) \in win.bitmap

(* The highest packet was accepted, and every bit is that of a packet that *)
(* was accepted, at its true distance from the highest.                    *)
BitsAreEarned ==
    /\ ~IsFirst(win) => HighPos \in accepted
    /\ \A age \in win.bitmap :
          \E q \in accepted : Follows(HighPos, q) /\ Age(win, q.seq) = age

(* The inductive invariant behind AtMostOnce.                              *)
DedupIInv ==
    /\ DedupTypeOK
    /\ HighInReach
    /\ AcceptedIsRemembered
    /\ AtMostOnce

=============================================================================
