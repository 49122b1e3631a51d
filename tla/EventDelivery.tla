--------------------------- MODULE EventDelivery ---------------------------
(***************************************************************************)
(* What the link promises of the reliable packets of a node, whatever the  *)
(* network, the queue, the channel, the registry and the window do: a      *)
(* packet is handed over at most once per boot of the receiver, never      *)
(* after one of a later boot of the sender, and is confirmed to the sender *)
(* that sent it only once it was handed over, or in one of two known       *)
(* cases.  Nothing says that a packet arrives.                             *)
(***************************************************************************)
EXTENDS Integers

CONSTANTS
    Numbers,    \* the numbers of the packets of one boot
    WindowSize  \* how far a packet may be overtaken and still be handed over

VARIABLES
    boot,       \* boots of the sender
    epoch,      \* boots of the receiver
    sent,       \* the packets [ord, seq] sent so far
    handled,    \* those handed over, [epoch, ord, seq]
    repeated,   \* those handed over again
    confirmed   \* those confirmed to the sender

vars == <<boot, epoch, sent, handled, repeated, confirmed>>

Init ==
    /\ boot = 1 /\ epoch = 1
    /\ sent = {} /\ handled = {} /\ repeated = {} /\ confirmed = {}

Send(s) ==
    /\ sent' = sent \cup {[ord |-> boot, seq |-> s]}
    /\ UNCHANGED <<boot, epoch, handled, repeated, confirmed>>

HandOver(p) ==
    LET h == [epoch |-> epoch, ord |-> p.ord, seq |-> p.seq] IN
    /\ h \notin handled
    /\ \A g \in handled : g.epoch = epoch => g.ord <= p.ord
    /\ handled' = handled \cup {h}
    /\ UNCHANGED <<boot, epoch, sent, repeated, confirmed>>

WasHandled(p) == \E h \in handled : h.ord = p.ord /\ h.seq = p.seq

(* A packet a whole window later was handed over first.                    *)
WasOvertaken(p) ==
    \E h \in handled : h.ord = p.ord /\ h.seq >= p.seq + WindowSize

(* One of an earlier boot bears the same number.                           *)
IsAmbiguous(p) == \E q \in sent : q.ord < p.ord /\ q.seq = p.seq

Confirm(p) ==
    /\ p.ord = boot
    /\ WasHandled(p) \/ WasOvertaken(p) \/ IsAmbiguous(p)
    /\ confirmed' = confirmed \cup {p}
    /\ UNCHANGED <<boot, epoch, sent, handled, repeated>>

SenderRestarts ==
    /\ boot' = boot + 1
    /\ UNCHANGED <<epoch, sent, handled, repeated, confirmed>>

ReceiverRestarts ==
    /\ epoch' = epoch + 1
    /\ UNCHANGED <<boot, sent, handled, repeated, confirmed>>

Next ==
    \/ \E s \in Numbers : Send(s)
    \/ \E p \in sent : HandOver(p) \/ Confirm(p)
    \/ SenderRestarts \/ ReceiverRestarts

Spec == Init /\ [][Next]_vars

=============================================================================
