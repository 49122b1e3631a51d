------------------------- MODULE AlarmLinkDelivery -------------------------
(***************************************************************************)
(* That AlarmLink implements EventDelivery while the storage of the        *)
(* emitter works.  What is sent is what is in the network; a transmission  *)
(* is a Send, the first of a packet or a stutter; Handle hands over;       *)
(* HandleAck confirms; a refused, repeated or abandoned packet, telemetry, *)
(* and all that happens to the queue are stutters.                         *)
(***************************************************************************)
EXTENDS AlarmLink

Sent == {[ord |-> m.ord, seq |-> m.seq] : m \in {n \in net : IsReliable(n)}}

Delivery == INSTANCE EventDelivery
            WITH Numbers <- 1 .. MaxSeq, boot <- boots, epoch <- cBoots,
                 sent <- Sent

(* The link delivers as EventDelivery says: every step of the code is one  *)
(* of the abstract steps, or changes nothing a user of the link sees       *)
(* (IoTNode.cpp:283-373, 375-428).                                         *)
LinkDelivers == Delivery!Spec

(* A packet waits for its ACK only once it was sent.                       *)
InFlightWasSent ==
    reliable.active /\ reliable.waitingAck =>
        [ord |-> boots, seq |-> reliable.seq] \in Sent

=============================================================================
