---------------------------- MODULE MCNodeQueue ----------------------------
(* Instance of NodeQueue: three slots and five calls, so that the queue    *)
(* fills, overflows twice, and is refilled out of slot order.              *)
EXTENDS NodeQueue

MCQueueSize == 3
MCMaxCalls == 5
=============================================================================
