-------------------------- MODULE MCCentralBridge --------------------------
(***************************************************************************)
(* CentralBridge in ticks: the intervals keep their order in the code, 1 s,*)
(* 15 s, 30 s, 60 s and 5 min; connect() blocks for at most a tick, less   *)
(* than the interval of the reconnections, which is two; the requests go   *)
(* at 0 and 1 ticks.                                                       *)
(***************************************************************************)
EXTENDS CentralBridge

MCRequestDelays == [n \in 0 .. MaxRequests |-> n]
=============================================================================
