------------------------- MODULE MCReliableChannel -------------------------
(***************************************************************************)
(* Instances of ReliableChannel.  A tick is about 150 ms: the base of 300  *)
(* is 2 ticks, the backoffs are 2, 3, 4 and the saturation value, and the  *)
(* second between checks without WiFi is 7.  The clock has 24 ticks.       *)
(***************************************************************************)
EXTENDS ReliableChannel

MCMaxRetries == 4
MCBackoffBase == 2
MCBackoffMax == 5
MCWifiRetry == 7
MCClockModulus == 24
=============================================================================
