--------------------------- MODULE MCDedupSession --------------------------
(* Instance of DedupSession: an 8-value counter (3 bits for the 32 of the  *)
(* code), a window of 3 packets and one wrap.                              *)
EXTENDS DedupSession

MCSeqModulus == 8
MCWindowSize == 3
MCMaxLap == 1
=============================================================================
