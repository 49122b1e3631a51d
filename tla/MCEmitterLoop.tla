--------------------------- MODULE MCEmitterLoop ---------------------------
(* EmitterLoop in ticks of its shortest interval.                          *)
EXTENDS EmitterLoop

=============================================================================
