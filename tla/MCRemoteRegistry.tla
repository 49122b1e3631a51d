-------------------------- MODULE MCRemoteRegistry --------------------------
(***************************************************************************)
(* Three remotes for a table of two: every newcomer may push one out.  The *)
(* clock has 4 values and rolls over within the time modelled.             *)
(***************************************************************************)
EXTENDS RemoteRegistry, TLC

CONSTANTS r1, r2, r3

MCRemotes == {r1, r2, r3}
MCSymmetry == Permutations(MCRemotes)
MCSeqModulus == 4
MCWindowSize == 2
MCBootModulus == 4
=============================================================================
