--------------------------- MODULE MCBootStorage ---------------------------
(***************************************************************************)
(* Instances of BootStorage: a 4-bit BOOT_ID for the 16 of the code, a     *)
(* 6-bit counter for its 32 that is read back up to 31, and four boots.  A *)
(* node may start from any count, on either side of the wrap of BOOT_ID    *)
(* and of the largest count that can be read back.                         *)
(***************************************************************************)
EXTENDS BootStorage

MCBootModulus == 16
MCCountModulus == 64
MCMaxParsed == 31
MCFirstCounts == 0 .. 33
MCMaxBoots == 4
=============================================================================
