--------------------------- MODULE SerialNumbers ---------------------------
(***************************************************************************)
(* Unsigned wrap-around arithmetic as IoTNode uses it to order SEQ (32     *)
(* bits) and BOOT_ID (16 bits).  m is the modulus, 2^width in the code, so *)
(* that "delta < 0x80000000" and "delta < 0x8000" read 2 * delta < m.      *)
(***************************************************************************)
EXTENDS Integers

(* candidate - current, computed in an unsigned type.                      *)
Delta(candidate, current, m) ==
    IF candidate >= current THEN candidate - current
                            ELSE m + candidate - current

(* Mutant of IsNewer: the comparison of plain numbers, blind to the wrap.  *)
IsGreater(candidate, current, m) == candidate > current

(* seqIsNewer / bootIdIsNewer: strictly ahead by less than half a cycle.   *)
IsNewer(candidate, current, m) ==
    /\ candidate # current
    /\ 2 * Delta(candidate, current, m) < m

(* The counter that follows s: it wraps, and 0 is never used on the wire.  *)
NextNonZero(s, m) == IF s + 1 = m THEN 1 ELSE s + 1

=============================================================================
