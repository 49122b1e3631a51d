----------------------------- MODULE SeqWindow -----------------------------
(***************************************************************************)
(* The sliding deduplication window of a RemoteDevice (IoTNode.h:111-118)  *)
(* and the verdict IoTNode::_isDuplicate gives on one reliable packet.     *)
(*                                                                         *)
(* The window is a record: highest is seqHighest, bitmap the set of ages   *)
(* whose bit is set in seqBitmap (bit 0 is seqHighest itself).             *)
(* seqWindow[] / seqWindowHead are written and never read, and             *)
(* seqWindowCount = 0 holds exactly when the bitmap is empty, so these     *)
(* three fields have no counterpart.                                       *)
(***************************************************************************)
EXTENDS SerialNumbers

CONSTANTS SeqModulus,   \* 2^32 in the code
          WindowSize    \* IOT_DEDUP_WINDOW, 8 in the code

ASSUME SeqWindowAssumption ==
    /\ SeqModulus \in Nat
    /\ WindowSize \in Nat \ {0}
    /\ 2 * WindowSize <= SeqModulus

Ages == 0 .. WindowSize - 1

EmptyWindow == [highest |-> 0, bitmap |-> {}]

IsFirst(win) == win.bitmap = {}

seqIsNewer(seq, highest) == IsNewer(seq, highest, SeqModulus)

Age(win, seq) == Delta(win.highest, seq, SeqModulus)

(* Mutant of IsDuplicate: what lies behind the window is taken for new.    *)
IsDuplicateInWindow(win, seq) ==
    /\ ~IsFirst(win)
    /\ ~seqIsNewer(seq, win.highest)
    /\ Age(win, seq) \in win.bitmap

IsDuplicate(win, seq) ==
    /\ ~IsFirst(win)
    /\ ~seqIsNewer(seq, win.highest)
    /\ \/ Age(win, seq) >= WindowSize
       \/ Age(win, seq) \in win.bitmap

(***************************************************************************)
(* The window after seq was accepted.  Shifting the bitmap by the advance  *)
(* keeps the ages that still fit; an advance of WindowSize or more leaves  *)
(* none, which is the branch that clears it in the code.                   *)
(***************************************************************************)
Slide(win, seq) ==
    {age \in Ages : age - Delta(seq, win.highest, SeqModulus) \in win.bitmap}

Accept(win, seq) ==
    IF IsFirst(win)
    THEN [highest |-> seq, bitmap |-> {0}]
    ELSE IF seqIsNewer(seq, win.highest)
    THEN [highest |-> seq, bitmap |-> {0} \cup Slide(win, seq)]
    ELSE [highest |-> win.highest, bitmap |-> win.bitmap \cup {Age(win, seq)}]

(* seq counts as seen: it is a window or more behind, or its bit is set.   *)
(* For numbers less than half a cycle apart.                               *)
Remembers(win, seq) ==
    /\ ~IsFirst(win)
    /\ seq <= win.highest
    /\ win.highest - seq < WindowSize => win.highest - seq \in win.bitmap

Windows == [highest : 0 .. SeqModulus - 1, bitmap : SUBSET Ages]

=============================================================================
