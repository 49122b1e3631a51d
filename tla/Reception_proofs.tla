--------------------------- MODULE Reception_proofs ---------------------------
(***************************************************************************)
(* What a receiver makes of the numbers of packets.  Two parts:            *)
(*   - one session of one sender, seen through its window (DedupSession):  *)
(*     at-most-once delivery for every counter width, every window no      *)
(*     larger than half the counter and any number of wraps;               *)
(*   - the table of all remotes (RemoteRegistry), for every number of      *)
(*     remotes and places, every timeout and every order of arrival.       *)
(* Both rest on the window of SeqWindow, and share no variable: the names  *)
(* of the session's specification carry its name.                          *)
(***************************************************************************)
EXTENDS DedupSession, RemoteRegistry, TLAPS

(* An unsigned difference stays within the counter.                        *)
LEMMA DeltaType ==
    ASSUME NEW a \in 0 .. SeqModulus - 1, NEW b \in 0 .. SeqModulus - 1
    PROVE  Delta(a, b, SeqModulus) \in 0 .. SeqModulus - 1
BY SeqWindowAssumption DEF Delta, SeqWindowAssumption

(* What Accept makes of a window is a window, and no longer an empty one.  *)
LEMMA AcceptType ==
    ASSUME NEW w \in Windows, NEW s \in 0 .. SeqModulus - 1,
           ~IsDuplicate(w, s)
    PROVE  /\ Accept(w, s) \in Windows
           /\ ~IsFirst(Accept(w, s))
<1>1. 0 \in Ages
  BY SeqWindowAssumption DEF Ages, SeqWindowAssumption
<1>2. Slide(w, s) \subseteq Ages
  BY DEF Slide
<1>3. CASE IsFirst(w)
  BY <1>1, <1>3 DEF Accept, Windows, IsFirst
<1>4. CASE ~IsFirst(w) /\ seqIsNewer(s, w.highest)
  BY <1>1, <1>2, <1>4 DEF Accept, Windows, IsFirst
<1>5. CASE ~IsFirst(w) /\ ~seqIsNewer(s, w.highest)
  <2>1. Age(w, s) \in Ages
    BY <1>5, DeltaType, SeqWindowAssumption
    DEF IsDuplicate, Age, Ages, Windows, SeqWindowAssumption
  <2> QED
    BY <1>5, <2>1 DEF Accept, Windows, IsFirst
<1> QED
  BY <1>3, <1>4, <1>5

-----------------------------------------------------------------------------
(* One session.                                                            *)

(***************************************************************************)
(* On positions less than half a cycle apart, wire arithmetic agrees with  *)
(* the true order: the later one is newer, and never the other way round.  *)
(***************************************************************************)
LEMMA WireOrder ==
    ASSUME NEW p \in Positions, NEW q \in Positions, Follows(p, q)
    PROVE  /\ p # q => seqIsNewer(p.seq, q.seq)
           /\ ~seqIsNewer(q.seq, p.seq)
           /\ Delta(p.seq, q.seq, SeqModulus) \in Nat
           /\ p.lap = q.lap =>
                Delta(p.seq, q.seq, SeqModulus) = p.seq - q.seq
           /\ p.lap # q.lap =>
                /\ p.lap = q.lap + 1
                /\ Delta(p.seq, q.seq, SeqModulus) = SeqModulus + p.seq - q.seq
<1>1. p # q => p.lap # q.lap \/ p.seq # q.seq
  BY DEF Positions
<1> QED
  BY <1>1, SeqWindowAssumption
  DEF Follows, Positions, seqIsNewer, IsNewer, Delta, SeqWindowAssumption

(***************************************************************************)
(* Two packets in flight are both within half a cycle of the newest, hence *)
(* of each other.                                                          *)
(***************************************************************************)
LEMMA InFlightComparable ==
    ASSUME NEW n \in Positions, NEW p \in Positions, NEW q \in Positions,
           Follows(n, p), Follows(n, q)
    PROVE  Follows(p, q) \/ Follows(q, p)
BY SeqWindowAssumption DEF Follows, Positions, SeqWindowAssumption

(* Between two positions within reach of each other, reach is transitive.  *)
LEMMA FollowsBetween ==
    ASSUME NEW n \in Positions, NEW p \in Positions, NEW q \in Positions,
           Follows(n, q), Follows(n, p), NotAfter(q, p)
    PROVE  Follows(p, q)
BY SeqWindowAssumption DEF Follows, NotAfter, Positions, SeqWindowAssumption

-----------------------------------------------------------------------------

LEMMA SuccessorFacts ==
    ASSUME NEW p \in Positions
    PROVE  /\ Successor(p) \in Positions
           /\ Successor(p).seq # 0
           /\ NotAfter(p, Successor(p))
           /\ p # Successor(p)
BY SeqWindowAssumption
DEF Successor, Positions, NextNonZero, NotAfter, SeqWindowAssumption

LEMMA InitDedup == DedupInit => DedupIInv
<1> SUFFICES ASSUME DedupInit PROVE DedupIInv
  OBVIOUS
<1>1. DedupTypeOK
  BY SeqWindowAssumption
  DEF DedupInit, DedupTypeOK, Positions, Windows, EmptyWindow, SeqWindowAssumption
<1> QED
  BY <1>1 DEF DedupInit, DedupIInv, HighInReach, AcceptedIsRemembered, AtMostOnce,
              EmptyWindow, IsFirst

(***************************************************************************)
(* A packet the network can still deliver is refused if it was accepted:   *)
(* this is what the window is for.                                         *)
(***************************************************************************)
LEMMA AcceptedIsDuplicate ==
    ASSUME DedupIInv, NEW p \in accepted, InFlight(p)
    PROVE  IsDuplicate(win, p.seq)
<1>1. /\ ~IsFirst(win)
      /\ Follows(HighPos, p)
      /\ Age(win, p.seq) < WindowSize => Age(win, p.seq) \in win.bitmap
  BY DEF DedupIInv, AcceptedIsRemembered
<1>2. HighPos \in Positions /\ p \in Positions /\ HighPos.seq = win.highest
  BY DEF DedupIInv, DedupTypeOK, HighPos, Positions, Windows
<1>3. ~seqIsNewer(p.seq, win.highest) /\ Age(win, p.seq) \in Nat
  BY <1>1, <1>2, WireOrder DEF Age
<1> QED
  BY <1>1, <1>3, SeqWindowAssumption DEF IsDuplicate, SeqWindowAssumption

(* Numbering one more packet brings nothing back into flight.              *)
LEMMA GetNextSeqKeepsDedup ==
    ASSUME DedupIInv, GetNextSeq
    PROVE  DedupIInv'
<1> DEFINE n == Successor(newest)
<1>1. /\ newest' = n
      /\ win' = win /\ highLap' = highLap /\ accepted' = accepted
      /\ handledTwice' = handledTwice
  BY DEF GetNextSeq
<1>2. newest \in Positions /\ n \in Positions /\ NotAfter(newest, n)
  BY SuccessorFacts DEF DedupIInv, DedupTypeOK
<1>3. DedupTypeOK'
  BY <1>1, <1>2 DEF DedupIInv, DedupTypeOK, Windows, Positions
<1>4. HighInReach'
  BY <1>1 DEF GetNextSeq, DedupIInv, HighInReach, HighPos
<1>5. AcceptedIsRemembered'
  <2> SUFFICES ASSUME NEW p \in accepted
               PROVE  /\ p.seq # 0
                      /\ NotAfter(p, n)
                      /\ ~IsFirst(win)
                      /\ InFlight(p)' =>
                            /\ Follows(HighPos, p)
                            /\ Age(win, p.seq) < WindowSize
                                 => Age(win, p.seq) \in win.bitmap
    BY <1>1 DEF AcceptedIsRemembered, HighPos
  <2>1. p \in Positions /\ NotAfter(p, newest)
    BY DEF DedupIInv, DedupTypeOK, AcceptedIsRemembered
  <2>2. NotAfter(p, n)
    BY <1>2, <2>1 DEF NotAfter, Positions
  <2>3. Follows(n, p) => Follows(newest, p)
    BY <1>2, <2>1, SeqWindowAssumption
    DEF Follows, NotAfter, Positions, SeqWindowAssumption
  <2>4. InFlight(p)' => InFlight(p)
    BY <1>1, <2>3 DEF InFlight
  <2> QED
    BY <2>2, <2>4 DEF DedupIInv, AcceptedIsRemembered
<1> QED
  BY <1>1, <1>3, <1>4, <1>5 DEF DedupIInv, AtMostOnce

(* Ages add up along the order of positions.                               *)
LEMMA AgesAdd ==
    ASSUME NEW p \in Positions, NEW h \in Positions, NEW q \in Positions,
           Follows(p, h), Follows(h, q), Follows(p, q)
    PROVE  Delta(p.seq, q.seq, SeqModulus)
             = Delta(p.seq, h.seq, SeqModulus) + Delta(h.seq, q.seq, SeqModulus)
BY SeqWindowAssumption
DEF Follows, Positions, Delta, SeqWindowAssumption

(* One delivery: nothing accepted before is delivered again, and what the  *)
(* window remembers of the past survives its slide.                        *)
LEMMA DeliverKeepsDedup ==
    ASSUME DedupIInv, NEW p \in Wire, Deliver(p)
    PROVE  DedupIInv'
<1>1. /\ InFlight(p)
      /\ ~IsDuplicate(win, p.seq)
      /\ win' = Accept(win, p.seq)
      /\ highLap' = IF win'.highest = p.seq THEN p.lap ELSE highLap
      /\ accepted' = accepted \cup {p}
      /\ handledTwice' = IF p \in accepted THEN handledTwice \cup {p} ELSE handledTwice
      /\ newest' = newest
  BY DEF Deliver
<1>2. /\ newest \in Positions /\ p \in Positions /\ HighPos \in Positions
      /\ win \in Windows /\ highLap \in Nat
      /\ HighPos.seq = win.highest /\ HighPos.lap = highLap
      /\ p.seq # 0 /\ Follows(newest, p)
      /\ p = [lap |-> p.lap, seq |-> p.seq]
  BY <1>1 DEF InFlight, DedupIInv, DedupTypeOK, HighPos, Positions, Windows
<1>3. p \notin accepted /\ handledTwice' = handledTwice
  BY <1>1, AcceptedIsDuplicate
<1>4. win' \in Windows /\ ~IsFirst(win')
  BY <1>1, <1>2, AcceptType DEF Positions
<1>5. DedupTypeOK'
  BY <1>1, <1>2, <1>3, <1>4 DEF DedupIInv, DedupTypeOK, Positions
<1>6. ~IsFirst(win) => win.highest # 0 /\ Follows(newest, HighPos)
  BY DEF DedupIInv, HighInReach
<1>7. NotAfter(p, newest) /\ Follows(p, p)
  BY <1>2, SeqWindowAssumption
  DEF Follows, NotAfter, Positions, SeqWindowAssumption
<1>8. \A q \in accepted :
        /\ q \in Positions /\ q.seq # 0 /\ NotAfter(q, newest) /\ ~IsFirst(win)
        /\ InFlight(q)' => /\ Follows(newest, q)
                           /\ Follows(HighPos, q)
                           /\ Age(win, q.seq) < WindowSize
                                => Age(win, q.seq) \in win.bitmap
  BY <1>1 DEF DedupIInv, DedupTypeOK, AcceptedIsRemembered, InFlight
<1>9. CASE IsFirst(win) \/ seqIsNewer(p.seq, win.highest)
  <2>1. win'.highest = p.seq /\ 0 \in win'.bitmap
    BY <1>1, <1>9 DEF Accept
  <2>2. HighPos' = p
    BY <1>1, <1>2, <2>1 DEF HighPos
  <2>3. Age(win', p.seq) = 0
    BY <1>2, <2>1 DEF Age, Delta, Positions
  <2>4. ASSUME NEW q \in accepted, InFlight(q)'
        PROVE  /\ Follows(p, q)
               /\ Age(win', q.seq) < WindowSize => Age(win', q.seq) \in win'.bitmap
    <3>1. /\ q \in Positions /\ ~IsFirst(win) /\ Follows(newest, q)
          /\ Follows(HighPos, q)
          /\ Age(win, q.seq) < WindowSize => Age(win, q.seq) \in win.bitmap
      BY <1>8, <2>4
    <3>2. Follows(p, HighPos)
      BY <1>2, <1>6, <1>9, <3>1, InFlightComparable, WireOrder
    <3>3. NotAfter(q, p)
      BY <1>2, <3>1, <3>2, SeqWindowAssumption
      DEF Follows, NotAfter, Positions, SeqWindowAssumption
    <3>4. Follows(p, q)
      BY <1>2, <3>1, <3>3, FollowsBetween
    <3> DEFINE adv == Delta(p.seq, win.highest, SeqModulus)
    <3>5. /\ Age(win', q.seq) = adv + Age(win, q.seq)
          /\ adv \in Nat /\ Age(win, q.seq) \in Nat
      BY <1>2, <2>1, <3>1, <3>2, <3>4, AgesAdd, WireOrder DEF Age
    <3>6. ASSUME Age(win', q.seq) < WindowSize
          PROVE  Age(win', q.seq) \in win'.bitmap
      <4>1. Age(win, q.seq) \in win.bitmap
        BY <3>1, <3>5, <3>6, SeqWindowAssumption DEF SeqWindowAssumption
      <4>2. Age(win', q.seq) \in Ages /\ Age(win', q.seq) - adv = Age(win, q.seq)
        BY <3>5, <3>6, SeqWindowAssumption DEF Ages, SeqWindowAssumption
      <4>3. Age(win', q.seq) \in Slide(win, p.seq)
        BY <4>1, <4>2 DEF Slide
      <4>4. win'.bitmap = {0} \cup Slide(win, p.seq)
        BY <1>1, <1>9, <3>1 DEF Accept
      <4> QED
        BY <4>3, <4>4
    <3> QED
      BY <3>4, <3>6
  <2>5. AcceptedIsRemembered'
    BY <1>1, <1>2, <1>4, <1>7, <1>8, <2>1, <2>2, <2>3, <2>4
    DEF AcceptedIsRemembered
  <2>6. HighInReach'
    BY <1>1, <1>2, <2>1, <2>2 DEF HighInReach
  <2> QED
    BY <1>3, <1>5, <2>5, <2>6 DEF DedupIInv, AtMostOnce
<1>10. CASE ~IsFirst(win) /\ ~seqIsNewer(p.seq, win.highest)
  <2>1. win' = [highest |-> win.highest,
                bitmap |-> win.bitmap \cup {Age(win, p.seq)}]
    BY <1>1, <1>10 DEF Accept
  <2>2. Follows(HighPos, p)
    BY <1>2, <1>6, <1>7, <1>10, InFlightComparable, WireOrder
  <2>3. win.highest = p.seq => highLap = p.lap
    BY <1>2, <2>2, SeqWindowAssumption
    DEF Follows, Positions, SeqWindowAssumption
  <2>4. HighPos' = HighPos
    BY <1>1, <2>1, <2>3 DEF HighPos
  <2>5. \A s : Age(win', s) = Age(win, s)
    BY <2>1 DEF Age
  <2>6. win.bitmap \subseteq win'.bitmap /\ Age(win, p.seq) \in win'.bitmap
    BY <2>1
  <2>7. AcceptedIsRemembered'
    BY <1>1, <1>2, <1>4, <1>7, <1>8, <2>2, <2>4, <2>5, <2>6
    DEF AcceptedIsRemembered
  <2>8. HighInReach'
    BY <1>1, <1>6, <1>10, <2>1, <2>4 DEF HighInReach
  <2> QED
    BY <1>3, <1>5, <2>7, <2>8 DEF DedupIInv, AtMostOnce
<1> QED
  BY <1>9, <1>10

-----------------------------------------------------------------------------

(* The invariant holds in every reachable state.                           *)
THEOREM DedupInvariance == DedupSpec => []DedupIInv
<1>1. DedupIInv /\ [DedupNext]_dedupVars => DedupIInv'
  <2> SUFFICES ASSUME DedupIInv, [DedupNext]_dedupVars PROVE DedupIInv'
    OBVIOUS
  <2>1. CASE GetNextSeq
    BY <2>1, GetNextSeqKeepsDedup
  <2>2. ASSUME NEW p \in Wire, Deliver(p) PROVE DedupIInv'
    BY <2>2, DeliverKeepsDedup
  <2>3. ASSUME NEW p \in Wire, Drop(p) PROVE UNCHANGED dedupVars
    BY <2>3 DEF Drop
  <2>4. CASE UNCHANGED dedupVars
    BY <2>4 DEF dedupVars, DedupIInv, DedupTypeOK, HighInReach, AcceptedIsRemembered,
                AtMostOnce, InFlight, HighPos
  <2> QED
    BY <2>1, <2>2, <2>3, <2>4 DEF DedupNext
<1> QED
  BY InitDedup, <1>1, PTL DEF DedupSpec

(* Types are preserved: in particular the bitmap never holds an age the    *)
(* eight bits of seqBitmap could not (IoTNode.cpp:484-505).                *)
THEOREM DedupTypeCorrectness == DedupSpec => []DedupTypeOK
<1>1. DedupIInv => DedupTypeOK
  BY DEF DedupIInv
<1> QED
  BY DedupInvariance, <1>1, PTL

(* No packet of a session reaches the handler twice, for every counter     *)
(* width and window size (the drop of duplicates at IoTNode.cpp:358).      *)
THEOREM AtMostOnceDelivery == DedupSpec => []AtMostOnce
<1>1. DedupIInv => AtMostOnce
  BY DEF DedupIInv
<1> QED
  BY DedupInvariance, <1>1, PTL

-----------------------------------------------------------------------------
(* No packet is mistaken for another.                                      *)

(* What an old bit stood for is as far behind p as the bit has slid.       *)
LEMMA FollowsAcross ==
    ASSUME NEW p \in Positions, NEW h \in Positions, NEW q \in Positions,
           Follows(p, h), Follows(h, q),
           2 * (Delta(p.seq, h.seq, SeqModulus) + Delta(h.seq, q.seq, SeqModulus))
             < SeqModulus
    PROVE  /\ Follows(p, q)
           /\ Delta(p.seq, q.seq, SeqModulus)
                = Delta(p.seq, h.seq, SeqModulus) + Delta(h.seq, q.seq, SeqModulus)
BY SeqWindowAssumption DEF Follows, Positions, Delta, SeqWindowAssumption

(* Two positions at the same distance behind a third are the same.         *)
LEMMA SameDistance ==
    ASSUME NEW h \in Positions, NEW p \in Positions, NEW q \in Positions,
           Follows(h, p), Follows(h, q),
           Delta(h.seq, p.seq, SeqModulus) = Delta(h.seq, q.seq, SeqModulus)
    PROVE  p = q
<1>1. p.seq = q.seq /\ p.lap = q.lap
  BY SeqWindowAssumption DEF Follows, Positions, Delta, SeqWindowAssumption
<1> QED
  BY <1>1 DEF Positions

LEMMA InitBits == DedupInit => BitsAreEarned
BY DEF DedupInit, BitsAreEarned, EmptyWindow, IsFirst

LEMMA DeliverKeepsBits ==
    ASSUME DedupIInv, BitsAreEarned, NEW p \in Wire, Deliver(p)
    PROVE  BitsAreEarned'
<1>1. /\ InFlight(p)
      /\ ~IsDuplicate(win, p.seq)
      /\ win' = Accept(win, p.seq)
      /\ highLap' = IF win'.highest = p.seq THEN p.lap ELSE highLap
      /\ accepted' = accepted \cup {p}
  BY DEF Deliver
<1>2. /\ newest \in Positions /\ p \in Positions /\ HighPos \in Positions
      /\ win \in Windows /\ highLap \in Nat /\ accepted \subseteq Positions
      /\ HighPos.seq = win.highest /\ HighPos.lap = highLap
      /\ Follows(newest, p)
      /\ p = [lap |-> p.lap, seq |-> p.seq]
  BY <1>1 DEF InFlight, DedupIInv, DedupTypeOK, HighPos, Positions, Windows
<1>3. Follows(p, p) /\ Delta(p.seq, p.seq, SeqModulus) = 0
  BY <1>2, SeqWindowAssumption
  DEF Follows, Positions, Delta, SeqWindowAssumption
<1>4. ~IsFirst(win) => Follows(newest, HighPos)
  BY DEF DedupIInv, HighInReach
<1>5. CASE IsFirst(win) \/ seqIsNewer(p.seq, win.highest)
  <2>1. /\ win'.highest = p.seq
        /\ win'.bitmap \subseteq {0} \cup IF IsFirst(win) THEN {} ELSE Slide(win, p.seq)
    BY <1>1, <1>5 DEF Accept
  <2>2. HighPos' = p
    BY <1>1, <1>2, <2>1 DEF HighPos
  <2>3. ASSUME NEW age \in Slide(win, p.seq), ~IsFirst(win)
        PROVE  \E q \in accepted : Follows(p, q) /\ Delta(p.seq, q.seq, SeqModulus) = age
    <3> DEFINE adv == Delta(p.seq, win.highest, SeqModulus)
    <3>1. age \in Ages /\ age - adv \in win.bitmap
      BY <2>3 DEF Slide
    <3>2. PICK q \in accepted : Follows(HighPos, q) /\ Age(win, q.seq) = age - adv
      BY <3>1 DEF BitsAreEarned
    <3>3. Follows(p, HighPos)
      BY <1>2, <1>4, <1>5, <2>3, InFlightComparable, WireOrder
    <3>4. adv \in Nat /\ Age(win, q.seq) \in Nat /\ q \in Positions
      BY <1>2, <3>2, <3>3, WireOrder DEF Age
    <3>5. adv + Age(win, q.seq) = age /\ 2 * age < SeqModulus
      BY <3>1, <3>2, <3>4, SeqWindowAssumption DEF Ages, SeqWindowAssumption
    <3>6. Follows(p, q) /\ Delta(p.seq, q.seq, SeqModulus) = age
      BY <1>2, <3>2, <3>3, <3>4, <3>5, FollowsAcross DEF Age
    <3> QED
      BY <3>6
  <2> QED
    BY <1>1, <1>3, <2>1, <2>2, <2>3 DEF BitsAreEarned, Age
<1>6. CASE ~IsFirst(win) /\ ~seqIsNewer(p.seq, win.highest)
  <2>1. win' = [highest |-> win.highest,
                bitmap |-> win.bitmap \cup {Age(win, p.seq)}]
    BY <1>1, <1>6 DEF Accept
  <2>2. Follows(HighPos, p)
    BY <1>2, <1>3, <1>4, <1>6, InFlightComparable, WireOrder
  <2>3. win.highest = p.seq => highLap = p.lap
    BY <1>2, <2>2, SeqWindowAssumption
    DEF Follows, Positions, SeqWindowAssumption
  <2>4. HighPos' = HighPos
    BY <1>1, <2>1, <2>3 DEF HighPos
  <2>5. \A s : Age(win', s) = Age(win, s)
    BY <2>1 DEF Age
  <2> QED
    BY <1>1, <1>6, <2>1, <2>2, <2>4, <2>5 DEF BitsAreEarned
<1> QED
  BY <1>5, <1>6

LEMMA BitsInvariance == DedupSpec => []BitsAreEarned
<1>1. DedupIInv /\ BitsAreEarned /\ [DedupNext]_dedupVars => BitsAreEarned'
  <2> SUFFICES ASSUME DedupIInv, BitsAreEarned, [DedupNext]_dedupVars PROVE BitsAreEarned'
    OBVIOUS
  <2>1. CASE UNCHANGED <<win, highLap, accepted>>
    BY <2>1 DEF BitsAreEarned, HighPos
  <2>2. GetNextSeq \/ (\E p \in Wire : Drop(p)) \/ UNCHANGED dedupVars
          => UNCHANGED <<win, highLap, accepted>>
    BY DEF GetNextSeq, Drop, dedupVars
  <2>3. ASSUME NEW p \in Wire, Deliver(p) PROVE BitsAreEarned'
    BY <2>3, DeliverKeepsBits
  <2> QED
    BY <2>1, <2>2, <2>3 DEF DedupNext
<1> QED
  BY DedupInvariance, InitBits, <1>1, PTL DEF DedupSpec

(* A packet that is refused without having been accepted before lies a     *)
(* whole window behind the highest: across any number of wraps no packet   *)
(* is mistaken for another (IoTNode.cpp:484-511).                          *)
THEOREM OnlyTheLateAreLost == DedupSpec => []FirstArrivalAccepted
<1>1. ASSUME DedupIInv, BitsAreEarned PROVE FirstArrivalAccepted
  <2> SUFFICES ASSUME NEW p \in Wire,
                      InFlight(p), IsDuplicate(win, p.seq), p \notin accepted
               PROVE  Follows(HighPos, p) /\ Age(win, p.seq) >= WindowSize
    BY DEF FirstArrivalAccepted
  <2>1. /\ newest \in Positions /\ p \in Positions /\ HighPos \in Positions
        /\ accepted \subseteq Positions
        /\ HighPos.seq = win.highest
        /\ Follows(newest, p)
    BY <1>1 DEF InFlight, DedupIInv, DedupTypeOK, HighPos, Positions, Windows
  <2>2. /\ HighPos \in accepted /\ HighPos # p
        /\ Follows(newest, HighPos)
        /\ ~seqIsNewer(p.seq, win.highest)
    BY <1>1 DEF IsDuplicate, BitsAreEarned, DedupIInv, HighInReach
  <2>3. Follows(HighPos, p)
    BY <2>1, <2>2, InFlightComparable, WireOrder
  <2>4. Age(win, p.seq) \notin win.bitmap
    BY <1>1, <2>1, <2>3, SameDistance DEF BitsAreEarned, Age
  <2> QED
    BY <2>3, <2>4 DEF IsDuplicate
<1>2. DedupIInv /\ BitsAreEarned => FirstArrivalAccepted
  BY <1>1
<1> QED
  BY DedupInvariance, BitsInvariance, <1>2, PTL

-----------------------------------------------------------------------------
(* The table of remotes.                                                   *)

(***************************************************************************)
(* Among numbers less than half a cycle apart the wire order is the order  *)
(* of the numbers.                                                         *)
(***************************************************************************)
LEMMA SmallSeqs ==
    ASSUME NEW N \in Nat, 2 * N <= SeqModulus,
           NEW a \in 1 .. N, NEW b \in 1 .. N
    PROVE  /\ seqIsNewer(a, b) <=> a > b
           /\ a >= b => Delta(a, b, SeqModulus) = a - b
BY SeqWindowAssumption DEF seqIsNewer, IsNewer, Delta, SeqWindowAssumption

(* What is remembered is refused.                                          *)
LEMMA RememberedIsDuplicate ==
    ASSUME NEW N \in Nat, 2 * N <= SeqModulus,
           NEW w \in Windows, w.highest \in 1 .. N,
           NEW s \in 1 .. N, Remembers(w, s)
    PROVE  IsDuplicate(w, s)
BY SmallSeqs, SeqWindowAssumption
DEF IsDuplicate, Remembers, Age, Windows, SeqWindowAssumption

(***************************************************************************)
(* Accepting s remembers s and all that was remembered.                    *)
(***************************************************************************)
LEMMA AcceptRemembers ==
    ASSUME NEW N \in Nat, 2 * N <= SeqModulus,
           NEW w \in Windows, NEW s \in 1 .. N, ~IsDuplicate(w, s),
           ~IsFirst(w) => w.highest \in 1 .. N /\ 0 \in w.bitmap
    PROVE  LET v == Accept(w, s) IN
           /\ v.highest \in 1 .. N
           /\ 0 \in v.bitmap
           /\ Remembers(v, s)
           /\ \A r \in 1 .. N : Remembers(w, r) => Remembers(v, r)
<1> DEFINE v == Accept(w, s)
<1>1. CASE IsFirst(w)
  <2>1. v.highest = s /\ v.bitmap = {0}
    BY <1>1 DEF Accept
  <2> QED
    BY <1>1, <2>1 DEF Remembers, IsFirst
<1>2. CASE ~IsFirst(w) /\ seqIsNewer(s, w.highest)
  <2>1. /\ v.highest = s
        /\ v.bitmap = {0} \cup Slide(w, s)
    BY <1>2 DEF Accept
  <2>2. /\ w.highest \in 1 .. N /\ s > w.highest
        /\ Delta(s, w.highest, SeqModulus) = s - w.highest
    BY <1>2, SmallSeqs
  <2>4. \A age \in Ages :
          age - (s - w.highest) \in w.bitmap => age \in Slide(w, s)
    BY <2>2 DEF Slide
  <2>5. Remembers(v, s)
    BY <2>1 DEF Remembers, IsFirst
  <2>6. ASSUME NEW r \in 1 .. N, Remembers(w, r) PROVE Remembers(v, r)
    <3>1. r <= w.highest /\ w.highest - r < WindowSize
                              => w.highest - r \in w.bitmap
      BY <2>6 DEF Remembers
    <3>2. ASSUME s - r < WindowSize PROVE s - r \in v.bitmap
      <4>1. s - r \in Ages /\ w.highest - r < WindowSize
        BY <2>2, <2>6, <3>1, <3>2, SeqWindowAssumption
        DEF Ages, Remembers, SeqWindowAssumption
      <4>2. (s - r) - (s - w.highest) = w.highest - r
        BY <2>2
      <4> QED
        BY <2>1, <2>4, <2>6, <3>1, <4>1, <4>2 DEF Remembers
    <3> QED
      BY <2>1, <2>2, <2>6, <3>2 DEF Remembers, IsFirst
  <2> QED
    BY <1>2, <2>1, <2>5, <2>6
<1>3. CASE ~IsFirst(w) /\ ~seqIsNewer(s, w.highest)
  <2>1. /\ v.highest = w.highest
        /\ v.bitmap = w.bitmap \cup {w.highest - s}
        /\ w.highest \in 1 .. N /\ s <= w.highest
    BY <1>3, SmallSeqs DEF Accept, Age
  <2> QED
    BY <1>3, <2>1 DEF Remembers, IsFirst, Windows, Ages
<1> QED
  BY <1>1, <1>2, <1>3

Entries == [id : Remotes \cup {Nobody}, bootId : 0 .. MaxBoots,
            window : Windows, endpoint : Origins,
            lastSeen : 0 .. ClockModulus - 1, state : States]

(* No remote has two places.                                               *)
OnePlaceEach ==
    \A i, j \in Places : Holds(i, table[j].id) => i = j \/ Holds(i, Nobody)

LEMMA ClockType == ASSUME TypeOK PROVE Clock \in 0 .. ClockModulus - 1
BY RegistryAssumption DEF RegistryAssumption, TypeOK, Clock

LEMMA SeqsFit == /\ 0 .. MaxSeq \subseteq 0 .. SeqModulus - 1
                 /\ EmptyWindow \in Windows
BY RegistryAssumption, SeqWindowAssumption
DEF RegistryAssumption, SeqWindowAssumption, EmptyWindow, Windows, Ages

(***************************************************************************)
(* What a packet or a registration does to the table: r has place i, the   *)
(* others keep theirs, and what is known of them.                          *)
(***************************************************************************)
LEMMA PlaceTaken ==
    ASSUME TypeOK, NEW r \in Remotes, NEW i \in Places, IsPlaceFor(r, i),
           NEW e \in Entries, e.id = r,
           table' = [table EXCEPT ![i] = e], Tell(r, i)
    PROVE  /\ table' \in [Places -> Entries]
           /\ table'[i] = e
           /\ \A j \in Places : j # i => /\ table'[j] = table[j]
                                         /\ table[j].id # r
           /\ OnePlaceEach'
           /\ heard' \in [Remotes -> 0 .. now]
           /\ heard'[r] = now
           /\ \A j \in Places :
                 j # i /\ table[j].id # Nobody
                    => heard'[table[j].id] = heard[table[j].id]
<1>1. /\ table \in [Places -> Entries] /\ OnePlaceEach
      /\ heard \in [Remotes -> 0 .. now] /\ now \in 0 .. MaxNow
      /\ r # Nobody
  BY RegistryAssumption DEF TypeOK, Entries, RegistryAssumption, OnePlaceEach
<1>2. \A j \in Places : j # i => table[j].id # r
  BY <1>1 DEF IsPlaceFor, IsKnown, Holds, OnePlaceEach
<1>3. /\ table' \in [Places -> Entries] /\ table'[i] = e
      /\ \A j \in Places : j # i => table'[j] = table[j]
  BY <1>1
<1>4. OnePlaceEach'
  BY <1>1, <1>2, <1>3 DEF OnePlaceEach, Holds
<1>5. table[i].id \in Remotes \cup {Nobody}
  BY <1>1 DEF Entries
<1>6. \/ heard' = [heard EXCEPT ![r] = now]
      \/ /\ heard' = [heard EXCEPT ![r] = now, ![table[i].id] = 0]
         /\ table[i].id # r /\ table[i].id # Nobody
  BY DEF Tell, Holds
<1>7. heard' \in [Remotes -> 0 .. now] /\ heard'[r] = now
  BY <1>1, <1>5, <1>6
<1>8. ASSUME NEW j \in Places, j # i, table[j].id # Nobody
      PROVE  heard'[table[j].id] = heard[table[j].id]
  <2>1. /\ table[j].id \in Remotes /\ table[j].id # r
    BY <1>1, <1>2, <1>8 DEF Entries
  <2>2. table[j].id # table[i].id
    BY <1>1, <1>8 DEF OnePlaceEach, Holds
  <2> QED
    BY <1>1, <1>5, <1>6, <2>1, <2>2
<1> QED
  BY <1>2, <1>3, <1>4, <1>7, <1>8

(* The entry of a remote just seen.                                        *)
LEMMA SeenType ==
    ASSUME TypeOK, NEW r \in Remotes, NEW b \in 0 .. MaxBoots,
           NEW w \in Windows, NEW o \in Origins
    PROVE  /\ Seen(r, b, w, o) \in Entries
           /\ Seen(r, b, w, o).id = r
           /\ Seen(r, b, w, o).bootId = b
           /\ Seen(r, b, w, o).window = w
           /\ Seen(r, b, w, o).endpoint = o
           /\ Seen(r, b, w, o).lastSeen = Clock
           /\ Seen(r, b, w, o).state = "ONLINE"
BY ClockType DEF Seen, Entries, States

(***************************************************************************)
(* Accepted and RegisterRemote, told in the same words: the place, the     *)
(* entry it receives, and the window that entry has.                       *)
(***************************************************************************)
LEMMA AcceptedStep ==
    ASSUME TypeOK, NEW m \in Packets, Accepted(m)
    PROVE  \E i \in Places, e \in Entries :
              LET window == WindowFor(table[i], m) IN
              /\ IsPlaceFor(m.id, i)
              /\ ~IsOldSession(table[i], m)
              /\ window \in Windows
              /\ IsReliable(m) => ~IsDuplicate(window, m.seq)
              /\ e.id = m.id /\ e.bootId = m.boot /\ e.endpoint = Origin(m)
              /\ e.lastSeen = Clock /\ e.state = "ONLINE"
              /\ e.window = IF IsReliable(m) THEN Accept(window, m.seq) ELSE window
              /\ table' = [table EXCEPT ![i] = e]
              /\ Tell(m.id, i)
              /\ IF IsReliable(m)
                 THEN /\ handled' = StillHandled(m.id, i) \cup {m}
                      /\ repeated' = repeated \cup ({m} \cap StillHandled(m.id, i))
                 ELSE /\ handled' = StillHandled(m.id, i)
                      /\ UNCHANGED repeated
              /\ UNCHANGED <<now, checked>>
<1>1. PICK i \in Places :
        LET window == WindowFor(table[i], m) IN
        /\ IsPlaceFor(m.id, i)
        /\ ~IsOldSession(table[i], m)
        /\ IsReliable(m) => ~IsDuplicate(window, m.seq)
        /\ table' = [table EXCEPT ![i] =
                        Seen(m.id, m.boot,
                             IF IsReliable(m) THEN Accept(window, m.seq) ELSE window,
                             Origin(m))]
        /\ Tell(m.id, i)
        /\ IF IsReliable(m)
           THEN /\ handled' = StillHandled(m.id, i) \cup {m}
                /\ repeated' = repeated \cup ({m} \cap StillHandled(m.id, i))
           ELSE /\ handled' = StillHandled(m.id, i)
                /\ UNCHANGED repeated
        /\ UNCHANGED <<now, checked>>
  BY DEF Accepted
<1> DEFINE window == WindowFor(table[i], m)
           w == IF IsReliable(m) THEN Accept(window, m.seq) ELSE window
           e == Seen(m.id, m.boot, w, Origin(m))
<1>2. /\ m.id \in Remotes /\ m.boot \in 0 .. MaxBoots
      /\ m.seq \in 0 .. MaxSeq /\ Origin(m) \in Origins
  BY RegistryAssumption DEF Packets, Origin, Origins, RegistryAssumption
<1>3. window \in Windows
  BY SeqsFit DEF TypeOK, WindowFor
<1>4. w \in Windows
  BY <1>1, <1>2, <1>3, SeqsFit, AcceptType
<1>5. /\ e \in Entries /\ e.id = m.id /\ e.bootId = m.boot /\ e.window = w
      /\ e.endpoint = Origin(m) /\ e.lastSeen = Clock /\ e.state = "ONLINE"
  BY <1>2, <1>4, SeenType
<1>6. table' = [table EXCEPT ![i] = e]
  BY <1>1
<1> HIDE DEF e
<1> QED
  BY <1>1, <1>3, <1>5, <1>6

LEMMA RegisterStep ==
    ASSUME TypeOK, NEW r \in Remotes, RegisterRemote(r)
    PROVE  \E i \in Places, e \in Entries :
              /\ IsPlaceFor(r, i)
              /\ e.id = r /\ e.endpoint = Configured
              /\ e.lastSeen = Clock /\ e.state = "ONLINE"
              /\ \/ /\ Holds(i, r)
                    /\ e.bootId = table[i].bootId
                    /\ e.window = table[i].window
                 \/ ~Holds(i, r) /\ e.bootId = 0 /\ e.window = EmptyWindow
              /\ table' = [table EXCEPT ![i] = e]
              /\ Tell(r, i)
              /\ handled' = StillHandled(r, i)
              /\ UNCHANGED <<now, checked, repeated>>
<1>1. PICK i \in Places :
        /\ IsPlaceFor(r, i)
        /\ table' = [table EXCEPT ![i] =
                        IF Holds(i, r)
                        THEN Seen(r, @.bootId, @.window, Configured)
                        ELSE Seen(r, 0, EmptyWindow, Configured)]
        /\ Tell(r, i)
        /\ handled' = StillHandled(r, i)
        /\ UNCHANGED <<now, checked, repeated>>
  BY DEF RegisterRemote
<1>2. /\ table[i].bootId \in 0 .. MaxBoots /\ table[i].window \in Windows
      /\ 0 \in 0 .. MaxBoots /\ Configured \in Origins
      /\ table \in [Places -> Entries]
  BY RegistryAssumption
  DEF TypeOK, Configured, Origins, RegistryAssumption, Entries
<1>3. CASE Holds(i, r)
  <2>1. table' = [table EXCEPT ![i] =
                    Seen(r, table[i].bootId, table[i].window, Configured)]
    BY <1>1, <1>2, <1>3
  <2> DEFINE e == Seen(r, table[i].bootId, table[i].window, Configured)
  <2>2. /\ e \in Entries /\ e.id = r /\ e.endpoint = Configured
        /\ e.lastSeen = Clock /\ e.state = "ONLINE"
        /\ e.bootId = table[i].bootId /\ e.window = table[i].window
        /\ table' = [table EXCEPT ![i] = e]
    BY <1>2, <2>1, SeenType
  <2> HIDE DEF e
  <2> QED
    BY <1>1, <1>3, <2>2
<1>4. CASE ~Holds(i, r)
  <2>1. table' = [table EXCEPT ![i] = Seen(r, 0, EmptyWindow, Configured)]
    BY <1>1, <1>4
  <2> DEFINE e == Seen(r, 0, EmptyWindow, Configured)
  <2>2. /\ e \in Entries /\ e.id = r /\ e.endpoint = Configured
        /\ e.lastSeen = Clock /\ e.state = "ONLINE"
        /\ e.bootId = 0 /\ e.window = EmptyWindow
        /\ table' = [table EXCEPT ![i] = e]
    BY <1>2, <2>1, SeenType, SeqsFit
  <2> HIDE DEF e
  <2> QED
    BY <1>1, <1>4, <2>2
<1> QED
  BY <1>3, <1>4

-----------------------------------------------------------------------------

LEMMA InitTypeOK == Init => TypeOK
<1> SUFFICES ASSUME Init PROVE TypeOK
  OBVIOUS
<1>1. FreePlace \in Entries /\ FreePlace.id = Nobody
  BY SeqsFit, RegistryAssumption
  DEF FreePlace, Entries, Configured, Origins, States, RegistryAssumption
<1>2. table \in [Places -> Entries] /\ OnePlaceEach
  BY <1>1 DEF Init, OnePlaceEach, Holds
<1> QED
  BY <1>2, RegistryAssumption
  DEF Init, TypeOK, Entries, OnePlaceEach, RegistryAssumption

LEMMA StateAfterType == \A t : StateAfter(t) \in States
BY DEF StateAfter, States

(* A refresh changes nothing of a place but the state.                     *)
LEMMA RefreshedTable ==
    ASSUME TypeOK, UpdateDeviceStates
    PROVE  /\ table' \in [Places -> Entries]
           /\ \A i \in Places :
                 /\ table'[i].id = table[i].id
                 /\ table'[i].bootId = table[i].bootId
                 /\ table'[i].window = table[i].window
                 /\ table'[i].endpoint = table[i].endpoint
                 /\ table'[i].lastSeen = table[i].lastSeen
                 /\ ~Holds(i, Nobody)
                       => table'[i].state = StateAfter(table[i].lastSeen)
<1>1. table \in [Places -> Entries]
  BY DEF TypeOK, Entries
<1>2. \A i \in Places :
         table'[i] = IF Holds(i, Nobody) THEN table[i]
                     ELSE [table[i] EXCEPT !.state = StateAfter(table[i].lastSeen)]
  BY DEF UpdateDeviceStates
<1>3. ASSUME NEW i \in Places
      PROVE  /\ table'[i] \in Entries
             /\ table'[i].id = table[i].id
             /\ table'[i].bootId = table[i].bootId
             /\ table'[i].window = table[i].window
             /\ table'[i].endpoint = table[i].endpoint
             /\ table'[i].lastSeen = table[i].lastSeen
             /\ ~Holds(i, Nobody)
                   => table'[i].state = StateAfter(table[i].lastSeen)
  <2>1. table[i] \in Entries
    BY <1>1
  <2>2. PICK s \in States : s = StateAfter(table[i].lastSeen)
    BY StateAfterType
  <2>3. [table[i] EXCEPT !.state = s] \in Entries
    BY <2>1 DEF Entries
  <2>4. table'[i] = IF Holds(i, Nobody) THEN table[i]
                    ELSE [table[i] EXCEPT !.state = s]
    BY <1>2, <2>2
  <2> QED
    BY <2>1, <2>2, <2>3, <2>4 DEF Entries
<1>4. table' = [i \in Places |-> table'[i]]
  BY DEF UpdateDeviceStates
<1> QED
  BY <1>3, <1>4

LEMMA NextTypeOK == TypeOK /\ [Next]_vars => TypeOK'
<1> SUFFICES ASSUME TypeOK, [Next]_vars PROVE TypeOK'
  OBVIOUS
<1>1. ASSUME NEW m \in Packets, Accepted(m) PROVE TypeOK'
  <2>1. PICK i \in Places, e \in Entries :
              /\ IsPlaceFor(m.id, i) /\ e.id = m.id
              /\ table' = [table EXCEPT ![i] = e]
              /\ Tell(m.id, i)
              /\ handled' \subseteq StillHandled(m.id, i) \cup {m}
              /\ repeated' \subseteq repeated \cup {m}
              /\ UNCHANGED <<now, checked>>
    BY <1>1, AcceptedStep
  <2>2. m.id \in Remotes
    BY DEF Packets
  <2>3. /\ table' \in [Places -> Entries] /\ OnePlaceEach'
        /\ heard' \in [Remotes -> 0 .. now]
    BY <2>1, <2>2, PlaceTaken
  <2> QED
    BY <2>1, <2>3 DEF TypeOK, OnePlaceEach, Entries, StillHandled
<1>2. ASSUME NEW r \in Remotes, RegisterRemote(r) PROVE TypeOK'
  <2>1. PICK i \in Places, e \in Entries :
              /\ IsPlaceFor(r, i) /\ e.id = r
              /\ table' = [table EXCEPT ![i] = e]
              /\ Tell(r, i)
              /\ handled' = StillHandled(r, i)
              /\ UNCHANGED <<now, checked, repeated>>
    BY <1>2, RegisterStep
  <2>2. /\ table' \in [Places -> Entries] /\ OnePlaceEach'
        /\ heard' \in [Remotes -> 0 .. now]
    BY <2>1, PlaceTaken
  <2> QED
    BY <2>1, <2>2 DEF TypeOK, OnePlaceEach, Entries, StillHandled
<1>3. CASE UpdateDeviceStates
  <2>1. OnePlaceEach'
    BY <1>3, RefreshedTable DEF TypeOK, OnePlaceEach, Holds
  <2>2. checked' \in 0 .. now'
    BY <1>3 DEF UpdateDeviceStates, TypeOK
  <2> QED
    BY <1>3, <2>1, <2>2, RefreshedTable
    DEF UpdateDeviceStates, TypeOK, OnePlaceEach, Entries
<1>4. CASE Tick
  <2>1. /\ now' \in 0 .. MaxNow /\ checked' \in 0 .. now'
        /\ heard' \in [Remotes -> 0 .. now']
    BY <1>4, RegistryAssumption DEF Tick, TypeOK, RegistryAssumption
  <2> QED
    BY <1>4, <2>1 DEF Tick, TypeOK, Holds
<1>5. CASE UNCHANGED vars
  BY <1>5 DEF vars, TypeOK, Holds
<1> QED
  BY <1>1, <1>2, <1>3, <1>4, <1>5
  DEF Next, DiscardOldSession, DiscardDuplicate

(***************************************************************************)
(* Every field of the table keeps its type and no remote has two places,   *)
(* whoever is heard and whoever is pushed out (IoTNode.cpp:533-623).       *)
(***************************************************************************)
THEOREM TypeCorrectness == Spec => []TypeOK
BY InitTypeOK, NextTypeOK, PTL DEF Spec

-----------------------------------------------------------------------------

(* Among boots less than half a cycle apart, a session that is not old is  *)
(* the one known or a later one.                                           *)
LEMMA SessionsAdvance ==
    ASSUME NEW e \in Entries, NEW m \in Packets,
           e.id = m.id, ~IsOldSession(e, m)
    PROVE  e.bootId <= m.boot
BY RegistryAssumption
DEF Entries, Packets, IsOldSession, IsNewer, Delta, RegistryAssumption

(***************************************************************************)
(* What was handled of a remote in the table is either of an older session *)
(* than the one known, or remembered by its window.                        *)
(***************************************************************************)
Settled(e, h) ==
    /\ h.boot <= e.bootId
    /\ h.boot = e.bootId => Remembers(e.window, h.seq)

WindowSound(window) ==
    ~IsFirst(window) => window.highest \in 1 .. MaxSeq /\ 0 \in window.bitmap

HandledOK ==
    /\ \A h \in handled : IsReliable(h) /\ IsKnown(h.id)
    /\ \A i \in Places :
          /\ WindowSound(table[i].window)
          /\ \A h \in handled : Holds(i, h.id) => Settled(table[i], h)

SessionInv == TypeOK /\ HandledOK /\ AtMostOnceWhileKnown

LEMMA InitSessionInv == Init => SessionInv
<1> SUFFICES ASSUME Init PROVE SessionInv
  OBVIOUS
<1>1. \A i \in Places : IsFirst(table[i].window)
  BY DEF Init, FreePlace, EmptyWindow, IsFirst
<1> QED
  BY <1>1, InitTypeOK
  DEF Init, SessionInv, HandledOK, WindowSound, AtMostOnceWhileKnown

(***************************************************************************)
(* A packet that passes _isDuplicate has not been handled since its sender *)
(* came, and what had been is still settled once it is taken.              *)
(***************************************************************************)
LEMMA AcceptSettles ==
    ASSUME TypeOK, HandledOK, NEW m \in Packets, NEW i \in Places,
           IsPlaceFor(m.id, i), ~IsOldSession(table[i], m),
           NEW window \in Windows, window = WindowFor(table[i], m),
           IsReliable(m) => ~IsDuplicate(window, m.seq),
           NEW w, w = IF IsReliable(m) THEN Accept(window, m.seq) ELSE window
    PROVE  /\ WindowSound(w)
           /\ IsReliable(m) => m \notin StillHandled(m.id, i)
           /\ IsReliable(m) => Remembers(w, m.seq)
           /\ \A h \in StillHandled(m.id, i) :
                 h.id = m.id => /\ h.boot <= m.boot
                                /\ h.boot = m.boot => Remembers(w, h.seq)
<1>1. /\ MaxSeq \in Nat /\ 2 * MaxSeq <= SeqModulus
      /\ IsReliable(m) => m.seq \in 1 .. MaxSeq
  BY RegistryAssumption DEF RegistryAssumption, Packets, IsReliable
<1>2. WindowSound(window)
  BY DEF HandledOK, WindowFor, WindowSound, EmptyWindow, IsFirst
<1>3. \A h \in handled : h \in Packets /\ h.seq \in 1 .. MaxSeq
  BY DEF TypeOK, HandledOK, Packets, IsReliable
<1>4. ASSUME NEW h \in StillHandled(m.id, i), h.id = m.id
      PROVE  /\ h.boot <= m.boot
             /\ h.boot = m.boot => Remembers(window, h.seq)
  <2>1. h \in handled /\ Holds(i, m.id)
    BY <1>4 DEF StillHandled, HandledOK, IsPlaceFor, IsKnown
  <2>2. /\ Settled(table[i], h) /\ table[i] \in Entries
        /\ table[i].id = m.id
    BY <1>4, <2>1 DEF HandledOK, TypeOK, Entries, Holds
  <2>3. table[i].bootId <= m.boot
    BY <2>2, SessionsAdvance
  <2>4. /\ h.boot \in Nat /\ m.boot \in Nat /\ table[i].bootId \in Nat
    BY <1>3, <2>1, <2>2 DEF Packets, Entries
  <2> QED
    BY <2>2, <2>3, <2>4 DEF Settled, WindowFor
<1>5. CASE ~IsReliable(m)
  BY <1>2, <1>4, <1>5
<1>6. CASE IsReliable(m)
  <2>1. ~IsFirst(window) => window.highest \in 1 .. MaxSeq /\ 0 \in window.bitmap
    BY <1>2 DEF WindowSound
  <2>2. m.seq \in 1 .. MaxSeq /\ ~IsDuplicate(window, m.seq)
    BY <1>1, <1>6
  <2>3. /\ w.highest \in 1 .. MaxSeq
        /\ 0 \in w.bitmap
        /\ Remembers(w, m.seq)
        /\ \A r \in 1 .. MaxSeq : Remembers(window, r) => Remembers(w, r)
    BY <1>1, <1>6, <2>1, <2>2, AcceptRemembers
  <2>4. \A h \in StillHandled(m.id, i) : h.seq \in 1 .. MaxSeq
    BY <1>3 DEF StillHandled
  <2>5. m \notin StillHandled(m.id, i)
    <3>1. SUFFICES ASSUME m \in StillHandled(m.id, i) PROVE FALSE
      OBVIOUS
    <3>2. Remembers(window, m.seq)
      BY <1>4, <3>1
    <3>3. window.highest \in 1 .. MaxSeq
      BY <2>1, <3>2 DEF Remembers
    <3> QED
      BY <1>1, <2>2, <3>2, <3>3, RememberedIsDuplicate
  <2> QED
    BY <1>4, <2>3, <2>4, <2>5 DEF WindowSound
<1> QED
  BY <1>5, <1>6

(* A packet of another remote, or of none, is kept where its sender is.    *)
LEMMA OthersStayKnown ==
    ASSUME TypeOK, HandledOK, NEW r \in Remotes, NEW i \in Places,
           IsPlaceFor(r, i), NEW h \in StillHandled(r, i), h.id # r
    PROVE  \E j \in Places : j # i /\ Holds(j, h.id)
<1>1. h \in handled /\ h.id # Nobody
  BY RegistryAssumption
  DEF StillHandled, TypeOK, Packets, RegistryAssumption
<1>2. h.id # table[i].id
  BY <1>1 DEF StillHandled, Holds
<1> QED
  BY <1>1, <1>2 DEF HandledOK, IsKnown, Holds

(***************************************************************************)
(* A place taken by r, whose entry settles what was handled of r, leaves   *)
(* the whole table sound.                                                  *)
(***************************************************************************)
LEMMA PlaceTakenSettles ==
    ASSUME TypeOK, HandledOK, NEW r \in Remotes, NEW i \in Places,
           IsPlaceFor(r, i), NEW e \in Entries, e.id = r,
           table' = [table EXCEPT ![i] = e], Tell(r, i),
           WindowSound(e.window),
           \A h \in handled' : /\ IsReliable(h)
                               /\ h \in StillHandled(r, i) \/ h.id = r
                               /\ h.id = r => Settled(e, h)
    PROVE  HandledOK'
<1>1. /\ table'[i] = e
      /\ \A j \in Places : j # i => table'[j] = table[j] /\ table[j].id # r
  BY PlaceTaken, ZenonT(60)
<1>2. \A h \in handled' : IsKnown(h.id)'
  <2> SUFFICES ASSUME NEW h \in handled'
               PROVE  \E j \in Places : table'[j].id = h.id
    BY DEF IsKnown, Holds
  <2>1. CASE h.id = r
    BY <1>1, <2>1
  <2>2. CASE h.id # r
    BY <1>1, <2>2, OthersStayKnown DEF Holds
  <2> QED
    BY <2>1, <2>2
<1>3. ASSUME NEW j \in Places
      PROVE  /\ WindowSound(table'[j].window)
             /\ \A h \in handled' :
                   table'[j].id = h.id => Settled(table'[j], h)
  <2>1. CASE j = i
    BY <1>1, <2>1
  <2>2. CASE j # i
    BY <1>1, <2>2 DEF HandledOK, StillHandled, Holds
  <2> QED
    BY <2>1, <2>2
<1> QED
  BY <1>2, <1>3 DEF HandledOK, Holds, WindowSound

LEMMA NextSessionInv == SessionInv /\ [Next]_vars => SessionInv'
<1> SUFFICES ASSUME SessionInv, [Next]_vars PROVE SessionInv'
  OBVIOUS
<1>0. TypeOK' /\ TypeOK /\ HandledOK /\ AtMostOnceWhileKnown
  BY NextTypeOK DEF SessionInv
<1>1. ASSUME NEW m \in Packets, Accepted(m)
      PROVE  HandledOK' /\ AtMostOnceWhileKnown'
  <2>1. PICK i \in Places, e \in Entries :
              LET window == WindowFor(table[i], m) IN
              /\ IsPlaceFor(m.id, i)
              /\ ~IsOldSession(table[i], m)
              /\ window \in Windows
              /\ IsReliable(m) => ~IsDuplicate(window, m.seq)
              /\ e.id = m.id /\ e.bootId = m.boot
              /\ e.window = IF IsReliable(m) THEN Accept(window, m.seq) ELSE window
              /\ table' = [table EXCEPT ![i] = e]
              /\ Tell(m.id, i)
              /\ IF IsReliable(m)
                 THEN /\ handled' = StillHandled(m.id, i) \cup {m}
                      /\ repeated' = repeated \cup ({m} \cap StillHandled(m.id, i))
                 ELSE /\ handled' = StillHandled(m.id, i)
                      /\ UNCHANGED repeated
    BY <1>0, <1>1, AcceptedStep
  <2>2. /\ WindowSound(e.window)
        /\ IsReliable(m) => m \notin StillHandled(m.id, i)
        /\ IsReliable(m) => Remembers(e.window, m.seq)
        /\ \A h \in StillHandled(m.id, i) :
              h.id = m.id => /\ h.boot <= m.boot
                             /\ h.boot = m.boot => Remembers(e.window, h.seq)
    BY <1>0, <2>1, AcceptSettles
  <2>3. m.id \in Remotes /\ m.boot \in Nat
    BY DEF Packets
  <2>4. \A h \in handled' : /\ IsReliable(h)
                            /\ h \in StillHandled(m.id, i) \/ h.id = m.id
                            /\ h.id = m.id => Settled(e, h)
    BY <1>0, <2>1, <2>2, <2>3 DEF HandledOK, StillHandled, Settled
  <2>5. HandledOK'
    BY <1>0, <2>1, <2>2, <2>3, <2>4, PlaceTakenSettles
  <2>6. AtMostOnceWhileKnown'
    BY <1>0, <2>1, <2>2 DEF AtMostOnceWhileKnown
  <2> QED
    BY <2>5, <2>6
<1>2. ASSUME NEW r \in Remotes, RegisterRemote(r)
      PROVE  HandledOK' /\ AtMostOnceWhileKnown'
  <2>1. PICK i \in Places, e \in Entries :
              /\ IsPlaceFor(r, i) /\ e.id = r
              /\ \/ /\ Holds(i, r)
                    /\ e.bootId = table[i].bootId
                    /\ e.window = table[i].window
                 \/ ~Holds(i, r) /\ e.bootId = 0 /\ e.window = EmptyWindow
              /\ table' = [table EXCEPT ![i] = e]
              /\ Tell(r, i)
              /\ handled' = StillHandled(r, i)
              /\ UNCHANGED repeated
    BY <1>0, <1>2, RegisterStep
  <2>2. WindowSound(e.window)
    BY <1>0, <2>1 DEF HandledOK, WindowSound, EmptyWindow, IsFirst
  <2>3. \A h \in handled' : /\ IsReliable(h)
                            /\ h \in StillHandled(r, i) \/ h.id = r
                            /\ h.id = r => Settled(e, h)
    BY <1>0, <2>1
    DEF HandledOK, StillHandled, Settled, IsPlaceFor, IsKnown
  <2>4. HandledOK'
    BY <1>0, <2>1, <2>2, <2>3, PlaceTakenSettles
  <2> QED
    BY <1>0, <2>1, <2>4 DEF AtMostOnceWhileKnown
<1>3. CASE UpdateDeviceStates
  <2>1. \A i \in Places : /\ table'[i].id = table[i].id
                          /\ table'[i].bootId = table[i].bootId
                          /\ table'[i].window = table[i].window
    BY <1>0, <1>3, RefreshedTable
  <2> QED
    BY <1>0, <1>3, <2>1
    DEF SessionInv, UpdateDeviceStates, HandledOK, IsKnown, Holds, Settled,
        WindowSound, AtMostOnceWhileKnown
<1>4. CASE Tick
  BY <1>0, <1>4 DEF SessionInv, Tick, HandledOK, IsKnown, Holds, Settled,
                    AtMostOnceWhileKnown
<1>5. CASE UNCHANGED vars
  BY <1>0, <1>5 DEF SessionInv, vars, HandledOK, IsKnown, Holds, Settled,
                    AtMostOnceWhileKnown
<1> QED
  BY <1>0, <1>1, <1>2, <1>3, <1>4, <1>5
  DEF Next, SessionInv, DiscardOldSession, DiscardDuplicate

(***************************************************************************)
(* A reliable packet is handled twice only if its sender left the table in *)
(* between, in whatever order the packets of its boots arrive              *)
(* (IoTNode.cpp:358, 461-591).                                             *)
(***************************************************************************)
THEOREM HandledOnceWhileKnown == Spec => []AtMostOnceWhileKnown
<1>1. SessionInv => AtMostOnceWhileKnown
  BY DEF SessionInv
<1> QED
  BY <1>1, InitSessionInv, NextSessionInv, PTL DEF Spec

-----------------------------------------------------------------------------

(* What one place must do in ReplayMovesNothing.                           *)
LEMMA ReplayMovesNoPlace ==
    ASSUME SessionInv, SessionInv', [Next]_vars, NEW i \in Places,
           table'[i].id # Nobody,
           \/ table'[i].endpoint # table[i].endpoint
           \/ heard'[table'[i].id] # heard[table'[i].id],
           table'[i].endpoint.seq # 0
    PROVE  LET e == table'[i]
               m == [id |-> e.id, boot |-> e.endpoint.boot,
                     seq |-> e.endpoint.seq]
           IN  m \in handled' \ {h \in handled : Holds(i, h.id)}
<1>0. TypeOK
  BY DEF SessionInv
<1>1. ASSUME NEW m \in Packets, Accepted(m)
      PROVE  LET e == table'[i] IN
             [id |-> e.id, boot |-> e.endpoint.boot, seq |-> e.endpoint.seq]
                \in handled' \ {h \in handled : Holds(i, h.id)}
  <2>1. PICK k \in Places, e \in Entries :
              /\ IsPlaceFor(m.id, k)
              /\ e.id = m.id /\ e.endpoint = Origin(m)
              /\ table' = [table EXCEPT ![k] = e]
              /\ Tell(m.id, k)
              /\ IsReliable(m)
                    => /\ handled' = StillHandled(m.id, k) \cup {m}
                       /\ repeated' = repeated \cup ({m} \cap StillHandled(m.id, k))
    BY <1>0, <1>1, AcceptedStep
  <2>2. m.id \in Remotes /\ m = [id |-> m.id, boot |-> m.boot, seq |-> m.seq]
    BY DEF Packets
  <2>3. /\ table'[k] = e
        /\ \A j \in Places : j # k => /\ table'[j] = table[j]
                                      /\ table[j].id # m.id
        /\ \A j \in Places : j # k /\ table[j].id # Nobody
                                => heard'[table[j].id] = heard[table[j].id]
    BY <1>0, <2>1, <2>2, PlaceTaken, ZenonT(60)
  <2>4. i = k
    BY <2>3
  <2>5. /\ e.endpoint.boot = m.boot /\ e.endpoint.seq = m.seq
        /\ IsReliable(m)
    BY <2>1, <2>3, <2>4 DEF Origin, IsReliable
  <2>6. m \in handled' /\ m \notin StillHandled(m.id, k)
    BY <2>1, <2>5 DEF SessionInv, AtMostOnceWhileKnown
  <2>7. m \notin {h \in handled : Holds(i, h.id)}
    BY <2>4, <2>6 DEF StillHandled
  <2> QED
    BY <2>1, <2>2, <2>3, <2>4, <2>5, <2>6, <2>7
<1>2. ASSUME NEW r \in Remotes, RegisterRemote(r) PROVE FALSE
  <2>1. PICK k \in Places, e \in Entries :
              /\ IsPlaceFor(r, k)
              /\ e.id = r /\ e.endpoint = Configured
              /\ table' = [table EXCEPT ![k] = e]
              /\ Tell(r, k)
    BY <1>0, <1>2, RegisterStep
  <2>2. /\ table'[k] = e
        /\ \A j \in Places : j # k => table'[j] = table[j]
        /\ \A j \in Places : j # k /\ table[j].id # Nobody
                                => heard'[table[j].id] = heard[table[j].id]
    BY <1>0, <2>1, PlaceTaken
  <2> QED
    BY <2>1, <2>2 DEF Configured
<1>3. CASE UpdateDeviceStates
  BY <1>0, <1>3, RefreshedTable DEF UpdateDeviceStates
<1>4. CASE Tick \/ UNCHANGED vars
  BY <1>4 DEF Tick, vars
<1> QED
  BY <1>1, <1>2, <1>3, <1>4
  DEF Next, DiscardOldSession, DiscardDuplicate, vars

(***************************************************************************)
(* Whenever endpoint or liveness of a remote follow a reliable packet, it  *)
(* is one handled for the first time: "un replay antiguo no puede mantener *)
(* un remoto en ONLINE ni cambiar su endpoint" (IoTNode.cpp:336-338).      *)
(***************************************************************************)
THEOREM ReplaysAreDead == Spec => ReplayMovesNothing
<1>1. SessionInv /\ SessionInv' /\ [Next]_vars
        => [\A i \in Places :
              LET e == table'[i]
                  m == [id |-> e.id, boot |-> e.endpoint.boot,
                        seq |-> e.endpoint.seq]
              IN  /\ e.id # Nobody
                  /\ \/ e.endpoint # table[i].endpoint
                     \/ heard'[e.id] # heard[e.id]
                  /\ e.endpoint.seq # 0
                  => m \in handled' \ {h \in handled : Holds(i, h.id)}]_vars
  BY ReplayMovesNoPlace
<1> QED
  BY <1>1, InitSessionInv, NextSessionInv, PTL DEF Spec, ReplayMovesNothing

-----------------------------------------------------------------------------

LEMMA DivMod ==
    ASSUME NEW n \in Nat, NEW m \in Nat \ {0}
    PROVE  /\ n = m * (n \div m) + (n % m)
           /\ n % m \in 0 .. m - 1
           /\ n \div m \in Nat
OBVIOUS

(* A number has one remainder.                                             *)
LEMMA DivisionIsUnique ==
    ASSUME NEW m \in Nat \ {0}, NEW q \in Int, NEW p \in Int,
           NEW r \in 0 .. m - 1, NEW s \in 0 .. m - 1,
           m * q + r = m * p + s
    PROVE  r = s
<1>1. CASE q < p
  <2>1. m * (p - (q + 1)) >= 0
    BY <1>1
  <2>2. m * p >= m * q + m
    BY <2>1
  <2> QED
    BY <2>2
<1>2. CASE p < q
  <2>1. m * (q - (p + 1)) >= 0
    BY <1>2
  <2>2. m * q >= m * p + m
    BY <2>1
  <2> QED
    BY <2>2
<1> QED
  BY <1>1, <1>2

(***************************************************************************)
(* The silence as the code measures it: the true one for less than a cycle *)
(* of millis(), and never longer than the true one.                        *)
(***************************************************************************)
LEMMA SilenceMeasured ==
    ASSUME NEW M \in Nat \ {0}, NEW n \in Nat, NEW h \in 0 .. n
    PROVE  /\ Delta(n % M, h % M, M) \in 0 .. M - 1
           /\ Delta(n % M, h % M, M) <= n - h
           /\ n - h < M => Delta(n % M, h % M, M) = n - h
<1> DEFINE c == n % M
           l == h % M
           p == n \div M
           q == h \div M
           d == Delta(c, l, M)
<1>1. n = M * p + c /\ c \in 0 .. M - 1 /\ p \in Nat
  BY DivMod
<1>2. h = M * q + l /\ l \in 0 .. M - 1 /\ q \in Nat
  <2>1. h \in Nat
    OBVIOUS
  <2> QED
    BY <2>1, DivMod
<1>3. d \in 0 .. M - 1 /\ (d = c - l \/ d = M + c - l)
  BY <1>1, <1>2 DEF Delta
<1> HIDE DEF c, l, p, q, d
<1>4. PICK u \in Int : n - h = M * u + d
  <2>1. p - q \in Int /\ (p - q) - 1 \in Int
    BY <1>1, <1>2
  <2>2. M * (p - q) = M * p - M * q /\ M * ((p - q) - 1) = M * p - M * q - M
    BY <1>1, <1>2
  <2>3. n - h = M * (p - q) + (c - l)
    BY <1>1, <1>2, <2>2
  <2>4. n - h = M * ((p - q) - 1) + (M + c - l)
    BY <1>1, <1>2, <2>2
  <2> QED
    BY <1>3, <2>1, <2>3, <2>4
<1>5. u >= 0
  <2> SUFFICES ASSUME u <= 0 - 1 PROVE FALSE
    BY <1>4
  <2>1. M * (0 - 1 - u) >= 0
    BY <1>4
  <2>2. M * u <= 0 - M
    BY <2>1, <1>4
  <2> QED
    BY <1>3, <1>4, <2>2
<1>6. M * u >= 0 /\ M * u \in Int
  BY <1>4, <1>5
<1>7. d <= n - h
  BY <1>3, <1>4, <1>6
<1>8. ASSUME n - h < M PROVE d = n - h
  <2> DEFINE k == n - h
  <2>1. M * 0 + k = M * u + d /\ k \in 0 .. M - 1
    BY <1>4, <1>8
  <2> HIDE DEF k
  <2>2. k = d
    BY <1>3, <1>4, <2>1, DivisionIsUnique
  <2> QED
    BY <2>2 DEF k
<1> QED
  BY <1>3, <1>7, <1>8 DEF c, l, d

(***************************************************************************)
(* The state of a remote: set with lastSeen, refreshed when checked was.   *)
(***************************************************************************)
ClockOK ==
    /\ now - checked <= CheckPeriod + MaxDelay
    /\ \A i \in Places : ~Holds(i, Nobody) =>
          LET last == heard[table[i].id] IN
          /\ table[i].lastSeen = last % ClockModulus
          /\ now - last < StaleTimeout => table[i].state = "ONLINE"
          /\ table[i].state = "ONLINE"
                => checked - last < StaleTimeout \/ checked - last >= ClockModulus
          /\ table[i].state = "OFFLINE" => now - last >= OfflineTimeout

ClockInv == TypeOK /\ ClockOK

LEMMA InitClockInv == Init => ClockInv
BY InitTypeOK, RegistryAssumption
DEF Init, ClockInv, ClockOK, FreePlace, Holds, RegistryAssumption

(* One who has just been seen is ONLINE, and what is said of the others is *)
(* as true as it was.                                                      *)
LEMMA SeenKeepsClock ==
    ASSUME ClockInv, NEW r \in Remotes, NEW i \in Places, IsPlaceFor(r, i),
           NEW e \in Entries, e.id = r, e.lastSeen = Clock, e.state = "ONLINE",
           table' = [table EXCEPT ![i] = e], Tell(r, i),
           UNCHANGED <<now, checked>>
    PROVE  ClockOK'
<1>1. /\ table'[i] = e /\ heard'[r] = now
      /\ \A j \in Places : j # i => table'[j] = table[j]
      /\ \A j \in Places : j # i /\ table[j].id # Nobody
                              => heard'[table[j].id] = heard[table[j].id]
  BY PlaceTaken, ZenonT(60) DEF ClockInv
<1>2. /\ now \in Nat /\ checked \in 0 .. now
      /\ StaleTimeout \in Nat \ {0}
  BY RegistryAssumption DEF ClockInv, TypeOK, RegistryAssumption
<1>3. checked - now < StaleTimeout
  BY <1>2
<1> QED
  BY <1>1, <1>2, <1>3 DEF ClockInv, ClockOK, Clock, Holds

LEMMA NextClockInv == ClockInv /\ [Next]_vars => ClockInv'
<1> SUFFICES ASSUME ClockInv, [Next]_vars PROVE ClockInv'
  OBVIOUS
<1>0. TypeOK' /\ TypeOK /\ ClockOK
  BY NextTypeOK DEF ClockInv
<1> SUFFICES ClockOK'
  BY <1>0 DEF ClockInv
<1>1. ASSUME NEW m \in Packets, Accepted(m) PROVE ClockOK'
  <2>1. PICK i \in Places, e \in Entries :
              /\ IsPlaceFor(m.id, i) /\ e.id = m.id
              /\ e.lastSeen = Clock /\ e.state = "ONLINE"
              /\ table' = [table EXCEPT ![i] = e]
              /\ Tell(m.id, i)
              /\ UNCHANGED <<now, checked>>
    BY <1>0, <1>1, AcceptedStep
  <2>2. m.id \in Remotes
    BY DEF Packets
  <2> QED
    BY <2>1, <2>2, SeenKeepsClock
<1>2. ASSUME NEW r \in Remotes, RegisterRemote(r) PROVE ClockOK'
  <2>1. PICK i \in Places, e \in Entries :
              /\ IsPlaceFor(r, i) /\ e.id = r
              /\ e.lastSeen = Clock /\ e.state = "ONLINE"
              /\ table' = [table EXCEPT ![i] = e]
              /\ Tell(r, i)
              /\ UNCHANGED <<now, checked>>
    BY <1>0, <1>2, RegisterStep
  <2> QED
    BY <2>1, SeenKeepsClock
<1>3. CASE UpdateDeviceStates
  <2>1. /\ checked' = now /\ UNCHANGED <<now, heard>>
    BY <1>3 DEF UpdateDeviceStates
  <2>2. ASSUME NEW i \in Places, ~Holds(i, Nobody)
        PROVE  LET last == heard[table[i].id]
                   s == table'[i].state IN
               /\ table'[i].id = table[i].id
               /\ table'[i].lastSeen = last % ClockModulus
               /\ now - last < StaleTimeout => s = "ONLINE"
               /\ s = "ONLINE"
                     => now - last < StaleTimeout \/ now - last >= ClockModulus
               /\ s = "OFFLINE" => now - last >= OfflineTimeout
    <3> DEFINE last == heard[table[i].id]
               s == table'[i].state
               elapsed == Delta(Clock, table[i].lastSeen, ClockModulus)
    <3>1. /\ now \in Nat /\ last \in 0 .. now
          /\ table[i].lastSeen = last % ClockModulus
      BY <1>0, <2>2 DEF TypeOK, ClockOK, Holds
    <3>2. /\ table'[i].id = table[i].id
          /\ table'[i].lastSeen = table[i].lastSeen
          /\ s = StateAfter(table[i].lastSeen)
      BY <1>0, <1>3, <2>2, RefreshedTable
    <3>3. /\ ClockModulus \in Nat \ {0}
          /\ StaleTimeout \in Nat /\ OfflineTimeout \in Nat
          /\ StaleTimeout <= OfflineTimeout /\ OfflineTimeout < ClockModulus
      BY RegistryAssumption DEF RegistryAssumption
    <3>4. /\ elapsed \in 0 .. ClockModulus - 1
          /\ elapsed <= now - last
          /\ now - last < ClockModulus => elapsed = now - last
      BY <3>1, <3>3, SilenceMeasured, ZenonT(60) DEF Clock
    <3>5. s = CASE elapsed < StaleTimeout   -> "ONLINE"
                [] StaleTimeout <= elapsed /\ elapsed < OfflineTimeout -> "STALE"
                [] OTHER                    -> "OFFLINE"
      BY <3>2 DEF StateAfter
    <3> HIDE DEF last, s, elapsed
    <3>6. elapsed < StaleTimeout <=> s = "ONLINE"
      BY <3>3, <3>4, <3>5
    <3>7. s = "OFFLINE" => elapsed >= OfflineTimeout
      BY <3>3, <3>4, <3>5
    <3>8. /\ now - last < StaleTimeout => s = "ONLINE"
          /\ s = "ONLINE"
                => now - last < StaleTimeout \/ now - last >= ClockModulus
          /\ s = "OFFLINE" => now - last >= OfflineTimeout
      BY <3>1, <3>3, <3>4, <3>6, <3>7
    <3> QED
      BY <3>1, <3>2, <3>8 DEF last, s
  <2>3. \A i \in Places : table'[i].id = table[i].id
    BY <1>0, <1>3, RefreshedTable
  <2>4. now - now <= CheckPeriod + MaxDelay
    BY <1>0, RegistryAssumption DEF TypeOK, RegistryAssumption
  <2> QED
    BY <2>1, <2>2, <2>3, <2>4 DEF ClockOK, Holds
<1>4. CASE Tick
  <2>1. /\ now' = now + 1 /\ UNCHANGED <<table, checked, heard>>
        /\ now - checked < CheckPeriod + MaxDelay
    BY <1>4 DEF Tick
  <2>2. /\ now \in Nat /\ checked \in 0 .. now
        /\ CheckPeriod \in Nat /\ MaxDelay \in Nat
        /\ StaleTimeout \in Nat /\ OfflineTimeout \in Nat
    BY <1>0, RegistryAssumption DEF TypeOK, RegistryAssumption
  <2>3. now' - checked' <= CheckPeriod + MaxDelay
    BY <2>1, <2>2
  <2>4. ASSUME NEW i \in Places, ~Holds(i, Nobody)
        PROVE  LET last == heard[table[i].id] IN
               /\ now' - last < StaleTimeout => now - last < StaleTimeout
               /\ now - last >= OfflineTimeout => now' - last >= OfflineTimeout
    <3>1. heard[table[i].id] \in 0 .. now
      BY <1>0, <2>4 DEF TypeOK, Holds
    <3> QED
      BY <2>1, <2>2, <3>1
  <2> QED
    BY <1>0, <2>1, <2>3, <2>4 DEF ClockOK, Holds
<1>5. CASE UNCHANGED vars
  BY <1>0, <1>5 DEF vars, ClockOK, Holds
<1> QED
  BY <1>1, <1>2, <1>3, <1>4, <1>5
  DEF Next, DiscardOldSession, DiscardDuplicate

(***************************************************************************)
(* The state of a remote tells its silence, but for the time loop() takes  *)
(* to come to a refresh and for the cycle of millis()                      *)
(* (IoTNode.cpp:625-641).                                                  *)
(***************************************************************************)
THEOREM StatesAreTrue == Spec => []StateTellsSilence
<1>1. ClockInv => StateTellsSilence
  <2> SUFFICES ASSUME ClockInv, NEW i \in Places, ~Holds(i, Nobody)
               PROVE  LET silence == now - heard[table[i].id] IN
                      /\ silence < StaleTimeout => table[i].state = "ONLINE"
                      /\ table[i].state = "ONLINE" =>
                            \/ silence < StaleTimeout + CheckPeriod + MaxDelay
                            \/ silence >= ClockModulus
                      /\ table[i].state = "OFFLINE" => silence >= OfflineTimeout
    BY DEF StateTellsSilence
  <2> DEFINE last == heard[table[i].id]
  <2>1. /\ now \in Nat /\ checked \in 0 .. now /\ last \in 0 .. now
        /\ CheckPeriod \in Nat /\ MaxDelay \in Nat
        /\ StaleTimeout \in Nat /\ ClockModulus \in Nat
    BY RegistryAssumption DEF ClockInv, TypeOK, Holds, RegistryAssumption
  <2>2. /\ now - checked <= CheckPeriod + MaxDelay
        /\ now - last < StaleTimeout => table[i].state = "ONLINE"
        /\ table[i].state = "ONLINE"
              => checked - last < StaleTimeout \/ checked - last >= ClockModulus
        /\ table[i].state = "OFFLINE" => now - last >= OfflineTimeout
    BY DEF ClockInv, ClockOK
  <2> HIDE DEF last
  <2>3. checked - last < StaleTimeout
          => now - last < StaleTimeout + CheckPeriod + MaxDelay
    BY <2>1, <2>2
  <2>4. checked - last >= ClockModulus => now - last >= ClockModulus
    BY <2>1
  <2> QED
    BY <2>2, <2>3, <2>4 DEF last
<1> QED
  BY <1>1, InitClockInv, NextClockInv, PTL DEF Spec

(***************************************************************************)
(* The remote a newcomer pushes out has been silent at least as long as    *)
(* every other that was heard since the same rollover of millis()          *)
(* (IoTNode.cpp:579-584).                                                  *)
(***************************************************************************)
THEOREM OldestLeaves == Spec => LongestSilentLeaves
<1>1. ClockInv /\ [Next]_vars
        => [\A i, j \in Places :
              /\ ~Holds(i, Nobody) /\ ~Holds(j, Nobody)
              /\ table'[i].id # table[i].id
              /\ Rollovers(heard[table[i].id]) = Rollovers(heard[table[j].id])
              => heard[table[i].id] <= heard[table[j].id]]_vars
  <2> SUFFICES ASSUME ClockInv, [Next]_vars, NEW i \in Places, NEW j \in Places,
                      ~Holds(i, Nobody), ~Holds(j, Nobody),
                      table'[i].id # table[i].id,
                      Rollovers(heard[table[i].id])
                        = Rollovers(heard[table[j].id])
               PROVE  heard[table[i].id] <= heard[table[j].id]
    OBVIOUS
  <2>1. IsOldest(i)
    <3>1. ASSUME NEW r \in Remotes, NEW k \in Places, NEW e \in Entries,
                 IsPlaceFor(r, k), e.id = r,
                 table' = [table EXCEPT ![k] = e], Tell(r, k)
          PROVE  IsOldest(i)
      <4>1. k = i /\ ~Holds(i, r)
        BY <3>1, PlaceTaken DEF ClockInv, Holds
      <4> QED
        BY <3>1, <4>1 DEF IsPlaceFor, IsFirstFree
    <3>2. ASSUME NEW m \in Packets, Accepted(m) PROVE IsOldest(i)
      <4>1. PICK k \in Places, e \in Entries :
              /\ IsPlaceFor(m.id, k) /\ e.id = m.id
              /\ table' = [table EXCEPT ![k] = e]
              /\ Tell(m.id, k)
        BY <3>2, AcceptedStep DEF ClockInv
      <4> QED
        BY <3>1, <4>1 DEF Packets
    <3>3. ASSUME NEW r \in Remotes, RegisterRemote(r) PROVE IsOldest(i)
      <4>1. PICK k \in Places, e \in Entries :
              /\ IsPlaceFor(r, k) /\ e.id = r
              /\ table' = [table EXCEPT ![k] = e]
              /\ Tell(r, k)
        BY <3>3, RegisterStep DEF ClockInv
      <4> QED
        BY <3>1, <4>1
    <3>4. ~UpdateDeviceStates
      BY RefreshedTable DEF ClockInv
    <3>5. ~Tick /\ ~UNCHANGED vars
      BY DEF Tick, vars
    <3> QED
      BY <3>2, <3>3, <3>4, <3>5
      DEF Next, DiscardOldSession, DiscardDuplicate, vars
  <2> DEFINE a == heard[table[i].id]
             b == heard[table[j].id]
  <2>2. /\ a \in Nat /\ b \in Nat /\ ClockModulus \in Nat \ {0}
    BY RegistryAssumption DEF ClockInv, TypeOK, Holds, RegistryAssumption
  <2>3. /\ table[i].lastSeen = a % ClockModulus
        /\ table[j].lastSeen = b % ClockModulus
    BY DEF ClockInv, ClockOK
  <2>4. a % ClockModulus <= b % ClockModulus
    <3>1. a % ClockModulus \in Int /\ b % ClockModulus \in Int
      BY <2>2, DivMod
    <3> QED
      BY <2>1, <2>3, <3>1 DEF IsOldest
  <2>5. a \div ClockModulus = b \div ClockModulus
    BY DEF Rollovers
  <2> HIDE DEF a, b
  <2>6. a <= b
    <3> DEFINE q == a \div ClockModulus
               c == a % ClockModulus
               d == b % ClockModulus
    <3>1. a = ClockModulus * q + c /\ q \in Nat /\ c \in Nat
      BY <2>2, DivMod
    <3>2. b = ClockModulus * q + d /\ d \in Nat
      <4>1. /\ b = ClockModulus * (b \div ClockModulus) + d
            /\ d \in 0 .. ClockModulus - 1
        BY <2>2, DivMod
      <4> HIDE DEF d
      <4> QED
        BY <2>5, <4>1
    <3>3. c <= d
      BY <2>4
    <3> HIDE DEF q, c, d
    <3> QED
      BY <2>2, <3>1, <3>2, <3>3
  <2> QED
    BY <2>6 DEF a, b
<1> QED
  BY <1>1, InitClockInv, NextClockInv, PTL DEF Spec, LongestSilentLeaves

=============================================================================
