------------------------- MODULE BootStorage_proofs -------------------------
(***************************************************************************)
(* What the boot counter promises for every width of its counters and any  *)
(* failure or power cut: types, the degraded announcement, the number in   *)
(* flash, and the order of the numbers a peer is told.                     *)
(***************************************************************************)
EXTENDS BootStorage, TLAPS

(* A boot number is never 0 and fits its field.                            *)
LEMMA BootIdOfType ==
    ASSUME NEW n \in Counts
    PROVE  BootIdOf(n) \in BootIds
<1>1. n % BootModulus \in 0 .. BootModulus - 1
  BY StorageAssumption DEF StorageAssumption, Counts
<1> QED
  BY <1>1, StorageAssumption DEF StorageAssumption, BootIdOf, BootIds

(* Neither reading the counter back nor counting leaves its width.         *)
LEMMA CountTypes ==
    ASSUME NEW n \in Counts
    PROVE  /\ Parsed(n) \in Counts
           /\ NextCount(n) \in Counts
BY StorageAssumption DEF StorageAssumption, Parsed, NextCount, Counts

LEMMA InitTypeOK == Init => TypeOK
<1> SUFFICES ASSUME Init PROVE TypeOK
  OBVIOUS
<1>1. 0 \in Counts /\ 1 \in 1 .. MaxBoots /\ FirstCounts \subseteq Counts
  BY StorageAssumption DEF Counts, StorageAssumption
<1>2. file \in [state : {"absent", "empty", "number"}, count : Counts]
  BY <1>1 DEF Init, AbsentFile, NumberFile
<1> QED
  BY <1>1, <1>2 DEF Init, TypeOK

(* A mount, from wherever it is called, keeps the fields it writes typed.  *)
LEMMA MountType ==
    ASSUME TypeOK, MountLittleFS \/ MountFails
    PROVE  /\ mounted' \in BOOLEAN /\ valid' \in BOOLEAN
           /\ persistent' \in BOOLEAN
           /\ count' \in Counts
           /\ UNCHANGED <<file, consumed>>
<1>1. CASE MountLittleFS
  <2>1. file.count \in Counts
    BY DEF TypeOK
  <2>2. Parsed(file.count) \in Counts
    BY <2>1, CountTypes
  <2>3. 0 \in Counts
    BY StorageAssumption DEF StorageAssumption, Counts
  <2>4. valid' \in BOOLEAN /\ count' \in Counts
    BY <1>1, <2>2, <2>3 DEF MountLittleFS, ReadBootCount, TypeOK
  <2> QED
    BY <1>1, <2>4 DEF MountLittleFS
<1>2. CASE MountFails
  BY <1>2 DEF MountFails, TypeOK
<1> QED
  BY <1>1, <1>2

(* The record a boot adds to the history has its type.                     *)
LEMMA ObtainType ==
    ASSUME TypeOK, NEW id \in BootIds, NEW p \in BOOLEAN, NEW s \in BOOLEAN,
           Obtain(id, p, s)
    PROVE  /\ bootId' \in BootIds \cup {0}
           /\ persistent' \in BOOLEAN
           /\ phase' \in {"begin", "getBootId", "writing", "loop"}
           /\ past' \subseteq [boot : 1 .. MaxBoots, id : BootIds,
                               persistent : BOOLEAN, stored : BOOLEAN]
BY DEF Obtain, TypeOK

LEMMA VolatileIdsAreBootIds == VolatileIds \subseteq BootIds
BY StorageAssumption DEF StorageAssumption, BootIds

LEMMA NextTypeOK == TypeOK /\ [Next]_vars => TypeOK'
<1> SUFFICES ASSUME TypeOK, [Next]_vars PROVE TypeOK'
  OBVIOUS
<1>0. NextCount(count) \in Counts /\ BootIdOf(count) \in BootIds
  BY CountTypes, BootIdOfType DEF TypeOK
<1>1. CASE Begin
  <2>1. MountLittleFS \/ MountFails
    BY <1>1 DEF Begin
  <2> QED
    BY <1>1, <2>1, MountType DEF Begin, TypeOK
<1>2. CASE TakeVolatileId
  <2>1. PICK id \in VolatileIds : Obtain(id, FALSE, FALSE)
    BY <1>2 DEF TakeVolatileId
  <2> QED
    BY <1>2, <2>1, ObtainType, VolatileIdsAreBootIds
    DEF TakeVolatileId, TypeOK
<1>3. CASE OpenFails
  <2>1. PICK id \in VolatileIds : Obtain(id, FALSE, FALSE)
    BY <1>3 DEF OpenFails
  <2> QED
    BY <1>0, <1>3, <2>1, ObtainType, VolatileIdsAreBootIds
    DEF OpenFails, TypeOK
<1>4. CASE OpenForWriting
  <2>1. EmptyFile \in [state : {"absent", "empty", "number"}, count : Counts]
    BY StorageAssumption DEF EmptyFile, Counts, StorageAssumption
  <2> QED
    BY <1>0, <1>4, <2>1 DEF OpenForWriting, TypeOK
<1>5. CASE CloseWritten
  <2>1. file' \in [state : {"absent", "empty", "number"}, count : Counts]
    BY <1>5 DEF CloseWritten, NumberFile, TypeOK
  <2>2. Obtain(BootIdOf(count), TRUE, TRUE)
    BY <1>5 DEF CloseWritten
  <2> QED
    BY <1>0, <1>5, <2>1, <2>2, ObtainType DEF CloseWritten, TypeOK
<1>6. CASE CloseUnwritten
  <2>1. Obtain(BootIdOf(count), TRUE, FALSE)
    BY <1>6 DEF CloseUnwritten
  <2> QED
    BY <1>0, <1>6, <2>1, ObtainType DEF CloseUnwritten, TypeOK
<1>7. CASE RetryMount
  <2>1. CASE mounted /\ UNCHANGED <<file, fields>>
    BY <1>7, <2>1 DEF RetryMount, fields, TypeOK
  <2>2. CASE MountLittleFS \/ MountFails
    BY <1>7, <2>2, MountType DEF RetryMount, TypeOK
  <2> QED
    BY <1>7, <2>1, <2>2 DEF RetryMount
<1>8. CASE Reboot
  <2>1. 0 \in Counts
    BY StorageAssumption DEF Counts, StorageAssumption
  <2>2. boots' \in 1 .. MaxBoots
    BY <1>8, StorageAssumption DEF Reboot, TypeOK, StorageAssumption
  <2> QED
    BY <1>8, <2>1, <2>2 DEF Reboot, TypeOK
<1>9. CASE UNCHANGED vars
  BY <1>9 DEF vars, fields, TypeOK
<1> QED
  BY <1>1, <1>2, <1>3, <1>4, <1>5, <1>6, <1>7, <1>8, <1>9 DEF Next

(* The fields of IoTStorage, the file and the history keep their types     *)
(* through every mount, write and reset (IoTStorage.cpp:26-172).           *)
THEOREM TypeCorrectness == Spec => []TypeOK
BY InitTypeOK, NextTypeOK, PTL DEF Spec

-----------------------------------------------------------------------------

(* A boot enters the history with its number, at the end of setup(), and   *)
(* has consumed it from then on.                                           *)
HistoryOK ==
    /\ \A a \in past : a.boot <= boots
    /\ phase # "loop" => \A a \in past : a.boot # boots
    /\ phase \in {"writing", "loop"} => consumed

IInv == TypeOK /\ HistoryOK /\ DegradedStaysDegraded

LEMMA InitIInv == Init => IInv
BY InitTypeOK DEF Init, IInv, HistoryOK, DegradedStaysDegraded

(* When setup() ends, the one entry of this boot agrees with the field.    *)
LEMMA ObtainKeeps ==
    ASSUME IInv, phase # "loop", NEW id, NEW p, NEW s,
           Obtain(id, p, s), consumed',
           boots' = boots
    PROVE  (HistoryOK /\ DegradedStaysDegraded)'
<1> DEFINE entry == [boot |-> boots, id |-> id, persistent |-> p, stored |-> s]
<1>1. past' = past \cup {entry} /\ persistent' = p /\ phase' = "loop"
  BY DEF Obtain
<1>2. entry.boot = boots /\ entry.persistent = p
  OBVIOUS
<1>3. boots <= boots
  BY DEF IInv, TypeOK
<1> HIDE DEF entry
<1>4. \A a \in past' : a.boot <= boots
  BY <1>1, <1>2, <1>3 DEF IInv, HistoryOK
<1>5. \A a \in past' : a.boot = boots /\ ~a.persistent => ~persistent'
  BY <1>1, <1>2 DEF IInv, HistoryOK
<1> QED
  BY <1>1, <1>4, <1>5 DEF HistoryOK, DegradedStaysDegraded

LEMMA NextIInv == IInv /\ [Next]_vars => IInv'
<1> SUFFICES ASSUME IInv, [Next]_vars PROVE IInv'
  OBVIOUS
<1>0. TypeOK'
  BY NextTypeOK DEF IInv
<1>1. CASE Begin
  BY <1>0, <1>1 DEF Begin, IInv, HistoryOK, DegradedStaysDegraded
<1>2. CASE TakeVolatileId
  BY <1>0, <1>2, ObtainKeeps DEF TakeVolatileId, IInv
<1>3. CASE OpenFails
  BY <1>0, <1>3, ObtainKeeps DEF OpenFails, IInv
<1>4. CASE OpenForWriting
  BY <1>0, <1>4 DEF OpenForWriting, IInv, HistoryOK, DegradedStaysDegraded
<1>5. CASE CloseWritten
  BY <1>0, <1>5, ObtainKeeps DEF CloseWritten, IInv, HistoryOK
<1>6. CASE CloseUnwritten
  BY <1>0, <1>6, ObtainKeeps DEF CloseUnwritten, IInv, HistoryOK
<1>7. CASE RetryMount
  <2>1. CASE UNCHANGED <<file, fields>>
    BY <1>0, <1>7, <2>1
    DEF RetryMount, fields, IInv, HistoryOK, DegradedStaysDegraded
  <2>2. CASE MountLittleFS \/ MountFails
    <3>1. ~persistent' /\ consumed' = consumed
      BY <1>7, <2>2
      DEF RetryMount, MountLittleFS, MountFails, IInv, HistoryOK
    <3> QED
      BY <1>0, <1>7, <3>1
      DEF RetryMount, IInv, HistoryOK, DegradedStaysDegraded
  <2> QED
    BY <1>7, <2>1, <2>2 DEF RetryMount
<1>8. CASE Reboot
  <2>1. \A a \in past : a.boot < boots + 1 /\ a.boot # boots + 1
    BY DEF IInv, HistoryOK, TypeOK
  <2>2. \A a \in past : a.boot <= boots + 1
    BY <2>1 DEF IInv, TypeOK
  <2> QED
    BY <1>0, <1>8, <2>1, <2>2
    DEF Reboot, IInv, HistoryOK, DegradedStaysDegraded
<1>9. CASE UNCHANGED vars
  BY <1>0, <1>9 DEF vars, fields, IInv, HistoryOK, DegradedStaysDegraded
<1> QED
  BY <1>1, <1>2, <1>3, <1>4, <1>5, <1>6, <1>7, <1>8, <1>9 DEF Next

(* A boot that was announced as degraded stays so: retryMount never takes  *)
(* the announcement back (IoTStorage.cpp:46, 70-72).                       *)
THEOREM DegradationIsKept == Spec => []DegradedStaysDegraded
<1>1. IInv => DegradedStaysDegraded
  BY DEF IInv
<1> QED
  BY <1>1, InitIInv, NextIInv, PTL DEF Spec

-----------------------------------------------------------------------------

LEMMA InitNumber == Init => OnlyFirstWriteIsAtRisk
BY DEF Init, OnlyFirstWriteIsAtRisk

LEMMA NextNumber ==
    OnlyFirstWriteIsAtRisk /\ [Next]_vars => OnlyFirstWriteIsAtRisk'
<1> SUFFICES ASSUME OnlyFirstWriteIsAtRisk, [Next]_vars
             PROVE  OnlyFirstWriteIsAtRisk'
  OBVIOUS
<1>1. CASE UNCHANGED <<file, past>>
  BY <1>1 DEF OnlyFirstWriteIsAtRisk
<1>2. CASE file' = file /\ \E id, p : Obtain(id, p, FALSE)
  BY <1>2 DEF Obtain, OnlyFirstWriteIsAtRisk
<1>3. CASE CloseWritten
  BY <1>3 DEF CloseWritten, NumberFile, OnlyFirstWriteIsAtRisk
<1>4. CASE OpenForWriting
  BY <1>4 DEF OpenForWriting, EmptyFile, AbsentFile, OnlyFirstWriteIsAtRisk
<1>5. Begin \/ RetryMount \/ Reboot \/ UNCHANGED vars
        => UNCHANGED <<file, past>>
  BY DEF Begin, RetryMount, MountLittleFS, MountFails, Reboot, vars
<1>6. TakeVolatileId \/ OpenFails \/ CloseUnwritten
        => file' = file /\ \E id, p : Obtain(id, p, FALSE)
  BY DEF TakeVolatileId, OpenFails, CloseUnwritten
<1> QED
  BY <1>1, <1>2, <1>3, <1>4, <1>5, <1>6 DEF Next

(* Once a count has reached flash no cut and no refused write takes it     *)
(* away: only the very first write is at risk (IoTStorage.cpp:165-172).    *)
THEOREM NumberSurvives == Spec => []OnlyFirstWriteIsAtRisk
BY InitNumber, NextNumber, PTL DEF Spec

-----------------------------------------------------------------------------

(* Quotient and remainder of a count by a width.                           *)
LEMMA DivMod ==
    ASSUME NEW n \in Nat, NEW m \in Nat \ {0}
    PROVE  /\ n = m * (n \div m) + (n % m)
           /\ n % m \in 0 .. m - 1
           /\ n \div m \in Nat
OBVIOUS

(* A number has one remainder.                                             *)
LEMMA DivisionIsUnique ==
    ASSUME NEW m \in Nat \ {0}, NEW q \in Int, NEW p \in Int,
           NEW r \in 0 .. m - 1, NEW s \in 0 .. m - 1,
           m * q + r = m * p + s
    PROVE  r = s
<1>1. CASE q < p
  <2>1. m * (p - (q + 1)) >= 0
    BY <1>1
  <2>2. m * p >= m * q + m
    BY <2>1
  <2> QED
    BY <2>2
<1>2. CASE p < q
  <2>1. m * (q - (p + 1)) >= 0
    BY <1>2
  <2>2. m * q >= m * p + m
    BY <2>1
  <2> QED
    BY <2>2
<1> QED
  BY <1>1, <1>2

(* Counting on for less than a cycle wraps at most once.                   *)
LEMMA ModAdd ==
    ASSUME NEW n \in Nat, NEW m \in Nat \ {0}, NEW k \in 0 .. m - 1
    PROVE  (n + k) % m = IF (n % m) + k < m THEN (n % m) + k
                                            ELSE (n % m) + k - m
<1> DEFINE q == n \div m
           r == n % m
           p == (n + k) \div m
           s == (n + k) % m
<1>1. n = m * q + r /\ r \in 0 .. m - 1 /\ q \in Int
  BY DivMod
<1>2. n + k \in Nat
  OBVIOUS
<1>3. n + k = m * p + s /\ s \in 0 .. m - 1 /\ p \in Int
  BY <1>2, DivMod
<1> HIDE DEF q, r, p, s
<1>4. CASE r + k < m
  <2>1. m * q + (r + k) = m * p + s /\ r + k \in 0 .. m - 1
    BY <1>1, <1>3, <1>4
  <2>2. r + k = s
    BY <2>1, <1>1, <1>3, DivisionIsUnique
  <2> QED
    BY <1>4, <2>2 DEF r, s
<1>5. CASE r + k >= m
  <2> DEFINE t == r + k - m
             u == q + 1
  <2>1. m * u + t = m * p + s /\ t \in 0 .. m - 1 /\ u \in Int
    BY <1>1, <1>3, <1>5
  <2> HIDE DEF t, u
  <2>2. t = s
    BY <2>1, <1>3, DivisionIsUnique
  <2> QED
    BY <1>1, <1>5, <2>2 DEF t, r, s
<1> QED
  BY <1>4, <1>5, <1>1

(***************************************************************************)
(* A count fewer than MaxBoots ahead gives the same BOOT_ID or a newer     *)
(* one: the number 0, which is never used, is taken for 1.                 *)
(***************************************************************************)
LEMMA LaterCountsAreNewer ==
    ASSUME NEW c \in Counts, NEW d \in Counts,
           c <= d, d - c < MaxBoots
    PROVE  \/ BootIdOf(d) = BootIdOf(c)
           \/ IsNewer(BootIdOf(d), BootIdOf(c), BootModulus)
<1> DEFINE k == d - c
           r == c % BootModulus
           s == d % BootModulus
<1>1. /\ c \in Nat /\ BootModulus \in Nat \ {0} /\ BootModulus > 2
      /\ k \in 0 .. BootModulus - 1 /\ 2 * (k + 1) < BootModulus
      /\ c + k = d
  BY StorageAssumption DEF StorageAssumption, Counts
<1>2. r \in 0 .. BootModulus - 1
  BY <1>1, DivMod
<1>3. s = IF r + k < BootModulus THEN r + k ELSE r + k - BootModulus
  BY <1>1, ModAdd
<1> HIDE DEF k, r, s
<1>4. /\ BootIdOf(c) = IF r = 0 THEN 1 ELSE r
      /\ BootIdOf(d) = IF s = 0 THEN 1 ELSE s
  BY DEF BootIdOf, r, s
<1> QED
  BY <1>1, <1>2, <1>3, <1>4 DEF IsNewer, Delta

(***************************************************************************)
(* The count in flash and the count in memory follow those of the boots    *)
(* whose count reached flash, by at most one for each later boot.          *)
(***************************************************************************)
CountFollows(a, c) ==
    /\ a.id = BootIdOf(c)
    /\ c <= file.count
    /\ file.count <= MaxParsed + 1
    /\ file.count + (IF phase = "loop" THEN 0 ELSE 1) <= c + (boots - a.boot)

CountOK ==
    /\ valid /\ phase = "getBootId" => count <= MaxParsed
    /\ phase = "writing" => count <= MaxParsed + 1
    /\ file.state = "number" /\ valid /\ phase = "getBootId"
        => count = Parsed(file.count)
    /\ file.state = "number" /\ phase = "writing"
        => count = Parsed(file.count) + 1
    /\ \A a \in past : a.stored => \E c \in Counts : CountFollows(a, c)

StorageInv == IInv /\ OnlyFirstWriteIsAtRisk /\ CountOK /\ BootIdsNeverGoBack

(***************************************************************************)
(* The count about to be written is that of every stored boot or follows   *)
(* it, so that its BOOT_ID is no older than theirs.                        *)
(***************************************************************************)
LEMMA WrittenCountFollows ==
    ASSUME StorageInv, phase = "writing", NEW a \in past, a.stored
    PROVE  /\ a.boot < boots
           /\ \E c \in Counts :
                 /\ a.id = BootIdOf(c)
                 /\ c <= count
                 /\ count <= MaxParsed + 1
                 /\ count <= c + (boots - a.boot)
           /\ \/ BootIdOf(count) = a.id
              \/ IsNewer(BootIdOf(count), a.id, BootModulus)
<1>1. /\ a.boot \in 1 .. MaxBoots /\ boots \in 1 .. MaxBoots
      /\ count \in Counts /\ file.count \in Counts
  BY DEF StorageInv, IInv, TypeOK
<1>2. a.boot < boots
  BY <1>1 DEF StorageInv, IInv, HistoryOK
<1>3. file.state = "number"
  BY DEF StorageInv, OnlyFirstWriteIsAtRisk
<1>4. count = Parsed(file.count) + 1
  BY <1>3 DEF StorageInv, CountOK
<1>5. PICK c \in Counts : CountFollows(a, c)
  BY DEF StorageInv, CountOK
<1>6. /\ c <= count /\ count <= MaxParsed + 1
      /\ count <= c + (boots - a.boot)
  BY <1>1, <1>4, <1>5, StorageAssumption
  DEF CountFollows, Parsed, Counts, StorageAssumption
<1>7. count - c < MaxBoots
  <2>1. /\ c \in Int /\ count \in Int /\ boots - a.boot < MaxBoots
        /\ boots - a.boot \in Int
    BY <1>1, StorageAssumption DEF Counts, StorageAssumption
  <2>2. count - c <= boots - a.boot
    BY <1>6, <2>1
  <2> QED
    BY <2>1, <2>2, StorageAssumption DEF StorageAssumption
<1>8. a.id = BootIdOf(c)
  BY <1>5 DEF CountFollows
<1> QED
  BY <1>1, <1>2, <1>6, <1>7, <1>8, LaterCountsAreNewer

(* A number that is not persistent, or one that follows, goes back nowhere. *)
LEMMA ObtainGoesNotBack ==
    ASSUME StorageInv, phase # "loop", NEW id, NEW p, NEW s,
           Obtain(id, p, s),
           p => \A a \in past :
                   a.stored => id = a.id \/ IsNewer(id, a.id, BootModulus)
    PROVE  BootIdsNeverGoBack'
<1> DEFINE entry == [boot |-> boots, id |-> id, persistent |-> p, stored |-> s]
<1>1. past' = past \cup {entry}
  BY DEF Obtain
<1>2. entry.boot = boots /\ entry.persistent = p /\ entry.id = id
  OBVIOUS
<1>3. /\ boots \in Nat
      /\ \A a \in past : a.boot \in Nat /\ a.boot <= boots
  BY DEF StorageInv, IInv, TypeOK, HistoryOK
<1> HIDE DEF entry
<1>4. ~(entry.boot < entry.boot) /\ \A a \in past : ~(entry.boot < a.boot)
  BY <1>2, <1>3
<1> QED
  BY <1>1, <1>2, <1>4 DEF StorageInv, BootIdsNeverGoBack

(***************************************************************************)
(* A boot that leaves its count out of flash keeps what the stored boots   *)
(* are owed: the next boot continues from the same file.                   *)
(***************************************************************************)
LEMMA UnstoredKeepsCount ==
    ASSUME StorageInv, phase # "loop", NEW id, NEW p,
           Obtain(id, p, FALSE), UNCHANGED <<file, boots>>
    PROVE  CountOK'
<1>1. /\ phase' = "loop"
      /\ \A a \in past' : a.stored => a \in past
  BY DEF Obtain
<1>2. ASSUME NEW a \in past, NEW c \in Counts, CountFollows(a, c)
      PROVE  CountFollows(a, c)'
  <2>1. /\ a.boot \in Nat /\ boots \in Nat /\ file.count \in Nat /\ c \in Nat
    BY DEF StorageInv, IInv, TypeOK, Counts
  <2> QED
    BY <1>1, <1>2, <2>1 DEF CountFollows
<1> QED
  BY <1>1, <1>2 DEF StorageInv, CountOK

(* So does a step that touches neither the file nor the history, and ends  *)
(* in a phase that owes them no more.                                      *)
LEMMA QuietKeepsCount ==
    ASSUME StorageInv, UNCHANGED <<file, past>>,
           \/ phase' = phase /\ boots' = boots
           \/ phase # "loop" /\ boots' = boots
           \/ boots' = boots + 1,
           valid' /\ phase' = "getBootId" => count' <= MaxParsed,
           phase' = "writing" => count' <= MaxParsed + 1,
           file.state = "number" /\ valid' /\ phase' = "getBootId"
               => count' = Parsed(file.count),
           file.state = "number" /\ phase' = "writing"
               => count' = Parsed(file.count) + 1
    PROVE  CountOK' /\ BootIdsNeverGoBack'
<1>1. ASSUME NEW a \in past, NEW c \in Counts, CountFollows(a, c)
      PROVE  CountFollows(a, c)'
  <2>1. /\ a.boot \in Nat /\ boots \in Nat /\ file.count \in Nat /\ c \in Nat
    BY DEF StorageInv, IInv, TypeOK, Counts
  <2> QED
    BY <1>1, <2>1 DEF CountFollows
<1> QED
  BY <1>1 DEF StorageInv, CountOK, BootIdsNeverGoBack

LEMMA InitStorageInv == Init => StorageInv
BY InitIInv, InitNumber DEF Init, StorageInv, CountOK, BootIdsNeverGoBack

LEMMA NextStorageInv == StorageInv /\ [Next]_vars => StorageInv'
<1> SUFFICES ASSUME StorageInv, [Next]_vars PROVE StorageInv'
  OBVIOUS
<1>0. IInv' /\ OnlyFirstWriteIsAtRisk'
  BY NextIInv, NextNumber DEF StorageInv
<1> SUFFICES CountOK' /\ BootIdsNeverGoBack'
  BY <1>0 DEF StorageInv
<1>1. CASE Begin
  <2>1. /\ phase # "loop" /\ phase' = "getBootId"
        /\ UNCHANGED <<file, past, boots>>
        /\ file.state = "number" /\ valid' => count' = Parsed(file.count)
    BY <1>1 DEF Begin, MountLittleFS, MountFails, ReadBootCount
  <2>2. valid' => count' <= MaxParsed
    <3>1. file.count \in Counts
      BY DEF StorageInv, IInv, TypeOK
    <3>2. Parsed(file.count) <= MaxParsed /\ 0 <= MaxParsed
      BY <3>1, StorageAssumption DEF Parsed, Counts, StorageAssumption
    <3> QED
      BY <1>1, <3>2 DEF Begin, MountLittleFS, MountFails, ReadBootCount
  <2> QED
    BY <2>1, <2>2, QuietKeepsCount
<1>2. CASE TakeVolatileId \/ OpenFails
  <2>1. PICK id \in VolatileIds : Obtain(id, FALSE, FALSE)
    BY <1>2 DEF TakeVolatileId, OpenFails
  <2>2. phase # "loop" /\ UNCHANGED <<file, boots>>
    BY <1>2 DEF TakeVolatileId, OpenFails
  <2> QED
    BY <2>1, <2>2, UnstoredKeepsCount, ObtainGoesNotBack
<1>3. CASE OpenForWriting
  <2>1. /\ phase = "getBootId" /\ phase' = "writing" /\ valid
        /\ count' = NextCount(count)
        /\ file' = IF file.state = "absent" THEN EmptyFile ELSE file
        /\ UNCHANGED <<past, boots>>
    BY <1>3 DEF OpenForWriting, CanCount
  <2>4. count' <= MaxParsed + 1
    <3>1. count \in Counts /\ count <= MaxParsed
      BY <2>1 DEF StorageInv, IInv, TypeOK, CountOK
    <3> QED
      BY <2>1, <3>1, StorageAssumption
      DEF NextCount, Counts, StorageAssumption
  <2>2. CASE file.state = "absent"
    <3>1. /\ file'.state # "number"
          /\ \A a \in past' : ~a.stored
      BY <2>1, <2>2 DEF EmptyFile, StorageInv, OnlyFirstWriteIsAtRisk
    <3> QED
      BY <2>1, <2>4, <3>1 DEF CountOK, BootIdsNeverGoBack
  <2>3. CASE file.state # "absent"
    <3>1. /\ file' = file
          /\ file.state = "number" => count = Parsed(file.count)
      BY <2>1, <2>3 DEF StorageInv, CountOK
    <3>2. file.count \in Counts
      BY DEF StorageInv, IInv, TypeOK
    <3>3. file.state = "number" => count' = Parsed(file.count) + 1
      BY <2>1, <3>1, <3>2, StorageAssumption
      DEF NextCount, Parsed, Counts, StorageAssumption
    <3> QED
      BY <2>1, <2>4, <3>1, <3>3, QuietKeepsCount
  <2> QED
    BY <2>2, <2>3
<1>4. CASE CloseWritten
  <2>1. /\ phase = "writing" /\ phase' = "loop" /\ boots' = boots
        /\ file' = NumberFile(count)
        /\ Obtain(BootIdOf(count), TRUE, TRUE)
    BY <1>4 DEF CloseWritten, Obtain
  <2>2. /\ boots \in Nat /\ count \in Counts /\ Counts \subseteq Nat
        /\ \A a \in past : a.boot \in Nat
    BY DEF StorageInv, IInv, TypeOK, Counts
  <2>3. PICK n, entry :
            /\ n \in Counts /\ n = count /\ n <= MaxParsed + 1
            /\ past' = past \cup {entry}
            /\ entry.boot = boots /\ entry.id = BootIdOf(n)
            /\ file'.count = n
    <3>1. count <= MaxParsed + 1 /\ file'.count = count
      BY <2>1 DEF NumberFile, StorageInv, CountOK
    <3>2. PICK entry : entry = [boot |-> boots, id |-> BootIdOf(count),
                              persistent |-> TRUE, stored |-> TRUE]
      OBVIOUS
    <3>3. /\ past' = past \cup {entry}
          /\ entry.boot = boots /\ entry.id = BootIdOf(count)
      BY <2>1, <3>2 DEF Obtain
    <3> QED
      BY <2>2, <3>1, <3>3
  <2>4. \A a \in past : a.stored => \E c \in Counts : CountFollows(a, c)'
    BY <2>1, <2>2, <2>3, WrittenCountFollows DEF CountFollows
  <2>5. CountFollows(entry, n)'
    BY <2>1, <2>2, <2>3 DEF CountFollows
  <2>6. \A a \in past' : a.stored => \E c \in Counts : CountFollows(a, c)'
    BY <2>3, <2>4, <2>5
  <2>7. CountOK'
    BY <2>1, <2>6 DEF CountOK, Counts
  <2>8. BootIdsNeverGoBack'
    BY <2>1, WrittenCountFollows, ObtainGoesNotBack
  <2> QED
    BY <2>7, <2>8
<1>5. CASE CloseUnwritten
  <2>1. /\ phase = "writing" /\ UNCHANGED <<file, boots>>
        /\ Obtain(BootIdOf(count), TRUE, FALSE)
    BY <1>5 DEF CloseUnwritten
  <2>2. CountOK'
    BY <2>1, UnstoredKeepsCount
  <2>3. BootIdsNeverGoBack'
    BY <2>1, WrittenCountFollows, ObtainGoesNotBack
  <2> QED
    BY <2>2, <2>3
<1>6. CASE RetryMount
  <2>1. phase = "loop" /\ UNCHANGED <<file, past, phase, boots>>
    BY <1>6 DEF RetryMount, MountLittleFS, MountFails
  <2> QED
    BY <2>1, QuietKeepsCount
<1>7. CASE Reboot
  <2>1. phase' = "begin" /\ boots' = boots + 1 /\ UNCHANGED <<file, past>>
    BY <1>7 DEF Reboot
  <2> QED
    BY <2>1, QuietKeepsCount
<1>8. CASE UNCHANGED vars
  BY <1>8 DEF vars, fields, StorageInv, CountOK, CountFollows,
              BootIdsNeverGoBack
<1> QED
  BY <1>1, <1>2, <1>3, <1>4, <1>5, <1>6, <1>7, <1>8 DEF Next

(***************************************************************************)
(* A peer that knows the session of a boot whose count reached flash never *)
(* takes a later boot with a persistent number for an older one            *)
(* (IoTStorage.cpp:148-172, read by IoTNode.cpp:551-553).                  *)
(***************************************************************************)
THEOREM NoBootGoesBack == Spec => []BootIdsNeverGoBack
<1>1. StorageInv => BootIdsNeverGoBack
  BY DEF StorageInv
<1> QED
  BY <1>1, InitStorageInv, NextStorageInv, PTL DEF Spec

=============================================================================
