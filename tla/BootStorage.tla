---------------------------- MODULE BootStorage ----------------------------
(***************************************************************************)
(* The boot counter of a node: /iot/boot_count in flash and the fields of  *)
(* IoTStorage, over boots whose mounts, reads and writes may fail and      *)
(* whose power may be cut at any step.                                     *)
(*                                                                         *)
(* setup() calls begin() and then getBootId() once; loop() retries the     *)
(* mount while it fails.  LittleFS is external: opening a file for writing *)
(* creates it empty if it is absent, and its new content replaces the old  *)
(* one when it is closed, in one step, or, when the flash refuses it, not  *)
(* at all.                                                                 *)
(***************************************************************************)
EXTENDS SerialNumbers

CONSTANTS
    BootModulus,    \* 2^16: the width of BOOT_ID
    CountModulus,   \* 2^32: the width of _bootCount
    MaxParsed,      \* 2^31 - 1: what String::toInt saturates at
    FirstCounts,    \* the counts a node may have in flash to begin with
    VolatileIds,    \* what _volatileBootId may return
    MaxBoots        \* bound on the boots: fewer than half a cycle of BOOT_ID

ASSUME StorageAssumption ==
    /\ BootModulus \in Nat \ {0, 1}
    /\ CountModulus \in Nat
    /\ MaxParsed \in Nat /\ MaxParsed + 1 < CountModulus
    /\ FirstCounts \subseteq 0 .. CountModulus - 1
    /\ VolatileIds \subseteq 1 .. BootModulus - 1 /\ VolatileIds # {}
    /\ MaxBoots \in Nat \ {0} /\ 2 * MaxBoots < BootModulus

VARIABLES
    file,       \* /iot/boot_count
    phase,      \* where setup() is: "begin", "getBootId", "writing", "loop"
    mounted,    \* _mounted
    valid,      \* _bootCounterValid
    persistent, \* _bootIdPersistent
    consumed,   \* _bootIdConsumed
    count,      \* _bootCount
    bootId,     \* what getBootId returned in this boot (0: not yet)
    boots,      \* history: boots so far
    past        \* history: the boots that obtained a number

fields == <<mounted, valid, persistent, consumed, count>>
vars == <<file, phase, fields, bootId, boots, past>>

Counts == 0 .. CountModulus - 1

(* A file that is absent or empty has one canonical count.                 *)
AbsentFile == [state |-> "absent", count |-> 0]
EmptyFile == [state |-> "empty", count |-> 0]
NumberFile(n) == [state |-> "number", count |-> n]

(* String::toInt of a line of digits.                                      *)
Parsed(n) == IF n > MaxParsed THEN MaxParsed ELSE n

NextCount(n) == IF n = CountModulus - 1 THEN 1 ELSE n + 1

BootIdOf(n) == IF n % BootModulus = 0 THEN 1 ELSE n % BootModulus

Init ==
    /\ file \in {AbsentFile} \cup {NumberFile(n) : n \in FirstCounts}
    /\ phase = "begin"
    /\ mounted = FALSE
    /\ valid = FALSE
    /\ persistent = FALSE
    /\ consumed = FALSE
    /\ count = 0
    /\ bootId = 0
    /\ boots = 1
    /\ past = {}

-----------------------------------------------------------------------------

(* _readBootCount: no file is a count of 0; a file that cannot be opened,  *)
(* or holds no number, makes the counter invalid.                          *)
ReadBootCount ==
    \/ /\ file.state = "absent"
       /\ valid' = TRUE
       /\ count' = 0
    \/ /\ file.state = "number"
       /\ valid' = TRUE
       /\ count' = Parsed(file.count)
    \/ /\ file.state # "absent"
       /\ valid' = FALSE
       /\ UNCHANGED count

(* _mountLittleFS.                                                         *)
MountLittleFS ==
    /\ mounted' = TRUE
    /\ ReadBootCount
    /\ persistent' = (valid' /\ ~consumed)
    /\ UNCHANGED <<file, consumed>>

(* All the attempts fail, by LittleFS.begin() or by mkdir().               *)
MountFails ==
    /\ mounted' = FALSE
    /\ valid' = FALSE
    /\ persistent' = FALSE
    /\ UNCHANGED <<file, consumed, count>>

Begin ==
    /\ phase = "begin"
    /\ phase' = "getBootId"
    /\ MountLittleFS \/ MountFails
    /\ UNCHANGED <<bootId, boots, past>>

(* Mutant of CanCount: whether the counter could be read is not asked.     *)
CanWrite == mounted

CanCount == mounted /\ valid

(* The boot has its number; the history keeps whether the count behind it  *)
(* reached flash.                                                          *)
Obtain(id, isPersistent, isStored) ==
    /\ bootId' = id
    /\ persistent' = isPersistent
    /\ past' = past \cup {[boot |-> boots, id |-> id,
                           persistent |-> isPersistent, stored |-> isStored]}
    /\ phase' = "loop"

(* getBootId without a usable counter.                                     *)
TakeVolatileId ==
    /\ phase = "getBootId"
    /\ ~CanCount
    /\ consumed' = TRUE
    /\ \E id \in VolatileIds : Obtain(id, FALSE, FALSE)
    /\ UNCHANGED <<file, mounted, valid, count, boots>>

(* getBootId with a counter that cannot be opened for writing.             *)
OpenFails ==
    /\ phase = "getBootId"
    /\ CanCount
    /\ consumed' = TRUE
    /\ count' = NextCount(count)
    /\ \E id \in VolatileIds : Obtain(id, FALSE, FALSE)
    /\ UNCHANGED <<file, mounted, valid, boots>>

(* Mutant of OpenForWriting: the old file is removed first.                *)
OpenTruncating ==
    /\ phase = "getBootId"
    /\ CanCount
    /\ consumed' = TRUE
    /\ count' = NextCount(count)
    /\ file' = EmptyFile
    /\ phase' = "writing"
    /\ UNCHANGED <<mounted, valid, persistent, bootId, boots, past>>

(* getBootId between the opening and the closing of the file.              *)
OpenForWriting ==
    /\ phase = "getBootId"
    /\ CanCount
    /\ consumed' = TRUE
    /\ count' = NextCount(count)
    /\ file' = IF file.state = "absent" THEN EmptyFile ELSE file
    /\ phase' = "writing"
    /\ UNCHANGED <<mounted, valid, persistent, bootId, boots, past>>

(* The count reaches flash.                                                *)
CloseWritten ==
    /\ phase = "writing"
    /\ file' = NumberFile(count)
    /\ Obtain(BootIdOf(count), TRUE, TRUE)
    /\ UNCHANGED <<mounted, valid, consumed, count, boots>>

(* It does not: what println and close return is not looked at.            *)
CloseUnwritten ==
    /\ phase = "writing"
    /\ Obtain(BootIdOf(count), TRUE, FALSE)
    /\ UNCHANGED <<file, mounted, valid, consumed, count, boots>>

(* Mutant of RetryMount: a mount that succeeds restores the announcement.  *)
RetryMountPromoting ==
    /\ phase = "loop"
    /\ ~mounted
    /\ mounted' = TRUE
    /\ ReadBootCount
    /\ persistent' = valid'
    /\ UNCHANGED <<file, consumed, phase, bootId, boots, past>>

(* retryStorageIfNeeded and retryMount, from loop(): nothing if mounted.   *)
RetryMount ==
    /\ phase = "loop"
    /\ \/ mounted /\ UNCHANGED <<file, fields>>
       \/ ~mounted /\ MountLittleFS /\ (consumed => ~persistent')
       \/ ~mounted /\ MountFails
    /\ UNCHANGED <<phase, bootId, boots, past>>

(* A reset or a power cut, at any step: only the file survives.            *)
Reboot ==
    /\ boots < MaxBoots
    /\ boots' = boots + 1
    /\ phase' = "begin"
    /\ mounted' = FALSE
    /\ valid' = FALSE
    /\ persistent' = FALSE
    /\ consumed' = FALSE
    /\ count' = 0
    /\ bootId' = 0
    /\ UNCHANGED <<file, past>>

Next ==
    \/ Begin
    \/ TakeVolatileId
    \/ OpenFails
    \/ OpenForWriting
    \/ CloseWritten
    \/ CloseUnwritten
    \/ RetryMount
    \/ Reboot

Spec == Init /\ [][Next]_vars

-----------------------------------------------------------------------------

BootIds == 1 .. BootModulus - 1

(* Every variable keeps its type.                                          *)
TypeOK ==
    /\ file \in [state : {"absent", "empty", "number"}, count : Counts]
    /\ phase \in {"begin", "getBootId", "writing", "loop"}
    /\ mounted \in BOOLEAN /\ valid \in BOOLEAN
    /\ persistent \in BOOLEAN /\ consumed \in BOOLEAN
    /\ count \in Counts
    /\ bootId \in BootIds \cup {0}
    /\ boots \in 1 .. MaxBoots
    /\ past \subseteq [boot : 1 .. MaxBoots, id : BootIds,
                       persistent : BOOLEAN, stored : BOOLEAN]

(* A peer that knows the session of a boot whose count reached flash never *)
(* takes a later boot that announces a persistent number for an older one, *)
(* whatever failed or was cut in between and across the wraps of the two   *)
(* counters: this is what _updateRemote relies on (IoTNode.cpp:551-553).   *)
BootIdsNeverGoBack ==
    \A a, b \in past :
        a.boot < b.boot /\ a.stored /\ b.persistent
            => b.id = a.id \/ IsNewer(b.id, a.id, BootModulus)

(* A boot that took a volatile number is announced as degraded to its end, *)
(* though a later mount succeeds and reads a valid counter                 *)
(* (IoTStorage.cpp:46, 70-72).                                             *)
DegradedStaysDegraded ==
    \A a \in past :
        a.boot = boots /\ ~a.persistent => ~persistent

(* Only the very first write is at risk: once a count has reached flash no *)
(* cut and no failure leaves the node without a number to continue from.   *)
OnlyFirstWriteIsAtRisk ==
    file.state # "number" => \A a \in past : ~a.stored

=============================================================================
