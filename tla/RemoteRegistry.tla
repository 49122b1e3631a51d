--------------------------- MODULE RemoteRegistry ---------------------------
(***************************************************************************)
(* The table of remotes an IoTNode keeps: who was heard, in which session, *)
(* from which endpoint, how long ago, and the deduplication window of      *)
(* each.  The table has fewer places than the network may have nodes, so   *)
(* a newcomer may push a remote out, and its window with it.               *)
(*                                                                         *)
(* The node has been started late: every packet of every boot of every     *)
(* remote is already on its way, and arrives at any time, again, or never. *)
(* A packet stands for the address it came from: two packets, two possible *)
(* endpoints.  An ACK the channel took does to the table what a packet of  *)
(* telemetry does, and is one (IoTNode.cpp:328-335, 413-425).              *)
(*                                                                         *)
(* millis() is now % ClockModulus; now itself is never seen by the code.   *)
(***************************************************************************)
EXTENDS SeqWindow, FiniteSets

CONSTANTS
    Remotes,        \* the nodes that may be heard
    Nobody,         \* the owner of a free place
    TableSize,      \* IOT_MAX_REMOTES, 8 in the code
    BootModulus,    \* 2^16 in the code
    ClockModulus,   \* 2^32 in the code
    StaleTimeout,   \* IOT_STALE_TIMEOUT_MS
    OfflineTimeout, \* IOT_OFFLINE_TIMEOUT_MS
    CheckPeriod,    \* the 10 seconds between two refreshes of the states
    MaxDelay,       \* bound on how late loop() comes to a refresh
    MaxBoots,       \* bound on the boots of a remote
    MaxSeq,         \* bound on the reliable packets of one boot
    MaxNow          \* bound on the time modelled

ASSUME RegistryAssumption ==
    /\ Nobody \notin Remotes
    /\ TableSize \in Nat \ {0}
    /\ BootModulus \in Nat /\ ClockModulus \in Nat \ {0}
    /\ StaleTimeout \in Nat \ {0} /\ OfflineTimeout \in Nat
    /\ StaleTimeout <= OfflineTimeout
    /\ CheckPeriod \in Nat \ {0} /\ MaxDelay \in Nat
    /\ OfflineTimeout + CheckPeriod + MaxDelay <= ClockModulus
    /\ MaxBoots \in Nat \ {0} /\ 2 * MaxBoots <= BootModulus
    /\ MaxSeq \in Nat \ {0} /\ 2 * MaxSeq <= SeqModulus
    /\ MaxNow \in Nat

VARIABLES
    table,      \* _remotes[]
    now,        \* time since boot
    checked,    \* when _lastStateCheck was set
    heard,      \* history: when each remote in the table was last heard
    handled,    \* history: reliable packets handled since their sender came
    repeated    \* history: those handled twice without leaving in between

vars == <<table, now, checked, heard, handled, repeated>>

-----------------------------------------------------------------------------

Places == 0 .. TableSize - 1

Clock == now % ClockModulus

(* A reliable packet has its SEQ; the SEQ of telemetry is read by nobody.  *)
Packets == [id : Remotes, boot : 1 .. MaxBoots, seq : 0 .. MaxSeq]

IsReliable(m) == m.seq # 0

Origin(m) == [boot |-> m.boot, seq |-> m.seq]

(* The endpoint registerRemote is given, which no packet brought.          *)
Configured == [boot |-> 0, seq |-> 0]

FreePlace ==
    [id |-> Nobody, bootId |-> 0, window |-> EmptyWindow,
     endpoint |-> Configured, lastSeen |-> 0, state |-> "UNKNOWN"]

Init ==
    /\ table = [i \in Places |-> FreePlace]
    /\ now = 0
    /\ checked = 0
    /\ heard = [r \in Remotes |-> 0]
    /\ handled = {}
    /\ repeated = {}

Holds(i, r) == table[i].id = r

IsKnown(r) == \E i \in Places : Holds(i, r)

IsFirstFree(i) ==
    /\ Holds(i, Nobody)
    /\ \A j \in Places : Holds(j, Nobody) => i <= j

(* Mutant of IsOldest: the last seen goes.                                 *)
IsNewest(i) ==
    \A j \in Places :
        \/ table[i].lastSeen > table[j].lastSeen
        \/ table[i].lastSeen = table[j].lastSeen /\ i <= j

(* The place a newcomer takes when all are taken: plain numbers compared.  *)
IsOldest(i) ==
    \A j \in Places :
        \/ table[i].lastSeen < table[j].lastSeen
        \/ table[i].lastSeen = table[j].lastSeen /\ i <= j

(* Mutant of IsPlaceFor: a free place is taken before r is looked for.     *)
IsFreshPlaceFor(r, i) ==
    \/ IsFirstFree(i)
    \/ ~IsKnown(Nobody) /\ Holds(i, r)
    \/ ~IsKnown(Nobody) /\ ~IsKnown(r) /\ IsOldest(i)

(* The place _updateRemote finds or makes for r.                           *)
IsPlaceFor(r, i) ==
    \/ Holds(i, r)
    \/ ~IsKnown(r) /\ IsFirstFree(i)
    \/ ~IsKnown(r) /\ ~IsKnown(Nobody) /\ IsOldest(i)

(* Mutant of IsOldSession: a session that is behind is a new one.          *)
IsNoSession(e, m) == FALSE

IsOldSession(e, m) ==
    /\ e.id = m.id
    /\ e.bootId # 0
    /\ e.bootId # m.boot
    /\ ~IsNewer(m.boot, e.bootId, BootModulus)

(* The window once _updateRemote is done: emptied with every new session,  *)
(* and for a newcomer.                                                     *)
WindowFor(e, m) ==
    IF e.id = m.id /\ e.bootId = m.boot THEN e.window ELSE EmptyWindow

(* _markRemoteSeen.                                                        *)
Seen(r, bootId, win, endpoint) ==
    [id |-> r, bootId |-> bootId, window |-> win, endpoint |-> endpoint,
     lastSeen |-> Clock, state |-> "ONLINE"]

(* What the history forgets of a remote that is pushed out.                *)
Tell(r, i) ==
    heard' = IF Holds(i, r) \/ Holds(i, Nobody)
             THEN [heard EXCEPT ![r] = now]
             ELSE [heard EXCEPT ![r] = now, ![table[i].id] = 0]

StillHandled(r, i) ==
    IF Holds(i, r) THEN handled
    ELSE {h \in handled : h.id # table[i].id}

-----------------------------------------------------------------------------

(* A packet of a session older than the known one changes nothing.         *)
DiscardOldSession(m) ==
    /\ \E i \in Places : Holds(i, m.id) /\ IsOldSession(table[i], m)
    /\ UNCHANGED vars

(* Mutant of DiscardDuplicate: liveness is marked before the window is     *)
(* asked.                                                                  *)
DiscardDuplicateSeen(m) ==
    \E i \in Places :
        /\ Holds(i, m.id)
        /\ IsReliable(m)
        /\ ~IsOldSession(table[i], m)
        /\ IsDuplicate(WindowFor(table[i], m), m.seq)
        /\ table' = [table EXCEPT ![i] =
                        Seen(m.id, m.boot, @.window, Origin(m))]
        /\ Tell(m.id, i)
        /\ UNCHANGED <<now, checked, handled, repeated>>

(* _isDuplicate says no: neither endpoint nor liveness have been touched.  *)
DiscardDuplicate(m) ==
    \E i \in Places :
        /\ Holds(i, m.id)
        /\ IsReliable(m)
        /\ ~IsOldSession(table[i], m)
        /\ IsDuplicate(WindowFor(table[i], m), m.seq)
        /\ UNCHANGED vars

(* The packet is taken: session, window, endpoint and liveness follow it,  *)
(* and the handler gets it.                                                *)
Accepted(m) ==
    \E i \in Places :
        LET win == WindowFor(table[i], m) IN
        /\ IsPlaceFor(m.id, i)
        /\ ~IsOldSession(table[i], m)
        /\ IsReliable(m) => ~IsDuplicate(win, m.seq)
        /\ table' = [table EXCEPT ![i] =
                        Seen(m.id, m.boot,
                             IF IsReliable(m) THEN Accept(win, m.seq) ELSE win,
                             Origin(m))]
        /\ Tell(m.id, i)
        /\ IF IsReliable(m)
           THEN /\ handled' = StillHandled(m.id, i) \cup {m}
                /\ repeated' = repeated \cup ({m} \cap StillHandled(m.id, i))
           ELSE /\ handled' = StillHandled(m.id, i)
                /\ UNCHANGED repeated
        /\ UNCHANGED <<now, checked>>

(* registerRemote: an endpoint known beforehand, its session not yet.      *)
RegisterRemote(r) ==
    \E i \in Places :
        /\ IsPlaceFor(r, i)
        /\ table' = [table EXCEPT ![i] =
                        IF Holds(i, r)
                        THEN Seen(r, @.bootId, @.window, Configured)
                        ELSE Seen(r, 0, EmptyWindow, Configured)]
        /\ Tell(r, i)
        /\ handled' = StillHandled(r, i)
        /\ UNCHANGED <<now, checked, repeated>>

(* Mutant of StateAfter: the clock readings are subtracted as plain        *)
(* numbers, and a remote heard before the rollover seems just heard.       *)
StateAfterPlain(lastSeen) ==
    LET elapsed == Clock - lastSeen IN
    CASE elapsed < StaleTimeout   -> "ONLINE"
      [] StaleTimeout <= elapsed /\ elapsed < OfflineTimeout -> "STALE"
      [] OTHER                    -> "OFFLINE"

StateAfter(lastSeen) ==
    LET elapsed == Delta(Clock, lastSeen, ClockModulus) IN
    CASE elapsed < StaleTimeout   -> "ONLINE"
      [] StaleTimeout <= elapsed /\ elapsed < OfflineTimeout -> "STALE"
      [] OTHER                    -> "OFFLINE"

UpdateDeviceStates ==
    /\ now - checked >= CheckPeriod
    /\ checked' = now
    /\ table' = [i \in Places |->
                    IF Holds(i, Nobody) THEN table[i]
                    ELSE [table[i] EXCEPT !.state = StateAfter(table[i].lastSeen)]]
    /\ UNCHANGED <<now, heard, handled, repeated>>

(* Time passes, but loop() comes to the refresh in the end.                *)
Tick ==
    /\ now < MaxNow
    /\ now - checked < CheckPeriod + MaxDelay
    /\ now' = now + 1
    /\ UNCHANGED <<table, checked, heard, handled, repeated>>

Next ==
    \/ \E m \in Packets :
          \/ DiscardOldSession(m)
          \/ DiscardDuplicate(m)
          \/ Accepted(m)
    \/ \E r \in Remotes : RegisterRemote(r)
    \/ UpdateDeviceStates
    \/ Tick

Spec == Init /\ [][Next]_vars

-----------------------------------------------------------------------------

States == {"UNKNOWN", "ONLINE", "STALE", "OFFLINE"}

Origins == [boot : 0 .. MaxBoots, seq : 0 .. MaxSeq]

(* Every variable keeps its type, and no remote has two places.            *)
TypeOK ==
    /\ table \in [Places -> [id : Remotes \cup {Nobody}, bootId : 0 .. MaxBoots,
                             window : Windows, endpoint : Origins,
                             lastSeen : 0 .. ClockModulus - 1, state : States]]
    /\ \A i, j \in Places : Holds(i, table[j].id) => i = j \/ Holds(i, Nobody)
    /\ now \in 0 .. MaxNow
    /\ checked \in 0 .. now
    /\ heard \in [Remotes -> 0 .. now]
    /\ handled \subseteq Packets
    /\ repeated \subseteq Packets

(* A reliable packet is handled twice only if its sender was pushed out of *)
(* the table in between, and its window with it, whatever the order in     *)
(* which the packets of its sessions arrive (IoTNode.cpp:358, 579-584).    *)
AtMostOnceWhileKnown == repeated = {}

(* What the table says of a remote is true of its silence, though the      *)
(* states are only refreshed now and then: one heard within StaleTimeout   *)
(* is ONLINE, one that is ONLINE was heard within StaleTimeout and a       *)
(* refresh, and an OFFLINE one has been silent for OfflineTimeout; unless  *)
(* it has been silent for the whole cycle of millis(), when it seems just  *)
(* heard (IoTNode.cpp:625-641).                                            *)
StateTellsSilence ==
    \A i \in Places :
        ~Holds(i, Nobody) =>
            LET silence == now - heard[table[i].id] IN
            /\ silence < StaleTimeout => table[i].state = "ONLINE"
            /\ table[i].state = "ONLINE" =>
                  \/ silence < StaleTimeout + CheckPeriod + MaxDelay
                  \/ silence >= ClockModulus
            /\ table[i].state = "OFFLINE" => silence >= OfflineTimeout

(* The rollovers of millis() before a moment.                              *)
Rollovers(t) == t \div ClockModulus

(* A newcomer pushes out a remote silent at least as long as every other,  *)
(* unless millis() rolled over after one of them was heard: lastSeen is    *)
(* compared as a plain number (IoTNode.cpp:579-582).                       *)
LongestSilentLeaves ==
    [][\A i, j \in Places :
          /\ ~Holds(i, Nobody) /\ ~Holds(j, Nobody)
          /\ table'[i].id # table[i].id
          /\ Rollovers(heard[table[i].id]) = Rollovers(heard[table[j].id])
          => heard[table[i].id] <= heard[table[j].id]]_vars

(* "un replay antiguo no puede mantener un remoto en ONLINE ni cambiar su  *)
(* endpoint" (IoTNode.cpp:336-338): whenever endpoint or liveness of a     *)
(* known remote follow a reliable packet, it is one handled for the first  *)
(* time.                                                                   *)
ReplayMovesNothing ==
    [][\A i \in Places :
          LET e == table'[i]
              m == [id |-> e.id, boot |-> e.endpoint.boot, seq |-> e.endpoint.seq]
          IN  /\ e.id # Nobody
              /\ \/ e.endpoint # table[i].endpoint
                 \/ heard'[e.id] # heard[e.id]
              /\ e.endpoint.seq # 0
              => m \in handled' \ {h \in handled : Holds(i, h.id)}]_vars

=============================================================================
