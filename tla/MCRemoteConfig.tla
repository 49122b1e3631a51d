--------------------------- MODULE MCRemoteConfig ---------------------------
(***************************************************************************)
(* Two values in range for each of three settings, one out of range; one   *)
(* name cannot be read back.  antirebote goes the way of heartbeat, but    *)
(* that nothing is applied, and is left out.                               *)
(***************************************************************************)
EXTENDS RemoteConfig

MCSettings == {"heartbeat", "name", "auth"}
MCValues == 0 .. 2
MCAccepted == [s \in MCSettings |-> {0, 1}]
MCUnreadable == {1}

Asking(asks, version, resetStats, reboot) ==
    [asks |-> asks, version |-> version, resetStats |-> resetStats,
     reboot |-> reboot]

Setting(s, v) == [t \in {s} |-> v]

MCPackets ==
    {Asking(Setting(s, v), 0, FALSE, FALSE) : s \in MCSettings, v \in MCValues}
    \cup {Asking(Setting("heartbeat", 2), 2, TRUE, FALSE),
          Asking([heartbeat |-> 1, auth |-> 2], 2, FALSE, TRUE),
          Asking(<<>>, 1, FALSE, FALSE),
          Asking(<<>>, 0, FALSE, TRUE)}
=============================================================================
