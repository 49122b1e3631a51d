---------------------------- MODULE MCAlarmLink ----------------------------
(***************************************************************************)
(* Instances of AlarmLink.  The window is 2, the queue has 2 slots; SEQ    *)
(* and BOOT_ID have enough values never to wrap.                           *)
(***************************************************************************)
EXTENDS AlarmLinkDelivery

MCSeqModulus == 16
MCWindowSize == 2
MCBootModulus == 8
MCMaxRetries == 2

(* Of 8 boot numbers, 7 is behind 1 and 2, and 1 and 2 are ahead of it.    *)
MCBehindIds == {7}

(* While one node has yet to reboot, MaxSeq packets in each boot; once     *)
(* both have, no boot numbers more than MCSeqAfterReboots.                 *)
MCSeqAfterReboots == 2

MCBound ==
    boots = MaxBoots /\ cBoots = MaxCentralBoots =>
        /\ seq <= MCSeqAfterReboots
        /\ \A m \in net : m.seq <= MCSeqAfterReboots
=============================================================================
