------------------------ MODULE RemoteConfig_proofs ------------------------
(***************************************************************************)
(* What a CONFIG packet may do to the configuration of an emitter, for any *)
(* settings, ranges and packets, wherever the power is cut.                *)
(***************************************************************************)
EXTENDS RemoteConfig, TLAPS

(* What a file may hold: the settings whose range is not checked when the  *)
(* file is read are in range all the same.                                 *)
FileOK(f) ==
    /\ f \in Files
    /\ f.content = "whole"
          => \A s \in Settings \ Intervals : f.config[s] \in Accepted[s]

ConfigOK(config) ==
    /\ config \in Configs
    /\ \A s \in Settings : config[s] \in Accepted[s]

(* Where handleConfig is says what it has done to the file so far.         *)
SaveOK ==
    /\ pc \in {"idle", "restart"} => file = old.file
    /\ pc \in {"remove", "open", "write", "rename"}
          => file = old.file /\ changed /\ result = "OK"
    /\ pc = "rename" => refused \/ tmp = Whole(cfg)
    /\ pc \in {"answer", "apply"} =>
          /\ result # "OK" \/ ~changed => file = old.file
          /\ result = "OK" /\ changed => refused \/ file = Whole(cfg)
          /\ result = "INVALID_VALUE" =>
                \A s \in Settings : cfg[s] = old.cfg[s]

(* And what the answer will be true of: RAM holds what was in range, and   *)
(* the node runs with what is in RAM until a change waits to be applied.   *)
HandlingOK ==
    /\ pc \in {"idle", "restart"} => running = Applied(cfg)
    /\ pc \notin {"idle", "restart"} =>
          /\ changed <=> (InRange(request) # {} \/ request.resetStats)
          /\ \A s \in InRange(request) : cfg[s] = request.asks[s]
          /\ ~changed => running = Applied(cfg)
          /\ result = "OK" /\ ~changed => DOMAIN request.asks = {}
          /\ result = "INVALID_VALUE" => DOMAIN request.asks # {} /\ ~changed

(* RAM and flash agree on every field no packet has set since boot.        *)
Remembered ==
    ~blind /\ ~lost => \A f \in Fields \ asked : Load(file)[f] = cfg[f]

ConfigInv ==
    /\ TypeOK
    /\ FileOK(file) /\ FileOK(tmp) /\ ConfigOK(cfg)
    /\ SaveOK
    /\ HandlingOK
    /\ Remembered

-----------------------------------------------------------------------------

LEMMA FieldsDiffer ==
    /\ "version" \in Fields /\ "version" \notin Settings
    /\ "name" \in Settings /\ "heartbeat" \in Settings /\ "auth" \in Settings
    /\ Fields = Settings \cup {"version"} /\ Intervals \subseteq Settings
BY ConfigAssumption DEF ConfigAssumption, Fields, Intervals

LEMMA AcceptedValues ==
    /\ \A s \in Settings : Accepted[s] \subseteq Values /\ 0 \in Accepted[s]
    /\ 0 \in Values /\ 1 \in Values
BY ConfigAssumption DEF ConfigAssumption

LEMMA DefaultsOK == ConfigOK(Defaults)
BY FieldsDiffer, AcceptedValues DEF ConfigOK, Configs, Defaults

(* A configuration in RAM is in range, whatever was in flash.              *)
LEMMA LoadOK ==
    ASSUME NEW f, FileOK(f)
    PROVE  ConfigOK(Load(f))
<1>1. CASE f.content = "whole" /\ IsReadable(f.config)
  <2>1. /\ f.config \in Configs
        /\ \A s \in Settings \ Intervals : f.config[s] \in Accepted[s]
    BY <1>1 DEF FileOK, Files
  <2>2. Load(f) = Sanitised(f.config)
    BY <1>1 DEF Load
  <2>3. ASSUME NEW s \in Fields
        PROVE  /\ Sanitised(f.config)[s] \in Values
               /\ s \in Settings => Sanitised(f.config)[s] \in Accepted[s]
    BY <2>1, DefaultsOK DEF Sanitised, Configs, ConfigOK
  <2>4. Sanitised(f.config) \in Configs
    BY <2>3 DEF Sanitised, Configs
  <2> QED
    BY <2>2, <2>3, <2>4, FieldsDiffer DEF ConfigOK
<1>2. CASE ~(f.content = "whole" /\ IsReadable(f.config))
  BY <1>2, DefaultsOK DEF Load
<1> QED
  BY <1>1, <1>2

(* What was saved whole under a name that can be read back is read back.   *)
LEMMA LoadWhole ==
    ASSUME NEW c, ConfigOK(c), IsReadable(c)
    PROVE  Load(Whole(c)) = c
<1>1. Load(Whole(c)) = Sanitised(c)
  BY DEF Load, Whole
<1>2. c \in [Fields -> Values] /\ \A s \in Settings : c[s] \in Accepted[s]
  BY DEF ConfigOK, Configs
<1>3. Sanitised(c) = [f \in Fields |-> c[f]]
  BY <1>2, FieldsDiffer DEF Sanitised
<1> QED
  BY <1>1, <1>2, <1>3

LEMMA WholeOK ==
    ASSUME NEW c, ConfigOK(c)
    PROVE  FileOK(Whole(c))
BY DEF FileOK, Files, Whole, ConfigOK

LEMMA NoFileOK == FileOK(Absent) /\ FileOK(Broken)
BY DefaultsOK DEF FileOK, Files, Absent, Broken, ConfigOK

LEMMA AppliedType ==
    ASSUME NEW c, ConfigOK(c)
    PROVE  Applied(c) \in [heartbeat : Values, auth : Values]
BY FieldsDiffer DEF Applied, ConfigOK, Configs

(* A packet asks for settings only, and sets those in range.               *)
LEMMA PacketSets ==
    ASSUME NEW p \in Packets
    PROVE  /\ InRange(p) \subseteq Settings
           /\ SetBy(p) \subseteq Fields
           /\ p.version \in Values
           /\ \A s \in InRange(p) : p.asks[s] \in Accepted[s]
<1>1. p \in AllPackets
  BY ConfigAssumption DEF ConfigAssumption
<1>2. PICK S \in SUBSET Settings : p.asks \in [S -> Values]
  BY <1>1 DEF AllPackets
<1>3. DOMAIN p.asks \subseteq Settings
  BY <1>2
<1> QED
  BY <1>1, <1>3, FieldsDiffer DEF AllPackets, InRange, SetBy

LEMMA InitConfigInv == Init => ConfigInv
<1> SUFFICES ASSUME Init PROVE ConfigInv
  OBVIOUS
<1>1. FileOK(file) /\ FileOK(tmp)
  <2>1. ASSUME NEW c \in FirstConfigs PROVE FileOK(Whole(c))
    BY DEF FirstConfigs, FileOK, Files, Whole, Configs
  <2> QED
    BY <2>1, NoFileOK DEF Init
<1>2. ConfigOK(cfg)
  BY <1>1, LoadOK DEF Init
<1>3. running \in [heartbeat : Values, auth : Values]
  BY <1>2, AppliedType DEF Init
<1>4. old.cfg = cfg /\ old.file = file
  BY DEF Init
<1>5. TypeOK
  BY <1>1, <1>2, <1>3, <1>4 DEF Init, TypeOK, FileOK, ConfigOK
<1>6. SaveOK /\ HandlingOK /\ Remembered
  BY <1>4 DEF Init, SaveOK, HandlingOK, Remembered
<1> QED
  BY <1>1, <1>2, <1>5, <1>6 DEF ConfigInv

(* handleConfig before the save: RAM takes what is in range.               *)
LEMMA HandleKeeps ==
    ASSUME ConfigInv, NEW p \in Packets, HandleConfig(p)
    PROVE  ConfigInv'
<1>1. /\ pc = "idle" /\ request' = p
      /\ changed' = (InRange(p) # {} \/ p.resetStats)
      /\ pc' = IF changed' /\ mounted THEN "remove" ELSE "answer"
      /\ old' = [cfg |-> cfg, file |-> file]
      /\ refused' = FALSE
      /\ asked' = asked \cup SetBy(p)
      /\ UNCHANGED <<file, tmp, mounted, running, lost, blind>>
  BY DEF HandleConfig, store
<1>2. result' = IF changed'
                THEN IF mounted THEN "OK" ELSE "FAIL"
                ELSE IF DOMAIN p.asks # {} THEN "INVALID_VALUE" ELSE "OK"
  BY DEF HandleConfig
<1>3. /\ DOMAIN cfg' = Fields
      /\ cfg' = [f \in Fields |-> cfg'[f]]
      /\ \A f \in Fields :
            \/ f \in InRange(p) /\ cfg'[f] = p.asks[f]
            \/ f = "version" /\ p.version # 0 /\ cfg'[f] = p.version
            \/ ~(f = "version" /\ p.version # 0) /\ f \notin InRange(p)
               /\ cfg'[f] = cfg[f]
  BY DEF HandleConfig
<1>4. /\ FileOK(file) /\ FileOK(tmp) /\ ConfigOK(cfg) /\ SaveOK /\ Remembered
      /\ HandlingOK /\ TypeOK
  BY DEF ConfigInv
<1>5. ConfigOK(cfg')
  <2>1. \A f \in Fields : cfg'[f] \in Values
    BY <1>3, <1>4, PacketSets, AcceptedValues DEF ConfigOK, Configs
  <2>2. \A s \in Settings : cfg'[s] \in Accepted[s]
    BY <1>3, <1>4, PacketSets, FieldsDiffer DEF ConfigOK
  <2>3. cfg' \in Configs
    BY <1>3, <2>1 DEF Configs
  <2> QED
    BY <2>2, <2>3 DEF ConfigOK
<1>6. Remembered'
  <2>1. \A f \in Fields \ asked' : f \notin asked /\ cfg'[f] = cfg[f]
    BY <1>1, <1>3 DEF SetBy
  <2> QED
    BY <1>1, <1>4, <2>1 DEF Remembered
<1>7. SaveOK'
  <2>1. ~changed' => \A s \in Settings : cfg'[s] = cfg[s]
    BY <1>1, <1>3, FieldsDiffer
  <2> QED
    BY <1>1, <1>2, <2>1 DEF SaveOK
<1>10. HandlingOK'
  <2>1. pc' \notin {"idle", "restart"}
    BY <1>1
  <2>2. \A s \in InRange(p) : cfg'[s] = p.asks[s]
    BY <1>3, PacketSets, FieldsDiffer
  <2>3. ~changed' => running' = Applied(cfg')
    <3>1. ~changed' => \A s \in Settings : cfg'[s] = cfg[s]
      BY <1>1, <1>3, FieldsDiffer
    <3>2. running = Applied(cfg)
      BY <1>1, <1>4 DEF HandlingOK
    <3> QED
      BY <1>1, <3>1, <3>2, FieldsDiffer DEF Applied
  <2>4. changed' <=> (InRange(p) # {} \/ p.resetStats)
    BY <1>1
  <2> QED
    BY <1>1, <1>2, <2>1, <2>2, <2>3, <2>4 DEF HandlingOK
<1>8. changed' \in BOOLEAN /\ result' \in {"OK", "FAIL", "INVALID_VALUE"}
  BY <1>1, <1>2
<1>9. TypeOK'
  BY <1>1, <1>4, <1>5, <1>8, PacketSets DEF TypeOK, ConfigOK
<1> QED
  BY <1>1, <1>4, <1>5, <1>6, <1>7, <1>9, <1>10 DEF ConfigInv

(* What setup() and the end of a packet leave behind.                      *)
LEMMA DoneKeeps ==
    ASSUME ConfigInv, NEW next \in {"idle", "restart"}, Done(next),
           UNCHANGED <<file, tmp>>, ConfigOK(cfg'), Remembered',
           mounted' \in BOOLEAN, lost' \in BOOLEAN, blind' \in BOOLEAN,
           asked' \subseteq Fields,
           running' = Applied(cfg')
    PROVE  ConfigInv'
<1>1. /\ pc' = next /\ request' = NoPacket /\ changed' = FALSE
      /\ result' = "OK" /\ refused' = FALSE
      /\ old'.cfg = cfg' /\ old'.file = file'
  BY DEF Done
<1>2. SaveOK' /\ HandlingOK'
  BY <1>1 DEF SaveOK, HandlingOK
<1>3. FileOK(file') /\ FileOK(tmp')
  BY DEF ConfigInv
<1>4. TypeOK'
  BY <1>1, <1>3, AppliedType DEF TypeOK, FileOK, ConfigOK
<1> QED
  BY <1>2, <1>3, <1>4 DEF ConfigInv

LEMMA NextConfigInv == ConfigInv /\ [Next]_vars => ConfigInv'
<1> SUFFICES ASSUME ConfigInv, [Next]_vars PROVE ConfigInv'
  OBVIOUS
<1>0. /\ FileOK(file) /\ FileOK(tmp) /\ ConfigOK(cfg) /\ SaveOK /\ Remembered
      /\ HandlingOK /\ TypeOK
  BY DEF ConfigInv
<1>1. ASSUME NEW p \in Packets, HandleConfig(p) PROVE ConfigInv'
  BY <1>1, HandleKeeps
<1>2. CASE RemoveTmp \/ OpenTmp
  <2>1. /\ tmp' \in {Absent, Broken}
        /\ pc \in {"remove", "open"} /\ pc' \in {"open", "write"}
        /\ UNCHANGED <<file, mounted, cfg, running, request, changed, result,
                       old, refused, asked, lost, blind>>
    BY <1>2 DEF RemoveTmp, OpenTmp, history
  <2>2. FileOK(tmp')
    BY <2>1, NoFileOK
  <2> QED
    BY <1>0, <2>1, <2>2 DEF ConfigInv, TypeOK, SaveOK, HandlingOK, Remembered, FileOK
<1>3. CASE OpenFails \/ RenameFails
  <2>1. /\ tmp' \in {tmp, Absent}
        /\ pc \in {"open", "rename"} /\ pc' = "answer" /\ result' = "FAIL"
        /\ UNCHANGED <<file, mounted, cfg, running, request, changed,
                       old, refused, asked, lost, blind>>
    BY <1>3 DEF OpenFails, RenameFails, history, store
  <2>2. FileOK(tmp')
    BY <1>0, <2>1, NoFileOK
  <2> QED
    BY <1>0, <2>1, <2>2 DEF ConfigInv, TypeOK, SaveOK, HandlingOK, Remembered, FileOK
<1>4. CASE WriteTmp
  <2>1. /\ \/ tmp' = Whole(cfg) /\ refused' = refused
           \/ tmp' = tmp /\ refused' = TRUE
        /\ pc = "write" /\ pc' = "rename"
        /\ UNCHANGED <<file, mounted, cfg, running, request, changed, result,
                       old, asked, lost, blind>>
    BY <1>4 DEF WriteTmp
  <2>2. FileOK(tmp')
    BY <1>0, <2>1, WholeOK
  <2> QED
    BY <1>0, <2>1, <2>2 DEF ConfigInv, TypeOK, SaveOK, HandlingOK, Remembered, FileOK
<1>5. CASE Rename
  <2>1. /\ pc = "rename" /\ pc' = "answer"
        /\ file' = tmp /\ tmp' = Absent
        /\ lost' = (lost \/ refused \/ ~IsReadable(cfg))
        /\ UNCHANGED <<mounted, cfg, running, request, changed, result,
                       old, refused, asked, blind>>
    BY <1>5 DEF Rename
  <2>2. refused \/ tmp = Whole(cfg)
    BY <1>0, <2>1 DEF SaveOK
  <2>3. ~lost' => ~lost /\ Load(file') = cfg
    BY <1>0, <2>1, <2>2, LoadWhole
  <2>4. Remembered'
    BY <2>1, <2>3 DEF Remembered
  <2>5. SaveOK'
    BY <1>0, <2>1, <2>2 DEF SaveOK
  <2>6. lost' \in BOOLEAN /\ HandlingOK'
    BY <1>0, <2>1 DEF HandlingOK
  <2> QED
    BY <1>0, <2>1, <2>4, <2>5, <2>6, NoFileOK DEF ConfigInv, TypeOK, FileOK
<1>6. CASE SendResponse
  BY <1>0, <1>6
  DEF SendResponse, store, history, ConfigInv, TypeOK, SaveOK, HandlingOK,
      Remembered, FileOK
<1>7. CASE Apply
  <2>1. /\ UNCHANGED <<file, tmp, mounted, cfg, asked, lost, blind>>
        /\ running' = Applied(cfg')
    BY <1>0, <1>7 DEF Apply, store, HandlingOK
  <2>2. PICK next \in {"idle", "restart"} : Done(next)
    BY <1>7 DEF Apply
  <2>3. Remembered'
    BY <1>0, <2>1 DEF Remembered
  <2> QED
    BY <1>0, <2>1, <2>2, <2>3, DoneKeeps DEF TypeOK
<1>8. CASE Restart
  <2>1. PICK mounts \in BOOLEAN, reads \in BOOLEAN :
          /\ mounted' = mounts
          /\ blind' = ~(mounts /\ reads)
          /\ cfg' = IF mounts /\ reads THEN Load(file) ELSE Defaults
    BY <1>8 DEF Restart
  <2>2. /\ running' = Applied(cfg') /\ asked' = {} /\ lost' = FALSE
        /\ UNCHANGED <<file, tmp>> /\ Done("idle")
    BY <1>8 DEF Restart, store
  <2>3. ConfigOK(cfg')
    BY <1>0, <2>1, LoadOK, DefaultsOK
  <2>4. Remembered'
    BY <2>1, <2>2 DEF Remembered
  <2>5. mounted' \in BOOLEAN /\ blind' \in BOOLEAN
    BY <2>1
  <2> QED
    BY <2>2, <2>3, <2>4, <2>5, DoneKeeps
<1>9. CASE RetryMount
  BY <1>0, <1>9
  DEF RetryMount, store, handler, history, ConfigInv, TypeOK, SaveOK,
      HandlingOK, Remembered, FileOK
<1>10. CASE UNCHANGED vars
  BY <1>0, <1>10
  DEF vars, store, handler, history, ConfigInv, TypeOK, SaveOK, HandlingOK,
      Remembered, FileOK
<1> QED
  BY <1>1, <1>2, <1>3, <1>4, <1>5, <1>6, <1>7, <1>8, <1>9, <1>10 DEF Next

LEMMA ConfigInvariance == Spec => []ConfigInv
BY InitConfigInv, NextConfigInv, PTL DEF Spec

-----------------------------------------------------------------------------

(***************************************************************************)
(* Every variable keeps its type, and no setting in RAM is ever out of     *)
(* range (IoTStorage.cpp:180-304, IoTConfigHandler.cpp:20-123).            *)
(***************************************************************************)
THEOREM TypeCorrectness == Spec => []TypeOK
<1>1. ConfigInv => TypeOK
  BY DEF ConfigInv
<1> QED
  BY <1>1, ConfigInvariance, PTL

(***************************************************************************)
(* Wherever the power is cut, the next boot finds the configuration before *)
(* the packet or the one after it, but for a refused write and for a name  *)
(* that cannot be read back (IoTStorage.cpp:306-355).                      *)
(***************************************************************************)
THEOREM SaveIsAtomic == Spec => []OldOrNew
<1>1. ConfigInv => OldOrNew
  <2> SUFFICES ASSUME ConfigInv PROVE OldOrNew
    OBVIOUS
  <2>1. SaveOK /\ TypeOK /\ ConfigOK(cfg)
    BY DEF ConfigInv
  <2>2. CASE file = old.file
    BY <2>2 DEF OldOrNew
  <2>3. CASE file # old.file
    <3>1. pc \in {"answer", "apply"} /\ (refused \/ file = Whole(cfg))
      BY <2>1, <2>3 DEF SaveOK, TypeOK
    <3> QED
      BY <2>1, <3>1, LoadWhole DEF OldOrNew
  <2> QED
    BY <2>2, <2>3
<1> QED
  BY <1>1, ConfigInvariance, PTL

(***************************************************************************)
(* The RESPONSE is true of flash and of RAM, whatever refused the save, OK *)
(* is given to settings all out of range only beside RESET_STATS, and what *)
(* was put in RAM is in force at the end, even after FAIL                  *)
(* (IoTConfigHandler.cpp:86-107).                                          *)
(***************************************************************************)
THEOREM AnswersAreTrue == Spec => []ResponseIsTrue
<1>1. ConfigInv => ResponseIsTrue
  <2> SUFFICES ASSUME ConfigInv PROVE ResponseIsTrue
    OBVIOUS
  <2>1. SaveOK /\ HandlingOK /\ ConfigOK(cfg)
    BY DEF ConfigInv
  <2> QED
    BY <2>1, LoadWhole DEF SaveOK, HandlingOK, ResponseIsTrue
<1> QED
  BY <1>1, ConfigInvariance, PTL

(***************************************************************************)
(* A stored setting changes only because a packet of this boot set it,     *)
(* unless the boot did not load the file or a save of it cannot be read    *)
(* back (main.cpp:178-189, IoTStorage.cpp:342-354).                        *)
(***************************************************************************)
THEOREM SettingsAreKept == Spec => NoSettingForgotten
<1>1. ConfigInv /\ [Next]_vars
        => [\A f \in Fields :
              Load(file)'[f] # Load(file)[f] =>
                  f \in asked \/ blind \/ lost']_vars
  <2> SUFFICES ASSUME ConfigInv, [Next]_vars, NEW f \in Fields,
                      Load(file')[f] # Load(file)[f]
               PROVE  f \in asked \/ blind \/ lost'
    OBVIOUS
  <2>1. Rename
    BY DEF Next, HandleConfig, RemoveTmp, OpenFails, OpenTmp, WriteTmp,
           RenameFails, SendResponse, Apply, Restart, RetryMount, vars, store
  <2>2. /\ file' = tmp /\ pc = "rename"
        /\ lost' = (lost \/ refused \/ ~IsReadable(cfg))
    BY <2>1 DEF Rename
  <2>3. ~lost' => Load(file') = cfg
    BY <2>2, LoadWhole DEF ConfigInv, SaveOK
  <2> QED
    BY <2>2, <2>3 DEF ConfigInv, Remembered
<1> QED
  BY <1>1, ConfigInvariance, PTL DEF Spec, NoSettingForgotten

=============================================================================
