---------------------------- MODULE RemoteConfig ----------------------------
(***************************************************************************)
(* The configuration of an emitter: the copy in RAM, the file in flash,    *)
(* what the node is running with, and the CONFIG packets that change them. *)
(* handleConfig changes RAM first, then rewrites the file through a        *)
(* temporary one, answers, and applies; power may be cut at any step.      *)
(*                                                                         *)
(* Every setting is treated alike by the code: present in the packet or    *)
(* not, in range or not.  Values are small numbers, 0 the default.  A name *)
(* that ends in a blank or holds a line break is accepted, but its file    *)
(* cannot be read back: each line is trimmed before it is checked          *)
(* (IoTStorage.cpp:205-206, 276-280).                                      *)
(*                                                                         *)
(* LittleFS is external: a file opened for writing holds what was written  *)
(* once it is closed; a refused write is not noticed, for nobody looks at  *)
(* what print and printf return; rename is atomic.                         *)
(***************************************************************************)
EXTENDS Naturals

CONSTANTS
    Settings,       \* "heartbeat", "antirebote", "name", "auth"
    Accepted,       \* the values of each setting that are in range
    Unreadable,     \* the names whose file cannot be read back
    Values,         \* the values a packet or an older file may hold
    Packets         \* the CONFIG packets that may come

(* A CONFIG packet asks for some settings; it may carry a version (0: none)*)
(* and order a reset of the statistics and a reboot.                       *)
AllPackets ==
    [asks : UNION {[S -> Values] : S \in SUBSET Settings},
     version : Values, resetStats : BOOLEAN, reboot : BOOLEAN]

NoPacket == [asks |-> <<>>, version |-> 0, resetStats |-> FALSE, reboot |-> FALSE]

ASSUME ConfigAssumption ==
    /\ {"heartbeat", "name", "auth"} \subseteq Settings
    /\ "version" \notin Settings
    /\ {0, 1} \subseteq Values
    /\ Accepted \in [Settings -> SUBSET Values]
    /\ \A s \in Settings : 0 \in Accepted[s]
    /\ Unreadable \subseteq Accepted["name"] \ {0}
    /\ Packets \subseteq AllPackets

VARIABLES
    file,       \* /iot/config.json
    tmp,        \* the temporary file beside it
    mounted,    \* _mounted
    cfg,        \* _config, in RAM
    running,    \* heartbeat interval of the node, mode of its auth provider
    pc,         \* where handleConfig and saveConfig are
    request,    \* the CONFIG packet being handled
    changed,    \* changesApplied > 0
    result,     \* the RESULT_CODE of the RESPONSE
    old,        \* history: cfg and file before the packet
    refused,    \* history: flash refused a write of the last save
    asked,      \* history: the fields CONFIG packets set since boot
    lost,       \* history: a file that cannot be read back was saved since boot
    blind       \* history: this boot did not load the file

store == <<file, tmp>>
handler == <<pc, request, changed, result>>
history == <<old, refused, asked, lost, blind>>
vars == <<store, mounted, cfg, running, handler, history>>

-----------------------------------------------------------------------------

Fields == Settings \cup {"version"}

(* The settings loadConfig checks the range of.                            *)
Intervals == Settings \cap {"heartbeat", "antirebote"}

Defaults == [f \in Fields |-> IF f = "version" THEN 1 ELSE 0]

Absent == [content |-> "absent", config |-> Defaults]

(* Empty, or cut short: the checksum line is missing.                      *)
Broken == [content |-> "broken", config |-> Defaults]

Whole(config) == [content |-> "whole", config |-> config]

IsReadable(config) == config["name"] \notin Unreadable

(* Mutant of Sanitised: a value out of range is taken as it is.            *)
AsWritten(config) == config

Sanitised(config) ==
    [f \in Fields |-> IF f \in Intervals /\ config[f] \notin Accepted[f]
                      THEN Defaults[f] ELSE config[f]]

(* loadConfig: the whole file or the defaults.                             *)
Load(f) ==
    IF f.content = "whole" /\ IsReadable(f.config)
    THEN Sanitised(f.config) ELSE Defaults

Applied(config) == [heartbeat |-> config["heartbeat"], auth |-> config["auth"]]

InRange(p) == {s \in DOMAIN p.asks : p.asks[s] \in Accepted[s]}

SetBy(p) == InRange(p) \cup (IF p.version # 0 THEN {"version"} ELSE {})

(* A file an earlier firmware wrote may hold values that are out of range. *)
FirstConfigs ==
    {c \in [Fields -> Values] :
        c["version"] = 1 /\ \A s \in Settings \ Intervals : c[s] \in Accepted[s]}

Init ==
    /\ file \in {Absent, Broken} \cup {Whole(c) : c \in FirstConfigs}
    /\ tmp = Absent
    /\ mounted = TRUE
    /\ cfg = Load(file)
    /\ running = Applied(cfg)
    /\ pc = "idle"
    /\ request = NoPacket
    /\ changed = FALSE
    /\ result = "OK"
    /\ old = [cfg |-> cfg, file |-> file]
    /\ refused = FALSE
    /\ asked = {}
    /\ lost = FALSE
    /\ blind = FALSE

-----------------------------------------------------------------------------
(* handleConfig up to the call of saveConfig, which fails at once when     *)
(* LittleFS is not mounted.                                                *)
HandleConfig(p) ==
    /\ pc = "idle"
    /\ request' = p
    /\ cfg' = [f \in Fields |->
                  CASE f \in InRange(p)                  -> p.asks[f]
                    [] f = "version" /\ p.version # 0    -> p.version
                    [] OTHER                             -> cfg[f]]
    /\ changed' = (InRange(p) # {} \/ p.resetStats)
    /\ result' = IF changed'
                 THEN IF mounted THEN "OK" ELSE "FAIL"
                 ELSE IF DOMAIN p.asks # {} THEN "INVALID_VALUE" ELSE "OK"
    /\ pc' = IF changed' /\ mounted THEN "remove" ELSE "answer"
    /\ old' = [cfg |-> cfg, file |-> file]
    /\ refused' = FALSE
    /\ asked' = asked \cup SetBy(p)
    /\ UNCHANGED <<store, mounted, running, lost, blind>>

RemoveTmp ==
    /\ pc = "remove"
    /\ tmp' = Absent
    /\ pc' = "open"
    /\ UNCHANGED <<file, mounted, cfg, running, request, changed, result, history>>

OpenFails ==
    /\ pc = "open"
    /\ result' = "FAIL"
    /\ pc' = "answer"
    /\ UNCHANGED <<store, mounted, cfg, running, request, changed, history>>

(* Mutant of OpenTmp: the file itself is opened, and truncated.            *)
OpenInPlace ==
    /\ pc = "open"
    /\ file' = Broken
    /\ tmp' = Broken
    /\ pc' = "write"
    /\ UNCHANGED <<mounted, cfg, running, request, changed, result, history>>

OpenTmp ==
    /\ pc = "open"
    /\ tmp' = Broken
    /\ pc' = "write"
    /\ UNCHANGED <<file, mounted, cfg, running, request, changed, result, history>>

(* print, printf and close.                                                *)
WriteTmp ==
    /\ pc = "write"
    /\ \/ /\ tmp' = Whole(cfg)
          /\ UNCHANGED refused
       \/ /\ refused' = TRUE
          /\ UNCHANGED tmp
    /\ pc' = "rename"
    /\ UNCHANGED <<file, mounted, cfg, running, request, changed, result,
                   old, asked, lost, blind>>

Rename ==
    /\ pc = "rename"
    /\ file' = tmp
    /\ tmp' = Absent
    /\ pc' = "answer"
    /\ lost' = (lost \/ refused \/ ~IsReadable(cfg))
    /\ UNCHANGED <<mounted, cfg, running, request, changed, result,
                   old, refused, asked, blind>>

(* Mutant of RenameFails: the failure is not passed on.                    *)
RenameFailsUnseen ==
    /\ pc = "rename"
    /\ tmp' = Absent
    /\ pc' = "answer"
    /\ UNCHANGED <<file, mounted, cfg, running, request, changed, result, history>>

RenameFails ==
    /\ pc = "rename"
    /\ tmp' = Absent
    /\ result' = "FAIL"
    /\ pc' = "answer"
    /\ UNCHANGED <<file, mounted, cfg, running, request, changed, history>>

(* _sendResponse tells result and the version now in RAM.                  *)
SendResponse ==
    /\ pc = "answer"
    /\ pc' = "apply"
    /\ UNCHANGED <<store, mounted, cfg, running, request, changed, result, history>>

(* The locals of the two functions are gone, and what history says of them.*)
Done(next) ==
    /\ pc' = next
    /\ request' = NoPacket
    /\ changed' = FALSE
    /\ result' = "OK"
    /\ old' = [cfg |-> cfg', file |-> file']
    /\ refused' = FALSE

(* onConfigApplied, whether or not the file was written; then the reboot.  *)
Apply ==
    /\ pc = "apply"
    /\ running' = IF changed THEN Applied(cfg) ELSE running
    /\ UNCHANGED <<store, mounted, cfg, asked, lost, blind>>
    /\ Done(IF request.reboot THEN "restart" ELSE "idle")

(* Mutant of Restart: setup() does not load the file.                      *)
RestartUnloaded ==
    /\ \E mounts, reads \in BOOLEAN :
          /\ mounted' = mounts
          /\ blind' = ~(mounts /\ reads)
    /\ cfg' = Defaults
    /\ running' = Applied(cfg')
    /\ asked' = {}
    /\ lost' = FALSE
    /\ UNCHANGED store
    /\ Done("idle")

(* The power is cut, or ESP.restart(), at any step; then setup().  The     *)
(* mount, or the opening of the file for reading, may fail.                *)
Restart ==
    /\ \E mounts, reads \in BOOLEAN :
          /\ mounted' = mounts
          /\ blind' = ~(mounts /\ reads)
          /\ cfg' = IF mounts /\ reads THEN Load(file) ELSE Defaults
    /\ running' = Applied(cfg')
    /\ asked' = {}
    /\ lost' = FALSE
    /\ UNCHANGED store
    /\ Done("idle")

(* retryStorageIfNeeded: LittleFS is there again, the file is not loaded.  *)
RetryMount ==
    /\ pc = "idle"
    /\ ~mounted
    /\ mounted' = TRUE
    /\ UNCHANGED <<store, cfg, running, handler, history>>

Next ==
    \/ \E p \in Packets : HandleConfig(p)
    \/ RemoveTmp
    \/ OpenFails
    \/ OpenTmp
    \/ WriteTmp
    \/ Rename
    \/ RenameFails
    \/ SendResponse
    \/ Apply
    \/ Restart
    \/ RetryMount

Spec == Init /\ [][Next]_vars

-----------------------------------------------------------------------------

Configs == [Fields -> Values]

Files == [content : {"absent", "broken", "whole"}, config : Configs]

(* Every variable keeps its type, and what RAM holds is in range, whatever *)
(* was in flash.                                                           *)
TypeOK ==
    /\ {file, tmp, old.file} \subseteq Files
    /\ mounted \in BOOLEAN
    /\ {cfg, old.cfg} \subseteq Configs
    /\ \A s \in Settings : cfg[s] \in Accepted[s]
    /\ running \in [heartbeat : Values, auth : Values]
    /\ pc \in {"idle", "remove", "open", "write", "rename", "answer", "apply",
               "restart"}
    /\ request \in Packets \cup {NoPacket}
    /\ changed \in BOOLEAN
    /\ result \in {"OK", "FAIL", "INVALID_VALUE"}
    /\ refused \in BOOLEAN
    /\ asked \subseteq Fields
    /\ lost \in BOOLEAN
    /\ blind \in BOOLEAN

(* Wherever the power is cut, the next boot finds the configuration before *)
(* the packet or the one after it, whole, unless flash refused the write   *)
(* or the name cannot be read back (IoTStorage.cpp:343-353).               *)
OldOrNew ==
    \/ Load(file) \in {Load(old.file), cfg}
    \/ pc \in {"answer", "apply"} /\ (refused \/ ~IsReadable(cfg))

(***************************************************************************)
(* The RESPONSE against RAM, flash and what the node runs with.  OK with a *)
(* change: a reboot finds the new configuration, with the two exceptions.  *)
(* OK without one: nothing was written.  FAIL: flash is as it was, and     *)
(* what was in range is in RAM all the same.  INVALID_VALUE: neither       *)
(* moved, but for the version.  And whatever was answered, at the end the  *)
(* node runs with what is in RAM (IoTConfigHandler.cpp:90-107).            *)
(*                                                                         *)
(* One OK is not what the comment asks for: of settings all out of range   *)
(* "el cliente debe recibir INVALID_VALUE en vez de un OK enganoso"        *)
(* (IoTConfigHandler.cpp:86-89), and RESET_STATS in the same packet, which *)
(* counts as a change (:72-76), turns it into OK.  That is the only case.  *)
(***************************************************************************)
ResponseIsTrue ==
    /\ pc = "apply" =>
        /\ result = "OK" /\ DOMAIN request.asks # {} =>
              InRange(request) # {} \/ request.resetStats
        /\ result = "OK" =>
              IF changed
              THEN Load(file) = cfg \/ refused \/ ~IsReadable(cfg)
              ELSE file = old.file
        /\ result = "FAIL" =>
              /\ file = old.file
              /\ \A s \in InRange(request) : cfg[s] = request.asks[s]
        /\ result = "INVALID_VALUE" =>
              /\ DOMAIN request.asks # {} /\ InRange(request) = {}
              /\ file = old.file
              /\ \A s \in Settings : cfg[s] = old.cfg[s]
    /\ pc \in {"idle", "restart"} => running = Applied(cfg)

(* A stored setting changes only because a CONFIG packet of this boot set  *)
(* it, even if it was answered FAIL; unless the boot did not load the      *)
(* file, whose other settings the next CONFIG then overwrites with the     *)
(* defaults, or a save of this boot cannot be read back                    *)
(* (main.cpp:178-189; IoTStorage.cpp:347-353).                             *)
NoSettingForgotten ==
    [][\A f \in Fields :
          Load(file)'[f] # Load(file)[f] =>
              f \in asked \/ blind \/ lost']_vars

=============================================================================
