# wifi_PIR in TLA+

wifi_PIR is a home alarm made of ESP8266 nodes: emitters with a PIR sensor and
a doorbell, and a central with a buzzer that is bridged to Home Assistant over
MQTT. They speak IoTProtocol V4.3, a binary UDP protocol with acknowledged,
deduplicated delivery (`src/lib/IoTProtocol`). This directory holds TLA+ models
of that system, the TLC runs that check them on small instances, and proofs
that hold for every instance.

## 1. The system

Every node runs one loop, single-threaded: drain the UDP socket (at most eight
datagrams), drive the reliable channel, take one packet from the queue, send a
heartbeat when due (`IoTNode::loop`). What makes the system hard is between
nodes and over time: datagrams are lost, repeated, late and out of order; WiFi
comes and goes under the retries; nodes reboot and lose all but flash; counters
and clocks wrap.

| part | state | operations | interacts with |
|---|---|---|---|
| SEQ / BOOT_ID ordering | - | `seqIsNewer`, `bootIdIsNewer`, `getNextSeq` | window, registry |
| Deduplication window | `seqHighest`, `seqBitmap` per remote | `_isDuplicate`, `_resetRemoteDedup` | fed by every reliable packet accepted by the registry |
| Transmit queue | `_queue[8]`, `_queueCount`, policy | `enqueue`, `_processQueue`, `setOverflowPolicy` | events and HELLO in; channel or direct send out |
| Reliable channel | `_reliable`: packet, attempt, deadline, expected session | `_processReliable`, `_handleAck` | one packet of the queue at a time; ACKs of the peer |
| Registry of remotes | `_remotes[8]`: endpoint, bootId, window, liveness | `_updateRemote`, `_markRemoteSeen`, `_updateDeviceStates`, `registerRemote` | session check of every packet; session the channel expects |
| Reception | - | `_processIncoming`, `_sendAutoAck` | verify, ACK, session, dedup, handler, in that order |
| Storage | `/iot/boot_count`, `/iot/config.json`, `/iot/auth.key`, and RAM copies | `begin`, `retryMount`, `getBootId`, `loadConfig`, `saveConfig` | BOOT_ID of every boot; configuration |
| Remote configuration | RAM configuration | `handleConfig`, `_sendResponse`, callback, reboot | storage, heartbeat, auth provider |
| Authentication | key, required flag, provider | `signPacket`, `verifyPacket`, `setAuthProvider` | before every effect of reception; on every send |
| Wire format | packets as bytes | `iot_serialize`, `iot_deserialize`, TLV accessors | all packets |
| Emitter firmware | sensor levels, debounce times, WiFi and OTA state | `setup`, `loop`, `onPacketReceived`, `sendStateReport` | IoTNode, storage, configuration |
| Central firmware | alarm mode, buzzer timer, MQTT mode, sync window | `handleIoTPacket`, `manejarMQTT`, `mqttCallback`, `enviarStateRequestSiCorresponde` | IoTNode, broker |
| Legacy V3.5 firmware | counters per IP, buzzer timer, MQTT mode | `src/legacy` | only each other |
| Tools | - | `src/tools` | imitate the nodes for tests |

What makes each part correct:

- **ordering, window**: within a session no packet is handled twice, on either
  side of the wrap; a packet that arrives for the first time is lost only if it
  is a whole window late.
- **queue**: no packet disappears without a verdict; an overflow costs the less
  important one; the hand-kept count is the number of occupied slots.
- **channel**: every attempt has its whole backoff; five attempts before a
  packet is given up; the channel is always freed.
- **session**: a reboot of either side neither replays old packets nor shuts a
  node out; an acknowledgement means that the packet arrived.
- **registry**: a remote is forgotten only for lack of room, the longest silent
  first; ONLINE, STALE and OFFLINE tell the silence; a replay moves nothing.
- **storage**: the boot numbers announced as persistent never go back,
  whatever moment the power is cut at; a configuration is read back whole or
  not at all.
- **configuration**: RAM, flash and RESPONSE agree; what no packet asked for is
  kept.
- **wire format, authentication**: what is accepted is what was written; a
  disturbed datagram is refused; a packet is signed once, over all of it.
- **emitter**: one event per activation, and an activation that no debounce
  hides is noticed; an update silences the node and always ends.
- **central**: every alarm ends; the mode follows the broker and the broker is
  told the truth; the states are asked for again after an outage.

## 2. Modules

| module | models | code |
|---|---|---|
| `SerialNumbers` | wrap-around comparison and successor | `seqIsNewer`, `bootIdIsNewer`, `getNextSeq` |
| `SeqWindow` | the window as a record, verdict and update | `_isDuplicate`, `_resetRemoteDedup` |
| `DedupSession` | one session through the window | `_processIncoming` from line 358, `getNextSeq` |
| `SlotQueue` | the table of slots and its searches | `QueueEntry`, `_findHighestPriorityEntry`, `_findLowestPriorityEntry`, victims |
| `NodeQueue` | the queue with its callers and ways out | `enqueue`, `_processQueue`, `setOverflowPolicy` |
| `ReliableChannel` | the timing of the packet in flight | `_processReliable`, `_calcBackoff`, `_handleAck` |
| `AlarmLink` | emitter, network and central | `_processIncoming`, `_handleAck`, `_updateRemote`, `setup`, `onPacketReceived` |
| `EventDelivery` | what the link promises, without its means | abstract |
| `AlarmLinkDelivery` | the refinement of `EventDelivery` by `AlarmLink` | - |
| `BootStorage` | the boot counter file and its crashes | `IoTStorage::begin`, `retryMount`, `getBootId`, `_readBootCount`, `_writeBootCount` |
| `RemoteRegistry` | the table of remotes, with eviction | `_updateRemote`, `_markRemoteSeen`, `registerRemote`, `_updateDeviceStates`, `_processIncoming` |
| `RemoteConfig` | a CONFIG packet, RAM, the file and its crashes | `handleConfig`, `loadConfig`, `saveConfig`, `onConfigApplied`, `retryStorageIfNeeded` |
| `CentralBridge` | the loop of the central around its node | `loop`, `handleIoTPacket`, `manejarMQTT`, `mqttCallback`, `Buzzer`, STATE_REQUEST window |
| `EmitterLoop` | the loop of the emitter around its node | `setup`, `loop`, `manejarWiFi`, `handleOTA`, `sendEvent` |
| `PacketCodec` | bytes: TLVs, signature, frame, noise, strict reading | `IoTProtocol.h/.cpp`, `IoTAuth.cpp` |

`SeqWindow` and `SlotQueue` are operator modules without state; `DedupSession`
and `NodeQueue` put them in the smallest environment that exercises them,
`RemoteRegistry` keeps one window per remote, and `AlarmLink` composes window,
queue, channel and session of two nodes. `AlarmLink` is the detailed
specification of `EventDelivery`. `*_proofs` modules hold the proofs, `MC*`
modules the instances TLC runs. `Transmission_proofs` proves about `NodeQueue`
and `ReliableChannel` together, so the channel's `Init`, `Next`, `Spec` and
`TypeOK` carry its name (`ChannelInit`, ...); `Reception_proofs` proves about
`DedupSession` and `RemoteRegistry`, and the session's carry its name
(`DedupInit`, ...).

### How state corresponds

- The window is `[highest, bitmap]`: `bitmap` is the set of ages whose bit is
  set. `seqWindow[]` and `seqWindowHead` are written and never read;
  `seqWindowCount = 0` holds exactly when the bitmap is empty.
- A packet in `DedupSession` is `[lap, seq]`: `lap` is a history variable that
  counts the wraps, only `seq` is on the wire.
- A packet in `NodeQueue` is the number of the `enqueue` call that brought it;
  a free slot has one canonical content, for the code never reads it. Whether
  `_prepareOutgoing` succeeds (it fails without a signer, or without room for
  the signature) is a choice of the call.
- In `ReliableChannel`, `now` is `millis()`. `sent`, `window`, `wrapped`,
  `elapsed`, `outage` and `outcome` are history.
- In `AlarmLink`, `queue` and `reliable` are the emitter's, `remote` the boot
  number of the central in its registry, `session` and `window` the central's
  entry for the emitter; 0 stands for "no entry". `net` is the set of all the
  datagrams ever sent: any may arrive at any time, again, or never. `ord`,
  `boots`, `cBoots`, `confirmed`, `handled` and `repeated` are history.
  HEARTBEAT and STATE_REPORT do the same to the registry and are one kind of
  message. Timers are left out there: a retry may come at any time, which
  allows every schedule `ReliableChannel` allows.
- `AlarmLinkDelivery` maps `boots`, `cBoots`, `handled`, `repeated` and
  `confirmed` to the abstract variables of the same meaning, and `sent` to the
  reliable packets in `net`. The first transmission of a packet is a `Send`,
  its handling a `HandOver`, its ACK a `Confirm`, the reboots restarts; all
  else stutters.
- In `BootStorage`, `file` is what is in flash (absent, empty, or a number),
  `phase` where `setup()` is, and the other variables are the fields of
  `IoTStorage`; `boots` and `past` are history. LittleFS is external and
  modelled from how it is used: opening a file for writing creates it empty if
  it is absent, the new content replaces the old one when the file is closed,
  in one step, and a refused write leaves the old content. A power cut
  (`Reboot`) may come at any step, between the opening and the closing too.
  `String::toInt` saturates at the largest `long`, so a count past 2^31 - 1 is
  read back as 2^31 - 1.
- In `RemoteRegistry`, `table` is `_remotes[]` and `millis()` is
  `now % ClockModulus`; `now` itself no action compares. An endpoint is the
  origin (boot and number) of the packet it was taken from, so that two packets
  are two possible addresses. All packets of all boots of all remotes may
  arrive at any time, any number of times. `heard`, `handled` and `repeated`
  are history; what was handled is forgotten when the remote leaves the table.
- In `RemoteConfig`, `file` and `tmp` are the two files, each absent, broken
  (something that cannot be read) or whole; `cfg` is `_config`, `running` what
  the node and its provider were given, `pc` where `handleConfig` and
  `saveConfig` are. A setting has the values 0 (the default), in range, and out
  of range. `old`, `refused`, `asked`, `lost` and `blind` are history. A CONFIG
  packet is the partial function of the settings it carries.
- In `CentralBridge`, `pc` is the stage of `loop()`. Timers are the time since
  they were set or left until they are due: the code compares differences of
  `millis()`, never two readings. Time passes between two passes, and while an
  attempt to connect blocks the loop: any time up to `ConnectTime` (a TCP connect
  and `setSocketTimeout(2)`, line 119). The stamps of the attempt are read before
  it, `sinceFailure` starts after it, as do the 60 s to the probe that follows
  the third failure. `conn` is what the client believes, `alive`
  whether the session stands: it may break without being noticed. `told` is the
  retained status of the broker. `owed`, `attempt` and `sinceFailure` are
  history.
- In `EmitterLoop`, `pc` is the stage of `loop()`; `joined` counts the
  progress of an association, which `WiFi.begin()` starts again; the queue of
  the node is the number of packets in it. A transfer may last any number of
  passes; ArduinoOTA on the ESP8266 runs it inside one `handle()`, so the model
  allows more than the code does. `spent` (detections in the present
  activation) is history.
- In `PacketCodec`, a payload is the array of the code and the length in use;
  `rx` is decoded over leftovers of the stack. The frame, the byte order and
  the CRC16 are the real ones; the HMAC is any operator of the bytes. The CRC
  takes the bits of a byte one by one as they leave the register, where the code
  XORs the whole byte into its top first; `MCPacketCodec` compares the two, byte
  by byte. The loops over a payload are the set of the offsets they come to. `mustSign` is whether the provider of the sender signs, `policy` the
  mode and the required flag of the receiver.

## 3. Runs

All bounds are CONSTANTS. `pass` runs finish with no error; a `violation` run
shows what the code does against a sentence of its documentation.

| run | instance | shows |
|---|---|---|
| `dedup` | 8 numbers, window 3, one wrap | `AtMostOnce`, `FirstArrivalAccepted` |
| `queue` | 3 slots, 5 calls, every policy, packets that cannot be signed | `CountExact`, `Conserved`, `EvictionRespectsPriority` |
| `channel` | 4 attempts, backoffs 2, 3, 4, 5 ticks, a clock of 24 that rolls over | `AckHasItsWindow`, `AbandonedAfterAllAttempts`, `ChannelIsFreed` |
| `channel_rollover` | same | a retry before its backoff is over (IoTNode.cpp:114) |
| `link` | 2 boots of each node, 3 packets in a boot until both have rebooted and 2 after, window 2; the central's number stored, or volatile and behind | `AtMostOncePerBoot`, `SessionAgreement`, `NeverShutOut`, `LinkDelivers` (refinement) |
| `link_degraded` | 2 emitter boots, the second may have a volatile number behind the first | a whole boot of the emitter is refused (IoTNode.cpp:553) |
| `boot` | 4-bit boot number, 6-bit counter read back up to 31, any first count up to 33, 4 boots | `BootIdsNeverGoBack`, `DegradedStaysDegraded`, `OnlyFirstWriteIsAtRisk` |
| `registry` | 3 remotes for a table of 2, 2 boots each, a clock of 4 that rolls over | `AtMostOnceWhileKnown`, `StateTellsSilence`, `LongestSilentLeaves`, `ReplayMovesNothing` |
| `config` | 3 settings with 2 values in range and one out of it, one unreadable name, cuts at any step | `OldOrNew`, `ResponseIsTrue`, `NoSettingForgotten` |
| `central` | intervals of 1 to 5 ticks in the order of the code, `connect()` blocking for 0 or 1, 2 requests in a window, alarms of 1 and 2 ticks, 4 event codes | `ToldIsTrue`, `FailedAttemptsAreSpaced`, `AlarmEnds`, `ModeFollowsBroker`, `SyncFollowsRecovery` |
| `emitter` | 2 sensors, debounces of 1 and 2 ticks, queue of 1, one restart | `OncePerActivation`, `ActivationIsDetected`, `LevelIsLearnt`, `WifiIsJoined` |
| `codec` | payload of 11 bytes, HMAC of 2, 5 items, 2 patterns of noise at every place | `ReadsWhatWasAdded`, `AlteredIsRefused`, `ArrivesWhole`, `SignedOnceAtTheEnd` |

Five of the runs also check the type invariant (channel, registry, config,
central, codec); the type invariants of all modules are proved (section 4). Every run checks that the model never deadlocks: what bounds
a history always leaves `loop()`, or the network, something to do.

Why the bounds are enough.

- The window only looks at distances smaller than itself and at half of the
  cycle; with 8 numbers and a window of 3 a distance inside the window, beyond
  it, and across the wrap all occur.
- Three slots and five calls fill the queue, overflow it twice and refill it
  out of slot order.
- Four attempts reach both the growing and the saturated part of the backoff,
  and a clock of 24 ticks rolls over before, during and after each backoff.
- In the link, two boots per side give an old and a new session, three packets
  with a window of two give an overtaken one, and a queue of two slots gives
  both a wait and an overflow. HELLO takes the first SEQ, so three of them leave
  one for a packet in flight and one for the STATE_REPORT that answers a
  STATE_REQUEST: the emitter learns one boot of the central, loads a packet for
  it, and learns the next boot with that packet still in flight. Once both nodes
  have rebooted the constraint `MCBound` stops at two packets per boot. The
  volatile number 7 is behind 1 and 2 of 8, so a central that takes it at any
  boot but the first is one its emitter refuses.
- In the storage, four boots put a failure or a cut before, between and after
  two that succeed; the first counts lie on both sides of the wrap of BOOT_ID
  and of the largest count that can be read back. Fewer boots than half a cycle
  of BOOT_ID is an assumption on the history: with more, no comparison of
  16-bit numbers could order them.
- In the registry, every newcomer to a table of two pushes one of two out and
  may come back; the clock passes each threshold and wraps once. Remotes are
  interchangeable (symmetry).
- In the configuration, heartbeat (applied at once), name (may not be readable)
  and auth (applied, not range-checked on reading) are the three kinds of
  settings; `antirebote` is one of the first kind without an effect.
- In the central the five intervals of the MQTT manager are 1, 2, 3, 4 and 5
  ticks in the order of the code, so every timer can be the first or the last to
  be due; `connect()` blocks for less than the interval of the reconnections, so
  that `FailedAttemptsAreSpaced` leaves something to keep; alarms last shorter
  than that interval or as long. Of the codes one of each kind of reaction is
  kept.
- In the emitter two debounces let CONFIG shorten and lengthen it while an
  activation lasts; more than one restart repeats the first.
- In the codec eleven bytes hold an item of each width and a signature, or
  leave too little room for it; the items are chosen so that a reader out of
  step finds another item, and the CRC is checked against the value
  `test_protocol.cpp` gives.

### Fairness

- `ReliableChannel!FairSpec`. The clock advances (WF on `Tick`) and does not
  wait for `loop()`, which may run late. WiFi comes back after an outage (WF on
  `WifiUp`): `manejarWiFi` retries every five seconds for ever. `loop()` runs
  for ever, every few milliseconds, so a step of `_processReliable` that is
  possible again and again is taken although WiFi may flap and the comparison
  of the deadline may flip at a rollover (SF on `GiveUp`, `Transmit` and
  `SkipTransmission`, the three exits of that call once the deadline has
  passed). Nothing is assumed of the network: no ACK need ever arrive.
- `CentralBridge!Spec`. `loop()` runs on (WF on `Loop`, all of its stages); a
  pass takes time, though events and breaks come between (SF on `Tick`, which
  is possible once per pass); the client notices a session that is broken, by
  TCP or its keep-alive (WF on `BreakNoticed`). Neither WiFi nor the broker need
  ever come back: the properties that need them say so.
- `EmitterLoop!Spec`. The same two for its loop and the time; and a transfer
  that began ends (SF on `OtaStops`): ArduinoOTA reads with a timeout and calls
  `onEnd` or `onError`. The access point need not come back.

## 4. Proofs

The theorems hold for every value of the constants that satisfies the ASSUMEs
of the modules.

The constants range over all sizes, widths, intervals and counts; what is asked
of them is named in the modules. Three assumptions are relations the code
satisfies and the theorems need: the sessions and packets of one history are
fewer than half a cycle of their counter (no comparison could order more);
in the registry `OfflineTimeout + CheckPeriod + MaxDelay <= ClockModulus`
(90 s and seconds against 49 days); in the central the reconnection interval is
shorter than what is left to the next probe after an alarm or a fall (15 s
against 30 s) and the first attempt comes before the first probe is due
(`InitialDelay <= ProbeInterval`, 1 s against 5 min).

An invariant is seldom inductive as it stands. What each proof adds:

- `Reception_proofs`, the window in one session: `AtMostOnce` and
  `FirstArrivalAccepted`. That a packet
  cannot be accepted again depends on the window: each accepted packet the
  network can still deliver is at or behind `win.highest`, and is outside the
  window or has its bit set (`AcceptedIsRemembered`), and the highest is within
  half a cycle of the newest (`HighInReach`). That a first arrival is not
  refused is the converse, and needs that every bit stands for a packet that
  was accepted (`BitsAreEarned`), across the wrap too. Two assumptions on the
  environment are part of the model: no packet outlives half a cycle of the
  counter, and the sender does not get half a cycle ahead of what was accepted.
- `Transmission_proofs`, the queue: count, conservation and three action
  properties from one invariant (a packet whose signing fails leaves slots and
  count as they were, `UnsignedKeepsIInv`); the count needs the cardinality of the
  occupied slots when one is added or removed. `ServedByPriority` and
  `RejectedOnlyWhenFull` are proved and not run.
- `Transmission_proofs`, the channel: types, `AbandonedAfterAllAttempts`,
  `AckHasItsWindow`. The invariant counts the attempts (one transmission each
  unless an outage consumed some) and says that before the deadline `now` plus
  what is left of the backoff is the deadline, when it lies on this side of the
  rollover. It needs what the recursive `CalcBackoff` returns. There is no
  induction rule to cite, but the natural numbers are well founded
  (`NatLessThanWellFounded`, `WFMin`), hence `LeastNumber`: from it, that the
  first n backoffs can be computed, that two such computations agree, and that
  `CalcBackoff` is their union (`Backoff`). `BackoffGrows` follows.
- `AlarmLink_proofs`, in three parts. Types and `SessionAgreement`, whatever
  storage does: the counters do not run ahead of the boots, and the packets held
  were numbered in this boot. Delivery while the emitter's storage works
  (`EmitterVolatileIds = {}`): boot numbers count boots, the window remembers
  all that was handled in this session and nothing else, and each ACK in the
  network answers a packet that was handled, overtaken, or of an earlier boot.
  `NobodyIsShutOut` assumes nothing: `NeverShutOut` itself asks, for each node,
  that its counter reached flash at every boot so far, and the invariant
  (`CountedIds`) says that while it did its numbers count its boots, whatever the
  storage of the other does. The refinement: with `EmitterVolatileIds = {}`
  again, `AlarmLink` implements `EventDelivery`; the step lemmas use the delivery
  invariant (it is what makes a `HandOver` or a `Confirm` possible
  when the code takes it) and that a packet that waits for its ACK is in the
  network. There is one lemma per group of actions that map to the same
  abstract step.
- `BootStorage_proofs`: types; a degraded boot stays announced as degraded (a
  boot is in the history only once it is in `loop()`, by which time
  `_bootIdConsumed` is set); a count in flash survives. `BootIdsNeverGoBack`
  takes most of the module: each boot that was stored has a count that gives its
  BOOT_ID, the file is not behind that count, and it is ahead of it by no more
  than the boots since (`CountFollows`). The number that is skipped when a count
  is a multiple of the modulus is handled by arithmetic on quotients
  (`DivisionIsUnique`, `ModAdd`, `LaterCountsAreNewer`).
- `Reception_proofs`, the registry: types and that no remote has two places;
  `AtMostOnceWhileKnown` (the window of a place remembers all that was handled
  of its remote in the session the place knows, and nothing was handled of a
  later session: `HandledOK`); `ReplayMovesNothing`; `StateTellsSilence`, which
  relates the wrapped `lastSeen` to the true time it was set (`ClockOK`: equal
  modulo the clock, a state that was computed no longer ago than a check
  period) and needs that equal remainders less than a cycle apart are the same;
  `LongestSilentLeaves`, where numbers since the same rollover compare as the
  times do.
- `RemoteConfig_proofs`: types, with every setting in RAM in range; `OldOrNew`,
  `ResponseIsTrue`, `NoSettingForgotten`. The invariant says what `handleConfig`
  made of the packet until it is answered (`HandlingOK`), at every step of
  `saveConfig` which of the two files is what (`SaveOK`), and that RAM and the
  file agree on what no packet asked for unless the boot did not load it or a
  save was lost (`Remembered`).
- `CentralBridge_proofs`: types; `ToldIsTrue`, from what the broker was told at
  each stage of `loop()`: the last value published is the one `lastBuzzer`
  keeps (`ToldSoFar`); `FailedAttemptsAreSpaced`, from a relation between each
  of the three timers and the time since the failure (`PaceOK`), by which a
  change of mode cannot make an attempt come early: a timer that was stamped
  before the attempt is ahead of the failure by no more than `ConnectTime`. That
  time is any number; the theorem says less the longer it is, and nothing from
  `MQTT_RECONNECT_INTERVAL_MS` on, when the next attempt may follow at once.
- `EmitterLoop_proofs`: types, one detection per activation, and that an update
  silences the loop. The invariant adds that a sensor whose activation was spent
  is active and was noted as such, and that while a transfer is in progress the
  loop is at its first two stages.

- `PacketCodec_proofs`: all five invariants of the wire format, for every size
  of a payload and of a signature (up to 255), all headers, items, leftovers and
  noise. Three things had to be built first.
  - What is computed by recursion. The natural numbers are well founded, hence
    induction up to a bound (`UpTo`) and from it down (`DownFrom`); with them,
    that the recursions of `Crc16`, `Unsigned`, `Offsets` and `FlattenSeq` have a
    value at every index (`FoldExists`, `FromExists`, `FlatExists`) and what it
    is, step by step.
  - The CRC. A word is a register of sixteen bits, and one turn moves each up and
    feeds the top back to three places (`TurnOfWord`). A turn can be undone
    (`TurnBack`), so different registers stay different through the same bytes
    (`CrcByteInjective`), and two neighbouring bytes, sixteen bits, determine the
    register together (`TwoBytesTell`): two sequences that differ in one byte or
    two neighbours never have the same CRC (`CrcDiffers`), and a frame that was
    so disturbed, in the CRC itself too, is not good (`NoiseIsNoticed`). A frame
    that is cut or grows has the wrong length.
  - The payload as a chain of TLVs. The offsets the loops come to are those from
    which the rest can be read; what lies beyond the length in use has no part
    in it (`CopyFinds`); a TLV written at the end, or the signature over the last
    one, leaves the offsets before it (`OffsetsAppended`, `WrittenUnder`).

  The invariant is `CodecInv`. The properties only speak of what was received or
  is ready to be sent; the invariant says what leads there: the packet is
  well-formed at every moment and holds, under each tag, what was added first
  (`Holds`); before the node signs it is what was written with at most one
  signature, behind everything if it is last (`NotYetSigned`), and afterwards
  `SignedBehind`; the datagram is the packet or, once altered, no frame; what was
  decoded is a `Copy`, equal up to its length. `SentIsRead` is the round trip of
  `iot_serialize` and `iot_deserialize`. The theorems assume `HmacIsBytes`: the
  HMAC of any bytes is `HmacSize` bytes, which is what `br_hmac_out` and the
  truncation give; nothing else is assumed of it. It ranges over all sequences
  of bytes, so TLC cannot evaluate it and it is a hypothesis of the theorems; the
  HMAC of the instance satisfies it.

Every safety property a passing run checks is proved, invariants and action
properties, and the refinement. Only model-checked is the liveness, which is out
of the reach of the provers (`ChannelIsFreed`, `AlarmEnds`, `ModeFollowsBroker`,
`SyncFollowsRecovery`, `ActivationIsDetected`, `LevelIsLearnt`, `WifiIsJoined`).
Properties that hold under an assumption about storage are checked and proved
under the same one: delivery and the refinement ask for `EmitterVolatileIds = {}`.
What happens without it to a node whose volatile number is behind is the finding
of `link_degraded`.

## 5. What the runs refute, and what was seen

| finding | where | run |
|---|---|---|
| the retry deadline does not survive the rollover of `millis()` | IoTNode.cpp:114 | `channel_rollover` |
| a volatile BOOT_ID behind the known one loses the whole boot, not "los primeros eventos (SEQ bajos) hasta que el SEQ supere la ventana" (IoTStorage.cpp:116-119) | IoTNode.cpp:553 | `link_degraded` |

Seen while modelling; the models behave so, and the properties are stated so
that they allow it where they touch it:

- Node. The queue is not FIFO among equals, against IoTNode.h:5: the first slot
  of the best priority leaves (IoTNode.cpp:196-236). `DROP_OLDEST` evicts the
  first slot of the worst priority if the newcomer is no worse (259-262), against
  IoTNode.h:50, "el mas viejo sin importar prioridad", and where all are URGENT
  an URGENT one, against IoTNode.h:12; no caller sets it, and
  `EvictionRespectsPriority` leaves it out. `DROP_OLDEST_BG` evicts the BACKGROUND
  of the first slot, not "el BACKGROUND mas viejo" (IoTNode.h:49). A packet
  that is not reliable is dropped without WiFi (176-183); a reliable one is
  given up during an outage, against IoTNode.h:8, once each of its deadlines
  has passed (116-132). An event overtaken by a whole window of later ones is
  acknowledged and then dropped (319, 497), against
  `.ai/PROJECT_CONTEXT.md:50`; `EventDelivery!WasOvertaken` allows it. An ACK
  of an earlier boot can confirm a packet of this one (394; `IsAmbiguous`).
- Registry. `registerRemote` has no caller in the firmware. `lastSeen` is
  compared as a plain number when a place is needed, so after a rollover the
  one just heard may leave (579-582). Telemetry is not deduplicated, and late
  telemetry moves the endpoint and the liveness of its sender
  (`ReplayMovesNothing` is about reliable packets).
- Boot counter. A count the flash refused is announced as persistent
  (IoTStorage.cpp:169, 100); the counts 65536 and 65537 share BOOT_ID 1
  (107-108; `BootIdsNeverGoBack` allows equal numbers); a power cut in the very
  first write leaves an empty file, and every later boot is volatile (152, 166;
  the one state `OnlyFirstWriteIsAtRisk` leaves open).
- Configuration. A packet whose settings are all out of range is answered OK if
  it asks for RESET_STATS too, which counts as a change (72-76), against the
  comment of IoTConfigHandler.cpp:86-89; `ResponseIsTrue` names it as the one
  such case. A write that
  flash refuses is not noticed: OK is answered and the file cannot be read
  back. A name that ends in a blank or holds a line break is accepted and makes
  the file unreadable. A change answered FAIL stays in RAM and is stored by a
  later CONFIG. A boot that mounted late has not loaded the file, and its first
  CONFIG stores the defaults (`NoSettingForgotten` leaves such a boot out). A
  CONFIG of the auth mode does not move the required flag of `IoTAuth`
  (main.cpp:192-201); `ArrivesWhole` lets the two disagree. A CONFIG
  without RELIABLE is not deduplicated.
- Central. A shorter command or OFF cuts a running alarm short. After the
  broker falls, the first attempt may come at once, against
  mqtt_manager.cpp:182-183, when `mqttDisponible` was already cleared.
  The time that `connect()` blocks comes off the interval to the next attempt.
  `mqttDisponible` is stale by one pass, which the event handler reads; that
  reader is not modelled. After a reboot of the central the
  retained "online" of a device that is gone stays.
- Emitter. An activation that begins inside the debounce and lasts is never
  reported, against MATRIZ_UNIFICACION_V3_V4.md:28 (`ActivationIsDetected`
  asks for an edge outside of it); so are edges in the first debounce after
  boot. An edge is consumed even if the queue is full.
- Wire format. `addTLV_string` takes the length of a text modulo 256. A caller
  that signs a packet and then adds to it sends one that is refused
  (`ArrivesWhole` excludes it).

## 6. Plan

Written: `SerialNumbers`, `SeqWindow`, `DedupSession`, `SlotQueue`, `NodeQueue`,
`ReliableChannel`, `AlarmLink`, `BootStorage`, `RemoteRegistry`,
`RemoteConfig`, `CentralBridge`, `EmitterLoop`, `EventDelivery`, `PacketCodec`,
and the proofs of section 4.

Worth doing next: a composition of the registry with a channel, for an eviction
that meets a packet in flight, and the agreement of its ACK with the session of
the place. Left to model: `LegacyAlarm`, V3.5.

## 7. Not modelled

- The legacy V3.5 firmware (`src/legacy`): it is kept for rollback, speaks
  another protocol and meets no V4 node.
- Tools and tests under `src/tools` and `src/tests`: read as evidence of what is
  intended.
- The arithmetic of HMAC-SHA256, which is BearSSL's; the loading and storing of
  the key, `resetConfig` and the setters of `IoTStorage`, which have no caller
  in the firmware.
- What the event handler of the central publishes, and that it keeps it back
  while `mqttDisponible` is false (event_handler.cpp:122, 137, 204, 316, 344,
  351), MQTT topics of the remotes, the status every 30 s, Home Assistant discovery,
  the update of the central over the air, provisioning, logging, RTT and
  traffic statistics (written, and read only to be shown), hardware pins.
- The link has one emitter and one central, whose registries never fill; what
  a full registry does is in `RemoteRegistry`, which has no channel. An
  eviction of the peer of a packet in flight makes the channel refuse its ACKs
  until it is heard again (IoTNode.cpp:394); no model composes the two.
