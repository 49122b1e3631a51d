---------------------------- MODULE PacketCodec ----------------------------
(***************************************************************************)
(* The bytes of a packet: TLVs written one after the other, the signature  *)
(* appended as the last of them, the frame with its header and CRC, what a *)
(* noisy network makes of it, and what the receiver accepts and reads.     *)
(*                                                                         *)
(* A payload is the array of the code together with the length in use; the *)
(* packet a receiver decodes into is a local that nothing clears, so the   *)
(* bytes beyond its length are whatever the stack held.  The layout and    *)
(* the CRC are the real ones; the sizes of a payload and of the HMAC are   *)
(* constants, and the HMAC itself (BearSSL) is any operator.               *)
(***************************************************************************)
EXTENDS Integers, Sequences, FiniteSetsExt, SequencesExt

CONSTANTS
    MaxPayload,     \* IOT_MAX_PAYLOAD, 64
    HmacSize,       \* IOT_HMAC_TRUNC_SIZE, 4
    Hmac(_),        \* HMAC-SHA256 of some bytes, truncated
    Headers,        \* the headers packets may have
    Items,          \* what applications add to packets
    Noise,          \* what noise may add to two neighbouring bytes
    Leftovers       \* what the stack of the receiver may hold

Byte == 0 .. 255
WordModulus == 65536    \* of a uint16_t
Word == 0 .. WordModulus - 1
AuthTag == 240          \* IOT_TLV_AUTH_HMAC4
AuthFlag == 16          \* IOT_FLAG_AUTHENTICATED
HeaderSize == 14
CrcSize == 2
Magic == <<165, 90>>
ProtocolMajor == 4

Modes == {"DISABLED", "OPTIONAL", "REQUIRED"}

Providers == [mode : Modes, signOutgoing : BOOLEAN]

(* A value of an application under its tag: a number of a width of one,    *)
(* two or four bytes, or a text, read into a buffer of room bytes.         *)
Numbers == [tag : Byte, kind : {"unsigned", "signed"}, width : {1, 2, 4}, value : Int]

Texts == [tag : Byte, kind : {"text"}, room : Nat \ {0}, value : Seq(Byte)]

(* What the last byte of a number of one, two or four bytes is worth when  *)
(* it is the first.                                                        *)
ByteWeight == <<1, 256, 65536, 16777216>>

(* The value has the width: its first byte is one, with its sign or not.   *)
InRange(i) ==
    i.value \div ByteWeight[i.width]
        \in (IF i.kind = "signed" THEN -128 .. 127 ELSE Byte)

(* Headers without the mark: only signPacket sets it.                      *)
ASSUME CodecAssumption ==
    /\ MaxPayload \in 1 .. 255
    /\ HmacSize \in 1 .. 255
    /\ Items \subseteq Numbers \cup Texts
    /\ \A i \in Items : i.tag # AuthTag
    /\ \A i \in Items : i.kind = "text" => Len(i.value) < 256
    /\ \A i \in Items : i.kind # "text" => InRange(i)
    /\ Headers \subseteq [version : Byte, type : Byte, src : Byte, dst : Byte,
                          bootId : Word, seq : Nat, flags : Byte]
    /\ \A h \in Headers : /\ h.version \div 16 = ProtocolMajor
                          /\ h.seq \div ByteWeight[4] \in Byte
                          /\ (h.flags \div AuthFlag) % 2 = 0
    /\ Leftovers \subseteq [1 .. MaxPayload -> Byte]
    /\ Noise \subseteq (Byte \X Byte) \ {<<0, 0>>}

VARIABLES
    pc,         \* "build", "ready", "dropped", "sent", "received"
    packet,     \* the packet of the sender
    mustSign,   \* the _authProvider of the sender made it sign
    policy,     \* that of the receiver, and whether its IoTAuth requires
    frame,      \* the datagram
    rx,         \* the packet of the receiver, NoPacket when none was decoded
    verdict,    \* what _processIncoming made of the datagram
    added,      \* history: the items the packet took
    altered     \* history: noise changed the datagram

vars == <<pc, packet, mustSign, policy, frame, rx, verdict, added, altered>>

-----------------------------------------------------------------------------
(* Numbers as bytes, and back.                                             *)

(* The two's complement of a negative number comes out of % by itself.     *)
BigEndian(n, width) ==
    [i \in 1 .. width |-> (n \div ByteWeight[width - i + 1]) % 256]

Unsigned(bytes) ==
    LET upTo[i \in 0 .. Len(bytes)] ==
            IF i = 0 THEN 0 ELSE 256 * upTo[i - 1] + bytes[i]
    IN  upTo[Len(bytes)]

Signed(bytes) ==
    IF bytes[1] < 128 THEN Unsigned(bytes)
    ELSE Unsigned(bytes) - 256 * ByteWeight[Len(bytes)]

(* The exclusive or of a word with the bit of a weight.                    *)
Toggled(crc, weight) ==
    IF (crc \div weight) % 2 = 1 THEN crc - weight ELSE crc + weight

(* CRC16-CCITT, one bit of the data at a time: a bit leaves the register   *)
(* at its top, and if it and that of the data differ the polynomial 1021h  *)
(* is XORed in.  The code XORs the bits of a whole byte into the top of    *)
(* the register first, where each waits to leave: that is the same.        *)
Shifted ==
    [bit \in {0, 1} |-> [crc \in Nat |->
        LET doubled == (2 * crc) % WordModulus IN
        IF crc \div 32768 = bit THEN doubled
        ELSE Toggled(Toggled(Toggled(doubled, 4096), 32), 1)]]

Bits ==
    [byte \in Byte |->
        <<byte \div 128, (byte \div 64) % 2, (byte \div 32) % 2, (byte \div 16) % 2,
          (byte \div 8) % 2, (byte \div 4) % 2, (byte \div 2) % 2, byte % 2>>]

CrcByte(crc, byte) ==
    LET b == Bits[byte] IN
    Shifted[b[8]][Shifted[b[7]][Shifted[b[6]][Shifted[b[5]][
        Shifted[b[4]][Shifted[b[3]][Shifted[b[2]][Shifted[b[1]][crc]]]]]]]]

Crc16(bytes) ==
    LET after[i \in 0 .. Len(bytes)] ==
            IF i = 0 THEN WordModulus - 1 ELSE CrcByte(after[i - 1], bytes[i])
    IN  after[Len(bytes)]

-----------------------------------------------------------------------------
(* TLVs in a payload.  Offsets count from 0, as in the code.               *)

Empty(header) ==
    [header |-> header, payload |-> [i \in 1 .. MaxPayload |-> 0],
     payloadLen |-> 0]

At(p, offset) == p.payload[offset + 1]

(* Mutant of Fits: one byte too many is allowed.                           *)
FitsLoosely(p, size) == p.payloadLen + 1 + size <= MaxPayload

Fits(p, size) == p.payloadLen + 2 + size <= MaxPayload

(* addTLV_raw, when there is room.                                         *)
Appended(p, tag, data) ==
    LET tlv == <<tag, Len(data)>> \o data IN
    [p EXCEPT
        !.payload = [i \in DOMAIN @ |->
            IF i \in p.payloadLen + 1 .. p.payloadLen + Len(tlv)
            THEN tlv[i - p.payloadLen] ELSE @[i]],
        !.payloadLen = @ + Len(tlv)]

Encoded(item) ==
    IF item.kind = "text" THEN item.value ELSE BigEndian(item.value, item.width)

NextTlv(p, o) == o + 2 + At(p, o + 1)

(* There is a TLV at o, whole within the length in use.                    *)
IsTlv(p, o) == o + 2 <= p.payloadLen /\ NextTlv(p, o) <= p.payloadLen

(* The offsets the loops over a payload come to, from one TLV to the next; *)
(* the last is the length in use, or where a TLV does not fit.             *)
Offsets(p) ==
    LET from[o \in 0 .. p.payloadLen] ==
            {o} \cup (IF IsTlv(p, o) THEN from[NextTlv(p, o)] ELSE {})
    IN  from[0]

TlvsUnder(p, tag) == {o \in Offsets(p) : IsTlv(p, o) /\ At(p, o) = tag}

NotFound == [found |-> FALSE, data |-> <<>>]

(* Mutant of findTLV: the length in use is not looked at.                  *)
findTLVBeyond(p, tag) ==
    LET whole == [p EXCEPT !.payloadLen = MaxPayload]
        o == Min(TlvsUnder(whole, tag))
    IN  IF TlvsUnder(whole, tag) = {} THEN NotFound
        ELSE [found |-> TRUE, data |-> SubSeq(p.payload, o + 3, NextTlv(p, o))]

(* The first one under the tag; the loop ends where a TLV does not fit.    *)
findTLV(p, tag) ==
    LET o == Min(TlvsUnder(p, tag))
    IN  IF TlvsUnder(p, tag) = {} THEN NotFound
        ELSE [found |-> TRUE, data |-> SubSeq(p.payload, o + 3, NextTlv(p, o))]

(* getTLV_*: a number has exactly its width; a text is cut to its buffer,  *)
(* and an empty one does not count.                                        *)
Got(p, item) ==
    LET tlv == findTLV(p, item.tag) IN
    CASE ~tlv.found -> <<>>
      [] item.kind = "text" ->
            IF tlv.data = <<>> THEN <<>>
            ELSE <<SubSeq(tlv.data, 1, Min({Len(tlv.data), item.room - 1}))>>
      [] OTHER ->
            IF Len(tlv.data) # item.width THEN <<>>
            ELSE IF item.kind = "signed" THEN <<Signed(tlv.data)>>
            ELSE <<Unsigned(tlv.data)>>

iot_validate_tlv(p) == p.payloadLen \in Offsets(p)

(* Where the signatures of a well-formed payload are.                      *)
Signatures(p) == TlvsUnder(p, AuthTag)

IsLast(p, o) == o + 2 + HmacSize = p.payloadLen

-----------------------------------------------------------------------------
(* IoTAuth.                                                                *)

IsMarked(p) == (p.header.flags \div AuthFlag) % 2 = 1

Marked(p) == IF IsMarked(p) THEN p ELSE [p EXCEPT !.header.flags = @ + AuthFlag]

FlagsUnmarked(p) == p.header.flags - (IF IsMarked(p) THEN AuthFlag ELSE 0)

HeaderBytes(h, flags) ==
    <<h.version, h.type, h.src, h.dst>>
        \o BigEndian(h.bootId, 2) \o BigEndian(h.seq, 4) \o <<flags>>

(* Mutant of HmacOf: the flags are covered with the mark of the signature. *)
HmacOfMarked(p, length) ==
    Hmac(HeaderBytes(p.header, p.header.flags) \o SubSeq(p.payload, 1, length))

(* The mark of the signature is left out of what it covers.                *)
HmacOf(p, length) ==
    Hmac(HeaderBytes(p.header, FlagsUnmarked(p)) \o SubSeq(p.payload, 1, length))

(* signPacket: the one signature there is, at the end, is renewed.         *)
Renewed(p, o) ==
    [Marked(p) EXCEPT !.payload =
        [i \in DOMAIN @ |-> IF i \in o + 3 .. o + 2 + HmacSize
                            THEN HmacOf(p, o)[i - o - 2] ELSE @[i]]]

(* No payload that is signed but not at its end, and none without room.    *)
CanSign(p) ==
    /\ iot_validate_tlv(p)
    /\ \A o \in Signatures(p) : IsLast(p, o) /\ At(p, o + 1) = HmacSize
    /\ Signatures(p) = {} => Fits(p, HmacSize)

(* Mutant of SignedPacket: a signature is added whether there is one or not.     *)
SignedAgain(p) ==
    IF Fits(p, HmacSize)
    THEN Marked(Appended(p, AuthTag, HmacOf(p, p.payloadLen)))
    ELSE Marked(p)

SignedPacket(p) ==
    IF Signatures(p) = {}
    THEN Marked(Appended(p, AuthTag, HmacOf(p, p.payloadLen)))
    ELSE Renewed(p, CHOOSE o \in Signatures(p) : TRUE)

verifyPacket(p, required) ==
    LET signatures == Signatures(p) IN
    /\ iot_validate_tlv(p)
    /\ IF ~IsMarked(p)
       THEN signatures = {} /\ ~required
       ELSE \E o \in signatures :
                /\ signatures = {o}
                /\ At(p, o + 1) = HmacSize
                /\ IsLast(p, o)
                /\ SubSeq(p.payload, o + 3, p.payloadLen) = HmacOf(p, o)

-----------------------------------------------------------------------------
(* iot_serialize and iot_deserialize.                                      *)

WithCrc(bytes) == bytes \o BigEndian(Crc16(bytes), CrcSize)

Serialized(p) ==
    WithCrc(Magic \o HeaderBytes(p.header, p.header.flags) \o <<p.payloadLen>>
                \o SubSeq(p.payload, 1, p.payloadLen))

(* Mutant of HasGoodCrc: only the low byte is compared.                    *)
HasGoodLowByte(bytes) ==
    bytes[Len(bytes)] = Crc16(SubSeq(bytes, 1, Len(bytes) - CrcSize)) % 256

HasGoodCrc(bytes) ==
    LET covered == Len(bytes) - CrcSize IN
    Unsigned(SubSeq(bytes, covered + 1, Len(bytes)))
        = Crc16(SubSeq(bytes, 1, covered))

IsFrame(bytes) ==
    /\ Len(bytes) >= HeaderSize + CrcSize
    /\ SubSeq(bytes, 1, 2) = Magic
    /\ bytes[3] \div 16 = ProtocolMajor
    /\ bytes[HeaderSize] <= MaxPayload
    /\ Len(bytes) = HeaderSize + bytes[HeaderSize] + CrcSize
    /\ HasGoodCrc(bytes)

(* Only the bytes in use are copied over what the payload held.            *)
Parsed(bytes, leftover) ==
    [header |-> [version |-> bytes[3], type |-> bytes[4],
                 src |-> bytes[5], dst |-> bytes[6],
                 bootId |-> Unsigned(SubSeq(bytes, 7, 8)),
                 seq |-> Unsigned(SubSeq(bytes, 9, 12)),
                 flags |-> bytes[13]],
     payload |-> [i \in 1 .. MaxPayload |->
                     IF i <= bytes[HeaderSize] THEN bytes[HeaderSize + i]
                     ELSE leftover[i]],
     payloadLen |-> bytes[HeaderSize]]

-----------------------------------------------------------------------------

(* The required flag is the one setup() gave IoTAuth: a later change of    *)
(* mode does not reach it.                                                 *)
Policies == [mode : Modes, required : BOOLEAN]

NoPacket == <<>>

Fresh(header) ==
    /\ pc = "build"
    /\ packet = Empty(header)
    /\ frame = <<>>
    /\ verdict = "none"
    /\ added = <<>>
    /\ altered = FALSE

Init ==
    /\ \E header \in Headers : Fresh(header)
    /\ mustSign = FALSE
    /\ policy = [mode |-> "DISABLED", required |-> FALSE]
    /\ rx = NoPacket

(* An application starts the next packet; a datagram may have been lost.   *)
ClearPayload(header) ==
    /\ pc \in {"dropped", "sent", "received"}
    /\ pc' = "build"
    /\ packet' = Empty(header)
    /\ frame' = <<>>
    /\ verdict' = "none"
    /\ added' = <<>>
    /\ altered' = FALSE
    /\ rx' = NoPacket
    /\ UNCHANGED <<mustSign, policy>>

AddTLV(item) ==
    /\ pc = "build"
    /\ Fits(packet, Len(Encoded(item)))
    /\ packet' = Appended(packet, item.tag, Encoded(item))
    /\ added' = Append(added, item)
    /\ UNCHANGED <<pc, mustSign, policy, frame, rx, verdict, altered>>

(* A caller that signs by itself, before IoTNode does (IoTAuth.h:19-23).   *)
SignDirectly ==
    /\ pc = "build"
    /\ CanSign(packet)
    /\ packet' = SignedPacket(packet)
    /\ UNCHANGED <<pc, mustSign, policy, frame, rx, verdict, added, altered>>

Signing(p) ==
    /\ p.mode # "DISABLED"
    /\ p.signOutgoing \/ p.mode = "REQUIRED"

(* _prepareOutgoing, in enqueue and in sendDirect, under the provider the  *)
(* last CONFIG left.                                                       *)
PrepareOutgoing(p) ==
    /\ pc = "build"
    /\ mustSign' = Signing(p)
    /\ \/ ~Signing(p) /\ pc' = "ready" /\ UNCHANGED packet
       \/ Signing(p) /\ CanSign(packet) /\ pc' = "ready"
            /\ packet' = SignedPacket(packet)
       \/ Signing(p) /\ ~CanSign(packet) /\ pc' = "dropped"
            /\ UNCHANGED packet
    /\ UNCHANGED <<policy, frame, rx, verdict, added, altered>>

TransmitPacket ==
    /\ pc = "ready"
    /\ frame' = Serialized(packet)
    /\ pc' = "sent"
    /\ UNCHANGED <<packet, mustSign, policy, rx, verdict, added, altered>>

(* Noise on two neighbouring bytes, or a datagram cut or grown by one.     *)
Disturb ==
    /\ pc = "sent" /\ ~altered
    /\ altered' = TRUE
    /\ \/ \E i \in 1 .. Len(frame) - 1, n \in Noise :
             frame' = [frame EXCEPT ![i] = (@ + n[1]) % 256,
                                    ![i + 1] = (@ + n[2]) % 256]
       \/ frame' = SubSeq(frame, 1, Len(frame) - 1)
       \/ frame' = Append(frame, 0)
    /\ UNCHANGED <<pc, packet, mustSign, policy, rx, verdict, added>>

VerifyIncoming(p, by) ==
    \/ by.mode = "DISABLED"
    \/ by.mode = "OPTIONAL" /\ ~IsMarked(p)
    \/ verifyPacket(p, by.required)

ProcessIncoming ==
    /\ pc = "sent"
    /\ pc' = "received"
    /\ \/ /\ ~IsFrame(frame)
          /\ verdict' = "refused"
          /\ UNCHANGED <<policy, rx>>
       \/ /\ IsFrame(frame)
          /\ \E leftover \in Leftovers : rx' = Parsed(frame, leftover)
          /\ policy' \in Policies
          /\ verdict' = IF ~iot_validate_tlv(rx') THEN "refused"
                        ELSE IF VerifyIncoming(rx', policy') THEN "accepted"
                        ELSE "rejected"
    /\ UNCHANGED <<packet, mustSign, frame, added, altered>>

Next ==
    \/ \E header \in Headers : ClearPayload(header)
    \/ \E item \in Items : AddTLV(item)
    \/ SignDirectly
    \/ \E p \in Providers : PrepareOutgoing(p)
    \/ TransmitPacket
    \/ Disturb
    \/ ProcessIncoming

Spec == Init /\ [][Next]_vars

-----------------------------------------------------------------------------

Used(p) == SubSeq(p.payload, 1, p.payloadLen)

TlvOf(item) == <<item.tag, Len(Encoded(item))>> \o Encoded(item)

WrittenTlvs == FlattenSeq([i \in DOMAIN added |-> TlvOf(added[i])])

IsPacket(p) ==
    /\ p.payload \in [1 .. MaxPayload -> Byte]
    /\ p.payloadLen \in 0 .. MaxPayload
    /\ p.header.flags \in Byte

(* A packet never uses more than its payload has, whatever is added to it  *)
(* and in whatever order it is signed, and a datagram never needs more     *)
(* than the buffer of _transmitPacket.                                     *)
TypeOK ==
    /\ pc \in {"build", "ready", "dropped", "sent", "received"}
    /\ IsPacket(packet)
    /\ packet.header.flags - (IF IsMarked(packet) THEN AuthFlag ELSE 0)
          \in {h.flags : h \in Headers}
    /\ mustSign \in BOOLEAN /\ policy \in Policies
    /\ frame \in Seq(Byte)
    /\ Len(frame) <= HeaderSize + MaxPayload + CrcSize + 1
    /\ rx = NoPacket \/ IsPacket(rx)
    /\ verdict \in {"none", "refused", "rejected", "accepted"}
    /\ added \in Seq(Items)
    /\ altered \in BOOLEAN

AddedUnder(tag) == {i \in DOMAIN added : added[i].tag = tag}

(* What reading under item's tag, kind and width gives of what was added   *)
(* first under that tag: the value, nothing when the width is another.     *)
ReadBack(first, item) ==
    IF first.kind = "text" THEN
        IF first.value = <<>> THEN <<>>
        ELSE <<SubSeq(first.value, 1, Min({Len(first.value), item.room - 1}))>>
    ELSE IF first.width = item.width THEN <<first.value>>
    ELSE <<>>

(* Of an accepted packet that noise left alone the handlers read, for each *)
(* tag, exactly what was added first under it: not the bytes of another    *)
(* item that look like a TLV, not what the stack held beyond the length,   *)
(* not a number cut or stretched to another width, not the signature.      *)
ReadsWhatWasAdded ==
    verdict = "accepted" /\ ~altered =>
        \A item \in Items :
            LET under == AddedUnder(item.tag)
                first == added[Min(under)]
            IN  IF under = {} THEN Got(rx, item) = <<>>
                ELSE first.kind = item.kind =>
                        Got(rx, item) = ReadBack(first, item)

(* A datagram that noise changed in up to two neighbouring bytes, cut or   *)
(* lengthened is never taken for a packet.                                 *)
AlteredIsRefused ==
    pc = "received" /\ altered => verdict = "refused"

(* A datagram that noise left alone gets through whole, the header and the *)
(* bytes in use, at a receiver without authentication, and at any receiver *)
(* when the node of the sender signs, even if its caller had signed it or  *)
(* the receiver's mode and its required flag disagree.                     *)
ArrivesWhole ==
    /\ pc = "received"
    /\ ~altered
    /\ policy.mode = "DISABLED" \/ mustSign
    => /\ verdict = "accepted"
       /\ rx.header = packet.header
       /\ Used(rx) = Used(packet)

(* A node that signs sends what was added and one signature after it,      *)
(* however often and whenever the caller signed before.                    *)
SignedOnceAtTheEnd ==
    pc \in {"ready", "sent", "received"} /\ mustSign =>
        Used(packet) =
            WrittenTlvs \o <<AuthTag, HmacSize>> \o HmacOf(packet, Len(WrittenTlvs))
=============================================================================
