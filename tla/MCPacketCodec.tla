--------------------------- MODULE MCPacketCodec ---------------------------
(***************************************************************************)
(* A payload of eleven bytes, a signature of two, and items whose bytes    *)
(* look like TLVs and like a signature.                                    *)
(***************************************************************************)
EXTENDS PacketCodec, Bitwise

MCHmac(bytes) == BigEndian(Crc16(<<75>> \o bytes), 2)

Number(tag, kind, width, value) ==
    [tag |-> tag, kind |-> kind, width |-> width, value |-> value]

Text(tag, room, value) ==
    [tag |-> tag, kind |-> "text", room |-> room, value |-> value]

MCHeaders ==
    {[version |-> 65, type |-> 1, src |-> 16, dst |-> 1,
      bootId |-> 4660, seq |-> 16909060, flags |-> 3]}

(* The sensor id once as a byte and once as two: 482 is read as itself or  *)
(* not at all.  The text is a sensor id TLV followed by a byte.            *)
MCItems ==
    {Number(1, "unsigned", 1, 7), Number(1, "unsigned", 2, 482),
     Number(22, "signed", 1, -60), Number(128, "unsigned", 4, 16909060),
     Text(96, 3, <<1, 1, 9>>)}

MCNoise == {<<1, 0>>, <<171, 205>>}

MCLeftovers ==
    {[i \in 1 .. MaxPayload |-> IF i % 3 = 0 THEN 55 ELSE 1],
     [i \in 1 .. MaxPayload |-> IF i % 2 = 0 THEN 0 ELSE 22]}

(* The turns of the loop on one byte, as the code writes them.             *)
Turned(crc) ==
    IF crc >= 32768 THEN ((2 * crc) % 65536) ^^ 4129 ELSE 2 * crc

TurnedByte(crc, byte) ==
    Turned(Turned(Turned(Turned(Turned(Turned(Turned(Turned(
        crc ^^ (256 * byte)))))))))

(* Bit by bit comes to the same, for every byte and registers of all kinds.*)
ASSUME \A byte \in Byte, crc \in {0, 65535, 1, 32768, 4129, 43690, 52719} :
            CrcByte(crc, byte) = TurnedByte(crc, byte)

(* test_protocol.cpp:46 gives this value for the bytes "123456789".        *)
ASSUME Crc16(<<49, 50, 51, 52, 53, 54, 55, 56, 57>>) = 10673
=============================================================================
