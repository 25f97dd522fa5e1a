----------------------------- MODULE FrameFormat -----------------------------
(***************************************************************************)
(* The two header bytes of a WebSocket frame, its opcodes and its length   *)
(* field, as namespace frame of WebsocketContext.h and netEndian.h define  *)
(* them.  Bytes are the integers 0..255 and every field has the width it   *)
(* has on the wire.                                                        *)
(***************************************************************************)
EXTENDS Integers, Sequences

Byte == 0..255

CONTINUATION == 0
TEXT         == 1
BINARY       == 2
CLOSE        == 8
PING         == 9
PONG         == 10

Reserved(opcode) == opcode \in (3..7) \cup (11..15)

(* Fragments (CONTINUATION) and reserved opcodes are refused.              *)
CanHandleOpcode(opcode) == opcode # CONTINUATION /\ ~Reserved(opcode)

BASIC_HEADER_LENGTH == 2
MASK_BYTES          == 4
PAYLOAD_SIZE_BASIC  == 125
PAYLOAD_SIZE_16BIT  == 126
PAYLOAD_SIZE_64BIT  == 127
MAX_PAYLOAD_LENGTH  == 4194304        \* 2 << 21

(* Fields of the header bytes: byte & 0x0F, byte & 0x80, byte & 0x7F.      *)
Opcode(byte1)      == byte1 % 16
Masked(byte2)      == byte2 \div 128 = 1
PayloadSize(byte2) == byte2 % 128

(* How many bytes of explicit length follow the two header bytes.          *)
ExtendedLength(size) ==
  IF size <= PAYLOAD_SIZE_BASIC THEN 0
  ELSE IF size = PAYLOAD_SIZE_16BIT THEN 2 ELSE 8

(* ntoh16 and ntoh64 of the bytes of s after position p.  The code reads a *)
(* uint64_t and refuses it when it exceeds MAX_PAYLOAD_LENGTH, which is    *)
(* below 2^24: a value with one of its five high bytes set is refused, and *)
(* the value of any other is that of its three low bytes.                  *)
Ntoh16(s, p) == 256 * s[p + 1] + s[p + 2]

Ntoh64(s, p) == 65536 * s[p + 6] + 256 * s[p + 7] + s[p + 8]

(* Mutant: the limit itself is exceeded by one.                            *)
TooLongByOne(s, p) == \/ \E i \in 1..5 : s[p + i] # 0
                      \/ Ntoh64(s, p) > MAX_PAYLOAD_LENGTH + 1

TooLong(s, p) == \/ \E i \in 1..5 : s[p + i] # 0
                 \/ Ntoh64(s, p) > MAX_PAYLOAD_LENGTH

(* a ^ b on bytes, by the weight of each bit.                              *)
Xor(a, b) ==
  LET bit(w) == w * ((a \div w + b \div w) % 2)
  IN  bit(1) + bit(2) + bit(4) + bit(8) + bit(16) + bit(32) + bit(64) + bit(128)

(* The payload bytes data under the four-byte key: the same loop masks and *)
(* unmasks (handlePayload and getPayload).                                 *)
ApplyMask(data, key) ==
  [i \in 1..Len(data) |-> Xor(data[i], key[((i - 1) % MASK_BYTES) + 1])]

(* What the application sees of a frame.                                   *)
Message(opcode, payload) == [opcode |-> opcode, payload |-> payload]
==============================================================================
