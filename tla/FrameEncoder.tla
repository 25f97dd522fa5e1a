----------------------------- MODULE FrameEncoder -----------------------------
(***************************************************************************)
(* The sending half of WebsocketContext.h/.cc: a WebsocketData object      *)
(* filled by its setters, and WebsocketContext::encode and getFrame, which *)
(* turn it into bytes.  The setters or bits into the two header bytes and  *)
(* never clear any, as in the code.                                        *)
(***************************************************************************)
EXTENDS FrameFormat, NetEndian

NewData == [byte1 |-> 0, byte2 |-> 0, ext |-> 0, len |-> 0,
            key |-> <<>>, payload |-> <<>>]

ResetData(d) == [NewData EXCEPT !.key = d.key]

SetFin(d) == [d EXCEPT !.byte1 = BitOr(@, 128)]

SetOpcode(d, opcode) == [d EXCEPT !.byte1 = BitOr(@, opcode)]

SetMaskKey(d, key) == [d EXCEPT !.byte2 = BitOr(@, 128), !.key = key]

(* Mutant: 126 bytes are taken for a short payload.                        *)
SetLengthShort126(d, n) ==
  LET ext  == IF n > 65535 THEN 8 ELSE IF n > 126 THEN 2 ELSE d.ext
      size == IF n > 65535 THEN PAYLOAD_SIZE_64BIT
              ELSE IF n > 126 THEN PAYLOAD_SIZE_16BIT ELSE n
  IN  [d EXCEPT !.len = n, !.ext = ext, !.byte2 = BitOr(@, size)]

(* setPayload's bookkeeping of a payload of n bytes; its assert is the     *)
(* caller's obligation n <= MAX_PAYLOAD_LENGTH.                            *)
SetLength(d, n) ==
  LET ext  == IF n > 65535 THEN 8 ELSE IF n > PAYLOAD_SIZE_BASIC THEN 2 ELSE d.ext
      size == IF n > 65535 THEN PAYLOAD_SIZE_64BIT
              ELSE IF n > PAYLOAD_SIZE_BASIC THEN PAYLOAD_SIZE_16BIT ELSE n
  IN  [d EXCEPT !.len = n, !.ext = ext, !.byte2 = BitOr(@, size)]

SetPayload(d, data) == [SetLength(d, Len(data)) EXCEPT !.payload = @ \o data]

(* The k bytes of the unsigned integer n, which is below 2^24, and of      *)
(* uint16_t(n) for k = 2.                                                  *)
Unsigned(n, k) ==
  [i \in 1..k |-> CASE i = k     -> n % 256
                    [] i = k - 1 -> (n \div 256) % 256
                    [] i = k - 2 -> (n \div 65536) % 256
                    [] i < k - 2 -> 0]

(* getExtendedPayloadLengthInfo on a host that is little-endian or not.    *)
LengthBytes(little, d) == Stored(little, hton(little, Unsigned(d.len, d.ext)))

EncodeHeader(little, d) ==
  <<d.byte1, d.byte2>> \o (IF d.ext = 0 THEN <<>> ELSE LengthBytes(little, d))
    \o (IF Masked(d.byte2) THEN d.key ELSE <<>>)

Encode(little, d) ==
  LET raw == SubSeq(d.payload, 1, d.len)
  IN  EncodeHeader(little, d)
        \o IF PayloadSize(d.byte2) = 0 THEN <<>>
           ELSE IF Masked(d.byte2) THEN ApplyMask(raw, d.key) ELSE raw

(* The frames of sendText, sendBinary and the control frames; setPayload   *)
(* asserts the limit.                                                      *)
Sendable ==
  [ opcode  : {TEXT, BINARY, CLOSE, PING, PONG}, mask : BOOLEAN,
    key     : {k \in Seq(Byte) : Len(k) = MASK_BYTES},
    payload : {p \in Seq(Byte) : Len(p) <= MAX_PAYLOAD_LENGTH} ]

(* The calls of getFrame on the object d; key is the masking key rand()    *)
(* yields.  getFrame makes a new object for every frame.                   *)
FillHead(d, opcode, mask, key) ==
  LET head == SetOpcode(SetFin(d), opcode)
  IN  IF mask THEN SetMaskKey(head, key) ELSE head

Fill(d, frame) ==
  LET head == FillHead(d, frame.opcode, frame.mask, frame.key)
  IN  IF Len(frame.payload) > 0 THEN SetPayload(head, frame.payload) ELSE head

GetFrame(little, frame) == Encode(little, Fill(NewData, frame))
==============================================================================
