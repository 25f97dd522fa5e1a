------------------------- MODULE FrameChannelProofs --------------------------
(***************************************************************************)
(* First the decoder, for every set of byte streams: its type invariant,   *)
(* the invariant that says what it remembers between read events, and the  *)
(* refinement of FrameReader.                                              *)
(*                                                                         *)
(* Then both directions, for every frame the code can send, every masking  *)
(* key and both byte orders: the reader of FrameReader finds in the bytes  *)
(* of getFrame what was given to it.  For every sequence of such frames    *)
(* and every cut of the byte stream: what one endpoint encodes the other   *)
(* decodes.                                                                *)
(*                                                                         *)
(* What FlattenSeq and FoldLeft compute is found by induction: the set of  *)
(* the lengths for which it is so contains 0 and every successor.          *)
(***************************************************************************)
EXTENDS FrameChannel, SequenceTheorems, WellFoundedInduction, TLAPS

(* Fields of a byte.                                                       *)
LEMMA ByteFields ==
  ASSUME NEW b \in Byte
  PROVE  /\ PayloadSize(b) \in 0..127
         /\ Opcode(b) \in 0..15
         /\ Masked(b) \in BOOLEAN
         /\ ExtendedLength(PayloadSize(b)) \in {0, 2, 8}
         /\ ExtendedLength(PayloadSize(b)) = 0 <=> PayloadSize(b) <= PAYLOAD_SIZE_BASIC
         /\ PayloadSize(b) = 0 => ExtendedLength(PayloadSize(b)) = 0
<1>1. PayloadSize(b) \in 0..127
  BY DEF PayloadSize, Byte
<1>2. Opcode(b) \in 0..15
  BY DEF Opcode, Byte
<1>3. Masked(b) \in BOOLEAN
  BY Zenon DEF Masked
<1> QED BY <1>1, <1>2, <1>3 DEF ExtendedLength, PAYLOAD_SIZE_BASIC, PAYLOAD_SIZE_16BIT

LEMMA XorType ==
  ASSUME NEW a \in Byte, NEW b \in Byte
  PROVE  Xor(a, b) \in Byte
<1> DEFINE parity(w) == (a \div w + b \div w) % 2
<1>1. /\ parity(1) \in 0..1 /\ parity(2) \in 0..1 /\ parity(4) \in 0..1
      /\ parity(8) \in 0..1 /\ parity(16) \in 0..1 /\ parity(32) \in 0..1
      /\ parity(64) \in 0..1 /\ parity(128) \in 0..1
  BY DEF Byte
<1>2. Xor(a, b) = 1 * parity(1) + 2 * parity(2) + 4 * parity(4) + 8 * parity(8)
                    + 16 * parity(16) + 32 * parity(32) + 64 * parity(64)
                    + 128 * parity(128)
  BY DEF Xor
<1> HIDE DEF parity
<1> QED BY <1>1, <1>2 DEF Byte

LEMMA ApplyMaskType ==
  ASSUME NEW data \in Seq(Byte), NEW key \in Seq(Byte), Len(key) = 4
  PROVE  ApplyMask(data, key) \in Seq(Byte)
<1>1. ASSUME NEW i \in 1..Len(data)
      PROVE  Xor(data[i], key[((i - 1) % MASK_BYTES) + 1]) \in Byte
  <2>1. ((i - 1) % 4) + 1 \in 1..4
    BY LenProperties
  <2>2. data[i] \in Byte /\ key[((i - 1) % 4) + 1] \in Byte
    BY <2>1, ElementOfSeq
  <2> QED BY <2>2, XorType DEF MASK_BYTES
<1>2. ApplyMask(data, key) \in [1..Len(data) -> Byte]
  BY <1>1 DEF ApplyMask
<1> QED BY <1>2, SeqDef, LenProperties

(* A piece of a byte sequence.                                             *)
LEMMA PieceType ==
  ASSUME NEW s \in Seq(Byte), NEW p \in Nat, NEW n \in Nat, p + n <= Len(s)
  PROVE  /\ [i \in 1..n |-> s[p + i]] \in Seq(Byte)
         /\ Len([i \in 1..n |-> s[p + i]]) = n
         /\ \A i \in 1..n : s[p + i] \in Byte
<1>1. ASSUME NEW i \in 1..n PROVE s[p + i] \in Byte
  <2>1. p + i \in 1..Len(s)
    BY LenProperties
  <2> QED BY <2>1, ElementOfSeq
<1>2. [i \in 1..n |-> s[p + i]] \in [1..n -> Byte]
  BY <1>1
<1>3. [i \in 1..n |-> s[p + i]] \in Seq(Byte)
  BY <1>2, SeqDef
<1> QED BY <1>1, <1>2, <1>3, LenProperties

LEMMA MaxPayload == MAX_PAYLOAD_LENGTH \in Nat /\ MAX_PAYLOAD_LENGTH >= 65535
BY SMT DEF MAX_PAYLOAD_LENGTH

(* The explicit lengths that are not refused fit.                          *)
LEMMA LengthTypes ==
  ASSUME NEW s \in Seq(Byte), NEW p \in Nat
  PROVE  /\ p + 2 <= Len(s) => Ntoh16(s, p) \in 0..MAX_PAYLOAD_LENGTH
         /\ p + 8 <= Len(s) /\ ~TooLong(s, p) => Ntoh64(s, p) \in 0..MAX_PAYLOAD_LENGTH
<1>1. ASSUME p + 2 <= Len(s) PROVE Ntoh16(s, p) \in 0..MAX_PAYLOAD_LENGTH
  <2> DEFINE x == s[p + 1]  y == s[p + 2]
  <2>1. x \in 0..255 /\ y \in 0..255
    BY <1>1, PieceType, 2 \in Nat, 1 \in 1..2, 2 \in 1..2 DEF Byte
  <2>2. Ntoh16(s, p) = 256 * x + y
    BY Zenon DEF Ntoh16
  <2> HIDE DEF x, y
  <2>3. Ntoh16(s, p) \in Int /\ Ntoh16(s, p) >= 0 /\ Ntoh16(s, p) <= 65535
    BY <2>1, <2>2, SMT
  <2> QED BY <2>3, MaxPayload
<1>2. ASSUME p + 8 <= Len(s), ~TooLong(s, p)
      PROVE  Ntoh64(s, p) \in 0..MAX_PAYLOAD_LENGTH
  <2> DEFINE x == s[p + 6]  y == s[p + 7]  z == s[p + 8]
  <2>1. x \in 0..255 /\ y \in 0..255 /\ z \in 0..255
    BY <1>2, PieceType, 8 \in Nat, 6 \in 1..8, 7 \in 1..8, 8 \in 1..8 DEF Byte
  <2>2. Ntoh64(s, p) = 65536 * x + 256 * y + z
    BY SMT DEF Ntoh64
  <2> HIDE DEF x, y, z
  <2>3. ~(Ntoh64(s, p) > MAX_PAYLOAD_LENGTH)
    BY <1>2 DEF TooLong
  <2>4. Ntoh64(s, p) \in Int /\ Ntoh64(s, p) >= 0
    BY <2>1, <2>2, SMT
  <2> QED BY <2>3, <2>4, MaxPayload
<1> QED BY <1>1, <1>2

------------------------------------------------------------------------------
(* The frame at offset o of s, with the operators of this module: the      *)
(* reader defines the same things from the bytes.                          *)

ExtAt(s, o) == ExtendedLength(PayloadSize(s[o + 2]))

LengthAt(s, o) ==
  IF ExtAt(s, o) = 0 THEN PayloadSize(s[o + 2])
  ELSE IF ExtAt(s, o) = 2 THEN Ntoh16(s, o + 2) ELSE Ntoh64(s, o + 2)

HeaderAt(s, o) == 2 + ExtAt(s, o) + IF Masked(s[o + 2]) THEN 4 ELSE 0

KeyAt(s, o) == [i \in 1..4 |-> s[o + (2 + ExtAt(s, o)) + i]]

PayloadAt(s, o) ==
  LET raw == [i \in 1..LengthAt(s, o) |-> s[(o + HeaderAt(s, o)) + i]]
  IN  IF Masked(s[o + 2]) THEN ApplyMask(raw, KeyAt(s, o)) ELSE raw

(* The definitions of FrameFormat that both modules extend.                *)
LEMMA SameFormat ==
  /\ \A b : Reader!PayloadSize(b) = PayloadSize(b)
  /\ \A b : Reader!Opcode(b) = Opcode(b)
  /\ \A b : Reader!Masked(b) = Masked(b)
  /\ \A b : Reader!ExtendedLength(b) = ExtendedLength(b)
  /\ \A c : Reader!CanHandleOpcode(c) = CanHandleOpcode(c)
  /\ \A s, p : Reader!Ntoh16(s, p) = Ntoh16(s, p)
  /\ \A s, p : Reader!Ntoh64(s, p) = Ntoh64(s, p)
  /\ \A s, p : Reader!TooLong(s, p) = TooLong(s, p)
<1>1. \A b : Reader!PayloadSize(b) = PayloadSize(b)
  BY Zenon DEF PayloadSize, Reader!PayloadSize
<1>2. \A b : Reader!Opcode(b) = Opcode(b)
  BY Zenon DEF Opcode, Reader!Opcode
<1>3. \A b : Reader!Masked(b) = Masked(b)
  BY Zenon DEF Masked, Reader!Masked
<1>4. \A b : Reader!ExtendedLength(b) = ExtendedLength(b)
  BY Zenon DEF ExtendedLength, Reader!ExtendedLength, PAYLOAD_SIZE_BASIC,
     Reader!PAYLOAD_SIZE_BASIC, PAYLOAD_SIZE_16BIT, Reader!PAYLOAD_SIZE_16BIT
<1>5. \A c : Reader!CanHandleOpcode(c) = CanHandleOpcode(c)
  BY Zenon DEF CanHandleOpcode, Reader!CanHandleOpcode, Reserved, Reader!Reserved,
     CONTINUATION, Reader!CONTINUATION
<1>6. \A s, p : Reader!Ntoh16(s, p) = Ntoh16(s, p)
  BY Zenon DEF Ntoh16, Reader!Ntoh16
<1>7. \A s, p : Reader!Ntoh64(s, p) = Ntoh64(s, p)
  BY SMT DEF Ntoh64, Reader!Ntoh64
<1>8. \A s, p : Reader!TooLong(s, p) = TooLong(s, p)
  BY SMT DEF TooLong, Reader!TooLong, Ntoh64, Reader!Ntoh64,
     MAX_PAYLOAD_LENGTH, Reader!MAX_PAYLOAD_LENGTH
<1> QED BY <1>1, <1>2, <1>3, <1>4, <1>5, <1>6, <1>7, <1>8

LEMMA SameMask == \A data, key : Reader!ApplyMask(data, key) = ApplyMask(data, key)
<1>1. \A a, b : Reader!Xor(a, b) = Xor(a, b)
  BY Zenon DEF Xor, Reader!Xor
<1> QED BY <1>1 DEF ApplyMask, Reader!ApplyMask, MASK_BYTES, Reader!MASK_BYTES

LEMMA SameFrame ==
  ASSUME NEW s \in Seq(Byte), NEW o \in Nat, o + 2 <= Len(s)
  PROVE  /\ ExtAt(s, o) \in {0, 2, 8}
         /\ Reader!ExtendedLengthAt(s, o) = ExtAt(s, o)
         /\ Reader!PayloadLengthAt(s, o) = LengthAt(s, o)
         /\ Reader!MaskOffset(s, o) = 2 + ExtAt(s, o)
         /\ Reader!HeaderLength(s, o) = HeaderAt(s, o)
         /\ Reader!FrameLength(s, o) = HeaderAt(s, o) + LengthAt(s, o)
         /\ Reader!MaskKeyAt(s, o) = KeyAt(s, o)
         /\ Reader!MessageAt(s, o) = Message(Opcode(s[o + 1]), PayloadAt(s, o))
<1>1. s[o + 2] \in Byte
  BY PieceType, 2 \in Nat, 2 \in 1..2
<1>2. ExtAt(s, o) \in {0, 2, 8}
  BY <1>1, ByteFields DEF ExtAt
<1>3. Reader!ExtendedLengthAt(s, o) = ExtAt(s, o)
  BY SameFormat DEF Reader!ExtendedLengthAt, ExtAt
<1>4. Reader!PayloadLengthAt(s, o) = LengthAt(s, o)
  BY <1>2, <1>3, SameFormat DEF Reader!PayloadLengthAt, LengthAt
<1>5. Reader!MaskOffset(s, o) = 2 + ExtAt(s, o)
  BY <1>3 DEF Reader!MaskOffset, Reader!BASIC_HEADER_LENGTH
<1>6. Reader!HeaderLength(s, o) = HeaderAt(s, o)
  BY <1>5, SameFormat DEF Reader!HeaderLength, HeaderAt, Reader!MASK_BYTES
<1>7. Reader!FrameLength(s, o) = HeaderAt(s, o) + LengthAt(s, o)
  BY <1>4, <1>6 DEF Reader!FrameLength
<1>8. Reader!MaskKeyAt(s, o) = KeyAt(s, o)
  BY <1>5 DEF Reader!MaskKeyAt, KeyAt, Reader!MASK_BYTES
<1>9. Reader!MessageAt(s, o) = Message(Opcode(s[o + 1]), PayloadAt(s, o))
  BY <1>4, <1>6, <1>8, SameFormat, SameMask
     DEF Reader!MessageAt, Reader!RawPayload, PayloadAt, Message, Reader!Message
<1> QED BY <1>2, <1>3, <1>4, <1>5, <1>6, <1>7, <1>8, <1>9

------------------------------------------------------------------------------
(* What the decoder knows of the frame at start when a bytes have arrived. *)

HeaderRead(d) ==
  /\ d.byte1 = stream[start + 1] /\ d.byte2 = stream[start + 2]
  /\ CanHandleOpcode(Opcode(d.byte1))
  /\ d.ext = ExtAt(stream, start)
  /\ start + 2 <= d.pos

LengthRead(d) ==
  /\ d.len = LengthAt(stream, start)
  /\ d.ext = 8 => ~TooLong(stream, start + 2)

RefusedBy(a) ==
  /\ a - start >= 2
  /\ \/ ~CanHandleOpcode(Opcode(stream[start + 1]))
     \/ /\ ExtAt(stream, start) = 8
        /\ a - start >= 10
        /\ TooLong(stream, start + 2)

Reached(d, a) ==
  /\ d \in Decoder
  /\ start <= d.pos /\ d.pos <= a
  /\ d.state # "READY" => d.payload = <<>>
  /\ d.state = "BASIC_HEADER" => d.pos = start /\ d.ext = 0
  /\ d.state = "EXTENDED_HEADER_LENGTH" =>
       HeaderRead(d) /\ d.pos = start + 2 /\ d.ext # 0
  /\ d.state = "GET_MASK" =>
       /\ HeaderRead(d) /\ LengthRead(d) /\ Masked(d.byte2)
       /\ d.pos = start + 2 + d.ext
  /\ d.state = "APPLICATION" =>
       /\ HeaderRead(d) /\ LengthRead(d)
       /\ d.pos = start + HeaderAt(stream, start)
       /\ Masked(d.byte2) => d.key = KeyAt(stream, start)
  /\ d.state = "READY" =>
       /\ HeaderRead(d) /\ LengthRead(d)
       /\ d.pos = start + HeaderAt(stream, start) + LengthAt(stream, start)
       /\ d.payload = PayloadAt(stream, start)
  /\ d.state = "FATAL" => RefusedBy(a)

Setting(a) == stream \in Seq(Byte) /\ start \in Nat /\ a \in Nat /\ a <= Len(stream)

(* How far the parser states are from the exit of the loop.                *)
Rank(d) ==
  CASE d.state = "BASIC_HEADER"           -> 0
    [] d.state = "EXTENDED_HEADER_LENGTH" -> 1
    [] d.state = "GET_MASK"               -> 2
    [] d.state = "APPLICATION"            -> 3
    [] d.state \in {"READY", "FATAL"}     -> 4

LEMMA EmptyPayload ==
  ASSUME NEW s, NEW o, LengthAt(s, o) = 0
  PROVE  PayloadAt(s, o) = <<>>
<1> DEFINE raw == [i \in 1..LengthAt(s, o) |-> s[(o + HeaderAt(s, o)) + i]]
<1>1. raw = <<>>
  OBVIOUS
<1>2. Len(raw) = 0
  BY <1>1, EmptySeq
<1>3. ApplyMask(raw, KeyAt(s, o)) = <<>>
  BY <1>2 DEF ApplyMask
<1> QED BY <1>1, <1>3 DEF PayloadAt

LEMMA BasicHeaderTurn ==
  ASSUME NEW a, Setting(a), NEW d, Reached(d, a),
         d.state = "BASIC_HEADER", a - d.pos >= 2
  PROVE  Reached(DecodeBasicHeader(d), a) /\ Rank(DecodeBasicHeader(d)) > Rank(d)
<1> DEFINE b1 == stream[d.pos + 1]
           b2 == stream[d.pos + 2]
           size == PayloadSize(b2)
           e == DecodeBasicHeader(d)
<1>1. d \in Decoder /\ d.pos = start /\ d.ext = 0 /\ d.payload = <<>> /\ start \in Nat
        /\ start + 2 <= a /\ a \in Nat /\ start + 2 <= Len(stream)
  BY DEF Reached, Setting, Decoder
<1>2. b1 \in Byte /\ b2 \in Byte
  BY <1>1, PieceType, 2 \in Nat, 1 \in 1..2, 2 \in 1..2 DEF Setting
<1>3. /\ size \in 0..127 /\ Masked(b2) \in BOOLEAN
      /\ ExtendedLength(size) \in {0, 2, 8}
      /\ ExtendedLength(size) = 0 <=> size <= PAYLOAD_SIZE_BASIC
      /\ ExtendedLength(size) = ExtAt(stream, start)
  BY <1>1, <1>2, ByteFields DEF ExtAt
<1>4. size \in 0..MAX_PAYLOAD_LENGTH
  BY <1>3, MaxPayload
<1>5. CASE ~CanHandleOpcode(Opcode(b1))
  <2>1. e = [d EXCEPT !.byte1 = b1, !.byte2 = b2, !.state = "FATAL"]
    BY <1>1, <1>5 DEF DecodeBasicHeader, Decoder
  <2>2. e \in Decoder /\ e.state = "FATAL" /\ e.pos = d.pos /\ e.payload = <<>>
    BY <1>1, <1>2, <2>1 DEF Decoder, ParserState
  <2>3. RefusedBy(a)
    BY <1>1, <1>5 DEF RefusedBy
  <2> QED BY <1>1, <2>2, <2>3 DEF Reached, Rank
<1>6. CASE CanHandleOpcode(Opcode(b1))
  <2> DEFINE next == IF size > PAYLOAD_SIZE_BASIC THEN "EXTENDED_HEADER_LENGTH"
                     ELSE IF Masked(b2) THEN "GET_MASK"
                     ELSE IF size = 0 THEN "READY" ELSE "APPLICATION"
             ext  == IF size > PAYLOAD_SIZE_BASIC THEN ExtendedLength(size) ELSE 0
  <2>1. e = [d EXCEPT !.byte1 = b1, !.byte2 = b2, !.pos = start + 2,
                      !.len = size, !.ext = ext, !.state = next]
    BY <1>1, <1>6 DEF DecodeBasicHeader, Decoder, BASIC_HEADER_LENGTH
  <2>2. ext = ExtAt(stream, start) /\ ext \in {0, 2, 8}
    BY <1>3 DEF PAYLOAD_SIZE_BASIC
  <2>3. next \in ParserState
    BY DEF ParserState
  <2> HIDE DEF next, ext
  <2>4. /\ e \in Decoder /\ e.state = next /\ e.pos = start + 2 /\ e.payload = <<>>
        /\ e.byte1 = b1 /\ e.byte2 = b2 /\ e.len = size /\ e.ext = ext
    <3> HIDE DEF e, b1, b2, size
    <3>1. start + 2 \in Nat
      BY <1>1
    <3> QED BY <1>1, <1>2, <1>4, <2>1, <2>2, <2>3, <3>1 DEF Decoder
  <2>5. HeaderRead(e)
    BY <1>1, <1>6, <2>2, <2>4 DEF HeaderRead
  <2>6. CASE size > PAYLOAD_SIZE_BASIC
    <3>1. next = "EXTENDED_HEADER_LENGTH" /\ ext # 0
      BY <1>3, <2>6, <2>2 DEF next, PAYLOAD_SIZE_BASIC
    <3> QED BY <1>1, <2>4, <2>5, <3>1 DEF Reached, Rank
  <2>7. CASE ~(size > PAYLOAD_SIZE_BASIC)
    <3>1. ext = 0 /\ ExtAt(stream, start) = 0 /\ LengthAt(stream, start) = size
      BY <1>1, <2>2, <2>7 DEF ext, LengthAt
    <3>2. LengthRead(e)
      BY <2>4, <3>1 DEF LengthRead
    <3>3. HeaderAt(stream, start) = 2 + IF Masked(b2) THEN 4 ELSE 0
      BY <1>1, <3>1 DEF HeaderAt
    <3>4. CASE Masked(b2)
      BY <1>1, <2>4, <2>5, <2>7, <3>1, <3>2, <3>4 DEF Reached, Rank, next
    <3>5. CASE ~Masked(b2) /\ size = 0
      <4>1. PayloadAt(stream, start) = <<>>
        BY <3>1, <3>5, EmptyPayload
      <4>2. next = "READY"
        BY <2>7, <3>5 DEF next
      <4> QED BY <1>1, <2>4, <2>5, <3>1, <3>2, <3>3, <3>5, <4>1, <4>2 DEF Reached, Rank
    <3>6. CASE ~Masked(b2) /\ size # 0
      <4>1. next = "APPLICATION"
        BY <2>7, <3>6 DEF next
      <4> QED BY <1>1, <2>4, <2>5, <3>1, <3>2, <3>3, <3>6, <4>1 DEF Reached, Rank
    <3> QED BY <3>4, <3>5, <3>6
  <2> QED BY <2>6, <2>7
<1> QED BY <1>5, <1>6

LEMMA ExtendedLengthTurn ==
  ASSUME NEW a, Setting(a), NEW d, Reached(d, a),
         d.state = "EXTENDED_HEADER_LENGTH", a - d.pos >= d.ext
  PROVE  Reached(DecodeExtendedLength(d), a) /\ Rank(DecodeExtendedLength(d)) > Rank(d)
<1> DEFINE e == DecodeExtendedLength(d)
<1>1. /\ d \in Decoder /\ HeaderRead(d) /\ d.pos = start + 2 /\ d.ext # 0
      /\ d.payload = <<>> /\ start \in Nat /\ a \in Nat /\ start + 2 + d.ext <= a
      /\ start + 2 + d.ext <= Len(stream) /\ Len(stream) \in Nat
  BY LenProperties DEF Reached, Setting, Decoder
<1>2. d.ext = ExtAt(stream, start) /\ d.byte2 = stream[start + 2] /\ d.ext \in {2, 8}
  BY <1>1 DEF HeaderRead, Decoder
<1>3. CASE d.ext # 2 /\ TooLong(stream, d.pos)
  <2>1. e = [d EXCEPT !.state = "FATAL"]
    BY <1>3 DEF DecodeExtendedLength
  <2>2. e \in Decoder /\ e.state = "FATAL" /\ e.pos = d.pos /\ e.payload = <<>>
    BY <1>1, <2>1 DEF Decoder, ParserState
  <2>3. RefusedBy(a)
    BY <1>1, <1>2, <1>3 DEF RefusedBy
  <2> QED BY <1>1, <1>3, <2>2, <2>3 DEF Reached, Rank
<1>4. CASE ~(d.ext # 2 /\ TooLong(stream, d.pos))
  <2> DEFINE len  == IF d.ext = 2 THEN Ntoh16(stream, d.pos) ELSE Ntoh64(stream, d.pos)
             next == IF Masked(d.byte2) THEN "GET_MASK" ELSE "APPLICATION"
  <2>1. e = [d EXCEPT !.pos = d.pos + d.ext, !.len = len, !.state = next]
    BY <1>4 DEF DecodeExtendedLength
  <2>2. len \in 0..MAX_PAYLOAD_LENGTH
    <3>1. start + 2 \in Nat /\ stream \in Seq(Byte)
      BY <1>1 DEF Setting
    <3> QED BY <1>1, <1>2, <1>4, <3>1, LengthTypes
  <2>3. len = LengthAt(stream, start)
    BY <1>1, <1>2 DEF LengthAt
  <2>4. next \in ParserState /\ d.pos + d.ext \in Nat
    BY <1>1, <1>2 DEF ParserState
  <2> HIDE DEF len
  <2>5. /\ e \in Decoder /\ e.state = next /\ e.pos = start + 2 + d.ext /\ e.len = len
        /\ e.payload = <<>> /\ e.byte1 = d.byte1 /\ e.byte2 = d.byte2 /\ e.ext = d.ext
    <3> HIDE DEF e, next
    <3> QED BY <1>1, <2>1, <2>2, <2>4 DEF Decoder
  <2>6. HeaderRead(e) /\ LengthRead(e)
    BY <1>1, <1>2, <1>4, <2>3, <2>5 DEF HeaderRead, LengthRead
  <2>7. HeaderAt(stream, start) = 2 + d.ext + IF Masked(d.byte2) THEN 4 ELSE 0
    BY <1>2 DEF HeaderAt
  <2> HIDE DEF e
  <2>8. start <= e.pos /\ e.pos <= a
    BY <1>1, <1>2, <2>5
  <2>9. CASE Masked(d.byte2)
    <3>1. next = "GET_MASK" /\ Masked(e.byte2) /\ e.pos = start + 2 + e.ext
      BY <1>1, <1>2, <2>5, <2>9
    <3> HIDE DEF next
    <3> QED BY <1>1, <2>5, <2>6, <2>8, <3>1 DEF Reached, Rank, e
  <2>10. CASE ~Masked(d.byte2)
    <3>1. HeaderAt(stream, start) = 2 + d.ext
      BY <1>2, <2>7, <2>10
    <3>2. next = "APPLICATION" /\ ~Masked(e.byte2)
          /\ e.pos = start + HeaderAt(stream, start)
      BY <1>1, <1>2, <2>5, <2>10, <3>1
    <3> HIDE DEF next
    <3> QED BY <1>1, <2>5, <2>6, <2>8, <3>2 DEF Reached, Rank, e
  <2> QED BY <2>9, <2>10
<1> QED BY <1>3, <1>4

LEMMA MaskTurn ==
  ASSUME NEW a, Setting(a), NEW d, Reached(d, a),
         d.state = "GET_MASK", a - d.pos >= 4
  PROVE  Reached(DecodeMask(d), a) /\ Rank(DecodeMask(d)) > Rank(d)
<1> DEFINE e    == DecodeMask(d)
           key  == [i \in 1..4 |-> stream[d.pos + i]]
           next == IF PayloadSize(d.byte2) = 0 THEN "READY" ELSE "APPLICATION"
<1>1. /\ d \in Decoder /\ HeaderRead(d) /\ LengthRead(d) /\ Masked(d.byte2)
      /\ d.pos = start + 2 + d.ext /\ d.payload = <<>>
      /\ start \in Nat /\ a \in Nat /\ d.pos \in Nat /\ d.pos + 4 <= a
      /\ d.pos + 4 <= Len(stream) /\ Len(stream) \in Nat
  BY LenProperties DEF Reached, Setting, Decoder
<1>2. /\ d.ext = ExtAt(stream, start) /\ d.byte2 = stream[start + 2]
      /\ d.ext \in {0, 2, 8} /\ d.byte2 \in Byte
  BY <1>1 DEF HeaderRead, Decoder
<1>3. key \in Seq(Byte)
  BY <1>1, PieceType, 4 \in Nat DEF Setting
<1>4. key = KeyAt(stream, start)
  <2>1. d.pos = start + (2 + ExtAt(stream, start))
    BY <1>1, <1>2
  <2> QED BY <2>1 DEF KeyAt
<1>5. e = [d EXCEPT !.pos = d.pos + 4, !.key = key, !.state = next]
  BY DEF DecodeMask, MASK_BYTES
<1>6. next \in ParserState /\ d.pos + 4 \in Nat
  BY <1>1 DEF ParserState
<1>7. /\ e \in Decoder /\ e.state = next /\ e.pos = d.pos + 4 /\ e.key = key
      /\ e.len = d.len /\ e.payload = <<>>
      /\ e.byte1 = d.byte1 /\ e.byte2 = d.byte2 /\ e.ext = d.ext
  <2> HIDE DEF e, key, next
  <2> QED BY <1>1, <1>3, <1>5, <1>6 DEF Decoder
<1>8. HeaderRead(e) /\ LengthRead(e)
  BY <1>1, <1>7 DEF HeaderRead, LengthRead
<1>9. HeaderAt(stream, start) = 2 + d.ext + 4
  BY <1>1, <1>2 DEF HeaderAt
<1> HIDE DEF e, key
<1>10. CASE PayloadSize(d.byte2) = 0
  <2>1. LengthAt(stream, start) = 0
    BY <1>2, <1>10, ByteFields DEF LengthAt, ExtAt
  <2>2. PayloadAt(stream, start) = <<>>
    BY <2>1, EmptyPayload
  <2>3. next = "READY"
    BY <1>10
  <2>4. e.pos = start + HeaderAt(stream, start) + LengthAt(stream, start) /\ start <= e.pos
    BY <1>1, <1>2, <1>7, <1>9, <2>1, SMTT(30)
  <2> HIDE DEF next
  <2> QED BY <1>1, <1>7, <1>8, <2>2, <2>3, <2>4 DEF Reached, Rank, e
<1>11. CASE PayloadSize(d.byte2) # 0
  <2>1. next = "APPLICATION"
    BY <1>11
  <2>2. e.pos = start + HeaderAt(stream, start) /\ start <= e.pos
    BY <1>1, <1>2, <1>7, <1>9, SMTT(30)
  <2> HIDE DEF next
  <2> QED BY <1>1, <1>4, <1>7, <1>8, <2>1, <2>2 DEF Reached, Rank, e
<1> QED BY <1>10, <1>11

LEMMA ApplicationTurn ==
  ASSUME NEW a, Setting(a), NEW d, Reached(d, a),
         d.state = "APPLICATION", a - d.pos >= d.len
  PROVE  Reached(DecodeApplication(d), a) /\ Rank(DecodeApplication(d)) > Rank(d)
<1> DEFINE e    == DecodeApplication(d)
           raw  == [i \in 1..d.len |-> stream[d.pos + i]]
           data == IF Masked(d.byte2) THEN ApplyMask(raw, d.key) ELSE raw
<1>1. /\ d \in Decoder /\ HeaderRead(d) /\ LengthRead(d)
      /\ d.pos = start + HeaderAt(stream, start) /\ d.payload = <<>>
      /\ Masked(d.byte2) => d.key = KeyAt(stream, start)
      /\ start \in Nat /\ a \in Nat /\ d.pos \in Nat /\ start <= d.pos
      /\ d.len \in Nat /\ d.pos + d.len <= a /\ d.pos + d.len <= Len(stream)
      /\ Len(stream) \in Nat
  BY MaxPayload, LenProperties DEF Reached, Setting, Decoder
<1>2. d.ext = ExtAt(stream, start) /\ d.byte2 = stream[start + 2] /\ d.ext \in {0, 2, 8}
  BY <1>1 DEF HeaderRead, Decoder
<1>3. raw \in Seq(Byte)
  BY <1>1, PieceType DEF Setting
<1>4. data \in Seq(Byte)
  <2>1. CASE Masked(d.byte2)
    <3>1. HeaderAt(stream, start) = 2 + d.ext + 4
      BY <1>2, <2>1 DEF HeaderAt
    <3>2. /\ start + (2 + ExtAt(stream, start)) \in Nat
          /\ start + (2 + ExtAt(stream, start)) + 4 <= Len(stream)
      <4> DEFINE h == HeaderAt(stream, start)
                 x == ExtAt(stream, start)
      <4>1. h = 2 + x + 4 /\ x \in Nat /\ d.pos = start + h
        BY <1>1, <1>2, <3>1
      <4> HIDE DEF h, x
      <4>2. d.pos <= Len(stream)
        BY <1>1
      <4>3. start \in Nat /\ Len(stream) \in Nat
        BY <1>1
      <4>4. start + (2 + x + 4) <= Len(stream)
        BY <4>1, <4>2
      <4>5. start + (2 + x) \in Nat /\ start + (2 + x) + 4 <= Len(stream)
        BY <4>1, <4>3, <4>4
      <4> QED BY <4>5 DEF x
    <3>3. KeyAt(stream, start) \in Seq(Byte) /\ Len(KeyAt(stream, start)) = 4
      BY <3>2, PieceType, 4 \in Nat DEF KeyAt, Setting
    <3> HIDE DEF raw
    <3> QED BY <1>1, <1>3, <2>1, <3>3, ApplyMaskType
  <2>2. CASE ~Masked(d.byte2)
    BY <1>3, <2>2
  <2> QED BY <2>1, <2>2
<1>5. data = PayloadAt(stream, start)
  BY <1>1, <1>2 DEF PayloadAt, LengthRead
<1>6. e = [d EXCEPT !.pos = d.pos + d.len, !.payload = data, !.state = "READY"]
  <2>1. d.payload \o data = data
    <3> HIDE DEF data
    <3> QED BY <1>1, <1>4, ConcatEmptySeq
  <2> QED BY <2>1 DEF DecodeApplication
<1>7. /\ e \in Decoder /\ e.state = "READY" /\ e.pos = d.pos + d.len /\ e.len = d.len
      /\ e.payload = data /\ e.byte1 = d.byte1 /\ e.byte2 = d.byte2 /\ e.ext = d.ext
  <2>1. d.pos + d.len \in Nat
    BY <1>1
  <2> HIDE DEF e, data
  <2> QED BY <1>1, <1>4, <1>6, <2>1 DEF Decoder, ParserState
<1> HIDE DEF data, raw
<1>8. HeaderRead(e) /\ LengthRead(e)
  <2> HIDE DEF e
  <2> QED BY <1>1, <1>7 DEF HeaderRead, LengthRead
<1>9. e.pos = start + HeaderAt(stream, start) + LengthAt(stream, start)
  BY <1>1, <1>7 DEF LengthRead
<1>10. Reached(e, a) /\ Rank(e) > Rank(d)
  <2> HIDE DEF e
  <2> QED BY <1>1, <1>5, <1>7, <1>8, <1>9 DEF Reached, Rank
<1> QED BY <1>10

------------------------------------------------------------------------------
(* The whole loop.                                                         *)

Blocked(d, a) == d.state \in {"READY", "FATAL"} \/ a - d.pos < Needed(d)

LEMMA Turn ==
  ASSUME NEW a, Setting(a), NEW d, Reached(d, a)
  PROVE  /\ Reached(DecodeTurn(d, a), a)
         /\ Blocked(d, a) => DecodeTurn(d, a) = d
         /\ ~Blocked(d, a) => Rank(DecodeTurn(d, a)) > Rank(d)
<1>1. CASE Blocked(d, a)
  BY <1>1 DEF Blocked, DecodeTurn
<1>2. CASE ~Blocked(d, a)
  <2>1. /\ d.state \in ParserState /\ d.state \notin {"READY", "FATAL"}
        /\ d.pos \in Nat /\ a \in Nat /\ d.ext \in Nat /\ d.len \in Nat
    BY <1>2, MaxPayload DEF Blocked, Reached, Decoder, Setting
  <2>2. ~(a - d.pos < Needed(d))
    BY <1>2 DEF Blocked
  <2>3. CASE d.state = "BASIC_HEADER"
    <3>1. a - d.pos >= 2 /\ DecodeTurn(d, a) = DecodeBasicHeader(d)
      BY <2>1, <2>2, <2>3 DEF DecodeTurn, Needed, BASIC_HEADER_LENGTH
    <3> QED BY <1>2, <2>3, <3>1, BasicHeaderTurn
  <2>4. CASE d.state = "EXTENDED_HEADER_LENGTH"
    <3>1. a - d.pos >= d.ext /\ DecodeTurn(d, a) = DecodeExtendedLength(d)
      BY <2>1, <2>2, <2>4 DEF DecodeTurn, Needed
    <3> QED BY <1>2, <2>4, <3>1, ExtendedLengthTurn
  <2>5. CASE d.state = "GET_MASK"
    <3>1. a - d.pos >= 4 /\ DecodeTurn(d, a) = DecodeMask(d)
      BY <2>1, <2>2, <2>5 DEF DecodeTurn, Needed, MASK_BYTES
    <3> QED BY <1>2, <2>5, <3>1, MaskTurn
  <2>6. CASE d.state = "APPLICATION"
    <3>1. a - d.pos >= d.len /\ DecodeTurn(d, a) = DecodeApplication(d)
      BY <2>1, <2>2, <2>6 DEF DecodeTurn, Needed
    <3> QED BY <1>2, <2>6, <3>1, ApplicationTurn
  <2> QED BY <2>1, <2>3, <2>4, <2>5, <2>6 DEF ParserState
<1> QED BY <1>1, <1>2

LEMMA RankType ==
  ASSUME NEW d \in Decoder
  PROVE  Rank(d) \in 0..4 /\ (Rank(d) = 4 => d.state \in {"READY", "FATAL"})
BY DEF Rank, Decoder, ParserState

(* Four turns are enough: the loop has broken when Decode returns.         *)
LEMMA LoopExit ==
  ASSUME NEW a, Setting(a), NEW d, Reached(d, a)
  PROVE  Reached(Decode(d, a), a) /\ Blocked(Decode(d, a), a)
<1> DEFINE d1 == DecodeTurn(d, a)
           d2 == DecodeTurn(d1, a)
           d3 == DecodeTurn(d2, a)
           d4 == DecodeTurn(d3, a)
<1>0. d4 = Decode(d, a)
  BY Zenon DEF Decode
<1>1. /\ Reached(d1, a) /\ (Blocked(d, a) => d1 = d)
      /\ (~Blocked(d, a) => Rank(d1) > Rank(d))
  BY Turn
<1> HIDE DEF d1
<1>2. /\ Reached(d2, a) /\ (Blocked(d1, a) => d2 = d1)
      /\ (~Blocked(d1, a) => Rank(d2) > Rank(d1))
  BY <1>1, Turn
<1> HIDE DEF d2
<1>3. /\ Reached(d3, a) /\ (Blocked(d2, a) => d3 = d2)
      /\ (~Blocked(d2, a) => Rank(d3) > Rank(d2))
  BY <1>2, Turn
<1> HIDE DEF d3
<1>4. /\ Reached(d4, a) /\ (Blocked(d3, a) => d4 = d3)
      /\ (~Blocked(d3, a) => Rank(d4) > Rank(d3))
  BY <1>3, Turn
<1> HIDE DEF d4
<1>5. ASSUME ~Blocked(d4, a) PROVE FALSE
  <2>1. ~Blocked(d3, a)
    BY <1>4, <1>5
  <2>2. ~Blocked(d2, a)
    BY <1>3, <2>1
  <2>3. ~Blocked(d1, a)
    BY <1>2, <2>2
  <2>4. ~Blocked(d, a)
    BY <1>1, <2>3
  <2>5. /\ Rank(d) \in 0..4 /\ Rank(d1) \in 0..4 /\ Rank(d2) \in 0..4
        /\ Rank(d3) \in 0..4 /\ Rank(d4) \in 0..4
        /\ (Rank(d4) = 4 => d4.state \in {"READY", "FATAL"})
    BY <1>1, <1>2, <1>3, <1>4, RankType DEF Reached
  <2>6. Rank(d4) = 4
    BY <1>1, <1>2, <1>3, <1>4, <2>1, <2>2, <2>3, <2>4, <2>5
  <2> QED BY <1>5, <2>5, <2>6 DEF Blocked
<1> QED BY <1>0, <1>4, <1>5

------------------------------------------------------------------------------
(* What the exit of the loop says of the frame at start.                   *)

CompleteBy(a) ==
  /\ a - start >= 2
  /\ a - start >= HeaderAt(stream, start)
  /\ a - start >= HeaderAt(stream, start) + LengthAt(stream, start)
  /\ ~RefusedBy(a)

LEMMA SameVerdict ==
  ASSUME NEW a, Setting(a)
  PROVE  /\ Reader!Refused(stream, start, a) <=> RefusedBy(a)
         /\ Reader!Complete(stream, start, a) <=> CompleteBy(a)
<1>1. CASE a - start >= 2
  <2>1. stream \in Seq(Byte) /\ start \in Nat /\ start + 2 <= Len(stream)
    BY <1>1, LenProperties DEF Setting
  <2>2. Reader!Refused(stream, start, a) <=> RefusedBy(a)
    <3>1. /\ Reader!ExtendedLengthAt(stream, start) = ExtAt(stream, start)
          /\ Reader!MaskOffset(stream, start) = 2 + ExtAt(stream, start)
      BY <2>1, SameFrame
    <3> QED BY <3>1, SameFormat DEF Reader!Refused, RefusedBy, Reader!BASIC_HEADER_LENGTH
  <2>3. /\ Reader!HeaderLength(stream, start) = HeaderAt(stream, start)
        /\ Reader!FrameLength(stream, start)
             = HeaderAt(stream, start) + LengthAt(stream, start)
    BY <2>1, SameFrame
  <2> QED BY <2>2, <2>3 DEF Reader!Complete, CompleteBy, Reader!BASIC_HEADER_LENGTH
<1>2. CASE ~(a - start >= 2)
  BY <1>2 DEF Reader!Refused, RefusedBy, Reader!Complete, CompleteBy,
     Reader!BASIC_HEADER_LENGTH
<1> QED BY <1>1, <1>2

LEMMA FrameNumbers ==
  ASSUME NEW a, Setting(a), NEW d, Reached(d, a), HeaderRead(d)
  PROVE  /\ ExtAt(stream, start) \in {0, 2, 8}
         /\ HeaderAt(stream, start) \in Nat
         /\ HeaderAt(stream, start) >= 2 + ExtAt(stream, start)
<1>1. ExtAt(stream, start) \in {0, 2, 8}
  BY DEF HeaderRead, Reached, Decoder
<1> QED BY <1>1 DEF HeaderAt

LEMMA Verdict ==
  ASSUME NEW a, Setting(a), NEW d, Reached(d, a), Blocked(d, a)
  PROVE  /\ d.state = "FATAL" => RefusedBy(a)
         /\ d.state = "READY" => CompleteBy(a)
         /\ d.state \notin {"READY", "FATAL"} => ~RefusedBy(a) /\ ~CompleteBy(a)
<1>1. /\ d \in Decoder /\ start \in Nat /\ a \in Nat /\ d.pos \in Nat
      /\ start <= d.pos /\ d.pos <= a /\ d.len \in Nat /\ d.state \in ParserState
      /\ d.ext \in {0, 2, 8}
  BY MaxPayload DEF Setting, Reached, Decoder
<1>2. CASE d.state = "FATAL"
  BY <1>2 DEF Reached
<1>3. ASSUME HeaderRead(d), LengthRead(d) PROVE ~RefusedBy(a)
  BY <1>3 DEF HeaderRead, LengthRead, RefusedBy
<1>4. CASE d.state = "READY"
  <2>1. /\ HeaderRead(d) /\ LengthRead(d)
        /\ d.pos = start + HeaderAt(stream, start) + LengthAt(stream, start)
    BY <1>4 DEF Reached
  <2>2. LengthAt(stream, start) = d.len /\ start + 2 <= d.pos
    BY <2>1 DEF LengthRead, HeaderRead
  <2>3. HeaderAt(stream, start) \in Nat
    BY <2>1, FrameNumbers
  <2> QED BY <1>1, <1>3, <1>4, <2>1, <2>2, <2>3 DEF CompleteBy
<1>5. CASE d.state = "BASIC_HEADER"
  <2>1. a - start < 2
    BY <1>5 DEF Reached, Blocked, Needed, BASIC_HEADER_LENGTH
  <2> QED BY <1>1, <1>5, <2>1 DEF RefusedBy, CompleteBy
<1>6. CASE d.state = "EXTENDED_HEADER_LENGTH"
  <2>1. HeaderRead(d) /\ d.pos = start + 2 /\ a - d.pos < d.ext
    BY <1>6 DEF Reached, Blocked, Needed
  <2>2. d.ext = ExtAt(stream, start) /\ CanHandleOpcode(Opcode(stream[start + 1]))
    BY <2>1 DEF HeaderRead
  <2>3. HeaderAt(stream, start) \in Nat /\ HeaderAt(stream, start) >= 2 + d.ext
    BY <2>1, <2>2, FrameNumbers
  <2>4. a - start < 2 + d.ext
    BY <1>1, <2>1
  <2>5. ~RefusedBy(a)
    BY <1>1, <2>2, <2>4 DEF RefusedBy
  <2>6. ~CompleteBy(a)
    BY <1>1, <2>3, <2>4 DEF CompleteBy
  <2> QED BY <1>6, <2>5, <2>6
<1>7. CASE d.state = "GET_MASK"
  <2>1. /\ HeaderRead(d) /\ LengthRead(d) /\ Masked(d.byte2)
        /\ d.pos = start + 2 + d.ext /\ a - d.pos < 4
    BY <1>7 DEF Reached, Blocked, Needed, MASK_BYTES
  <2>2. HeaderAt(stream, start) = 2 + d.ext + 4
    BY <2>1 DEF HeaderRead, HeaderAt
  <2>3. a - start < 2 + d.ext + 4
    BY <1>1, <2>1
  <2>4. ~CompleteBy(a)
    BY <1>1, <2>2, <2>3 DEF CompleteBy
  <2> QED BY <1>3, <1>7, <2>1, <2>4
<1>8. CASE d.state = "APPLICATION"
  <2>1. /\ HeaderRead(d) /\ LengthRead(d)
        /\ d.pos = start + HeaderAt(stream, start) /\ a - d.pos < d.len
    BY <1>8 DEF Reached, Blocked, Needed
  <2>2. LengthAt(stream, start) = d.len
    BY <2>1 DEF LengthRead
  <2>3. HeaderAt(stream, start) \in Nat
    BY <2>1, FrameNumbers
  <2>4. ~CompleteBy(a)
    BY <1>1, <2>1, <2>2, <2>3 DEF CompleteBy
  <2> QED BY <1>3, <1>8, <2>1, <2>4
<1> QED BY <1>1, <1>2, <1>4, <1>5, <1>6, <1>7, <1>8 DEF ParserState

------------------------------------------------------------------------------
(* The inductive invariant.                                                *)
IInv == TypeOK /\ Resumable

LEMMA Resume ==
  ASSUME IInv, open, NEW a \in arrived..Len(stream)
  PROVE  Setting(a) /\ Reached(dec, a)
<1>1. /\ stream \in Seq(Byte) /\ start \in Nat /\ arrived \in Nat /\ dec \in Decoder
      /\ a \in Nat /\ arrived <= a /\ a <= Len(stream) /\ Len(stream) \in Nat
      /\ dec.pos \in Nat /\ dec.ext \in {0, 2, 8} /\ dec.state \in ParserState
  BY StreamsAreBytes, LenProperties DEF IInv, TypeOK, Decoder
<1>2. /\ start <= dec.pos /\ dec.pos <= a /\ dec.state \notin {"READY", "FATAL"}
      /\ dec.payload = <<>>
  BY <1>1 DEF IInv, Resumable
<1>3. ASSUME start + 2 <= arrived
      PROVE  /\ Reader!ExtendedLengthAt(stream, start) = ExtAt(stream, start)
             /\ Reader!PayloadLengthAt(stream, start) = LengthAt(stream, start)
             /\ Reader!MaskOffset(stream, start) = 2 + ExtAt(stream, start)
             /\ Reader!HeaderLength(stream, start) = HeaderAt(stream, start)
             /\ Reader!MaskKeyAt(stream, start) = KeyAt(stream, start)
             /\ ExtAt(stream, start) \in {0, 2, 8}
             /\ HeaderAt(stream, start) \in Nat /\ HeaderAt(stream, start) >= 2
  <2>1. start + 2 <= Len(stream)
    BY <1>1, <1>3
  <2>2. ExtAt(stream, start) \in {0, 2, 8}
    BY <1>1, <2>1, SameFrame
  <2>3. HeaderAt(stream, start) \in Nat /\ HeaderAt(stream, start) >= 2
    BY <2>2 DEF HeaderAt
  <2> QED BY <1>1, <2>1, <2>2, <2>3, SameFrame
<1>4. Setting(a)
  BY <1>1 DEF Setting
<1>5. CASE dec.state = "BASIC_HEADER"
  <2>1. dec.pos = start /\ dec.ext = 0
    BY <1>5 DEF IInv, Resumable
  <2> QED BY <1>1, <1>2, <1>4, <1>5, <2>1 DEF Reached
<1>6. CASE dec.state = "EXTENDED_HEADER_LENGTH"
  <2>1. /\ dec.pos = start + 2 /\ dec.ext # 0 /\ dec.pos <= arrived
        /\ dec.byte1 = stream[start + 1] /\ dec.byte2 = stream[start + 2]
        /\ CanHandleOpcode(Opcode(stream[start + 1]))
        /\ dec.ext = Reader!ExtendedLengthAt(stream, start)
    BY <1>6 DEF IInv, Resumable
  <2>2. HeaderRead(dec)
    BY <1>1, <1>3, <2>1 DEF HeaderRead
  <2> QED BY <1>1, <1>2, <1>4, <1>6, <2>1, <2>2 DEF Reached
<1>7. CASE dec.state = "GET_MASK"
  <2>1. /\ dec.pos = start + Reader!MaskOffset(stream, start) /\ dec.pos <= arrived
        /\ dec.byte1 = stream[start + 1] /\ dec.byte2 = stream[start + 2]
        /\ CanHandleOpcode(Opcode(stream[start + 1]))
        /\ dec.ext = Reader!ExtendedLengthAt(stream, start)
        /\ dec.len = Reader!PayloadLengthAt(stream, start)
        /\ dec.ext = 8 => ~TooLong(stream, start + 2)
        /\ Masked(dec.byte2)
    BY <1>7 DEF IInv, Resumable
  <2>2. start + 2 <= arrived
    <3>1. Reader!MaskOffset(stream, start) = 2 + dec.ext
      BY <2>1 DEF Reader!MaskOffset, Reader!BASIC_HEADER_LENGTH
    <3> QED BY <1>1, <2>1, <3>1
  <2>3. dec.ext = ExtAt(stream, start) /\ dec.pos = start + (2 + dec.ext)
    BY <1>3, <2>1, <2>2
  <2>4. HeaderRead(dec) /\ LengthRead(dec) /\ dec.pos = start + 2 + dec.ext
    BY <1>1, <1>3, <2>1, <2>2, <2>3 DEF HeaderRead, LengthRead
  <2> QED BY <1>1, <1>2, <1>4, <1>7, <2>1, <2>4 DEF Reached
<1>8. CASE dec.state = "APPLICATION"
  <2>1. /\ dec.pos = start + Reader!HeaderLength(stream, start) /\ dec.pos <= arrived
        /\ dec.byte1 = stream[start + 1] /\ dec.byte2 = stream[start + 2]
        /\ CanHandleOpcode(Opcode(stream[start + 1]))
        /\ dec.ext = Reader!ExtendedLengthAt(stream, start)
        /\ dec.len = Reader!PayloadLengthAt(stream, start)
        /\ dec.ext = 8 => ~TooLong(stream, start + 2)
        /\ Masked(dec.byte2) => dec.key = Reader!MaskKeyAt(stream, start)
    BY <1>8 DEF IInv, Resumable
  <2>2. start + 2 <= arrived
    <3>1. /\ Reader!HeaderLength(stream, start) \in Nat
          /\ Reader!HeaderLength(stream, start) >= 2
      BY SMTT(30), <1>1, <2>1
         DEF Reader!HeaderLength, Reader!MaskOffset, Reader!BASIC_HEADER_LENGTH,
             Reader!MASK_BYTES
    <3> QED BY <1>1, <2>1, <3>1
  <2>3. HeaderRead(dec) /\ LengthRead(dec)
    BY <1>1, <1>3, <2>1, <2>2 DEF HeaderRead, LengthRead
  <2>4. /\ dec.pos = start + HeaderAt(stream, start)
        /\ Masked(dec.byte2) => dec.key = KeyAt(stream, start)
    BY <1>3, <2>1, <2>2
  <2> QED BY <1>1, <1>2, <1>4, <1>8, <2>3, <2>4 DEF Reached
<1> QED BY <1>1, <1>2, <1>4, <1>5, <1>6, <1>7, <1>8 DEF ParserState

(* What is kept of a frame that is not complete is Resumable.              *)
LEMMA StillResumable ==
  ASSUME NEW a, Setting(a), NEW d, Reached(d, a), d.state # "READY",
         dec' = d, arrived' = a, start' = start, stream' = stream,
         open' = (d.state # "FATAL")
  PROVE  Resumable'
<1>1. /\ d \in Decoder /\ start \in Nat /\ a \in Nat /\ d.pos \in Nat
      /\ start <= d.pos /\ d.pos <= a /\ d.payload = <<>>
      /\ stream \in Seq(Byte) /\ Len(stream) \in Nat /\ a <= Len(stream)
  BY LenProperties DEF Reached, Setting, Decoder
<1>2. ASSUME HeaderRead(d)
      PROVE  /\ d.byte1 = stream[start + 1] /\ d.byte2 = stream[start + 2]
             /\ CanHandleOpcode(Opcode(stream[start + 1]))
             /\ d.ext = Reader!ExtendedLengthAt(stream, start)
             /\ Reader!PayloadLengthAt(stream, start) = LengthAt(stream, start)
             /\ Reader!MaskOffset(stream, start) = 2 + d.ext
             /\ Reader!HeaderLength(stream, start) = HeaderAt(stream, start)
             /\ Reader!MaskKeyAt(stream, start) = KeyAt(stream, start)
  <2>1. start + 2 <= Len(stream)
    BY <1>1, <1>2 DEF HeaderRead
  <2> QED BY <1>1, <1>2, <2>1, SameFrame DEF HeaderRead
<1>3. /\ d.state = "BASIC_HEADER" => d.pos = start /\ d.ext = 0
  BY DEF Reached
<1>4. ASSUME d.state = "EXTENDED_HEADER_LENGTH"
      PROVE  HeaderRead(d) /\ d.pos = start + 2 /\ d.ext # 0
  BY <1>4 DEF Reached
<1>5. ASSUME d.state = "GET_MASK"
      PROVE  /\ HeaderRead(d) /\ Masked(d.byte2)
             /\ d.len = Reader!PayloadLengthAt(stream, start)
             /\ d.ext = 8 => ~TooLong(stream, start + 2)
             /\ d.pos = start + Reader!MaskOffset(stream, start)
  <2>1. HeaderRead(d) /\ LengthRead(d) /\ Masked(d.byte2) /\ d.pos = start + 2 + d.ext
    BY <1>5 DEF Reached
  <2>2. d.ext \in {0, 2, 8}
    BY <1>1 DEF Decoder
  <2>3. d.pos = start + Reader!MaskOffset(stream, start)
    BY <1>1, <1>2, <2>1, <2>2
  <2> QED BY <1>2, <2>1, <2>3 DEF LengthRead
<1>6. ASSUME d.state = "APPLICATION"
      PROVE  /\ HeaderRead(d)
             /\ d.len = Reader!PayloadLengthAt(stream, start)
             /\ d.ext = 8 => ~TooLong(stream, start + 2)
             /\ d.pos = start + Reader!HeaderLength(stream, start)
             /\ Masked(d.byte2) => d.key = Reader!MaskKeyAt(stream, start)
  <2>1. /\ HeaderRead(d) /\ LengthRead(d) /\ d.pos = start + HeaderAt(stream, start)
        /\ Masked(d.byte2) => d.key = KeyAt(stream, start)
    BY <1>6 DEF Reached
  <2> QED BY <1>2, <2>1 DEF LengthRead
<1> QED BY <1>1, <1>2, <1>3, <1>4, <1>5, <1>6 DEF Resumable

LEMMA DispatchStep ==
  ASSUME NEW n, NEW a, Setting(a), NEW d, Reached(d, a), CompleteBy(a), Dispatch(d),
         open, arrived' = a, a = arrived + n, stream' = stream, TypeOK
  PROVE  TypeOK' /\ Resumable' /\ Reader!Receive(n)
<1>1. /\ d.state = "READY" /\ dec' = Reset(d) /\ start' = d.pos /\ open' = open
      /\ delivered' = Append(delivered, Message(Opcode(d.byte1), d.payload))
  BY DEF Dispatch
<1>2. /\ d \in Decoder /\ HeaderRead(d) /\ LengthRead(d)
      /\ d.pos = start + HeaderAt(stream, start) + LengthAt(stream, start)
      /\ d.payload = PayloadAt(stream, start) /\ d.pos \in Nat /\ d.pos <= a
      /\ d.byte1 \in Byte /\ d.payload \in Seq(Byte) /\ d.len \in Nat
      /\ a \in 0..Len(stream) /\ start \in Nat /\ start + 2 <= Len(stream)
      /\ stream \in Seq(Byte)
  BY <1>1, MaxPayload, LenProperties DEF Reached, Setting, Decoder, HeaderRead
<1>3. /\ dec' \in Decoder /\ dec'.state = "BASIC_HEADER" /\ dec'.pos = d.pos
      /\ dec'.ext = 0 /\ dec'.payload = <<>>
  <2>1. <<>> \in Seq(Byte) /\ 0 \in Byte /\ 0 \in 0..MAX_PAYLOAD_LENGTH
    BY MaxPayload DEF Byte
  <2> QED BY <1>1, <1>2, <2>1 DEF Reset, Decoder, ParserState
<1>4. delivered' \in Seq([opcode : 0..15, payload : Seq(Byte)])
  <2>1. Message(Opcode(d.byte1), d.payload) \in [opcode : 0..15, payload : Seq(Byte)]
    BY <1>2, ByteFields DEF Message
  <2> QED BY <1>1, <2>1, AppendProperties DEF TypeOK
<1>5. TypeOK'
  BY <1>1, <1>2, <1>3, <1>4 DEF TypeOK
<1>6. Resumable'
  BY <1>1, <1>2, <1>3 DEF Resumable
<1>7. start' = start + Reader!FrameLength(stream, start)
  <2>1. HeaderAt(stream, start) \in Nat /\ LengthAt(stream, start) \in Nat
    BY <1>2, FrameNumbers DEF LengthRead
  <2>2. Reader!FrameLength(stream, start)
          = HeaderAt(stream, start) + LengthAt(stream, start)
    BY <1>2, SameFrame
  <2> QED BY <1>1, <1>2, <2>1, <2>2
<1>8. delivered' = Append(delivered, Reader!MessageAt(stream, start))
  <2>1. Reader!MessageAt(stream, start)
          = Message(Opcode(stream[start + 1]), PayloadAt(stream, start))
    BY <1>2, SameFrame
  <2> QED BY <1>1, <1>2, <2>1 DEF HeaderRead
<1>9. Reader!Receive(n)
  BY <1>1, <1>7, <1>8, SameVerdict DEF Reader!Receive
<1> QED BY <1>5, <1>6, <1>9

(* A read event keeps the invariant and is one step of the reader.         *)
LEMMA ReadEvent ==
  ASSUME IInv, NEW n \in 1..(Len(stream) - arrived), OnMessage(n)
  PROVE  IInv' /\ Reader!Receive(n)
<1> DEFINE a == arrived + n
           d == Decode(dec, a)
<1>1. /\ stream \in Seq(Byte) /\ arrived \in Nat /\ Len(stream) \in Nat
      /\ start \in Nat
  BY StreamsAreBytes, LenProperties DEF IInv, TypeOK
<1>2. a \in arrived..Len(stream) /\ a \in 0..Len(stream)
  BY <1>1
<1>3. /\ open /\ arrived' = a /\ stream' = stream
      /\ Refuse(d) \/ Dispatch(d) \/ Await(d)
  BY DEF OnMessage
<1>4. Setting(a) /\ Reached(dec, a)
  <2> HIDE DEF a
  <2> QED BY <1>2, <1>3, Resume
<1>5. Reached(d, a) /\ Blocked(d, a)
  <2> HIDE DEF a
  <2> QED BY <1>4, LoopExit
<1> HIDE DEF d
<1>6. /\ d.state = "FATAL" => RefusedBy(a)
      /\ d.state = "READY" => CompleteBy(a)
      /\ d.state \notin {"READY", "FATAL"} => ~RefusedBy(a) /\ ~CompleteBy(a)
  <2> HIDE DEF a
  <2> QED BY <1>4, <1>5, Verdict
<1>7. d \in Decoder
  BY <1>5 DEF Reached
<1>8. CASE Refuse(d)
  <2>1. /\ d.state = "FATAL" /\ dec' = d /\ open' = FALSE
        /\ start' = start /\ delivered' = delivered
    BY <1>8 DEF Refuse
  <2>2. TypeOK'
    BY <1>2, <1>3, <1>7, <2>1 DEF IInv, TypeOK
  <2>3. Resumable'
    <3> HIDE DEF a
    <3> QED BY <1>3, <1>4, <1>5, <2>1, StillResumable
  <2>4. Reader!Receive(n)
    BY <1>3, <1>4, <1>6, <2>1, SameVerdict DEF Reader!Receive
  <2> QED BY <2>2, <2>3, <2>4 DEF IInv
<1>9. CASE Dispatch(d)
  <2>1. CompleteBy(a)
    BY <1>6, <1>9 DEF Dispatch
  <2> QED BY <1>3, <1>4, <1>5, <1>9, <2>1, DispatchStep DEF IInv
<1>10. CASE Await(d)
  <2>1. /\ d.state \notin {"READY", "FATAL"} /\ dec' = d /\ open' = open
        /\ start' = start /\ delivered' = delivered
    BY <1>10 DEF Await
  <2>2. TypeOK'
    BY <1>2, <1>3, <1>7, <2>1 DEF IInv, TypeOK
  <2>3. open' = (d.state # "FATAL")
    BY <1>3, <2>1 DEF IInv, TypeOK
  <2>4. Resumable'
    <3> HIDE DEF a
    <3> QED BY <1>3, <1>4, <1>5, <2>1, <2>3, StillResumable
  <2>5. Reader!Receive(n)
    BY <1>3, <1>4, <1>6, <2>1, SameVerdict DEF Reader!Receive
  <2> QED BY <2>2, <2>4, <2>5 DEF IInv
<1> QED BY <1>3, <1>8, <1>9, <1>10

LEMMA Start == Init => IInv /\ Reader!Init
<1> SUFFICES ASSUME Init PROVE IInv /\ Reader!Init
  OBVIOUS
<1>1. Len(stream) \in Nat /\ stream \in Streams
  BY StreamsAreBytes, LenProperties DEF Init, Fresh
<1>2. dec \in Decoder
  <2>1. <<>> \in Seq(Byte) /\ 0 \in Byte /\ 0 \in 0..MAX_PAYLOAD_LENGTH
    BY MaxPayload DEF Byte
  <2> QED BY <2>1 DEF Init, Fresh, Decoder, ParserState
<1>3. TypeOK
  BY <1>1, <1>2 DEF Init, Fresh, TypeOK
<1>4. Resumable
  BY DEF Init, Fresh, Resumable
<1> QED BY <1>3, <1>4 DEF IInv, Init, Fresh, Reader!Init

LEMMA Step == IInv /\ [Next]_vars => IInv' /\ [Reader!Next]_(Reader!vars)
<1> SUFFICES ASSUME IInv, [Next]_vars
             PROVE  IInv' /\ [Reader!Next]_(Reader!vars)
  OBVIOUS
<1>1. CASE Next
  <2>1. PICK n \in 1..(Len(stream) - arrived) : OnMessage(n)
    BY <1>1 DEF Next
  <2> QED BY <2>1, ReadEvent DEF Reader!Next
<1>2. CASE UNCHANGED vars
  <2>1. IInv'
    BY <1>2 DEF vars, IInv, TypeOK, Resumable
  <2> QED BY <1>2, <2>1 DEF vars, Reader!vars
<1> QED BY <1>1, <1>2

LEMMA Inductive == Spec => []IInv
BY Start, Step, PTL DEF Spec

(* Whatever the peer sends and however it is cut into read events, the     *)
(* state kept by WebsocketContext between two calls of onMessage has its   *)
(* type: no length above MAX_PAYLOAD_LENGTH is ever kept.                  *)
THEOREM TypeCorrect == Spec => []TypeOK
<1>1. IInv => TypeOK
  BY DEF IInv
<1> QED BY <1>1, Inductive, PTL

(* ... and is what the bytes already taken out of the Buffer say.          *)
THEOREM AlwaysResumable == Spec => []Resumable
<1>1. IInv => Resumable
  BY DEF IInv
<1> QED BY <1>1, Inductive, PTL

(* ... and the messages dispatched are the frames of the stream, whole, in *)
(* order and once each, up to the first one that is refused.               *)
THEOREM ReaderImplemented == Spec => ImplementsReader
<1>1. Init => Reader!Init
  BY Start
<1>2. IInv /\ [Next]_vars => [Reader!Next]_(Reader!vars)
  BY Step
<1> QED BY <1>1, <1>2, Inductive, PTL DEF Spec, ImplementsReader, Reader!Spec

------------------------------------------------------------------------------
(* The bytes of an integer on the wire do not depend on the host.          *)

Octet == 0..255

Integer(n) == [1..n -> Octet]

Widths == {2, 4, 8}

(* One byte v at place p, and the last places of data turned round.        *)
Single(n, p, v) == [i \in 1..n |-> IF i = p THEN v ELSE 0]

Turned(data, n, p) == [i \in 1..n |-> IF i >= p THEN data[n + 1 - i] ELSE 0]

------------------------------------------------------------------------------
(* Nothing is lost when a byte is or-ed with zeros.                        *)
LEMMA OrZero ==
  ASSUME NEW a \in Octet
  PROVE  BitOr(a, 0) = a /\ BitOr(0, a) = a
<1> DEFINE bit(w) == IF (a \div w) % 2 = 1 THEN w ELSE 0
<1>1. bit(1) + bit(2) + bit(4) + bit(8) + bit(16) + bit(32) + bit(64) + bit(128) = a
  BY Z3 DEF Octet
<1> QED BY <1>1 DEF BitOr

LEMMA LenInteger ==
  ASSUME NEW n \in Nat, NEW data, DOMAIN data = 1..n, data = [i \in 1..n |-> data[i]]
  PROVE  Len(data) = n
OBVIOUS

(* What the terms of the swaps are: one byte at its new place.             *)
LEMMA FirstByte ==
  ASSUME NEW n \in Nat \ {0}, NEW data \in Integer(n)
  PROVE  ShiftRight(data, n - 1) = Turned(data, n, n)
<1>1. Len(data) = n  BY LenInteger DEF Integer
<1>2. ASSUME NEW i \in 1..n
      PROVE  (IF i > n - 1 THEN data[i - (n - 1)] ELSE 0) = (IF i >= n THEN data[n + 1 - i] ELSE 0)
  <2>1. i > n - 1 <=> i >= n   OBVIOUS
  <2>2. i >= n => i - (n - 1) = n + 1 - i  OBVIOUS
  <2> QED BY <2>1, <2>2
<1> QED BY <1>1, <1>2 DEF ShiftRight, Turned

LEMMA LastByte ==
  ASSUME NEW n \in Nat \ {0}, NEW data \in Integer(n)
  PROVE  ShiftLeft(data, n - 1) = Single(n, 1, data[n])
<1>1. Len(data) = n  BY LenInteger DEF Integer
<1>2. ASSUME NEW i \in 1..n
      PROVE  (IF i + (n - 1) <= n THEN data[i + (n - 1)] ELSE 0) = (IF i = 1 THEN data[n] ELSE 0)
  <2>1. i + (n - 1) <= n <=> i = 1   OBVIOUS
  <2>2. i = 1 => i + (n - 1) = n  OBVIOUS
  <2> QED BY <2>1, <2>2
<1> QED BY <1>1, <1>2 DEF ShiftLeft, Single

LEMMA MovedRight ==
  ASSUME NEW n \in Nat, NEW data \in Integer(n), NEW j \in 1..n, NEW m \in Nat, NEW p \in 1..n,
         p = j + m
  PROVE  ShiftRight(ByteAt(data, j), m) = Single(n, p, data[j])
<1>1. Len(data) = n  BY LenInteger DEF Integer
<1>2. ByteAt(data, j) = [i \in 1..n |-> IF i = j THEN data[i] ELSE 0]
  BY <1>1 DEF ByteAt
<1>3. Len(ByteAt(data, j)) = n  BY <1>2
<1>4. ASSUME NEW i \in 1..n
      PROVE  (IF i > m THEN ByteAt(data, j)[i - m] ELSE 0) = (IF i = p THEN data[j] ELSE 0)
  <2>1. CASE i > m
    <3>1. i - m \in 1..n /\ (i - m = j <=> i = p)  BY <2>1
    <3>2. ByteAt(data, j)[i - m] = IF i - m = j THEN data[i - m] ELSE 0  BY <1>2, <3>1
    <3> QED BY <2>1, <3>1, <3>2
  <2>2. CASE ~(i > m)
    <3>1. i # p  BY <2>2
    <3> QED BY <2>2, <3>1
  <2> QED BY <2>1, <2>2
<1> QED BY <1>3, <1>4 DEF ShiftRight, Single

LEMMA MovedLeft ==
  ASSUME NEW n \in Nat, NEW data \in Integer(n), NEW j \in 1..n, NEW m \in Nat, NEW p \in 1..n,
         j = p + m
  PROVE  ShiftLeft(ByteAt(data, j), m) = Single(n, p, data[j])
<1>1. Len(data) = n  BY LenInteger DEF Integer
<1>2. ByteAt(data, j) = [i \in 1..n |-> IF i = j THEN data[i] ELSE 0]
  BY <1>1 DEF ByteAt
<1>3. Len(ByteAt(data, j)) = n  BY <1>2
<1>4. ASSUME NEW i \in 1..n
      PROVE  (IF i + m <= n THEN ByteAt(data, j)[i + m] ELSE 0) = (IF i = p THEN data[j] ELSE 0)
  <2>1. CASE i + m <= n
    <3>1. i + m \in 1..n /\ (i + m = j <=> i = p)  BY <2>1
    <3>2. ByteAt(data, j)[i + m] = IF i + m = j THEN data[i + m] ELSE 0  BY <1>2, <3>1
    <3> QED BY <2>1, <3>1, <3>2
  <2>2. CASE ~(i + m <= n)
    <3>1. i # p  BY <2>2
    <3> QED BY <2>2, <3>1
  <2> QED BY <2>1, <2>2
<1> QED BY <1>3, <1>4 DEF ShiftLeft, Single

(* Or-ing a term in turns one more place.                                  *)
LEMMA OneMoreTurned ==
  ASSUME NEW n \in Nat, NEW data \in Integer(n), NEW p \in 1..n, NEW j \in 1..n, j = n + 1 - p
  PROVE  Or(Turned(data, n, p + 1), Single(n, p, data[j])) = Turned(data, n, p)
<1>1. Len(Turned(data, n, p + 1)) = n  BY DEF Turned
<1>2. ASSUME NEW i \in 1..n
      PROVE  BitOr(Turned(data, n, p + 1)[i], Single(n, p, data[j])[i]) = Turned(data, n, p)[i]
  <2>1. n + 1 - i \in 1..n /\ data[n + 1 - i] \in Octet /\ data[j] \in Octet  BY DEF Integer
  <2>2. 0 \in Octet  BY DEF Octet
  <2>3. CASE i = p
    <3>1. Turned(data, n, p + 1)[i] = 0 /\ Single(n, p, data[j])[i] = data[j]
          /\ Turned(data, n, p)[i] = data[j]
      BY <2>3 DEF Turned, Single
    <3> QED BY <2>1, <3>1, OrZero
  <2>4. CASE i > p
    <3>1. Turned(data, n, p + 1)[i] = data[n + 1 - i] /\ Single(n, p, data[j])[i] = 0
          /\ Turned(data, n, p)[i] = data[n + 1 - i]
      BY <2>4 DEF Turned, Single
    <3> QED BY <2>1, <3>1, OrZero
  <2>5. CASE i < p
    <3>1. Turned(data, n, p + 1)[i] = 0 /\ Single(n, p, data[j])[i] = 0
          /\ Turned(data, n, p)[i] = 0
      BY <2>5 DEF Turned, Single
    <3> QED BY <2>2, <3>1, OrZero
  <2> QED BY <2>3, <2>4, <2>5
<1>3. Turned(data, n, p) = [i \in 1..n |-> Turned(data, n, p)[i]]  BY DEF Turned
<1> QED BY <1>1, <1>2, <1>3 DEF Or

------------------------------------------------------------------------------
(* The swaps turn the bytes of an integer round.                           *)
LEMMA Swap16 ==
  ASSUME NEW data \in Integer(2)
  PROVE  bswap16(data) = Turned(data, 2, 1)
<1>1. ShiftRight(data, 1) = Turned(data, 2, 2)  BY FirstByte
<1>2. ShiftLeft(data, 1) = Single(2, 1, data[2])  BY LastByte
<1> QED BY <1>1, <1>2, OneMoreTurned DEF bswap16

LEMMA Swap32 ==
  ASSUME NEW data \in Integer(4)
  PROVE  bswap32(data) = Turned(data, 4, 1)
<1>1. ShiftRight(data, 3) = Turned(data, 4, 4)  BY FirstByte
<1>2. ShiftRight(ByteAt(data, 2), 1) = Single(4, 3, data[2])  BY MovedRight
<1>3. ShiftLeft(ByteAt(data, 3), 1) = Single(4, 2, data[3])  BY MovedLeft
<1>4. ShiftLeft(data, 3) = Single(4, 1, data[4])  BY LastByte
<1>5. Or(Turned(data, 4, 4), Single(4, 3, data[2])) = Turned(data, 4, 3)  BY OneMoreTurned
<1>6. Or(Turned(data, 4, 3), Single(4, 2, data[3])) = Turned(data, 4, 2)  BY OneMoreTurned
<1>7. Or(Turned(data, 4, 2), Single(4, 1, data[4])) = Turned(data, 4, 1)  BY OneMoreTurned
<1> QED BY <1>1, <1>2, <1>3, <1>4, <1>5, <1>6, <1>7 DEF bswap32

LEMMA Swap64 ==
  ASSUME NEW data \in Integer(8)
  PROVE  bswap64(data) = Turned(data, 8, 1)
<1>1. ShiftRight(data, 7) = Turned(data, 8, 8)  BY FirstByte
<1>2. ShiftRight(ByteAt(data, 2), 5) = Single(8, 7, data[2])  BY MovedRight
<1>3. ShiftRight(ByteAt(data, 3), 3) = Single(8, 6, data[3])  BY MovedRight
<1>4. ShiftRight(ByteAt(data, 4), 1) = Single(8, 5, data[4])  BY MovedRight
<1>5. ShiftLeft(ByteAt(data, 5), 1) = Single(8, 4, data[5])  BY MovedLeft
<1>6. ShiftLeft(ByteAt(data, 6), 3) = Single(8, 3, data[6])  BY MovedLeft
<1>7. ShiftLeft(ByteAt(data, 7), 5) = Single(8, 2, data[7])  BY MovedLeft
<1>8. ShiftLeft(data, 7) = Single(8, 1, data[8])  BY LastByte
<1>9. Or(Turned(data, 8, 8), Single(8, 7, data[2])) = Turned(data, 8, 7)  BY OneMoreTurned
<1>10. Or(Turned(data, 8, 7), Single(8, 6, data[3])) = Turned(data, 8, 6)  BY OneMoreTurned
<1>11. Or(Turned(data, 8, 6), Single(8, 5, data[4])) = Turned(data, 8, 5)  BY OneMoreTurned
<1>12. Or(Turned(data, 8, 5), Single(8, 4, data[5])) = Turned(data, 8, 4)  BY OneMoreTurned
<1>13. Or(Turned(data, 8, 4), Single(8, 3, data[6])) = Turned(data, 8, 3)  BY OneMoreTurned
<1>14. Or(Turned(data, 8, 3), Single(8, 2, data[7])) = Turned(data, 8, 2)  BY OneMoreTurned
<1>15. Or(Turned(data, 8, 2), Single(8, 1, data[8])) = Turned(data, 8, 1)  BY OneMoreTurned
<1> QED
  BY <1>1, <1>2, <1>3, <1>4, <1>5, <1>6, <1>7, <1>8, <1>9, <1>10, <1>11, <1>12, <1>13,
     <1>14, <1>15, Zenon DEF bswap64

LEMMA Swapped ==
  ASSUME NEW n \in Widths, NEW data \in Integer(n)
  PROVE  bswap(data) = [i \in 1..n |-> data[n + 1 - i]]
<1>1. Len(data) = n  BY LenInteger DEF Integer, Widths
<1>2. bswap(data) = Turned(data, n, 1)
  <2>1. CASE n = 2  BY <1>1, <2>1, Swap16 DEF bswap
  <2>2. CASE n = 4  BY <1>1, <2>2, Swap32 DEF bswap
  <2>3. CASE n = 8  BY <1>1, <2>3, Swap64 DEF bswap
  <2> QED BY <2>1, <2>2, <2>3 DEF Widths
<1> QED BY <1>2 DEF Turned

(* Whichever way a host stores its integers, what hton leaves in memory    *)
(* are the bytes of the integer with the most significant first, and ntoh  *)
(* makes the integer of those bytes again: hosts agree on the wire.        *)
THEOREM HostsAgreeOnTheWire ==
  ASSUME NEW n \in Widths, NEW data \in Integer(n), NEW little \in BOOLEAN
  PROVE  /\ Stored(little, hton(little, data)) = data
         /\ ntoh(little, Loaded(little, data)) = data
<1>1. n \in Nat /\ Len(data) = n /\ data = [i \in 1..n |-> data[i]]
  BY LenInteger DEF Integer, Widths
<1>2. CASE ~little
  BY <1>1, <1>2 DEF Stored, Loaded, hton, ntoh
<1>3. CASE little
  <2> DEFINE turned == [i \in 1..n |-> data[n + 1 - i]]
  <2>1. turned \in Integer(n)
    <3>1. \A i \in 1..n : n + 1 - i \in 1..n  BY <1>1
    <3> QED BY <3>1 DEF Integer
  <2>2. Len(turned) = n  BY <1>1
  <2>3. \A i \in 1..n : turned[n + 1 - i] = data[i]
    <3> TAKE i \in 1..n
    <3>1. n + 1 - i \in 1..n /\ n + 1 - (n + 1 - i) = i  BY <1>1
    <3> QED BY <3>1
  <2>4. bswap(data) = turned  BY Swapped
  <2> HIDE DEF turned
  <2>5. bswap(turned) = [i \in 1..n |-> turned[n + 1 - i]]  BY <2>1, Swapped
  <2>6. [i \in 1..n |-> turned[n + 1 - i]] = data  BY <1>1, <2>3
  <2>7. Stored(little, turned) = data  BY <1>3, <2>2, <2>6 DEF Stored
  <2>8. Loaded(little, data) = turned  BY <1>1, <1>3 DEF Loaded, turned
  <2> QED BY <1>3, <2>4, <2>5, <2>6, <2>7, <2>8 DEF hton, ntoh
<1> QED BY <1>2, <1>3

------------------------------------------------------------------------------
(* Bits: byte arithmetic of the header and of the mask.                    *)

Bit == {0, 1}

(* A byte is the sum of its bits.                                          *)
LEMMA BitsOfByte ==
  ASSUME NEW a \in Byte
  PROVE  a = 128 * ((a \div 128) % 2) + 64 * ((a \div 64) % 2) + 32 * ((a \div 32) % 2)
               + 16 * ((a \div 16) % 2) + 8 * ((a \div 8) % 2) + 4 * ((a \div 4) % 2)
               + 2 * ((a \div 2) % 2) + ((a \div 1) % 2)
BY Z3 DEF Byte

(* Adding the same bit twice changes no parity.                            *)
LEMMA Parity ==
  ASSUME NEW m \in Int, NEW n \in Int, NEW k \in Int, k % 2 = (m + n) % 2
  PROVE  (k + n) % 2 = m % 2
BY Z3

LEMMA XorBits ==
  ASSUME NEW a \in Byte, NEW b \in Byte, NEW w \in {1, 2, 4, 8, 16, 32, 64, 128}
  PROVE  /\ Xor(a, b) \in Byte
         /\ (Xor(a, b) \div w) % 2 = (a \div w + b \div w) % 2
<1> DEFINE c(v) == (a \div v + b \div v) % 2
<1> DEFINE x == Xor(a, b)
<1>1. ASSUME NEW v \in {1, 2, 4, 8, 16, 32, 64, 128} PROVE c(v) \in Bit
  BY Z3 DEF Byte, Bit
<1>2. x = 1 * c(1) + 2 * c(2) + 4 * c(4) + 8 * c(8) + 16 * c(16) + 32 * c(32)
            + 64 * c(64) + 128 * c(128)
  BY DEF Xor
<1>3. c(1) \in Bit /\ c(2) \in Bit /\ c(4) \in Bit /\ c(8) \in Bit /\ c(16) \in Bit
      /\ c(32) \in Bit /\ c(64) \in Bit /\ c(128) \in Bit
  BY <1>1
<1>4. w = 1 \/ w = 2 \/ w = 4 \/ w = 8 \/ w = 16 \/ w = 32 \/ w = 64 \/ w = 128
  OBVIOUS
<1> HIDE DEF c, x
<1>p1. PICK c1 \in Bit : c1 = c(1)  BY <1>3
<1>p2. PICK c2 \in Bit : c2 = c(2)  BY <1>3
<1>p4. PICK c4 \in Bit : c4 = c(4)  BY <1>3
<1>p8. PICK c8 \in Bit : c8 = c(8)  BY <1>3
<1>p16. PICK c16 \in Bit : c16 = c(16)  BY <1>3
<1>p32. PICK c32 \in Bit : c32 = c(32)  BY <1>3
<1>p64. PICK c64 \in Bit : c64 = c(64)  BY <1>3
<1>p128. PICK c128 \in Bit : c128 = c(128)  BY <1>3
<1>5. /\ x \in Int
      /\ x = c1 + 2 * c2 + 4 * c4 + 8 * c8 + 16 * c16 + 32 * c32 + 64 * c64 + 128 * c128
  BY <1>2, <1>p1, <1>p2, <1>p4, <1>p8, <1>p16, <1>p32, <1>p64, <1>p128 DEF Bit
<1>6. /\ x \in Byte
      /\ (x \div 1) % 2 = c1 /\ (x \div 2) % 2 = c2 /\ (x \div 4) % 2 = c4
      /\ (x \div 8) % 2 = c8 /\ (x \div 16) % 2 = c16 /\ (x \div 32) % 2 = c32
      /\ (x \div 64) % 2 = c64 /\ (x \div 128) % 2 = c128
  BY <1>5, Z3 DEF Byte, Bit
<1>7. (x \div w) % 2 = c(w)
  BY <1>4, <1>6, <1>p1, <1>p2, <1>p4, <1>p8, <1>p16, <1>p32, <1>p64, <1>p128, ZenonT(40)
<1> QED BY <1>6, <1>7 DEF c, x

(* Masking twice with the same key gives the byte back.                    *)
LEMMA XorTwice ==
  ASSUME NEW a \in Byte, NEW b \in Byte
  PROVE  Xor(Xor(a, b), b) = a
<1> DEFINE x == Xor(a, b)
<1>1. x \in Byte
  BY XorBits
<1>2. ASSUME NEW w \in {1, 2, 4, 8, 16, 32, 64, 128}
      PROVE  (x \div w + b \div w) % 2 = (a \div w) % 2
  <2>1. (x \div w) % 2 = (a \div w + b \div w) % 2
    BY XorBits
  <2>2. x \div w \in Int /\ a \div w \in Int /\ b \div w \in Int
    BY <1>1 DEF Byte
  <2> HIDE DEF x
  <2> QED BY <2>1, <2>2, Parity
<1> HIDE DEF x
<1>3. Xor(x, b) = 1 * ((a \div 1) % 2) + 2 * ((a \div 2) % 2) + 4 * ((a \div 4) % 2)
                    + 8 * ((a \div 8) % 2) + 16 * ((a \div 16) % 2) + 32 * ((a \div 32) % 2)
                    + 64 * ((a \div 64) % 2) + 128 * ((a \div 128) % 2)
  BY <1>2 DEF Xor
<1>4. Xor(x, b) = a
  BY <1>3, BitsOfByte DEF Byte
<1> QED BY <1>4 DEF x

(* Setting the high bit of a byte that has it not.                         *)
LEMMA OrHighBit ==
  ASSUME NEW v \in 0..127
  PROVE  BitOr(128, v) = 128 + v
BY Z3 DEF BitOr

------------------------------------------------------------------------------
(* The object that is encoded, and its bytes.                              *)

LEMMA Constants ==
  /\ TEXT \in 0..15 /\ BINARY \in 0..15 /\ CLOSE \in 0..15 /\ PING \in 0..15 /\ PONG \in 0..15
  /\ CanHandleOpcode(TEXT) /\ CanHandleOpcode(BINARY) /\ CanHandleOpcode(CLOSE)
  /\ CanHandleOpcode(PING) /\ CanHandleOpcode(PONG)
BY DEF TEXT, BINARY, CLOSE, PING, PONG, CanHandleOpcode, CONTINUATION, Reserved

(* The first header byte: FIN and an opcode.                               *)
FinAnd(opcode) == BitOr(BitOr(0, 128), opcode)

LEMMA FirstHeaderByte ==
  ASSUME NEW opcode \in 0..15
  PROVE  FinAnd(opcode) = 128 + opcode /\ Opcode(FinAnd(opcode)) = opcode
<1>1. BitOr(0, 128) = 128
  BY OrZero DEF Octet
<1>2. FinAnd(opcode) = 128 + opcode
  BY <1>1, OrHighBit DEF FinAnd
<1>3. (128 + opcode) % 16 = opcode
  BY Z3
<1> QED BY <1>2, <1>3 DEF Opcode

(* The second: the mask bit and the size, which says how long the length   *)
(* field is.                                                               *)
LengthField(n) == IF n > 65535 THEN 8 ELSE IF n > 125 THEN 2 ELSE 0

SizeBits(n) == IF n > 65535 THEN 127 ELSE IF n > 125 THEN 126 ELSE n

MaskBit(mask) == IF mask THEN 128 ELSE 0

LEMMA SecondHeaderByte ==
  ASSUME NEW mask \in BOOLEAN, NEW n \in Nat
  PROVE  LET byte2 == BitOr(MaskBit(mask), SizeBits(n))
         IN  /\ byte2 = MaskBit(mask) + SizeBits(n)
             /\ Masked(byte2) <=> mask
             /\ PayloadSize(byte2) = SizeBits(n)
             /\ ExtendedLength(PayloadSize(byte2)) = LengthField(n)
<1> DEFINE size == SizeBits(n)
<1>1. size \in 0..127 /\ size \in Octet
  BY DEF SizeBits, Octet
<1>2. BitOr(MaskBit(mask), size) = MaskBit(mask) + size
  BY <1>1, OrHighBit, OrZero DEF MaskBit
<1>3. ExtendedLength(size) = LengthField(n)
  BY DEF ExtendedLength, SizeBits, LengthField, PAYLOAD_SIZE_BASIC, PAYLOAD_SIZE_16BIT
<1> HIDE DEF size
<1>4. (128 + size) \div 128 = 1 /\ (0 + size) \div 128 # 1
  BY <1>1, Z3
<1>5. (128 + size) % 128 = size /\ (0 + size) % 128 = size
  BY <1>1, Z3
<1>6. (Masked(MaskBit(mask) + size) <=> mask) /\ PayloadSize(MaskBit(mask) + size) = size
  BY <1>4, <1>5 DEF Masked, PayloadSize, MaskBit
<1> QED BY <1>2, <1>3, <1>6 DEF size

(* An object without a frame; its key may be that of an earlier frame.     *)
Blank(key) == [byte1 |-> 0, byte2 |-> 0, ext |-> 0, len |-> 0, key |-> key, payload |-> <<>>]

LEMMA BlankObjects == NewData = Blank(<<>>) /\ \A d : ResetData(d) = Blank(d.key)
BY DEF NewData, ResetData, Blank

LEMMA HeadFilled ==
  ASSUME NEW old, NEW opcode, NEW mask \in BOOLEAN, NEW key
  PROVE  FillHead(Blank(old), opcode, mask, key)
           = [byte1 |-> FinAnd(opcode), byte2 |-> MaskBit(mask), ext |-> 0, len |-> 0,
              key |-> IF mask THEN key ELSE old, payload |-> <<>>]
<1>1. BitOr(0, 128) = 128
  BY OrZero DEF Octet
<1> DEFINE plain == SetOpcode(SetFin(Blank(old)), opcode)
<1>2. plain = [byte1 |-> FinAnd(opcode), byte2 |-> 0, ext |-> 0, len |-> 0,
               key |-> old, payload |-> <<>>]
  <2>1. SetFin(Blank(old)) = [byte1 |-> BitOr(0, 128), byte2 |-> 0, ext |-> 0, len |-> 0,
                              key |-> old, payload |-> <<>>]
    BY DEF SetFin, Blank
  <2> QED BY <2>1 DEF SetOpcode, FinAnd
<1>3. FillHead(Blank(old), opcode, mask, key) = IF mask THEN SetMaskKey(plain, key) ELSE plain
  BY DEF FillHead
<1> HIDE DEF plain
<1>4. CASE mask
  <2>1. SetMaskKey(plain, key)
          = [byte1 |-> FinAnd(opcode), byte2 |-> 128, ext |-> 0, len |-> 0,
             key |-> key, payload |-> <<>>]
    <3>1. SetMaskKey(plain, key) = [plain EXCEPT !.byte2 = 128, !.key = key]
      BY <1>1, <1>2 DEF SetMaskKey
    <3> QED BY <1>2, <3>1
  <2> QED BY <1>3, <1>4, <2>1 DEF MaskBit
<1>5. CASE ~mask
  BY <1>2, <1>3, <1>5 DEF MaskBit
<1> QED BY <1>4, <1>5

(* What the setters have made of it.                                       *)
LEMMA Filled ==
  ASSUME NEW frame \in Sendable, NEW old
  PROVE  LET d == Fill(Blank(old), frame)
             n == Len(frame.payload)
         IN  /\ d.byte1 = FinAnd(frame.opcode)
             /\ d.byte2 = BitOr(MaskBit(frame.mask), SizeBits(n))
             /\ d.ext = LengthField(n) /\ d.len = n /\ d.payload = frame.payload
             /\ frame.mask => d.key = frame.key
<1> DEFINE n == Len(frame.payload)
<1> DEFINE head == FillHead(Blank(old), frame.opcode, frame.mask, frame.key)
<1>1. n \in Nat /\ frame.payload \in Seq(Byte) /\ frame.mask \in BOOLEAN
  BY LenProperties DEF Sendable
<1>2. /\ head.byte1 = FinAnd(frame.opcode)
      /\ head.byte2 = MaskBit(frame.mask) /\ head.ext = 0 /\ head.len = 0
      /\ head.payload = <<>> /\ (frame.mask => head.key = frame.key)
      /\ head = [byte1 |-> head.byte1, byte2 |-> head.byte2, ext |-> 0, len |-> 0,
                 key |-> head.key, payload |-> <<>>]
  <2>1. head = [byte1 |-> FinAnd(frame.opcode), byte2 |-> MaskBit(frame.mask), ext |-> 0,
                len |-> 0, key |-> IF frame.mask THEN frame.key ELSE old, payload |-> <<>>]
    BY <1>1, HeadFilled
  <2> HIDE DEF head
  <2> QED BY <2>1
<1> HIDE DEF head
<1>3. CASE n > 0
  <2>1. Fill(Blank(old), frame) = SetPayload(head, frame.payload)
    BY <1>3 DEF Fill, head
  <2>2. <<>> \o frame.payload = frame.payload
    BY <1>1
  <2> QED
    BY <1>1, <1>2, <1>3, <2>1, <2>2
    DEF SetPayload, SetLength, LengthField, SizeBits, PAYLOAD_SIZE_BASIC, PAYLOAD_SIZE_16BIT,
        PAYLOAD_SIZE_64BIT
<1>4. CASE ~(n > 0)
  <2>1. n = 0 /\ frame.payload = <<>>
    BY <1>1, <1>4, EmptySeq
  <2>2. Fill(Blank(old), frame) = head
    BY <1>4 DEF Fill, head
  <2>3. BitOr(MaskBit(frame.mask), 0) = MaskBit(frame.mask)
    BY OrZero DEF MaskBit, Octet
  <2> QED BY <1>2, <2>1, <2>2, <2>3 DEF LengthField, SizeBits
<1> QED BY <1>3, <1>4

LEMMA LengthClasses ==
  ASSUME NEW n \in Nat, n <= MAX_PAYLOAD_LENGTH, LengthField(n) # 0
  PROVE  /\ n <= 64 * 65536
         /\ LengthField(n) = IF n <= 65535 THEN 2 ELSE 8
<1>1. n <= 64 * 65536
  BY SMT DEF MAX_PAYLOAD_LENGTH
<1>2. LengthField(n) = IF n <= 65535 THEN 2 ELSE 8
  BY <1>1, SMT DEF LengthField
<1> QED BY <1>1, <1>2

(* The three low bytes of an integer.                                      *)
Low(n)  == n % 256
Mid(n)  == (n \div 256) % 256
High(n) == (n \div 65536) % 256

LEMMA LowBytes ==
  ASSUME NEW n \in Nat, n <= 64 * 65536
  PROVE  /\ Low(n) \in Octet /\ Mid(n) \in Octet /\ High(n) \in Octet
         /\ n <= 65535 => 256 * Mid(n) + Low(n) = n
         /\ 65536 * High(n) + 256 * Mid(n) + Low(n) = n
<1>1. Low(n) \in Octet /\ Mid(n) \in Octet /\ High(n) \in Octet
  BY Z3 DEF Low, Mid, High, Octet
<1>2. n <= 65535 => 256 * Mid(n) + Low(n) = n
  BY Z3 DEF Low, Mid
<1>3. 65536 * High(n) + 256 * Mid(n) + Low(n) = n
  BY Z3 DEF Low, Mid, High
<1> QED BY <1>1, <1>2, <1>3

(* The places of the bytes in the length field.                            *)
LEMMA UnsignedBytes ==
  ASSUME NEW n \in Nat, n <= 64 * 65536, NEW k \in {2, 8}
  PROVE  /\ Unsigned(n, k) \in Integer(k)
         /\ Unsigned(n, k)[k] = Low(n) /\ Unsigned(n, k)[k - 1] = Mid(n)
         /\ k = 8 => Unsigned(n, k)[6] = High(n) /\ \A i \in 1..5 : Unsigned(n, k)[i] = 0
<1> DEFINE byte(i) == CASE i = k     -> Low(n)
                        [] i = k - 1 -> Mid(n)
                        [] i = k - 2 -> High(n)
                        [] i < k - 2 -> 0
<1>1. Unsigned(n, k) = [i \in 1..k |-> byte(i)]
  BY DEF Unsigned, Low, Mid, High
<1>2. ASSUME NEW i \in 1..k
      PROVE  /\ i = k => byte(i) = Low(n)
             /\ i = k - 1 => byte(i) = Mid(n)
             /\ i = k - 2 => byte(i) = High(n)
             /\ i < k - 2 => byte(i) = 0
  BY <1>2
<1> HIDE DEF byte
<1>3. ASSUME NEW i \in 1..k PROVE byte(i) \in Octet
  <2>1. i = k \/ i = k - 1 \/ i = k - 2 \/ i < k - 2
    BY <1>3
  <2>2. 0 \in Octet
    BY DEF Octet
  <2> QED BY <1>2, <2>1, <2>2, LowBytes
<1>4. k \in 1..k /\ k - 1 \in 1..k
  OBVIOUS
<1>5. /\ k = 8 => 6 \in 1..k /\ 6 = k - 2
      /\ k = 8 => \A i \in 1..5 : i \in 1..k /\ i < k - 2
  OBVIOUS
<1>6. Unsigned(n, k) \in Integer(k)
  BY <1>1, <1>3 DEF Integer
<1>7. Unsigned(n, k)[k] = Low(n) /\ Unsigned(n, k)[k - 1] = Mid(n)
  BY <1>1, <1>2, <1>4
<1>8. k = 8 => Unsigned(n, k)[6] = High(n) /\ \A i \in 1..5 : Unsigned(n, k)[i] = 0
  BY <1>1, <1>2, <1>5
<1> QED BY <1>6, <1>7, <1>8

(* The bytes of the length field, which are the same on both hosts, and    *)
(* what the reader makes of them.                                          *)
LEMMA LengthFieldBytes ==
  ASSUME NEW little \in BOOLEAN, NEW n \in Nat, n <= MAX_PAYLOAD_LENGTH, LengthField(n) # 0,
         NEW d, d.len = n, d.ext = LengthField(n)
  PROVE  /\ LengthBytes(little, d) = Unsigned(n, LengthField(n))
         /\ LengthBytes(little, d) \in Seq(Byte)
         /\ Len(LengthBytes(little, d)) = LengthField(n)
<1> DEFINE k == LengthField(n)
<1> DEFINE u == Unsigned(n, k)
<1>1. n \in Nat /\ n <= 64 * 65536 /\ k \in {2, 8}
  BY LengthClasses
<1>2. LengthBytes(little, d) = Stored(little, hton(little, u))
  BY DEF LengthBytes
<1> HIDE DEF k
<1>3. u \in Integer(k)
  BY <1>1, UnsignedBytes
<1> HIDE DEF u
<1>4. LengthBytes(little, d) = u
  BY <1>1, <1>2, <1>3, HostsAgreeOnTheWire DEF Widths
<1>5. u \in [1..k -> Byte] /\ k \in Nat
  BY <1>1, <1>3 DEF Integer, Octet, Byte
<1>6. u \in Seq(Byte) /\ Len(u) = k
  BY <1>5, SeqDef, LenProperties
<1> QED BY <1>4, <1>6 DEF u, k

(* Where the parts of a frame are.                                         *)
LEMMA Joined ==
  ASSUME NEW a \in Seq(Byte), NEW b \in Seq(Byte)
  PROVE  /\ a \o b \in Seq(Byte) /\ Len(a \o b) = Len(a) + Len(b)
         /\ \A i \in 1..Len(a) : (a \o b)[i] = a[i]
         /\ \A i \in 1..Len(b) : (a \o b)[Len(a) + i] = b[i]
<1>1. Len(a) \in Nat /\ Len(b) \in Nat
  BY LenProperties
<1>2. a \o b \in Seq(Byte) /\ Len(a \o b) = Len(a) + Len(b)
  BY ConcatProperties
<1>3. \A i \in 1..Len(a) + Len(b) :
        (a \o b)[i] = IF i <= Len(a) THEN a[i] ELSE b[i - Len(a)]
  BY ConcatProperties
<1>4. ASSUME NEW i \in 1..Len(a) PROVE (a \o b)[i] = a[i]
  <2>1. i \in 1..Len(a) + Len(b) /\ i <= Len(a)
    BY <1>1
  <2> QED BY <1>3, <2>1
<1>5. ASSUME NEW i \in 1..Len(b) PROVE (a \o b)[Len(a) + i] = b[i]
  <2>1. /\ Len(a) + i \in 1..Len(a) + Len(b)
        /\ ~(Len(a) + i <= Len(a)) /\ (Len(a) + i) - Len(a) = i
    BY <1>1
  <2> QED BY <1>3, <2>1
<1> QED BY <1>2, <1>4, <1>5

InOrder(s, b1, b2, k, length, m, key, data) ==
  /\ Len(s) = 2 + k + m + Len(data)
  /\ s[1] = b1 /\ s[2] = b2
  /\ \A i \in 1..k : s[2 + i] = length[i]
  /\ \A i \in 1..m : s[2 + k + i] = key[i]
  /\ \A i \in 1..Len(data) : s[2 + k + m + i] = data[i]

LEMMA FourParts ==
  ASSUME NEW b1 \in Byte, NEW b2 \in Byte, NEW length \in Seq(Byte), NEW key \in Seq(Byte),
         NEW data \in Seq(Byte),
         NEW k \in Nat, NEW m \in Nat, k = Len(length), m = Len(key)
  PROVE  /\ ((<<b1, b2>> \o length) \o key) \o data \in Seq(Byte)
         /\ InOrder(((<<b1, b2>> \o length) \o key) \o data, b1, b2, k, length, m, key, data)
<1> DEFINE s == ((<<b1, b2>> \o length) \o key) \o data
<1> DEFINE h == <<b1, b2>>
<1> DEFINE hl == h \o length
<1> DEFINE hlk == hl \o key
<1>1. h \in Seq(Byte) /\ Len(h) = 2 /\ h[1] = b1 /\ h[2] = b2
  OBVIOUS
<1>2. Len(data) \in Nat
  BY LenProperties
<1>3. s = hlk \o data
  OBVIOUS
<1> HIDE DEF h, s
<1>4. /\ hl \in Seq(Byte) /\ Len(hl) = 2 + k
      /\ hl[1] = b1 /\ hl[2] = b2
      /\ \A i \in 1..k : hl[2 + i] = length[i]
  <2>1. 1 \in 1..Len(h) /\ 2 \in 1..Len(h)
    BY <1>1
  <2>2. /\ hl \in Seq(Byte) /\ Len(hl) = Len(h) + Len(length)
        /\ \A i \in 1..Len(h) : hl[i] = h[i]
        /\ \A i \in 1..Len(length) : hl[Len(h) + i] = length[i]
    BY <1>1, Joined
  <2> HIDE DEF hl
  <2> QED BY <1>1, <2>1, <2>2
<1> HIDE DEF hl
<1>5. /\ hlk \in Seq(Byte) /\ Len(hlk) = 2 + k + m
      /\ hlk[1] = b1 /\ hlk[2] = b2
      /\ \A i \in 1..k : hlk[2 + i] = length[i]
      /\ \A i \in 1..m : hlk[2 + k + i] = key[i]
  <2>1. 1 \in 1..Len(hl) /\ 2 \in 1..Len(hl) /\ \A i \in 1..k : 2 + i \in 1..Len(hl)
    BY <1>4
  <2>2. \A i \in 1..Len(hl) : hlk[i] = hl[i]
    BY <1>4, Joined
  <2>3. hlk \in Seq(Byte) /\ Len(hlk) = Len(hl) + m /\ \A i \in 1..m : hlk[Len(hl) + i] = key[i]
    BY <1>4, Joined
  <2> HIDE DEF hlk
  <2> QED BY <1>4, <2>1, <2>2, <2>3
<1> HIDE DEF hlk
<1>6. /\ 1 \in 1..Len(hlk) /\ 2 \in 1..Len(hlk)
      /\ \A i \in 1..k : 2 + i \in 1..Len(hlk)
      /\ \A i \in 1..m : 2 + k + i \in 1..Len(hlk)
  BY <1>5
<1>0. /\ hlk \o data \in Seq(Byte) /\ Len(hlk \o data) = Len(hlk) + Len(data)
      /\ \A i \in 1..Len(hlk) : (hlk \o data)[i] = hlk[i]
      /\ \A i \in 1..Len(data) : (hlk \o data)[Len(hlk) + i] = data[i]
  BY <1>5, Joined
<1>7. \A i \in 1..Len(hlk) : s[i] = hlk[i]
  BY <1>3, <1>0, Zenon
<1>8. Len(s) = Len(hlk) + Len(data) /\ \A i \in 1..Len(data) : s[Len(hlk) + i] = data[i]
  BY <1>3, <1>0, Zenon
<1>9. InOrder(s, b1, b2, k, length, m, key, data)
  BY <1>2, <1>5, <1>6, <1>7, <1>8 DEF InOrder
<1>10. s \in Seq(Byte)
  BY <1>3, <1>0, Zenon
<1> QED BY <1>9, <1>10 DEF s

LEMMA MaskedBytes ==
  ASSUME NEW data \in Seq(Byte), NEW key \in Seq(Byte), Len(key) = MASK_BYTES
  PROVE  /\ ApplyMask(data, key) \in Seq(Byte)
         /\ Len(ApplyMask(data, key)) = Len(data)
         /\ \A i \in 1..Len(data) :
              /\ key[((i - 1) % MASK_BYTES) + 1] \in Byte
              /\ ApplyMask(data, key)[i] = Xor(data[i], key[((i - 1) % MASK_BYTES) + 1])
<1>1. Len(data) \in Nat
  BY LenProperties
<1>2. ASSUME NEW i \in 1..Len(data)
      PROVE  key[((i - 1) % MASK_BYTES) + 1] \in Byte /\ data[i] \in Byte
  <2>1. ((i - 1) % MASK_BYTES) + 1 \in 1..Len(key)
    BY <1>1 DEF MASK_BYTES
  <2> QED BY <2>1, ElementOfSeq
<1>3. \A i \in 1..Len(data) : Xor(data[i], key[((i - 1) % MASK_BYTES) + 1]) \in Byte
  BY <1>2, XorBits
<1>4. ApplyMask(data, key) \in [1..Len(data) -> Byte]
  BY <1>3 DEF ApplyMask
<1>5. ApplyMask(data, key) \in Seq(Byte) /\ Len(ApplyMask(data, key)) = Len(data)
  BY <1>1, <1>4, SeqDef, LenProperties
<1> QED BY <1>2, <1>5 DEF ApplyMask

(* What GetFrame puts on the wire, byte by byte.                           *)
MaskField(mask) == IF mask THEN MASK_BYTES ELSE 0

LEMMA GetFrameBytes ==
  ASSUME NEW little \in BOOLEAN, NEW frame \in Sendable
  PROVE  LET n == Len(frame.payload)
             k == LengthField(n)
             m == MaskField(frame.mask)
             s == GetFrame(little, frame)
         IN  /\ s \in Seq(Byte) /\ Len(s) = 2 + k + m + n
             /\ s[1] = FinAnd(frame.opcode)
             /\ s[2] = BitOr(MaskBit(frame.mask), SizeBits(n))
             /\ k # 0 => \A i \in 1..k : s[2 + i] = Unsigned(n, k)[i]
             /\ frame.mask => \A i \in 1..MASK_BYTES : s[2 + k + i] = frame.key[i]
             /\ \A i \in 1..n :
                  s[2 + k + m + i] = IF frame.mask THEN ApplyMask(frame.payload, frame.key)[i]
                                     ELSE frame.payload[i]
<1> DEFINE n == Len(frame.payload)
<1> DEFINE k == LengthField(n)
<1> DEFINE m == MaskField(frame.mask)
<1> DEFINE d == Fill(NewData, frame)
<1> DEFINE b1 == FinAnd(frame.opcode)
<1> DEFINE b2 == BitOr(MaskBit(frame.mask), SizeBits(n))
<1> DEFINE length == IF k = 0 THEN <<>> ELSE LengthBytes(little, d)
<1> DEFINE key == IF frame.mask THEN frame.key ELSE <<>>
<1> DEFINE data == IF frame.mask THEN ApplyMask(frame.payload, frame.key) ELSE frame.payload
<1>1. /\ n \in Nat /\ n <= MAX_PAYLOAD_LENGTH /\ frame.payload \in Seq(Byte)
      /\ frame.mask \in BOOLEAN /\ frame.key \in Seq(Byte) /\ Len(frame.key) = MASK_BYTES
      /\ frame.opcode \in 0..15
  BY LenProperties, Constants DEF Sendable
<1>2. /\ d.byte1 = b1 /\ d.byte2 = b2 /\ d.ext = k /\ d.len = n /\ d.payload = frame.payload
      /\ frame.mask => d.key = frame.key
  BY Filled, BlankObjects
<1>3. Masked(b2) <=> frame.mask
  BY <1>1, SecondHeaderByte
<1>4. PayloadSize(b2) = SizeBits(n) /\ b2 = MaskBit(frame.mask) + SizeBits(n)
  BY <1>1, SecondHeaderByte
<1>5. b1 \in Byte /\ b2 \in Byte
  <2> HIDE DEF n
  <2>1. SizeBits(n) \in 0..127 /\ MaskBit(frame.mask) \in {0, 128}
    BY <1>1 DEF SizeBits, MaskBit
  <2>2. b1 = 128 + frame.opcode
    BY <1>1, FirstHeaderByte
  <2>3. frame.opcode \in 0..15 /\ b2 = MaskBit(frame.mask) + SizeBits(n)
    BY <1>1, <1>4
  <2> HIDE DEF b1, b2, d, k, m, length, key, data
  <2>4. b1 \in Byte
    BY <2>2, <2>3 DEF Byte
  <2>5. b2 \in Byte
    BY <2>1, <2>3 DEF Byte
  <2> QED BY <2>4, <2>5
<1> HIDE DEF d, b1, b2
<1>6. length \in Seq(Byte) /\ Len(length) = k
      /\ (k # 0 => length = Unsigned(n, k))
  <2>1. CASE k = 0  BY <2>1
  <2>2. CASE k # 0
    BY <1>1, <1>2, <2>2, LengthFieldBytes
  <2> QED BY <2>1, <2>2
<1>7. key \in Seq(Byte) /\ Len(key) = m
  BY <1>1 DEF MaskField
<1>8. data \in Seq(Byte) /\ Len(data) = n
  BY <1>1, MaskedBytes
<1>9. GetFrame(little, frame) = ((<<b1, b2>> \o length) \o key) \o data
  <2>1. SubSeq(d.payload, 1, d.len) = frame.payload
    BY <1>1, <1>2, SubSeqFull
  <2>2. EncodeHeader(little, d) = (<<b1, b2>> \o length) \o key
    BY <1>2, <1>3 DEF EncodeHeader
  <2>3. (IF PayloadSize(d.byte2) = 0 THEN <<>>
         ELSE IF Masked(d.byte2) THEN ApplyMask(frame.payload, d.key) ELSE frame.payload) = data
    <3>1. CASE SizeBits(n) = 0
      <4>1. n = 0  BY <1>1, <3>1 DEF SizeBits
      <4>2. data = <<>>  BY <1>8, <4>1, EmptySeq
      <4> QED BY <1>2, <1>4, <3>1, <4>2
    <3>2. CASE SizeBits(n) # 0
      BY <1>2, <1>3, <1>4, <3>2
    <3> QED BY <3>1, <3>2
  <2> HIDE DEF length, key, data
  <2> QED BY <2>1, <2>2, <2>3 DEF GetFrame, Encode, d
<1>10. k \in Nat /\ m \in Nat
  BY <1>1 DEF LengthField, MaskField, MASK_BYTES
<1> DEFINE s == GetFrame(little, frame)
<1>11. /\ s \in Seq(Byte) /\ Len(s) = 2 + k + m + Len(data)
       /\ s[1] = b1 /\ s[2] = b2
       /\ \A i \in 1..k : s[2 + i] = length[i]
       /\ \A i \in 1..m : s[2 + k + i] = key[i]
       /\ \A i \in 1..Len(data) : s[2 + k + m + i] = data[i]
  <2>1. s = ((<<b1, b2>> \o length) \o key) \o data
    BY <1>9
  <2> HIDE DEF length, key, data, k, m, s, n
  <2>2. /\ b1 \in Byte /\ b2 \in Byte /\ length \in Seq(Byte) /\ key \in Seq(Byte)
        /\ data \in Seq(Byte) /\ k \in Nat /\ m \in Nat /\ k = Len(length) /\ m = Len(key)
    BY <1>5, <1>6, <1>7, <1>8, <1>10
  <2>3. /\ ((<<b1, b2>> \o length) \o key) \o data \in Seq(Byte)
        /\ InOrder(((<<b1, b2>> \o length) \o key) \o data, b1, b2, k, length, m, key, data)
    BY <2>2, FourParts
  <2> QED BY <2>1, <2>3, Zenon DEF InOrder
<1>12. s \in Seq(Byte) /\ Len(s) = 2 + k + m + n
  BY <1>8, <1>11
<1>13. k # 0 => \A i \in 1..k : s[2 + i] = Unsigned(n, k)[i]
  <2> HIDE DEF k, length, s
  <2> QED BY <1>6, <1>11
<1>14. frame.mask => \A i \in 1..MASK_BYTES : s[2 + k + i] = frame.key[i]
  <2>1. frame.mask => m = MASK_BYTES /\ key = frame.key  BY DEF MaskField
  <2> HIDE DEF k, m, key, s
  <2> QED BY <1>11, <2>1
<1>15. \A i \in 1..n : s[2 + k + m + i] = IF frame.mask THEN ApplyMask(frame.payload, frame.key)[i]
                                          ELSE frame.payload[i]
  <2>1. \A i \in 1..n : s[2 + k + m + i] = data[i]
    BY <1>8, <1>11
  <2> HIDE DEF k, m, s
  <2> QED BY <2>1
<1> QED
  <2> HIDE DEF k, m, s, n
  <2>1. s[1] = b1 /\ s[2] = b2  BY <1>11
  <2> QED BY <1>12, <2>1, <1>13, <1>14, <1>15 DEF k, m, s, n, b1, b2

------------------------------------------------------------------------------
(* What the reader makes of a header, wherever it is in the stream.        *)
LEMMA HeaderReadsBack ==
  ASSUME NEW t \in Seq(Byte), NEW o \in Nat, NEW n \in Nat, n <= MAX_PAYLOAD_LENGTH,
         NEW opcode \in 0..15, CanHandleOpcode(opcode), NEW mask \in BOOLEAN,
         o + 2 <= Len(t),
         t[o + 1] = FinAnd(opcode), t[o + 2] = BitOr(MaskBit(mask), SizeBits(n)),
         \A i \in 1..LengthField(n) : t[o + 2 + i] = Unsigned(n, LengthField(n))[i]
  PROVE  /\ Opcode(t[o + 1]) = opcode /\ (Masked(t[o + 2]) <=> mask)
         /\ ExtAt(t, o) = LengthField(n) /\ LengthAt(t, o) = n
         /\ HeaderAt(t, o) = 2 + LengthField(n) + MaskField(mask)
         /\ \A a : ~Reader!Refused(t, o, a)
<1> DEFINE k == LengthField(n)
<1> DEFINE byte2 == BitOr(MaskBit(mask), SizeBits(n))
<1>1. k \in {0, 2, 8}
  BY DEF LengthField
<1>2. /\ (Masked(byte2) <=> mask) /\ PayloadSize(byte2) = SizeBits(n)
      /\ ExtendedLength(PayloadSize(byte2)) = k
  BY SecondHeaderByte
<1> HIDE DEF byte2
<1>3. Opcode(t[o + 1]) = opcode
  BY FirstHeaderByte
<1>4. ExtAt(t, o) = k /\ (Masked(t[o + 2]) <=> mask)
  BY <1>2 DEF ExtAt, byte2
<1>5. \A i \in 1..k : t[(o + 2) + i] = Unsigned(n, k)[i]
  OBVIOUS
<1>6. /\ k = 2 => Ntoh16(t, o + 2) = n
      /\ k = 8 => Ntoh64(t, o + 2) = n /\ \A i \in 1..5 : t[(o + 2) + i] = 0
  <2>1. k # 0 => n <= 64 * 65536 /\ (k = 2 => n <= 65535)
    BY LengthClasses DEF k
  <2> HIDE DEF k
  <2>2. ASSUME k = 2 PROVE Ntoh16(t, o + 2) = n
    <3>1. n <= 64 * 65536 /\ n <= 65535
      BY <2>1, <2>2
    <3>2. Unsigned(n, 2)[2] = Low(n) /\ Unsigned(n, 2)[2 - 1] = Mid(n)
      BY <3>1, UnsignedBytes
    <3>3. t[(o + 2) + 1] = Mid(n) /\ t[(o + 2) + 2] = Low(n)
      BY <1>5, <2>2, <3>2
    <3> QED BY <3>1, <3>3, LowBytes DEF Ntoh16
  <2>3. ASSUME k = 8 PROVE Ntoh64(t, o + 2) = n /\ \A i \in 1..5 : t[(o + 2) + i] = 0
    <3>1. n <= 64 * 65536
      BY <2>1, <2>3
    <3>2. /\ Unsigned(n, 8)[8] = Low(n) /\ Unsigned(n, 8)[8 - 1] = Mid(n)
          /\ Unsigned(n, 8)[6] = High(n) /\ \A i \in 1..5 : Unsigned(n, 8)[i] = 0
      BY <3>1, UnsignedBytes
    <3>3. /\ t[(o + 2) + 6] = High(n) /\ t[(o + 2) + 7] = Mid(n) /\ t[(o + 2) + 8] = Low(n)
          /\ \A i \in 1..5 : t[(o + 2) + i] = 0
      <4>1. \A i \in 1..8 : t[(o + 2) + i] = Unsigned(n, 8)[i]
        BY <1>5, <2>3
      <4>2. \A i \in 1..5 : i \in 1..8
        OBVIOUS
      <4>3. 6 \in 1..8 /\ 7 \in 1..8 /\ 8 \in 1..8 /\ 8 - 1 = 7
        OBVIOUS
      <4>4. Unsigned(n, 8)[7] = Mid(n)
        BY <3>2, <4>3
      <4>5. \A i \in 1..5 : t[(o + 2) + i] = 0
        BY <3>2, <4>1, <4>2, Zenon
      <4> QED BY <3>2, <4>1, <4>3, <4>4, <4>5, Zenon
    <3> QED BY <3>1, <3>3, LowBytes DEF Ntoh64
  <2> QED BY <2>2, <2>3
<1>7. LengthAt(t, o) = n
  <2>1. k = 0 => PayloadSize(t[o + 2]) = n
    BY <1>2 DEF k, LengthField, SizeBits, byte2
  <2> HIDE DEF k
  <2> QED BY <1>1, <1>4, <1>6, <2>1 DEF LengthAt
<1>8. HeaderAt(t, o) = 2 + k + MaskField(mask)
  BY <1>4 DEF HeaderAt, MaskField, MASK_BYTES
<1>9. ASSUME NEW a PROVE ~Reader!Refused(t, o, a)
  <2>1. k = 8 => ~TooLong(t, o + 2)
    <3> HIDE DEF k
    <3>1. ~(n > MAX_PAYLOAD_LENGTH)
      BY SMT DEF MAX_PAYLOAD_LENGTH
    <3> QED BY <1>6, <3>1, Zenon DEF TooLong
  <2>2. Reader!ExtendedLengthAt(t, o) = k
    BY <1>4, SameFrame
  <2> HIDE DEF k
  <2> QED BY <1>3, <2>1, <2>2, SameFormat DEF Reader!Refused
<1> QED BY <1>3, <1>4, <1>7, <1>8, <1>9

(* Every frame the code sends is read back as it was meant, wherever it is *)
(* in the stream, whichever byte order the sending host has and whatever   *)
(* the masking key: the reader never refuses it, takes exactly its bytes,  *)
(* when all of them are there, and finds its opcode and payload.           *)
THEOREM FrameReadsBack ==
  ASSUME NEW little \in BOOLEAN, NEW frame \in Sendable, NEW t \in Seq(Byte), NEW o \in Nat,
         NEW a \in Nat, o + Len(GetFrame(little, frame)) <= Len(t),
         \A i \in 1..Len(GetFrame(little, frame)) : t[o + i] = GetFrame(little, frame)[i]
  PROVE  /\ ~Reader!Refused(t, o, a)
         /\ Reader!Complete(t, o, a) <=> a - o >= Len(GetFrame(little, frame))
         /\ Reader!FrameLength(t, o) = Len(GetFrame(little, frame))
         /\ Reader!MessageAt(t, o) = Message(frame.opcode, frame.payload)
<1> DEFINE s == GetFrame(little, frame)
<1> DEFINE n == Len(frame.payload)
<1> DEFINE k == LengthField(n)
<1> DEFINE m == MaskField(frame.mask)
<1> DEFINE data == ApplyMask(frame.payload, frame.key)
<1>1. /\ n \in Nat /\ n <= MAX_PAYLOAD_LENGTH /\ frame.payload \in Seq(Byte)
      /\ frame.mask \in BOOLEAN /\ frame.key \in Seq(Byte) /\ Len(frame.key) = MASK_BYTES
      /\ frame.opcode \in 0..15 /\ CanHandleOpcode(frame.opcode)
  BY LenProperties, Constants DEF Sendable
<1>2. k \in {0, 2, 8} /\ m \in {0, 4} /\ (frame.mask => m = 4)
  BY <1>1 DEF LengthField, MaskField, MASK_BYTES
<1>3. /\ Len(s) = 2 + k + m + n
      /\ s[1] = FinAnd(frame.opcode) /\ s[2] = BitOr(MaskBit(frame.mask), SizeBits(n))
      /\ k # 0 => \A i \in 1..k : s[2 + i] = Unsigned(n, k)[i]
      /\ frame.mask => \A i \in 1..MASK_BYTES : s[2 + k + i] = frame.key[i]
      /\ \A i \in 1..n : s[2 + k + m + i] = IF frame.mask THEN data[i] ELSE frame.payload[i]
  BY GetFrameBytes
<1>4. \A i \in 1..(2 + k + m + n) : t[o + i] = s[i]
  BY <1>3
<1>5. o + (2 + k + m + n) <= Len(t) /\ Len(t) \in Nat
  BY <1>3, LenProperties
<1> HIDE DEF s, n, k, m
<1>6. t[o + 1] = s[1] /\ t[o + 2] = s[2] /\ o + 2 <= Len(t)
  <2>1. 1 \in 1..(2 + k + m + n) /\ 2 \in 1..(2 + k + m + n)
    BY <1>1, <1>2
  <2> QED BY <1>1, <1>2, <1>4, <1>5, <2>1
<1>7. \A i \in 1..k : t[o + 2 + i] = Unsigned(n, k)[i]
  <2>1. \A i \in 1..k : 2 + i \in 1..(2 + k + m + n) /\ o + (2 + i) = o + 2 + i /\ k # 0
    BY <1>1, <1>2
  <2> QED BY <1>3, <1>4, <2>1
<1>8. /\ Opcode(t[o + 1]) = frame.opcode /\ (Masked(t[o + 2]) <=> frame.mask)
      /\ ExtAt(t, o) = k /\ LengthAt(t, o) = n /\ HeaderAt(t, o) = 2 + k + m
      /\ ~Reader!Refused(t, o, a)
  <2>1. /\ n \in Nat /\ n <= MAX_PAYLOAD_LENGTH /\ frame.opcode \in 0..15
        /\ CanHandleOpcode(frame.opcode) /\ frame.mask \in BOOLEAN /\ o + 2 <= Len(t)
        /\ t[o + 1] = FinAnd(frame.opcode)
        /\ t[o + 2] = BitOr(MaskBit(frame.mask), SizeBits(n))
    BY <1>1, <1>3, <1>6
  <2>2. \A i \in 1..LengthField(n) : t[o + 2 + i] = Unsigned(n, LengthField(n))[i]
    BY <1>7 DEF k
  <2>3. /\ Opcode(t[o + 1]) = frame.opcode /\ (Masked(t[o + 2]) <=> frame.mask)
        /\ ExtAt(t, o) = LengthField(n) /\ LengthAt(t, o) = n
        /\ HeaderAt(t, o) = 2 + LengthField(n) + MaskField(frame.mask)
        /\ \A b : ~Reader!Refused(t, o, b)
    BY <2>1, <2>2, HeaderReadsBack, Zenon
  <2> QED BY <2>3 DEF k, m
<1>9. Reader!FrameLength(t, o) = Len(s)
  <2>1. Reader!FrameLength(t, o) = HeaderAt(t, o) + LengthAt(t, o)
    BY <1>6, SameFrame
  <2> QED BY <1>3, <1>8, <2>1
<1>0. Reader!Complete(t, o, a) <=> a - o >= Len(s)
  <2>1. Reader!HeaderLength(t, o) = 2 + k + m
    BY <1>6, <1>8, SameFrame
  <2> QED BY <1>1, <1>2, <1>3, <1>8, <1>9, <2>1 DEF Reader!Complete, Reader!BASIC_HEADER_LENGTH
<1> DEFINE raw == [i \in 1..LengthAt(t, o) |-> t[(o + HeaderAt(t, o)) + i]]
<1>10. raw = [i \in 1..n |-> IF frame.mask THEN data[i] ELSE frame.payload[i]]
  <2>1. ASSUME NEW i \in 1..n
        PROVE  /\ 2 + k + m + i \in 1..(2 + k + m + n)
               /\ o + (2 + k + m + i) = (o + (2 + k + m)) + i
    <3>1. /\ k \in Nat /\ m \in Nat /\ i \in Nat /\ i <= n /\ i > 0
          /\ n \in Nat /\ o \in Nat
      BY <1>1, <1>2
    <3> HIDE DEF k, m, n
    <3> QED BY <3>1
  <2>2. \A i \in 1..n : t[(o + HeaderAt(t, o)) + i]
                          = IF frame.mask THEN data[i] ELSE frame.payload[i]
    BY <1>3, <1>4, <1>8, <2>1
  <2> QED BY <1>8, <2>2
<1> HIDE DEF raw
<1>11. frame.payload = [i \in 1..n |-> frame.payload[i]]
  BY <1>1, LenProperties DEF n
<1>12. PayloadAt(t, o) = IF frame.mask THEN ApplyMask(raw, KeyAt(t, o)) ELSE raw
  BY <1>8, Zenon DEF PayloadAt, raw
<1>13. Reader!MessageAt(t, o) = Message(frame.opcode, PayloadAt(t, o))
  BY <1>6, <1>8, SameFrame
<1>14. CASE ~frame.mask
  BY <1>0, <1>8, <1>9, <1>10, <1>11, <1>12, <1>13, <1>14 DEF s
<1>15. CASE frame.mask
  <2>1. raw = [i \in 1..n |-> data[i]]
    BY <1>10, <1>15
  <2>2. Len(raw) = n
    BY <1>1, <2>1
  <2>3. KeyAt(t, o) = [i \in 1..MASK_BYTES |-> frame.key[i]]
    <3>1. \A i \in 1..MASK_BYTES : /\ 2 + k + i \in 1..(2 + k + m + n)
                                   /\ o + (2 + k + i) = o + (2 + k) + i
      BY <1>1, <1>2, <1>15 DEF MASK_BYTES
    <3>2. \A i \in 1..MASK_BYTES : t[o + (2 + k) + i] = frame.key[i]
      BY <1>3, <1>4, <1>15, <3>1
    <3> QED BY <1>8, <3>2 DEF KeyAt, MASK_BYTES
  <2>4. ASSUME NEW i \in 1..n
        PROVE  Xor(raw[i], KeyAt(t, o)[((i - 1) % MASK_BYTES) + 1]) = frame.payload[i]
    <3>1. ((i - 1) % MASK_BYTES) + 1 \in 1..MASK_BYTES
      BY <1>1 DEF MASK_BYTES
    <3>2. /\ frame.key[((i - 1) % MASK_BYTES) + 1] \in Byte
          /\ data[i] = Xor(frame.payload[i], frame.key[((i - 1) % MASK_BYTES) + 1])
      BY <1>1, MaskedBytes DEF data, n
    <3>3. frame.payload[i] \in Byte
      BY <1>1, ElementOfSeq DEF n
    <3>4. raw[i] = data[i]
      BY <2>1
    <3>5. KeyAt(t, o)[((i - 1) % MASK_BYTES) + 1] = frame.key[((i - 1) % MASK_BYTES) + 1]
      BY <2>3, <3>1, Zenon
    <3> QED BY <3>2, <3>3, <3>4, <3>5, XorTwice
  <2>5. ApplyMask(raw, KeyAt(t, o)) = frame.payload
    BY <1>11, <2>2, <2>4 DEF ApplyMask
  <2> QED BY <1>0, <1>8, <1>9, <1>12, <1>13, <1>15, <2>5 DEF s
<1> QED BY <1>14, <1>15

------------------------------------------------------------------------------
(* A set with 0 and every successor has all naturals: the least that were  *)
(* not in it could be neither.                                             *)
LEMMA NatSetInduction ==
  ASSUME NEW S, 0 \in S, \A n \in Nat : n \in S => n + 1 \in S
  PROVE  Nat \subseteq S
<1> DEFINE R == {ss \in Nat \X Nat : ss[1] < ss[2]}
           T == {n \in Nat : n \notin S}
<1>1. IsWellFoundedOn(R, Nat)
  BY NatLessThanWellFounded DEF OpToRel
<1>2. SUFFICES ASSUME T # {} PROVE FALSE
  OBVIOUS
<1>3. T \subseteq Nat
  OBVIOUS
<1>4. PICK m \in T : \A y \in T : ~(<<y, m>> \in R)
  <2> HIDE DEF R, T
  <2> QED BY <1>1, <1>2, <1>3, WFMin
<1>5. m # 0 /\ m \in Nat
  OBVIOUS
<1>6. m - 1 \in Nat /\ m - 1 < m
  BY <1>5
<1>7. <<m - 1, m>> \in R
  BY <1>5, <1>6
<1>8. m - 1 \in S
  BY <1>4, <1>5, <1>6, <1>7
<1>9. m \in S
  BY <1>5, <1>6, <1>8
<1> QED BY <1>9

------------------------------------------------------------------------------
(* FlattenSeq: the function of its definition exists and is unique.        *)

IsFlat(f, seqs, n) ==
  f = [i \in 1..n |-> IF i = 1 THEN seqs[i] ELSE f[i - 1] \o seqs[i]]

LEMMA FlatExists ==
  ASSUME NEW seqs, NEW n \in Nat
  PROVE  \E f : IsFlat(f, seqs, n)
<1> DEFINE S == {k \in Nat : \E f : IsFlat(f, seqs, k)}
<1>1. 0 \in S
  <2>1. IsFlat([i \in 1..0 |-> <<>>], seqs, 0)
    BY DEF IsFlat
  <2> QED BY <2>1
<1>2. ASSUME NEW k \in Nat, k \in S PROVE k + 1 \in S
  <2>1. PICK f : IsFlat(f, seqs, k)
    BY <1>2
  <2> DEFINE g == [i \in 1..(k + 1) |-> IF i = 1 THEN seqs[i] ELSE f[i - 1] \o seqs[i]]
  <2>2. ASSUME NEW i \in 1..k PROVE g[i] = f[i]
    <3>1. f[i] = IF i = 1 THEN seqs[i] ELSE f[i - 1] \o seqs[i]
      BY <2>1 DEF IsFlat
    <3> QED BY <3>1
  <2>3. ASSUME NEW i \in 1..(k + 1), i # 1 PROVE g[i - 1] = f[i - 1]
    <3>1. i - 1 \in 1..k
      BY <2>3
    <3> QED BY <2>2, <3>1
  <2>4. g = [i \in 1..(k + 1) |-> IF i = 1 THEN seqs[i] ELSE g[i - 1] \o seqs[i]]
    BY <2>3
  <2>5. IsFlat(g, seqs, k + 1)
    BY <2>4 DEF IsFlat
  <2> HIDE DEF g
  <2> QED BY <2>5
<1> HIDE DEF S
<1>3. Nat \subseteq S
  BY <1>1, <1>2, NatSetInduction
<1> QED BY <1>3 DEF S

LEMMA FlatUnfold ==
  ASSUME NEW seqs, Len(seqs) \in Nat, Len(seqs) # 0
  PROVE  \E f : IsFlat(f, seqs, Len(seqs)) /\ FlattenSeq(seqs) = f[Len(seqs)]
<1> DEFINE f == CHOOSE f : IsFlat(f, seqs, Len(seqs))
<1>1. IsFlat(f, seqs, Len(seqs))
  BY FlatExists
<1>2. FlattenSeq(seqs) = f[Len(seqs)]
  BY DEF FlattenSeq, IsFlat
<1> QED BY <1>1, <1>2

LEMMA FlatStep ==
  ASSUME NEW seqs, NEW n \in Nat, NEW f, IsFlat(f, seqs, n), NEW i \in 1..n
  PROVE  f[i] = IF i = 1 THEN seqs[i] ELSE f[i - 1] \o seqs[i]
BY Zenon DEF IsFlat

LEMMA FlatUnique ==
  ASSUME NEW seqs, NEW part, NEW f, NEW g, NEW n \in Nat, NEW m \in Nat, m <= n,
         IsFlat(f, seqs, n), IsFlat(g, part, m), \A i \in 1..m : part[i] = seqs[i]
  PROVE  \A i \in 1..m : f[i] = g[i]
<1> DEFINE S == {k \in Nat : k \in 1..m => f[k] = g[k]}
<1>1. 0 \in S
  OBVIOUS
<1>2. ASSUME NEW k \in Nat, k \in S PROVE k + 1 \in S
  <2>1. ASSUME k + 1 \in 1..m PROVE f[k + 1] = g[k + 1]
    <3>1. f[k + 1] = IF k + 1 = 1 THEN seqs[k + 1] ELSE f[(k + 1) - 1] \o seqs[k + 1]
      BY <2>1, FlatStep
    <3>2. g[k + 1] = IF k + 1 = 1 THEN part[k + 1] ELSE g[(k + 1) - 1] \o part[k + 1]
      BY <2>1, FlatStep
    <3>3. k + 1 # 1 => k \in 1..m /\ (k + 1) - 1 = k
      BY <2>1
    <3>4. part[k + 1] = seqs[k + 1]
      BY <2>1
    <3> QED BY <1>2, <3>1, <3>2, <3>3, <3>4
  <2> QED BY <2>1
<1> HIDE DEF S
<1>3. Nat \subseteq S
  BY <1>1, <1>2, NatSetInduction
<1> QED BY <1>3 DEF S

LEMMA FlattenEmpty == FlattenSeq(<<>>) = <<>>
BY DEF FlattenSeq

(* The first k of a sequence.                                              *)
First(seq, k) == SubSeq(seq, 1, k)

LEMMA FirstType ==
  ASSUME NEW S, NEW seq \in Seq(S), NEW k \in 0..Len(seq)
  PROVE  /\ First(seq, k) \in Seq(S) /\ Len(First(seq, k)) = k
         /\ \A i \in 1..k : First(seq, k)[i] = seq[i]
<1>1. Len(seq) \in Nat /\ k \in Int
  BY LenProperties
<1> QED BY <1>1, SubSeqProperties DEF First

LEMMA FlattenLast ==
  ASSUME NEW seqs \in Seq(Seq(Byte)), NEW n \in Nat, n = Len(seqs), n # 0
  PROVE  FlattenSeq(seqs) = FlattenSeq(First(seqs, n - 1)) \o seqs[n]
<1> DEFINE part == First(seqs, n - 1)
<1>1. n >= 1 /\ n - 1 \in 0..Len(seqs) /\ n - 1 \in Nat /\ n \in 1..n
  OBVIOUS
<1>2. part \in Seq(Seq(Byte)) /\ Len(part) = n - 1 /\ \A i \in 1..(n - 1) : part[i] = seqs[i]
  BY <1>1, FirstType
<1>3. PICK f : IsFlat(f, seqs, n) /\ FlattenSeq(seqs) = f[n]
  BY <1>1, FlatUnfold
<1> HIDE DEF part
<1>4. f[n] = IF n = 1 THEN seqs[n] ELSE f[n - 1] \o seqs[n]
  <2>1. n \in 1..n /\ IsFlat(f, seqs, n)
    BY <1>1, <1>3
  <2>2. \A i \in 1..n : f[i] = IF i = 1 THEN seqs[i] ELSE f[i - 1] \o seqs[i]
    BY ONLY <2>1, n \in Nat, FlatStep
  <2> QED BY <2>1, <2>2
<1>5. CASE n = 1
  <2>1. part = <<>>
    BY <1>2, <1>5, EmptySeq
  <2>2. seqs[n] \in Seq(Byte)
    BY <1>1, ElementOfSeq
  <2>3. <<>> \o seqs[n] = seqs[n]
    BY <2>2, ConcatEmptySeq
  <2> QED BY <1>3, <1>4, <1>5, <2>1, <2>3, FlattenEmpty DEF part
<1>6. CASE n # 1
  <2>1. Len(part) \in Nat /\ Len(part) # 0
    BY <1>1, <1>2, <1>6
  <2>2. PICK g : IsFlat(g, part, Len(part)) /\ FlattenSeq(part) = g[Len(part)]
    BY <2>1, FlatUnfold
  <2>3. IsFlat(g, part, n - 1) /\ FlattenSeq(part) = g[n - 1]
    BY <1>2, <2>2
  <2>4. n - 1 \in 1..(n - 1) /\ n - 1 <= n
    BY <1>1, <1>6
  <2>5. \A i \in 1..(n - 1) : f[i] = g[i]
    <3> DEFINE m == n - 1
    <3>1. /\ m \in Nat /\ m <= n /\ IsFlat(f, seqs, n) /\ IsFlat(g, part, m)
          /\ \A i \in 1..m : part[i] = seqs[i]
      BY <1>1, <1>2, <1>3, <2>3, <2>4
    <3> HIDE DEF m
    <3>2. \A i \in 1..m : f[i] = g[i]
      BY ONLY <3>1, n \in Nat, FlatUnique
    <3> QED BY <3>2 DEF m
  <2> QED BY <1>3, <1>4, <1>6, <2>3, <2>4, <2>5 DEF part
<1> QED BY <1>5, <1>6

LEMMA FlattenType ==
  ASSUME NEW seqs \in Seq(Seq(Byte))
  PROVE  FlattenSeq(seqs) \in Seq(Byte)
<1> DEFINE S == {k \in Nat : \A s \in Seq(Seq(Byte)) : Len(s) = k => FlattenSeq(s) \in Seq(Byte)}
<1>1. 0 \in S
  <2>1. ASSUME NEW s \in Seq(Seq(Byte)), Len(s) = 0 PROVE FlattenSeq(s) \in Seq(Byte)
    <3>1. s = <<>>
      BY <2>1, EmptySeq
    <3>2. <<>> \in Seq(Byte)
      OBVIOUS
    <3> QED BY <3>1, <3>2, FlattenEmpty
  <2> QED BY <2>1
<1>2. ASSUME NEW k \in Nat, k \in S PROVE k + 1 \in S
  <2>1. ASSUME NEW s \in Seq(Seq(Byte)), Len(s) = k + 1 PROVE FlattenSeq(s) \in Seq(Byte)
    <3> DEFINE part == First(s, k)
    <3>1. part \in Seq(Seq(Byte)) /\ Len(part) = k
      BY <2>1, FirstType
    <3>2. FlattenSeq(part) \in Seq(Byte)
      BY <1>2, <3>1
    <3>3. FlattenSeq(s) = FlattenSeq(part) \o s[k + 1]
      <4>1. (k + 1) - 1 = k /\ k + 1 # 0 /\ k + 1 \in Nat
        OBVIOUS
      <4> QED BY <2>1, <4>1, FlattenLast
    <3>4. s[k + 1] \in Seq(Byte)
      BY <2>1, ElementOfSeq
    <3> HIDE DEF part
    <3> QED BY <3>2, <3>3, <3>4, ConcatProperties
  <2> QED BY <2>1
<1> HIDE DEF S
<1>3. Nat \subseteq S
  BY <1>1, <1>2, NatSetInduction
<1>4. Len(seqs) \in S
  BY <1>3, LenProperties
<1> QED BY <1>4 DEF S

------------------------------------------------------------------------------
(* The bytes of one frame, which no host changes.                          *)
LEMMA FrameBytes ==
  ASSUME NEW little \in BOOLEAN, NEW frame \in Sendable
  PROVE  /\ GetFrame(little, frame) \in Seq(Byte)
         /\ Len(GetFrame(little, frame)) >= 2
         /\ GetFrame(little, frame) = GetFrame(TRUE, frame)
<1> DEFINE n == Len(frame.payload)
           k == LengthField(n)
           m == MaskField(frame.mask)
<1>1. /\ n \in Nat /\ n <= MAX_PAYLOAD_LENGTH /\ frame.payload \in Seq(Byte)
      /\ frame.mask \in BOOLEAN /\ frame.key \in Seq(Byte) /\ Len(frame.key) = MASK_BYTES
      /\ frame.opcode \in 0..15
  BY LenProperties, Constants DEF Sendable
<1>2. k \in {0, 2, 8} /\ m \in {0, 4} /\ (frame.mask <=> m = 4) /\ MASK_BYTES = 4
  BY <1>1 DEF LengthField, MaskField, MASK_BYTES
<1>3. ASSUME NEW b \in BOOLEAN
      PROVE  /\ GetFrame(b, frame) \in Seq(Byte)
             /\ Len(GetFrame(b, frame)) = 2 + k + m + n
             /\ GetFrame(b, frame)[1] = FinAnd(frame.opcode)
             /\ GetFrame(b, frame)[2] = BitOr(MaskBit(frame.mask), SizeBits(n))
             /\ \A i \in 1..k : GetFrame(b, frame)[2 + i] = Unsigned(n, k)[i]
             /\ \A i \in 1..m : GetFrame(b, frame)[2 + k + i] = frame.key[i]
             /\ \A i \in 1..n : GetFrame(b, frame)[2 + k + m + i]
                   = IF frame.mask THEN ApplyMask(frame.payload, frame.key)[i]
                     ELSE frame.payload[i]
  <2>1. /\ GetFrame(b, frame) \in Seq(Byte)
        /\ Len(GetFrame(b, frame)) = 2 + k + m + n
        /\ GetFrame(b, frame)[1] = FinAnd(frame.opcode)
        /\ GetFrame(b, frame)[2] = BitOr(MaskBit(frame.mask), SizeBits(n))
        /\ k # 0 => \A i \in 1..k : GetFrame(b, frame)[2 + i] = Unsigned(n, k)[i]
        /\ frame.mask => \A i \in 1..MASK_BYTES : GetFrame(b, frame)[2 + k + i] = frame.key[i]
        /\ \A i \in 1..n : GetFrame(b, frame)[2 + k + m + i]
              = IF frame.mask THEN ApplyMask(frame.payload, frame.key)[i]
                ELSE frame.payload[i]
    BY GetFrameBytes
  <2> HIDE DEF n, k, m
  <2>2. /\ \A i \in 1..k : k # 0
        /\ \A i \in 1..m : frame.mask /\ i \in 1..MASK_BYTES
    BY <1>2
  <2> QED BY <2>1, <2>2, Zenon
<1>4. GetFrame(little, frame) = GetFrame(TRUE, frame)
  <2> DEFINE s == GetFrame(little, frame)
             t == GetFrame(TRUE, frame)
  <2>1. s \in Seq(Byte) /\ t \in Seq(Byte) /\ Len(s) = 2 + k + m + n /\ Len(t) = Len(s)
    BY <1>3
  <2>2. /\ s[1] = t[1] /\ s[2] = t[2]
        /\ \A i \in 1..k : s[2 + i] = t[2 + i]
        /\ \A i \in 1..m : s[2 + k + i] = t[2 + k + i]
        /\ \A i \in 1..n : s[2 + k + m + i] = t[2 + k + m + i]
    <3>1. TRUE \in BOOLEAN
      OBVIOUS
    <3> HIDE DEF n, k, m
    <3> QED BY <1>3, <3>1, ZenonT(40)
  <2> HIDE DEF s, t, k, m, n
  <2>3. ASSUME NEW i \in 1..Len(s) PROVE s[i] = t[i]
    <3>1. CASE i <= 2
      BY <2>2, <3>1
    <3>2. CASE i > 2 /\ i <= 2 + k
      <4>1. i - 2 \in 1..k /\ 2 + (i - 2) = i
        BY <1>2, <3>2
      <4> QED BY <2>2, <4>1
    <3>3. CASE i > 2 + k /\ i <= 2 + k + m
      <4>1. i - (2 + k) \in 1..m /\ 2 + k + (i - (2 + k)) = i
        BY <1>2, <3>3
      <4> QED BY <2>2, <4>1
    <3>4. CASE i > 2 + k + m
      <4>1. i - (2 + k + m) \in 1..n /\ 2 + k + m + (i - (2 + k + m)) = i
        BY <1>1, <1>2, <2>1, <3>4
      <4> QED BY <2>2, <4>1
    <3> QED BY <1>2, <3>1, <3>2, <3>3, <3>4
  <2>4. s = t
    BY <2>1, <2>3, SeqEqual
  <2> QED BY <2>4 DEF s, t
<1>5. 2 + k + m + n >= 2
  BY <1>1, <1>2
<1> HIDE DEF k, m, n
<1> QED BY <1>3, <1>4, <1>5

(* The frames of an outbox one after the other.                            *)
FramesOf(little, outbox) == [i \in 1..Len(outbox) |-> GetFrame(little, outbox[i])]

LEMMA FramesOfType ==
  ASSUME NEW little \in BOOLEAN, NEW outbox \in Seq(Sendable)
  PROVE  /\ FramesOf(little, outbox) \in Seq(Seq(Byte))
         /\ Len(FramesOf(little, outbox)) = Len(outbox)
         /\ BytesOf(little, outbox) = FlattenSeq(FramesOf(little, outbox))
         /\ BytesOf(little, outbox) \in Seq(Byte)
<1>1. Len(outbox) \in Nat
  BY LenProperties
<1>2. \A i \in 1..Len(outbox) : GetFrame(little, outbox[i]) \in Seq(Byte)
  BY ElementOfSeq, FrameBytes
<1>3. FramesOf(little, outbox) \in [1..Len(outbox) -> Seq(Byte)]
  BY <1>2 DEF FramesOf
<1>4. FramesOf(little, outbox) \in Seq(Seq(Byte)) /\ Len(FramesOf(little, outbox)) = Len(outbox)
  BY <1>1, <1>3, SeqDef, LenProperties
<1>5. BytesOf(little, outbox) = FlattenSeq(FramesOf(little, outbox))
  BY DEF BytesOf, FramesOf
<1> QED BY <1>4, <1>5, FlattenType

LEMMA BytesOfNext ==
  ASSUME NEW little \in BOOLEAN, NEW outbox \in Seq(Sendable), NEW k \in Nat, k < Len(outbox)
  PROVE  BytesOf(little, First(outbox, k + 1))
           = BytesOf(little, First(outbox, k)) \o GetFrame(little, outbox[k + 1])
<1> DEFINE more == First(outbox, k + 1)
           seqs == FramesOf(little, more)
<1>1. Len(outbox) \in Nat /\ k + 1 \in 0..Len(outbox) /\ k \in 0..Len(outbox)
  BY LenProperties
<1>2. /\ more \in Seq(Sendable) /\ Len(more) = k + 1
      /\ \A i \in 1..(k + 1) : more[i] = outbox[i]
  BY <1>1, FirstType
<1>3. /\ First(outbox, k) \in Seq(Sendable) /\ Len(First(outbox, k)) = k
      /\ \A i \in 1..k : First(outbox, k)[i] = outbox[i]
  BY <1>1, FirstType
<1> HIDE DEF more
<1>4. seqs \in Seq(Seq(Byte)) /\ Len(seqs) = k + 1
  BY <1>2, FramesOfType
<1>5. FlattenSeq(seqs) = FlattenSeq(First(seqs, k)) \o seqs[k + 1]
  <2>1. (k + 1) - 1 = k /\ k + 1 # 0 /\ k + 1 \in Nat
    OBVIOUS
  <2> HIDE DEF seqs
  <2> QED BY <1>4, <2>1, FlattenLast
<1>6. seqs[k + 1] = GetFrame(little, outbox[k + 1])
  BY <1>2 DEF FramesOf
<1>7. First(seqs, k) = FramesOf(little, First(outbox, k))
  <2>1. First(seqs, k) = [i \in 1..k |-> seqs[i]]
    BY <1>4 DEF First
  <2>2. \A i \in 1..k : seqs[i] = GetFrame(little, First(outbox, k)[i])
    BY <1>2, <1>3 DEF FramesOf
  <2> HIDE DEF seqs
  <2> QED BY <1>3, <2>1, <2>2 DEF FramesOf
<1> QED BY <1>2, <1>3, <1>5, <1>6, <1>7, FramesOfType DEF more

LEMMA BytesOfNone == \A little : BytesOf(little, <<>>) = <<>>
<1> SUFFICES ASSUME NEW little PROVE BytesOf(little, <<>>) = <<>>
  OBVIOUS
<1>1. [i \in 1..Len(<<>>) |-> GetFrame(little, <<>>[i])] = <<>>
  OBVIOUS
<1> QED BY <1>1, FlattenEmpty, Zenon DEF BytesOf

LEMMA BytesOnEveryHost ==
  ASSUME NEW little \in BOOLEAN, NEW outbox \in Seq(Sendable)
  PROVE  BytesOf(little, outbox) = BytesOf(TRUE, outbox)
<1>1. \A i \in 1..Len(outbox) : GetFrame(little, outbox[i]) = GetFrame(TRUE, outbox[i])
  BY ElementOfSeq, FrameBytes
<1> QED BY <1>1 DEF BytesOf

(* The stream of an outbox begins with the stream of its first frames.     *)
Begins(a, b) == Len(a) <= Len(b) /\ \A i \in 1..Len(a) : b[i] = a[i]

LEMMA StreamBegins ==
  ASSUME NEW little \in BOOLEAN, NEW outbox \in Seq(Sendable), NEW k \in 0..Len(outbox)
  PROVE  Begins(BytesOf(little, First(outbox, k)), BytesOf(little, outbox))
<1> DEFINE B(j) == BytesOf(little, First(outbox, j))
           S == {d \in Nat : k + d <= Len(outbox) => Begins(B(k), B(k + d))}
<1>1. Len(outbox) \in Nat /\ k \in Nat /\ k <= Len(outbox)
  BY LenProperties
<1>2. ASSUME NEW j \in 0..Len(outbox) PROVE B(j) \in Seq(Byte) /\ Len(B(j)) \in Nat
  <2>1. B(j) \in Seq(Byte)
    BY FirstType, FramesOfType
  <2> HIDE DEF B
  <2> QED BY <2>1, LenProperties
<1>3. 0 \in S
  <2>1. Begins(B(k), B(k))
    <3>1. Len(B(k)) \in Nat
      BY <1>2
    <3> HIDE DEF B
    <3> QED BY <3>1 DEF Begins
  <2>2. k + 0 = k
    BY <1>1
  <2> HIDE DEF B
  <2> QED BY <2>1, <2>2
<1>4. ASSUME NEW d \in Nat, d \in S PROVE d + 1 \in S
  <2>1. ASSUME k + (d + 1) <= Len(outbox) PROVE Begins(B(k), B(k + (d + 1)))
    <3> DEFINE j == k + d
               g == GetFrame(little, outbox[j + 1])
    <3>1. j \in Nat /\ j < Len(outbox) /\ j \in 0..Len(outbox) /\ k + (d + 1) = j + 1
          /\ j + 1 \in 0..Len(outbox) /\ j + 1 \in 1..Len(outbox)
      BY <1>1, <2>1
    <3>2. Begins(B(k), B(j))
      BY <1>4, <3>1
    <3> HIDE DEF j
    <3>3. B(j + 1) = B(j) \o g
      BY <3>1, BytesOfNext
    <3>4. g \in Seq(Byte)
      BY <3>1, ElementOfSeq, FrameBytes
    <3>5. B(j) \in Seq(Byte) /\ Len(B(j)) \in Nat /\ Len(B(k)) \in Nat
      BY <1>2, <3>1
    <3> HIDE DEF B, g
    <3>6. Len(g) \in Nat
      BY <3>4, LenProperties
    <3>7. Len(B(j + 1)) = Len(B(j)) + Len(g) /\ \A i \in 1..Len(B(j)) : B(j + 1)[i] = B(j)[i]
      BY <3>3, <3>4, <3>5, Joined
    <3>8. Begins(B(k), B(j + 1))
      BY <3>2, <3>5, <3>6, <3>7 DEF Begins
    <3> QED BY <3>1, <3>8
  <2> QED BY <2>1
<1> HIDE DEF S
<1>5. Nat \subseteq S
  BY <1>3, <1>4, NatSetInduction
<1>6. Len(outbox) - k \in S
  BY <1>1, <1>5
<1>7. k + (Len(outbox) - k) = Len(outbox)
  BY <1>1
<1>8. Begins(B(k), B(Len(outbox)))
  BY <1>6, <1>7 DEF S
<1>9. First(outbox, Len(outbox)) = outbox
  BY SubSeqFull DEF First
<1> QED BY <1>8, <1>9

(* Where the next frame is in the stream.                                  *)
LEMMA FramePlace ==
  ASSUME NEW little \in BOOLEAN, NEW outbox \in Seq(Sendable), NEW k \in Nat, k < Len(outbox)
  PROVE  LET o == Len(BytesOf(little, First(outbox, k)))
             t == BytesOf(little, outbox)
             g == GetFrame(little, outbox[k + 1])
         IN  /\ g \in Seq(Byte) /\ o + Len(g) <= Len(t)
             /\ \A i \in 1..Len(g) : t[o + i] = g[i]
             /\ o + Len(g) = Len(BytesOf(little, First(outbox, k + 1)))
<1> DEFINE o == Len(BytesOf(little, First(outbox, k)))
           t == BytesOf(little, outbox)
           g == GetFrame(little, outbox[k + 1])
           b == BytesOf(little, First(outbox, k))
           c == BytesOf(little, First(outbox, k + 1))
<1>1. /\ k \in 0..Len(outbox) /\ k + 1 \in 0..Len(outbox) /\ k + 1 \in 1..Len(outbox)
  BY LenProperties
<1>2. b \in Seq(Byte) /\ c \in Seq(Byte) /\ t \in Seq(Byte)
  BY <1>1, FirstType, FramesOfType
<1>3. g \in Seq(Byte)
  BY <1>1, ElementOfSeq, FrameBytes
<1>4. c = b \o g
  BY BytesOfNext
<1>5. Begins(c, t)
  BY <1>1, StreamBegins
<1>6. o = Len(b)
  OBVIOUS
<1> HIDE DEF b, c, g, t, o
<1>7. Len(b) \in Nat /\ Len(g) \in Nat /\ Len(t) \in Nat
  BY <1>2, <1>3, LenProperties
<1>8. Len(c) = Len(b) + Len(g) /\ \A i \in 1..Len(g) : c[Len(b) + i] = g[i]
  BY <1>2, <1>3, <1>4, Joined
<1>9. \A i \in 1..Len(g) : o + i \in 1..Len(c)
  BY <1>6, <1>8, <1>7
<1>10. /\ o + Len(g) <= Len(t) /\ \A i \in 1..Len(g) : t[o + i] = g[i]
       /\ o + Len(g) = Len(c)
  BY <1>5, <1>6, <1>8, <1>9, <1>7 DEF Begins
<1> QED BY <1>3, <1>10 DEF c, g, t, o

------------------------------------------------------------------------------
(* FoldLeft over an outbox: the function of its definition, from the sets  *)
(* of positions to the objects sent so far, exists.                        *)

NothingSent == [data |-> NewData, bytes |-> <<>>]

SendOne(little, so, frame) ==
  LET d == Fill(ResetData(so.data), frame)
  IN  [data |-> d, bytes |-> so.bytes \o Encode(little, d)]

IsFold(f, little, outbox, D) ==
  f = [s \in SUBSET D |-> IF s = {} THEN NothingSent
                          ELSE SendOne(little, f[s \ {Max(s)}], outbox[Max(s)])]

LEMMA MaxOf ==
  ASSUME NEW n \in Nat, NEW s \in SUBSET (1..n), s # {}
  PROVE  Max(s) \in s /\ \A y \in s : Max(s) >= y
<1> DEFINE S == {k \in Nat : \A r \in SUBSET (1..k) :
                   r # {} => \E x \in r : \A y \in r : x >= y}
<1>1. 0 \in S
  <2>1. 1..0 = {}
    OBVIOUS
  <2> QED BY <2>1
<1>2. ASSUME NEW k \in Nat, k \in S PROVE k + 1 \in S
  <2>1. ASSUME NEW r \in SUBSET (1..(k + 1)), r # {}
        PROVE  \E x \in r : \A y \in r : x >= y
    <3>1. CASE k + 1 \in r
      BY <3>1
    <3>2. CASE k + 1 \notin r
      <4>1. r \in SUBSET (1..k)
        BY <3>2
      <4> QED BY <1>2, <2>1, <4>1
    <3> QED BY <3>1, <3>2
  <2> QED BY <2>1
<1> HIDE DEF S
<1>3. Nat \subseteq S
  BY <1>1, <1>2, NatSetInduction
<1>4. \E x \in s : \A y \in s : x >= y
  BY <1>3 DEF S
<1> QED BY <1>4 DEF Max

LEMMA FoldExists ==
  ASSUME NEW little, NEW outbox, NEW n \in Nat
  PROVE  \E f : IsFold(f, little, outbox, 1..n)
<1> DEFINE S == {k \in Nat : \E f : IsFold(f, little, outbox, 1..k)}
<1>1. 0 \in S
  <2>1. IsFold([s \in SUBSET (1..0) |-> NothingSent], little, outbox, 1..0)
    BY DEF IsFold
  <2> QED BY <2>1
<1>2. ASSUME NEW k \in Nat, k \in S PROVE k + 1 \in S
  <2>1. PICK f : IsFold(f, little, outbox, 1..k)
    BY <1>2
  <2> DEFINE g == [s \in SUBSET (1..(k + 1)) |->
                     IF k + 1 \in s THEN SendOne(little, f[s \ {k + 1}], outbox[k + 1])
                     ELSE f[s]]
  <2>2. ASSUME NEW s \in SUBSET (1..k) PROVE g[s] = f[s]
    <3>1. s \in SUBSET (1..(k + 1)) /\ k + 1 \notin s
      OBVIOUS
    <3> QED BY <3>1
  <2>3. ASSUME NEW s \in SUBSET (1..k)
        PROVE  f[s] = IF s = {} THEN NothingSent
                      ELSE SendOne(little, f[s \ {Max(s)}], outbox[Max(s)])
    BY <2>1, Zenon DEF IsFold
  <2>4. ASSUME NEW s \in SUBSET (1..(k + 1))
        PROVE  g[s] = IF s = {} THEN NothingSent
                      ELSE SendOne(little, g[s \ {Max(s)}], outbox[Max(s)])
    <3>1. CASE k + 1 \in s
      <4>1. Max(s) \in s /\ \A y \in s : Max(s) >= y
        BY <3>1, MaxOf, k + 1 \in Nat
      <4>2. Max(s) = k + 1
        <5> DEFINE m == Max(s)
        <5>1. m \in 1..(k + 1) /\ m >= k + 1
          BY <3>1, <4>1
        <5> HIDE DEF m
        <5>2. m = k + 1
          BY <5>1
        <5> QED BY <5>2 DEF m
      <4>3. s \ {k + 1} \in SUBSET (1..k)
        OBVIOUS
      <4>4. g[s \ {k + 1}] = f[s \ {k + 1}]
        BY <2>2, <4>3
      <4>5. g[s] = SendOne(little, f[s \ {k + 1}], outbox[k + 1])
        BY <3>1
      <4> HIDE DEF g
      <4> QED BY <3>1, <4>2, <4>4, <4>5
    <3>2. CASE k + 1 \notin s
      <4>0. ASSUME NEW x \in s PROVE x \in 1..k
        <5>1. x \in 1..(k + 1) /\ x # k + 1
          BY <3>2
        <5> QED BY <5>1
      <4>1. s \in SUBSET (1..k) /\ s \ {Max(s)} \in SUBSET (1..k)
        BY <4>0
      <4> HIDE DEF g
      <4> QED BY <2>2, <2>3, <4>1
    <3> QED BY <3>1, <3>2
  <2>5. g = [s \in SUBSET (1..(k + 1)) |-> g[s]]
    OBVIOUS
  <2> HIDE DEF g
  <2>6. IsFold(g, little, outbox, 1..(k + 1))
    BY <2>4, <2>5, Zenon DEF IsFold
  <2> QED BY <2>6
<1> HIDE DEF S
<1>3. Nat \subseteq S
  BY <1>1, <1>2, NatSetInduction
<1> QED BY <1>3 DEF S

LEMMA FoldUnfold ==
  ASSUME NEW little, NEW outbox, NEW n \in Nat, DOMAIN outbox = 1..n
  PROVE  \E f : /\ IsFold(f, little, outbox, 1..n)
                /\ BytesOfReused(little, outbox) = f[1..n].bytes
<1> DEFINE f == CHOOSE f : IsFold(f, little, outbox, DOMAIN outbox)
<1>1. IsFold(f, little, outbox, DOMAIN outbox)
  BY FoldExists
<1>2. BytesOfReused(little, outbox) = f[DOMAIN outbox].bytes
  BY DEF BytesOfReused, FoldLeft, MapThenFoldSet, IsFold, SendOne, NothingSent
<1> QED BY <1>1, <1>2

(* An object that has sent a frame sends the next as a new one would.      *)
LEMMA SameObject ==
  ASSUME NEW little \in BOOLEAN, NEW frame \in Sendable, NEW old
  PROVE  Encode(little, Fill(Blank(old), frame)) = GetFrame(little, frame)
<1> DEFINE d == Fill(Blank(old), frame)
           e == Fill(NewData, frame)
           n == Len(frame.payload)
<1>1. frame.mask \in BOOLEAN /\ n \in Nat
  BY LenProperties DEF Sendable
<1>2. /\ d.byte1 = e.byte1 /\ d.byte2 = e.byte2 /\ d.ext = e.ext /\ d.len = e.len
      /\ d.payload = e.payload /\ (frame.mask => d.key = e.key)
      /\ d.byte2 = BitOr(MaskBit(frame.mask), SizeBits(n))
  BY Filled, BlankObjects
<1>3. Masked(d.byte2) <=> frame.mask
  BY <1>1, <1>2, SecondHeaderByte
<1> HIDE DEF d, e
<1>4. EncodeHeader(little, d) = EncodeHeader(little, e)
  <2>1. LengthBytes(little, d) = LengthBytes(little, e)
    BY <1>2 DEF LengthBytes
  <2> QED BY <1>2, <1>3, <2>1 DEF EncodeHeader
<1>5. Encode(little, d) = Encode(little, e)
  BY <1>2, <1>3, <1>4, Zenon DEF Encode
<1> QED BY <1>5 DEF GetFrame, d, e

(* One WebsocketData that is reset before each frame puts the same bytes   *)
(* on the wire as a new one for every frame.                               *)
LEMMA ReusedBytes ==
  ASSUME NEW little \in BOOLEAN, NEW outbox \in Seq(Sendable)
  PROVE  BytesOfReused(little, outbox) = BytesOf(little, outbox)
<1> DEFINE n == Len(outbox)
<1>1. n \in Nat /\ DOMAIN outbox = 1..n
  BY LenProperties
<1>2. PICK f : /\ IsFold(f, little, outbox, 1..n)
               /\ BytesOfReused(little, outbox) = f[1..n].bytes
  BY <1>1, FoldUnfold
<1> DEFINE S == {k \in Nat : k <= n => f[1..k].bytes = BytesOf(little, First(outbox, k))}
<1>3. ASSUME NEW s \in SUBSET (1..n)
      PROVE  f[s] = IF s = {} THEN NothingSent
                    ELSE SendOne(little, f[s \ {Max(s)}], outbox[Max(s)])
  <2> HIDE DEF n
  <2> QED BY <1>2, Zenon DEF IsFold
<1> HIDE DEF n
<1>4. 0 \in S
  <2>1. 1..0 = {} /\ {} \in SUBSET (1..n)
    OBVIOUS
  <2>2. f[{}] = NothingSent
    BY <1>3, <2>1
  <2>3. First(outbox, 0) = <<>>
    BY SubSeqEmpty DEF First
  <2>4. f[1..0].bytes = BytesOf(little, First(outbox, 0))
    BY <2>1, <2>2, <2>3, BytesOfNone DEF NothingSent
  <2> QED BY <2>4
<1>5. ASSUME NEW k \in Nat, k \in S PROVE k + 1 \in S
  <2>1. ASSUME k + 1 <= n
        PROVE  f[1..(k + 1)].bytes = BytesOf(little, First(outbox, k + 1))
    <3> DEFINE s == 1..(k + 1)
               frame == outbox[k + 1]
    <3>1. s \in SUBSET (1..n) /\ s # {} /\ k + 1 \in 1..n /\ k < Len(outbox)
      <4>1. \A i \in 1..(k + 1) : i \in 1..n
        BY <1>1, <2>1
      <4>2. s \in SUBSET (1..n)
        BY <4>1
      <4>3. k + 1 \in s /\ k + 1 \in 1..n
        BY <1>1, <2>1
      <4>4. k < n
        BY <1>1, <2>1
      <4> HIDE DEF s
      <4> QED BY <4>2, <4>3, <4>4 DEF n
    <3>2. Max(s) = k + 1
      <4>1. Max(s) \in s /\ \A y \in s : Max(s) >= y
        BY <3>1, MaxOf, k + 1 \in Nat
      <4> DEFINE m == Max(s)
      <4>2. m \in 1..(k + 1) /\ m >= k + 1
        BY <4>1
      <4> HIDE DEF m
      <4>3. m = k + 1
        BY <4>2
      <4> QED BY <4>3 DEF m
    <3>3. s \ {k + 1} = 1..k
      OBVIOUS
    <3>4. frame \in Sendable
      BY <3>1, ElementOfSeq DEF n
    <3> HIDE DEF s
    <3>5. f[s] = SendOne(little, f[1..k], frame)
      BY <1>3, <3>1, <3>2, <3>3
    <3>6. f[1..k].bytes = BytesOf(little, First(outbox, k))
      <4>1. k <= n
        BY <1>1, <2>1
      <4> QED BY <1>5, <4>1
    <3> HIDE DEF frame
    <3>7. f[s].bytes = f[1..k].bytes \o GetFrame(little, frame)
      <4>1. ResetData(f[1..k].data) = Blank(f[1..k].data.key)
        BY BlankObjects
      <4>2. Encode(little, Fill(ResetData(f[1..k].data), frame)) = GetFrame(little, frame)
        BY <3>4, <4>1, SameObject
      <4> QED BY <3>5, <4>2 DEF SendOne
    <3>8. BytesOf(little, First(outbox, k + 1))
            = BytesOf(little, First(outbox, k)) \o GetFrame(little, frame)
      BY <3>1, BytesOfNext DEF frame
    <3> QED BY <3>6, <3>7, <3>8 DEF s
  <2> QED BY <2>1
<1> HIDE DEF S
<1>6. Nat \subseteq S
  BY <1>4, <1>5, NatSetInduction
<1>7. f[1..n].bytes = BytesOf(little, First(outbox, n))
  BY <1>1, <1>6 DEF S
<1>8. First(outbox, n) = outbox
  BY SubSeqFull DEF First, n
<1> QED BY <1>2, <1>7, <1>8

------------------------------------------------------------------------------
(* A header alone.                                                         *)
LEMMA HeaderAlone ==
  ASSUME NEW little \in BOOLEAN, NEW mask \in BOOLEAN, NEW n \in 1..MAX_PAYLOAD_LENGTH
  PROVE  LET k == LengthField(n)
             s == HeaderBytes(little, mask, n)
         IN  /\ s \in Seq(Byte) /\ Len(s) = 2 + k + MaskField(mask)
             /\ s[1] = FinAnd(BINARY)
             /\ s[2] = BitOr(MaskBit(mask), SizeBits(n))
             /\ \A i \in 1..k : s[2 + i] = Unsigned(n, k)[i]
<1> DEFINE k == LengthField(n)
           m == MaskField(mask)
           s == HeaderBytes(little, mask, n)
           four == <<165, 255, 1, 128>>
           d == SetLength(FillHead(NewData, BINARY, mask, four), n)
           b1 == FinAnd(BINARY)
           b2 == BitOr(MaskBit(mask), SizeBits(n))
           length == IF k = 0 THEN <<>> ELSE LengthBytes(little, d)
           key == IF mask THEN four ELSE <<>>
<1>1. n \in Nat /\ n <= MAX_PAYLOAD_LENGTH /\ BINARY \in 0..15 /\ n > 0
  BY MaxPayload, Constants
<1>2. four \in Seq(Byte) /\ Len(four) = 4
  BY DEF Byte
<1>3. /\ d.byte1 = b1 /\ d.byte2 = b2 /\ d.ext = k /\ d.len = n
      /\ mask => d.key = four
  <2> HIDE DEF four
  <2> DEFINE head == FillHead(NewData, BINARY, mask, four)
  <2>1. head = [byte1 |-> b1, byte2 |-> MaskBit(mask), ext |-> 0, len |-> 0,
                key |-> IF mask THEN four ELSE <<>>, payload |-> <<>>]
    BY HeadFilled, BlankObjects
  <2> HIDE DEF head
  <2> QED BY <1>1, <2>1 DEF SetLength, LengthField, SizeBits, PAYLOAD_SIZE_BASIC,
             PAYLOAD_SIZE_16BIT, PAYLOAD_SIZE_64BIT, head
<1> HIDE DEF four, d
<1>4. (Masked(b2) <=> mask) /\ b2 = MaskBit(mask) + SizeBits(n)
  BY <1>1, SecondHeaderByte
<1>5. b1 \in Byte /\ b2 \in Byte
  <2>1. SizeBits(n) \in 0..127 /\ MaskBit(mask) \in {0, 128}
    BY <1>1 DEF SizeBits, MaskBit
  <2>2. b1 = 128 + BINARY
    BY <1>1, FirstHeaderByte
  <2> HIDE DEF b1, b2
  <2> QED BY <1>1, <1>4, <2>1, <2>2 DEF Byte
<1> HIDE DEF b1, b2
<1>6. length \in Seq(Byte) /\ Len(length) = k /\ (k # 0 => length = Unsigned(n, k))
  <2>1. CASE k = 0  BY <2>1
  <2>2. CASE k # 0
    BY <1>1, <1>3, <2>2, LengthFieldBytes
  <2> QED BY <2>1, <2>2
<1>7. key \in Seq(Byte) /\ Len(key) = m
  <2>1. CASE mask  BY <1>2, <2>1 DEF MaskField, MASK_BYTES
  <2>2. CASE ~mask  BY <2>2 DEF MaskField
  <2> QED BY <2>1, <2>2
<1>8. s = (<<b1, b2>> \o length) \o key
  <2>1. s = EncodeHeader(little, d)
    BY Zenon DEF HeaderBytes, d, four
  <2> HIDE DEF s
  <2> QED BY <1>3, <1>4, <2>1 DEF EncodeHeader
<1>9. k \in Nat /\ m \in Nat
  BY <1>1 DEF LengthField, MaskField, MASK_BYTES
<1> HIDE DEF length, key, k, m, s
<1>10. /\ s \o <<>> \in Seq(Byte)
       /\ InOrder(s \o <<>>, b1, b2, k, length, m, key, <<>>)
  <2>1. <<>> \in Seq(Byte)
    OBVIOUS
  <2> QED BY <1>5, <1>6, <1>7, <1>8, <1>9, <2>1, FourParts
<1>11. s \o <<>> = s
  <2>1. <<b1, b2>> \in Seq(Byte)
    BY <1>5
  <2>2. s \in Seq(Byte)
    BY <1>6, <1>7, <1>8, <2>1, ConcatProperties
  <2> QED BY <2>2, ConcatEmptySeq
<1>12. s \in Seq(Byte) /\ InOrder(s, b1, b2, k, length, m, key, <<>>)
  BY <1>10, <1>11
<1>13. /\ Len(s) = 2 + k + m /\ s[1] = b1 /\ s[2] = b2
       /\ \A i \in 1..k : s[2 + i] = length[i]
  BY <1>9, <1>12 DEF InOrder
<1>14. \A i \in 1..k : s[2 + i] = Unsigned(n, k)[i]
  BY <1>6, <1>9, <1>13
<1> QED BY <1>12, <1>13, <1>14 DEF k, m, s, b1, b2

------------------------------------------------------------------------------
(* The inductive invariant: the decoder's own, and where the decoder is in *)
(* what was sent.                                                          *)

FramesArrive ==
  /\ sent \in Seq(Sendable)
  /\ stream = BytesOf(TRUE, sent)
  /\ open
  /\ Len(delivered) <= Len(sent)
  /\ delivered = MessagesOf(First(sent, Len(delivered)))
  /\ start = Len(BytesOf(TRUE, First(sent, Len(delivered))))
  /\ arrived = Len(stream) => dec.state = "BASIC_HEADER"

HeaderArrives ==
  /\ announced \in Lengths
  /\ \E little \in BOOLEAN, mask \in BOOLEAN : stream = HeaderBytes(little, mask, announced)
  /\ open
  /\ start = 0
  /\ arrived = Len(stream) => dec.state = "APPLICATION"

ChannelInv == IInv /\ (announced = 0 => FramesArrive) /\ (announced # 0 => HeaderArrives)

LEMMA MessagesOfNext ==
  ASSUME NEW outbox \in Seq(Sendable), NEW k \in Nat, k < Len(outbox)
  PROVE  MessagesOf(First(outbox, k + 1))
           = Append(MessagesOf(First(outbox, k)),
                    Message(outbox[k + 1].opcode, outbox[k + 1].payload))
<1> DEFINE m(i) == Message(outbox[i].opcode, outbox[i].payload)
<1>1. k \in 0..Len(outbox) /\ k + 1 \in 0..Len(outbox)
  BY LenProperties
<1>2. ASSUME NEW j \in 0..Len(outbox)
      PROVE  MessagesOf(First(outbox, j)) = [i \in 1..j |-> m(i)]
  <2>1. Len(First(outbox, j)) = j /\ \A i \in 1..j : First(outbox, j)[i] = outbox[i]
    BY FirstType
  <2> QED BY <2>1 DEF MessagesOf
<1>3. MessagesOf(First(outbox, k)) = [i \in 1..k |-> m(i)]
  BY <1>1, <1>2
<1>4. MessagesOf(First(outbox, k + 1)) = [i \in 1..(k + 1) |-> m(i)]
  BY <1>1, <1>2
<1> HIDE DEF m
<1>5. [i \in 1..(k + 1) |-> m(i)] = Append([i \in 1..k |-> m(i)], m(k + 1))
  OBVIOUS
<1> QED BY <1>3, <1>4, <1>5 DEF m

(* What is known in every state of the decoder.                            *)
LEMMA Facts ==
  ASSUME IInv
  PROVE  /\ stream \in Seq(Byte) /\ Len(stream) \in Nat /\ arrived \in Nat
         /\ arrived <= Len(stream) /\ dec \in Decoder /\ dec.pos \in Nat /\ start \in Nat
         /\ start <= dec.pos /\ dec.pos <= arrived
         /\ delivered \in Seq([opcode : 0..15, payload : Seq(Byte)])
         /\ Len(delivered) \in Nat
<1>1. stream \in Seq(Byte) /\ Len(stream) \in Nat
  BY StreamsAreBytes, LenProperties DEF IInv, TypeOK
<1>2. delivered \in Seq([opcode : 0..15, payload : Seq(Byte)]) /\ Len(delivered) \in Nat
  BY LenProperties DEF IInv, TypeOK
<1>3. /\ arrived \in Nat /\ arrived <= Len(stream) /\ start \in Nat
      /\ dec \in Decoder /\ dec.pos \in Nat
  BY <1>1 DEF IInv, TypeOK, Decoder
<1> QED BY <1>1, <1>2, <1>3 DEF IInv, Resumable

(* The decoder when the loop of decode has come to its exit.               *)
LEMMA AtExit ==
  ASSUME IInv, NEW n \in 1..(Len(stream) - arrived), OnMessage(n),
         NEW d, d = Decode(dec, arrived + n)
  PROVE  /\ d \in Decoder /\ Reached(d, arrived + n) /\ Blocked(d, arrived + n)
         /\ Refuse(d) \/ Dispatch(d) \/ Await(d)
<1> DEFINE a == arrived + n
<1>1. a \in arrived..Len(stream)
  BY Facts
<1>2. open /\ (Refuse(d) \/ Dispatch(d) \/ Await(d))
  BY DEF OnMessage
<1> HIDE DEF a
<1>3. Setting(a) /\ Reached(dec, a)
  BY <1>1, <1>2, Resume
<1>4. Reached(Decode(dec, a), a) /\ Blocked(Decode(dec, a), a)
  BY <1>3, LoopExit
<1>5. Reached(d, a) /\ Blocked(d, a)
  BY <1>4 DEF a
<1> QED BY <1>2, <1>5 DEF Reached, a

(* A read event while frames are on their way: it is inside the next one   *)
(* or completes it.                                                        *)
LEMMA FramesStep ==
  ASSUME IInv, FramesArrive, NEW n \in 1..(Len(stream) - arrived), OnMessage(n),
         sent' = sent
  PROVE  FramesArrive'
<1> DEFINE k == Len(delivered)
           frame == sent[k + 1]
           g == GetFrame(TRUE, frame)
           a == arrived + n
<1>1. IInv' /\ Reader!Receive(n)
  BY ReadEvent
<1>2. /\ sent \in Seq(Sendable) /\ stream = BytesOf(TRUE, sent) /\ open /\ k <= Len(sent)
      /\ delivered = MessagesOf(First(sent, k))
      /\ start = Len(BytesOf(TRUE, First(sent, k)))
  BY DEF FramesArrive
<1>3. /\ stream \in Seq(Byte) /\ Len(stream) \in Nat /\ arrived \in Nat
      /\ dec.pos \in Nat /\ start \in Nat /\ k \in Nat /\ Len(sent) \in Nat
      /\ start <= dec.pos /\ dec.pos <= arrived
  BY <1>2, Facts, LenProperties
<1>4. /\ a \in Nat /\ a <= Len(stream) /\ arrived' = a /\ stream' = stream
      /\ start < Len(stream)
  BY <1>3 DEF OnMessage
<1>5. k < Len(sent)
  <2>1. k = Len(sent) => First(sent, k) = sent
    BY <1>2, SubSeqFull DEF First
  <2>2. k = Len(sent) => start = Len(stream)
    BY <1>2, <2>1
  <2>3. k # Len(sent)
    BY <1>3, <1>4, <2>2
  <2> HIDE DEF k
  <2> QED BY <1>2, <1>3, <2>3
<1>6. /\ g \in Seq(Byte) /\ start + Len(g) <= Len(stream)
      /\ \A i \in 1..Len(g) : stream[start + i] = g[i]
      /\ start + Len(g) = Len(BytesOf(TRUE, First(sent, k + 1)))
  <2> HIDE DEF k
  <2>2. LET o == Len(BytesOf(TRUE, First(sent, k)))
            t == BytesOf(TRUE, sent)
            f == GetFrame(TRUE, sent[k + 1])
        IN  /\ f \in Seq(Byte) /\ o + Len(f) <= Len(t)
            /\ \A i \in 1..Len(f) : t[o + i] = f[i]
            /\ o + Len(f) = Len(BytesOf(TRUE, First(sent, k + 1)))
    BY <1>2, <1>3, <1>5, FramePlace, Zenon
  <2> QED BY ONLY <1>2, <2>2, Zenon
<1>7. frame \in Sendable /\ TRUE \in BOOLEAN /\ Len(g) \in Nat
  <2>1. k + 1 \in 1..Len(sent)
    BY <1>3, <1>5
  <2> QED BY <1>2, <1>6, <2>1, ElementOfSeq, LenProperties
<1> HIDE DEF a
<1>8. /\ ~Reader!Refused(stream, start, a)
      /\ Reader!Complete(stream, start, a) <=> a - start >= Len(g)
      /\ Reader!FrameLength(stream, start) = Len(g)
      /\ Reader!MessageAt(stream, start) = Message(frame.opcode, frame.payload)
  <2> HIDE DEF frame, k
  <2> QED BY <1>3, <1>4, <1>6, <1>7, FrameReadsBack
<1> HIDE DEF g
<1>9. CASE Reader!Complete(stream, start, a)
  <2>1. /\ start' = start + Len(g) /\ open' = open
        /\ delivered' = Append(delivered, Message(frame.opcode, frame.payload))
    BY <1>1, <1>4, <1>8, <1>9 DEF Reader!Receive
  <2>2. Len(delivered') = k + 1 /\ delivered' # delivered
    <3>1. delivered \in Seq([opcode : 0..15, payload : Seq(Byte)])
      BY Facts
    <3>2. Message(frame.opcode, frame.payload) \in [opcode : 0..15, payload : Seq(Byte)]
      <4> HIDE DEF frame
      <4> QED BY <1>7, Constants DEF Message, Sendable
    <3> DEFINE m == Message(frame.opcode, frame.payload)
    <3> HIDE DEF m
    <3>3. Len(Append(delivered, m)) = Len(delivered) + 1
      BY <3>1, <3>2, AppendProperties DEF m
    <3> QED BY <1>3, <2>1, <3>3 DEF m
  <2>3. delivered' = MessagesOf(First(sent, k + 1))
    BY <1>2, <1>3, <1>5, <2>1, MessagesOfNext
  <2>4. dec'.state = "BASIC_HEADER"
    <3> DEFINE d == Decode(dec, arrived + n)
    <3>1. d \in Decoder /\ (Refuse(d) \/ Dispatch(d) \/ Await(d))
      BY AtExit
    <3> HIDE DEF d
    <3>2. dec' = Reset(d)
      BY <2>2, <3>1 DEF Refuse, Await, Dispatch
    <3> QED BY <3>1, <3>2 DEF Reset, Decoder
  <2> HIDE DEF k
  <2>5. k + 1 <= Len(sent)
    BY <1>3, <1>5
  <2>6. FramesArrive'
    BY <1>2, <1>4, <1>6, <2>1, <2>2, <2>3, <2>4, <2>5 DEF FramesArrive
  <2> QED BY <2>6
<1>10. CASE ~Reader!Complete(stream, start, a)
  <2>1. start' = start /\ delivered' = delivered /\ open' = open
    BY <1>1, <1>4, <1>8, <1>10 DEF Reader!Receive
  <2>2. a # Len(stream)
    BY <1>3, <1>6, <1>7, <1>8, <1>10
  <2> QED BY <1>2, <1>4, <2>1, <2>2 DEF FramesArrive
<1> QED BY <1>9, <1>10

(* What the decoder finds in a header that is alone in the stream.         *)
LEMMA HeaderFacts ==
  ASSUME NEW s, NEW n \in Lengths,
         \E little \in BOOLEAN, mask \in BOOLEAN : s = HeaderBytes(little, mask, n)
  PROVE  /\ s \in Seq(Byte) /\ Len(s) \in Nat /\ Len(s) >= 2
         /\ ExtAt(s, 0) \in {0, 2, 8} /\ ExtAt(s, 0) = LengthField(n)
         /\ Len(s) = 2 + ExtAt(s, 0) + IF Masked(s[2]) THEN 4 ELSE 0
         /\ LengthAt(s, 0) = n /\ n \in Nat /\ n > 0 /\ n <= MAX_PAYLOAD_LENGTH
         /\ \A i \in 1..LengthField(n) : s[2 + i] = Unsigned(n, LengthField(n))[i]
         /\ \A a \in Nat : a <= Len(s) =>
               ~Reader!Refused(s, 0, a) /\ ~Reader!Complete(s, 0, a)
<1> DEFINE k == LengthField(n)
<1>1. PICK little \in BOOLEAN, mask \in BOOLEAN : s = HeaderBytes(little, mask, n)
  OBVIOUS
<1>2. n \in 1..MAX_PAYLOAD_LENGTH
  BY LengthsWithinLimit
<1>3. n \in Nat /\ n > 0 /\ n <= MAX_PAYLOAD_LENGTH /\ k \in {0, 2, 8}
  BY <1>2, MaxPayload DEF LengthField
<1>4. /\ s \in Seq(Byte) /\ Len(s) = 2 + k + MaskField(mask)
      /\ s[1] = FinAnd(BINARY) /\ s[2] = BitOr(MaskBit(mask), SizeBits(n))
      /\ \A i \in 1..k : s[2 + i] = Unsigned(n, k)[i]
  BY <1>1, <1>2, HeaderAlone
<1>5. MaskField(mask) = IF mask THEN 4 ELSE 0
  BY DEF MaskField, MASK_BYTES
<1>6. Len(s) \in Nat /\ Len(s) >= 2
  BY <1>3, <1>4, <1>5
<1>7. /\ (Masked(s[2]) <=> mask) /\ ExtAt(s, 0) = k /\ LengthAt(s, 0) = n
      /\ HeaderAt(s, 0) = 2 + k + MaskField(mask)
      /\ \A a : ~Reader!Refused(s, 0, a)
  <2> HIDE DEF k
  <2> DEFINE o == 0
  <2>1. /\ o \in Nat /\ o + 2 <= Len(s) /\ s[o + 1] = FinAnd(BINARY)
        /\ s[o + 2] = BitOr(MaskBit(mask), SizeBits(n))
    BY <1>4, <1>6
  <2>2. \A i \in 1..k : s[o + 2 + i] = Unsigned(n, k)[i]
    BY <1>4
  <2>3. BINARY \in 0..15 /\ CanHandleOpcode(BINARY)
    BY Constants
  <2>4. o + 2 = 2 /\ o = 0
    OBVIOUS
  <2> HIDE DEF o
  <2>5. /\ Opcode(s[o + 1]) = BINARY /\ (Masked(s[o + 2]) <=> mask)
        /\ ExtAt(s, o) = LengthField(n) /\ LengthAt(s, o) = n
        /\ HeaderAt(s, o) = 2 + LengthField(n) + MaskField(mask)
        /\ \A a : ~Reader!Refused(s, o, a)
    <3>1. /\ s \in Seq(Byte) /\ n \in Nat /\ n <= MAX_PAYLOAD_LENGTH /\ mask \in BOOLEAN
          /\ \A i \in 1..LengthField(n) : s[o + 2 + i] = Unsigned(n, LengthField(n))[i]
      BY <1>3, <1>4, <2>2 DEF k
    <3> QED BY <2>1, <2>3, <3>1, HeaderReadsBack, Zenon
  <2> QED BY <2>4, <2>5 DEF k
<1>8. Reader!FrameLength(s, 0) = Len(s) + n
  <2>1. Reader!FrameLength(s, 0) = HeaderAt(s, 0) + LengthAt(s, 0)
    BY <1>4, <1>6, SameFrame, 0 + 2 <= Len(s)
  <2> QED BY <1>4, <1>7, <2>1
<1> HIDE DEF k
<1>9. ASSUME NEW a \in Nat, a <= Len(s) PROVE ~Reader!Complete(s, 0, a)
  <2>1. ~(a - 0 >= Reader!FrameLength(s, 0))
    BY <1>3, <1>6, <1>8, <1>9
  <2> QED BY <2>1 DEF Reader!Complete
<1> QED BY <1>3, <1>4, <1>5, <1>6, <1>7, <1>9 DEF k

(* A read event while a header alone is on its way: the decoder reads it   *)
(* and waits for the payload.                                              *)
LEMMA HeaderStep ==
  ASSUME IInv, HeaderArrives, NEW n \in 1..(Len(stream) - arrived), OnMessage(n),
         announced' = announced
  PROVE  HeaderArrives'
<1> DEFINE a == arrived + n
           d == Decode(dec, a)
           x == ExtAt(stream, 0)
<1>1. /\ announced \in Lengths /\ open /\ start = 0
      /\ \E little \in BOOLEAN, mask \in BOOLEAN : stream = HeaderBytes(little, mask, announced)
  BY DEF HeaderArrives
<1>2. /\ Len(stream) \in Nat /\ Len(stream) >= 2 /\ x \in {0, 2, 8}
      /\ Len(stream) = 2 + x + IF Masked(stream[2]) THEN 4 ELSE 0
      /\ \A b \in Nat : b <= Len(stream) =>
            ~Reader!Refused(stream, 0, b) /\ ~Reader!Complete(stream, 0, b)
  BY <1>1, HeaderFacts
<1>3. /\ a \in Nat /\ a <= Len(stream) /\ arrived' = a /\ stream' = stream
  BY <1>2, Facts DEF OnMessage
<1>4. /\ d \in Decoder /\ Reached(d, a) /\ Blocked(d, a)
      /\ Refuse(d) \/ Dispatch(d) \/ Await(d)
  BY AtExit
<1>5. IInv' /\ Reader!Receive(n)
  BY ReadEvent
<1> HIDE DEF d, a, x
<1>6. open' = open /\ start' = start /\ delivered' = delivered
  BY <1>1, <1>2, <1>3, <1>5 DEF Reader!Receive
<1>7. Await(d)
  <2>1. ~Refuse(d)
    BY <1>1, <1>6 DEF Refuse
  <2>2. ~Dispatch(d)
    <3>1. ASSUME Dispatch(d) PROVE FALSE
      <4> DEFINE m == Message(Opcode(d.byte1), d.payload)
      <4>1. delivered \in Seq([opcode : 0..15, payload : Seq(Byte)])
        BY Facts
      <4>2. delivered' \in Seq([opcode : 0..15, payload : Seq(Byte)])
        BY <1>6, <4>1
      <4>3. delivered' = Append(delivered, m)
        BY <3>1 DEF Dispatch
      <4> HIDE DEF m
      <4>4. Len(Append(delivered, m)) = Len(delivered) + 1 /\ Len(delivered) \in Nat
        BY <4>1, AppendProperties, LenProperties
      <4> QED BY <1>6, <4>3, <4>4
    <3> QED BY <3>1
  <2> QED BY <1>4, <2>1, <2>2
<1>8. dec' = d /\ d.state \in ParserState /\ d.state \notin {"READY", "FATAL"} /\ d.pos \in Nat
  BY <1>4, <1>7 DEF Await, Decoder
<1>9. ASSUME a = Len(stream) PROVE d.state = "APPLICATION"
  <2>1. a - d.pos < Needed(d)
    BY <1>4, <1>8 DEF Blocked
  <2>2. d.state # "BASIC_HEADER"
    BY <1>1, <1>2, <1>4, <1>8, <1>9, <2>1
       DEF Reached, Needed, BASIC_HEADER_LENGTH
  <2>3. d.state # "EXTENDED_HEADER_LENGTH"
    BY <1>1, <1>2, <1>4, <1>8, <1>9, <2>1 DEF Reached, HeaderRead, Needed, x
  <2>4. d.state # "GET_MASK"
    <3>1. CASE d.state = "GET_MASK"
      <4>1. d.byte2 = stream[2] /\ Masked(d.byte2) /\ d.pos = 2 + x
        BY <1>1, <1>4, <3>1 DEF Reached, HeaderRead, x
      <4>2. Needed(d) = 4
        BY <3>1 DEF Needed, MASK_BYTES
      <4> QED BY <1>2, <1>9, <2>1, <4>1, <4>2
    <3> QED BY <3>1
  <2> QED BY <1>8, <2>2, <2>3, <2>4 DEF ParserState
<1> QED BY <1>1, <1>3, <1>6, <1>8, <1>9 DEF HeaderArrives

------------------------------------------------------------------------------
LEMMA ChannelStart == ChannelInit => ChannelInv
<1> SUFFICES ASSUME ChannelInit PROVE ChannelInv
  OBVIOUS
<1>1. PICK little \in BOOLEAN :
        \/ /\ sent \in Outboxes
           /\ announced = 0
           /\ stream \in {BytesOf(little, sent), BytesOfReused(little, sent)}
        \/ /\ announced \in Lengths
           /\ sent = <<>>
           /\ \E mask \in BOOLEAN : stream = HeaderBytes(little, mask, announced)
  BY DEF ChannelInit
<1>2. Fresh
  BY DEF ChannelInit
<1>3. arrived = 0 /\ start = 0 /\ delivered = <<>> /\ open /\ dec.state = "BASIC_HEADER"
  BY <1>2 DEF Fresh
<1>4. 0 \notin Lengths
  BY LengthsWithinLimit, MaxPayload
<1>5. CASE announced = 0
  <2>1. sent \in Outboxes /\ stream \in {BytesOf(little, sent), BytesOfReused(little, sent)}
    BY <1>1, <1>4, <1>5
  <2>2. stream \in PeerStreams
    BY <2>1 DEF PeerStreams
  <2>3. Init
    BY <1>2, <2>2, PeerStreamsExpected DEF Init
  <2>4. sent \in Seq(Sendable)
    BY <2>1, OutboxesAreSendable
  <2>5. stream = BytesOf(TRUE, sent)
    BY <2>1, <2>4, ReusedBytes, BytesOnEveryHost
  <2>6. Len(delivered) = 0 /\ Len(delivered) <= Len(sent) /\ First(sent, 0) = <<>>
    BY <1>3, <2>4, LenProperties, SubSeqEmpty DEF First
  <2>7. MessagesOf(<<>>) = <<>>
    BY DEF MessagesOf
  <2>8. Len(BytesOf(TRUE, <<>>)) = 0
    <3>1. BytesOf(TRUE, <<>>) = <<>>
      BY BytesOfNone, Zenon
    <3>2. Len(<<>>) = 0
      OBVIOUS
    <3> QED BY <3>1, <3>2, Zenon
  <2>9. FramesArrive
    BY <1>3, <2>4, <2>5, <2>6, <2>7, <2>8 DEF FramesArrive
  <2> QED BY <1>5, <2>3, <2>9, Start DEF ChannelInv
<1>6. CASE announced # 0
  <2>1. announced \in Lengths /\ \E mask \in BOOLEAN : stream = HeaderBytes(little, mask, announced)
    BY <1>1, <1>6
  <2>2. stream \in PeerStreams
    BY <2>1 DEF PeerStreams
  <2>3. Init
    BY <1>2, <2>2, PeerStreamsExpected DEF Init
  <2>4. Len(stream) \in Nat /\ Len(stream) >= 2
    BY <2>1, HeaderFacts
  <2>5. HeaderArrives
    BY <1>3, <2>1, <2>4 DEF HeaderArrives
  <2> QED BY <1>6, <2>3, <2>5, Start DEF ChannelInv
<1> QED BY <1>5, <1>6

LEMMA ChannelStep == ChannelInv /\ [ChannelNext]_channelVars => ChannelInv'
<1> SUFFICES ASSUME ChannelInv, [ChannelNext]_channelVars PROVE ChannelInv'
  OBVIOUS
<1>1. CASE ChannelNext
  <2>1. sent' = sent /\ announced' = announced /\ Next /\ IInv
    BY <1>1 DEF ChannelNext, ChannelInv
  <2>2. PICK n \in 1..(Len(stream) - arrived) : OnMessage(n)
    BY <2>1 DEF Next
  <2>3. IInv'
    BY <2>1, <2>2, ReadEvent
  <2>4. announced = 0 => FramesArrive'
    BY <2>1, <2>2, FramesStep DEF ChannelInv
  <2>5. announced # 0 => HeaderArrives'
    BY <2>1, <2>2, HeaderStep DEF ChannelInv
  <2> QED BY <2>1, <2>3, <2>4, <2>5 DEF ChannelInv
<1>2. CASE UNCHANGED channelVars
  <2>1. UNCHANGED vars /\ sent' = sent /\ announced' = announced
    BY <1>2 DEF channelVars
  <2>2. IInv'
    BY <2>1, Step DEF ChannelInv
  <2> QED BY <2>1, <2>2 DEF ChannelInv, FramesArrive, HeaderArrives, vars
<1> QED BY <1>1, <1>2

LEMMA ChannelInductive == ChannelSpec => []ChannelInv
BY ChannelStart, ChannelStep, PTL DEF ChannelSpec

LEMMA PrefixRead == ChannelInv => RoundTrip
<1> SUFFICES ASSUME ChannelInv, announced = 0
             PROVE  /\ open
                    /\ IsPrefix(delivered, MessagesOf(sent))
                    /\ start = Len(BytesOf(TRUE, SubSeq(sent, 1, Len(delivered))))
                    /\ arrived = Len(stream) => dec.state = "BASIC_HEADER"
  BY DEF RoundTrip
<1> DEFINE k == Len(delivered)
           m(i) == Message(sent[i].opcode, sent[i].payload)
<1>1. IInv /\ FramesArrive
  BY DEF ChannelInv
<1>2. /\ sent \in Seq(Sendable) /\ k <= Len(sent) /\ k \in Nat /\ Len(sent) \in Nat
      /\ delivered = MessagesOf(First(sent, k))
  BY <1>1, Facts, LenProperties DEF FramesArrive
<1>3. Len(First(sent, k)) = k /\ \A i \in 1..k : First(sent, k)[i] = sent[i]
  BY <1>2, FirstType, k \in 0..Len(sent)
<1>4. delivered = [i \in 1..k |-> m(i)]
  <2>1. MessagesOf(First(sent, k))
          = [i \in 1..k |-> Message(First(sent, k)[i].opcode, First(sent, k)[i].payload)]
    BY <1>3 DEF MessagesOf
  <2> QED BY <1>2, <1>3, <2>1
<1>5. MessagesOf(sent) = [i \in 1..Len(sent) |-> m(i)]
  BY DEF MessagesOf
<1> HIDE DEF m, k
<1>6. /\ Len(delivered) = k /\ Len(MessagesOf(sent)) = Len(sent)
      /\ SubSeq(MessagesOf(sent), 1, k) = [i \in 1..k |-> m(i)]
      /\ SubSeq(delivered, 1, k) = [i \in 1..k |-> m(i)]
  BY <1>2, <1>4, <1>5 DEF k
<1>7. IsPrefix(delivered, MessagesOf(sent))
  BY <1>2, <1>6 DEF IsPrefix
<1> QED BY <1>1, <1>7 DEF FramesArrive, First

LEMMA LengthKept == ChannelInv => LengthAgreed
<1> SUFFICES ASSUME ChannelInv, announced > 0 PROVE LengthAgreed
  BY DEF LengthAgreed
<1> DEFINE x == ExtAt(stream, 0)
           n == announced
<1>1. announced # 0
  <2>1. announced = 0 => ~(announced > 0)
    OBVIOUS
  <2> QED BY <2>1
<1>2. IInv /\ HeaderArrives
  BY <1>1 DEF ChannelInv
<1>3. /\ n \in Lengths /\ open /\ start = 0 /\ (arrived = Len(stream) => dec.state = "APPLICATION")
      /\ \E little \in BOOLEAN, mask \in BOOLEAN : stream = HeaderBytes(little, mask, n)
  BY <1>2 DEF HeaderArrives
<1>4. /\ stream \in Seq(Byte) /\ Len(stream) \in Nat /\ x \in {0, 2, 8} /\ x = LengthField(n)
      /\ Len(stream) >= 2 + x /\ LengthAt(stream, 0) = n
      /\ n \in Nat /\ n <= MAX_PAYLOAD_LENGTH
      /\ \A i \in 1..x : stream[2 + i] = Unsigned(n, x)[i]
  <2> HIDE DEF n
  <2>1. /\ stream \in Seq(Byte) /\ Len(stream) \in Nat
        /\ x \in {0, 2, 8} /\ x = LengthField(n)
        /\ Len(stream) = 2 + x + IF Masked(stream[2]) THEN 4 ELSE 0
        /\ LengthAt(stream, 0) = n /\ n \in Nat /\ n <= MAX_PAYLOAD_LENGTH
        /\ \A i \in 1..LengthField(n) : stream[2 + i] = Unsigned(n, LengthField(n))[i]
    BY <1>3, HeaderFacts
  <2> HIDE DEF x
  <2> QED BY <2>1
<1> HIDE DEF x, n
<1>5. ASSUME arrived = Len(stream)
      PROVE  /\ dec.len = n /\ dec.ext = x
             /\ dec.state # "EXTENDED_HEADER_LENGTH"
  <2>1. dec.state = "APPLICATION"
    BY <1>3, <1>5
  <2>2. Setting(arrived) /\ Reached(dec, arrived)
    BY <1>2, <1>3, <1>4, Resume, Facts, arrived \in arrived..Len(stream)
  <2> QED BY <1>3, <1>4, <2>1, <2>2 DEF Reached, HeaderRead, LengthRead, x
<1>6. ASSUME x > 0, NEW little \in BOOLEAN
      PROVE  ntoh(little, Loaded(little, SubSeq(stream, 3, 2 + x))) = Unsigned(n, x)
  <2>1. x \in {2, 8}
    BY <1>4, <1>6
  <2>2. Unsigned(n, x) \in Integer(x)
    <3>1. n <= 64 * 65536
      BY <1>4, LengthClasses, <2>1 DEF MAX_PAYLOAD_LENGTH
    <3> QED BY <1>4, <2>1, <3>1, UnsignedBytes
  <2>3. SubSeq(stream, 3, 2 + x) = [i \in 1..x |-> stream[2 + i]]
    BY <1>4, <2>1
  <2>4. Unsigned(n, x) = [i \in 1..x |-> Unsigned(n, x)[i]]
    BY <2>2 DEF Integer
  <2>5. SubSeq(stream, 3, 2 + x) = Unsigned(n, x)
    BY <1>4, <2>3, <2>4
  <2>6. x \in Widths
    BY <2>1 DEF Widths
  <2> QED BY <2>2, <2>5, <2>6, HostsAgreeOnTheWire
<1> QED BY <1>3, <1>5, <1>6 DEF LengthAgreed, n

(* For every outbox of frames the code can send: whatever the opcodes, the *)
(* payloads, the mask keys and the byte order of the sending host, whether *)
(* a WebsocketData is made for each frame or one is reset and used again,  *)
(* and wherever TCP cuts the bytes, what encode writes decode reads back:  *)
(* the messages dispatched are the first of those sent, no frame is        *)
(* refused, and when all bytes have arrived none is left half read.        *)
THEOREM FramesComeThrough == ChannelSpec => []RoundTrip
BY ChannelInductive, PrefixRead, PTL

(* ... and for every length that setPayload accepts, the decoder accepts   *)
(* the header and keeps the length that was announced; either host reads   *)
(* the same number from the length field.                                  *)
THEOREM LengthsComeThrough == ChannelSpec => []LengthAgreed
BY ChannelInductive, LengthKept, PTL
==============================================================================
