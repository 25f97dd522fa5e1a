--------------------------- MODULE AcceptKeyProofs ---------------------------
(***************************************************************************)
(* For every key: calc hashes the padded message of the standard.  For     *)
(* every sequence of bytes: base64_decode reads back what base64_encode    *)
(* writes.                                                                 *)
(***************************************************************************)
EXTENDS AcceptKey, SequenceTheorems, TLAPS

------------------------------------------------------------------------------
(* Base64.                                                                 *)

Input == Seq(0..255)

(* The three bytes of the group that the k-th character, or byte, is of.   *)
ByteOf(input, i) == IF i <= Len(input) THEN input[i] ELSE 0

Group(k) == 3 * ((k - 1) \div 4)

SextetOf(input, k) ==
  Sextet((k - 1) % 4, ByteOf(input, Group(k) + 1), ByteOf(input, Group(k) + 2),
         ByteOf(input, Group(k) + 3))

------------------------------------------------------------------------------
(* The alphabet has one character for every value and no '='.              *)
LEMMA Alphabet ==
  ASSUME NEW v \in 0..63
  PROVE  /\ is_base64(base64_chars(v))
         /\ base64_chars(v) # PAD
         /\ find(base64_chars(v)) = v
<1>1. CASE v \in 0..25  BY <1>1 DEF base64_chars, find, is_base64, PAD
<1>2. CASE v \in 26..51 BY <1>2 DEF base64_chars, find, is_base64, PAD
<1>3. CASE v \in 52..61 BY <1>3 DEF base64_chars, find, is_base64, PAD
<1>4. CASE v = 62       BY <1>4 DEF base64_chars, find, is_base64, PAD
<1>5. CASE v = 63       BY <1>5 DEF base64_chars, find, is_base64, PAD
<1> QED BY <1>1, <1>2, <1>3, <1>4, <1>5

LEMMA SextetType ==
  ASSUME NEW k \in 0..3, NEW a \in 0..255, NEW b \in 0..255, NEW c \in 0..255
  PROVE  Sextet(k, a, b, c) \in 0..63
<1>1. a \div 4 \in 0..63 /\ a % 4 \in 0..3          OBVIOUS
<1>2. b \div 16 \in 0..15 /\ b % 16 \in 0..15       OBVIOUS
<1>3. c \div 64 \in 0..3 /\ c % 64 \in 0..63        OBVIOUS
<1> QED BY <1>1, <1>2, <1>3 DEF Sextet

(* The four sextets of three bytes give the bytes back: the first byte     *)
(* needs two of them, the second three.                                    *)
LEMMA FirstOctet ==
  ASSUME NEW a \in 0..255, NEW b \in 0..255, NEW c \in 0..255
  PROVE  Octet(0, Sextet(0, a, b, c), Sextet(1, a, b, c), 0, 0) = a
BY DEF Octet, Sextet

LEMMA SecondOctet ==
  ASSUME NEW a \in 0..255, NEW b \in 0..255, NEW c \in 0..255
  PROVE  Octet(1, Sextet(0, a, b, c), Sextet(1, a, b, c), Sextet(2, a, b, c), 0) = b
BY DEF Octet, Sextet

LEMMA ThirdOctet ==
  ASSUME NEW a \in 0..255, NEW b \in 0..255, NEW c \in 0..255
  PROVE  Octet(2, Sextet(0, a, b, c), Sextet(1, a, b, c), Sextet(2, a, b, c),
               Sextet(3, a, b, c)) = c
BY DEF Octet, Sextet

------------------------------------------------------------------------------
LEMMA Thirds ==
  ASSUME NEW i \in Nat
  PROVE  \E q \in Nat, t \in 0..2 : i = 3 * q + t /\ q = i \div 3 /\ t = i % 3
<1>1. i \div 3 \in Nat /\ i % 3 \in 0..2 /\ i = 3 * (i \div 3) + (i % 3)
  BY Z3
<1> QED BY <1>1

(* The numbers of characters and bytes.                                    *)
LEMMA Counts ==
  ASSUME NEW n \in Nat
  PROVE  /\ Characters(n) \in 0..4 * ((n + 2) \div 3)
         /\ Bytes(Characters(n)) = n
         /\ 4 * ((n + 2) \div 3) \in Nat
<1>1. PICK q \in Nat, t \in 0..2 : n = 3 * q + t /\ q = n \div 3 /\ t = n % 3
  BY Thirds
<1>2. CASE t = 0  BY <1>1, <1>2 DEF Characters, Bytes
<1>3. CASE t = 1  BY <1>1, <1>3 DEF Characters, Bytes
<1>4. CASE t = 2  BY <1>1, <1>4 DEF Characters, Bytes
<1> QED BY <1>1, <1>2, <1>3, <1>4

(* An input is a function, and has a byte (0 behind its end) everywhere.   *)
LEMMA InputType ==
  ASSUME NEW input \in Input
  PROVE  /\ Len(input) \in Nat
         /\ input = [k \in 1..Len(input) |-> input[k]]
         /\ \A i \in Nat : ByteOf(input, i + 1) \in 0..255
<1>1. Len(input) \in Nat /\ input \in [1..Len(input) -> 0..255]
  BY LenProperties DEF Input
<1>2. ASSUME NEW i \in Nat PROVE ByteOf(input, i + 1) \in 0..255
  <2>1. CASE i + 1 <= Len(input)
    <3>1. i + 1 \in 1..Len(input)  BY <1>1, <2>1
    <3>2. input[i + 1] \in 0..255  BY <1>1, <3>1
    <3> QED BY <2>1, <3>2 DEF ByteOf
  <2>2. CASE ~(i + 1 <= Len(input))
    BY <2>2 DEF ByteOf
  <2> QED BY <2>1, <2>2
<1> QED BY <1>1, <1>2

(* The characters of an encoding.                                          *)
LEMMA Encoded ==
  ASSUME NEW input \in Input
  PROVE  /\ Len(base64_encode(input)) = 4 * ((Len(input) + 2) \div 3)
         /\ \A k \in 1..Len(base64_encode(input)) :
              base64_encode(input)[k] = IF k <= Characters(Len(input))
                                        THEN base64_chars(SextetOf(input, k)) ELSE PAD
         /\ \A k \in 1..Len(base64_encode(input)) : SextetOf(input, k) \in 0..63
<1> DEFINE n == Len(input)
           m == 4 * ((n + 2) \div 3)
           e == base64_encode(input)
<1>1. n \in Nat /\ m \in Nat
  <2>1. n \in Nat  BY InputType
  <2> HIDE DEF n
  <2> QED BY <2>1, Counts
<1>2. e = [k \in 1..m |-> IF k <= Characters(n) THEN base64_chars(SextetOf(input, k)) ELSE PAD]
  BY DEF base64_encode, SextetOf, ByteOf, Group
<1>3. Len(e) = m
  <2> HIDE DEF n, m, e
  <2> QED BY <1>1, <1>2
<1>4. \A i \in Nat : ByteOf(input, i + 1) \in 0..255
  BY InputType
<1>5. ASSUME NEW k \in 1..m PROVE SextetOf(input, k) \in 0..63
  <2>1. (k - 1) % 4 \in 0..3 /\ (k - 1) \div 4 \in Nat  BY <1>1
  <2>2. Group(k) \in Nat /\ Group(k) + 1 \in Nat /\ Group(k) + 2 \in Nat
    BY <2>1 DEF Group
  <2>3. /\ ByteOf(input, Group(k) + 1) \in 0..255
        /\ ByteOf(input, Group(k) + 2) \in 0..255
        /\ ByteOf(input, Group(k) + 3) \in 0..255
    BY <1>4, <2>2, Group(k) + 2 = (Group(k) + 1) + 1, Group(k) + 3 = (Group(k) + 2) + 1
  <2> QED BY <2>1, <2>3, SextetType DEF SextetOf
<1> HIDE DEF e, m, n
<1>6. \A k \in 1..m : e[k] = IF k <= Characters(n) THEN base64_chars(SextetOf(input, k)) ELSE PAD
  BY <1>2
<1> QED BY <1>3, <1>5, <1>6 DEF e, m, n

(* Exactly the characters before the padding are read.                     *)
LEMMA AllRead ==
  ASSUME NEW input \in Input
  PROVE  Readable(base64_encode(input)) = Characters(Len(input))
<1> DEFINE n == Len(input)
           e == base64_encode(input)
           Good(k) == e[k] # PAD /\ is_base64(e[k])
           Stop(m) == /\ \A i \in 1..m : Good(i)
                      /\ m < Len(e) => ~Good(m + 1)
<1>1. n \in Nat  BY DEF Input
<1>2. Len(e) = 4 * ((n + 2) \div 3) /\ Len(e) \in Nat  BY <1>1, Encoded, Counts
<1>3. Characters(n) \in 0..Len(e)  BY <1>1, <1>2, Counts
<1>4. \A k \in 1..Len(e) : Good(k) <=> k <= Characters(n)
  BY <1>3, Encoded, Alphabet
<1> HIDE DEF n, e, Good
<1>5. Stop(Characters(n))
  BY <1>2, <1>3, <1>4
<1>6. ASSUME NEW m \in 0..Len(e), Stop(m) PROVE m = Characters(n)
  <2>1. ~(m < Characters(n))
    <3>1. SUFFICES ASSUME m < Characters(n) PROVE FALSE  OBVIOUS
    <3>2. m + 1 \in 1..Len(e) /\ m + 1 <= Characters(n) /\ m < Len(e)
      BY <1>2, <1>3, <3>1
    <3> QED BY <1>4, <1>6, <3>2
  <2>2. ~(m > Characters(n))
    <3>1. SUFFICES ASSUME m > Characters(n) PROVE FALSE  OBVIOUS
    <3>2. m \in 1..Len(e) /\ m \in 1..m  BY <1>2, <1>3, <3>1
    <3> QED BY <1>3, <1>4, <1>6, <3>1, <3>2
  <2> QED BY <1>2, <1>3, <2>1, <2>2
<1>7. Readable(e) = CHOOSE m \in 0..Len(e) : Stop(m)
  BY DEF Readable, Good
<1> HIDE DEF Stop
<1> QED BY <1>3, <1>5, <1>6, <1>7 DEF e, n

------------------------------------------------------------------------------
(* For every byte string, of every length: decoding gives it back.         *)
THEOREM EncodingInverse ==
  ASSUME NEW input \in Input
  PROVE  base64_decode(base64_encode(input)) = input
<1> DEFINE n == Len(input)
           e == base64_encode(input)
           c == Characters(n)
           value(i) == IF i <= c THEN find(e[i]) ELSE find(0)
           at(k) == 4 * ((k - 1) \div 3)
           octet(k) == Octet((k - 1) % 3, value(at(k) + 1), value(at(k) + 2),
                             value(at(k) + 3), value(at(k) + 4))
<1>1. n \in Nat /\ c \in 0..Len(e) /\ Len(e) \in Nat
  <2>1. n \in Nat  BY InputType
  <2>2. Len(e) = 4 * ((n + 2) \div 3)  BY Encoded
  <2> HIDE DEF n, e
  <2> QED BY <2>1, <2>2, Counts
<1>2. base64_decode(e) = [k \in 1..n |-> octet(k)]
  <2>1. Readable(e) = c  BY AllRead
  <2>2. Bytes(c) = n     BY <1>1, Counts
  <2> QED BY <2>1, <2>2 DEF base64_decode
<1>3. \A i \in 1..c : value(i) = SextetOf(input, i)
  <2> SUFFICES ASSUME NEW i \in 1..c PROVE value(i) = SextetOf(input, i)  OBVIOUS
  <2>1. i \in 1..Len(e) /\ i <= c
    <3> HIDE DEF e, c
    <3> QED BY <1>1
  <2>2. e[i] = base64_chars(SextetOf(input, i)) /\ SextetOf(input, i) \in 0..63
    BY <2>1, Encoded
  <2> HIDE DEF e, c
  <2> QED BY <2>1, <2>2, Alphabet
<1> HIDE DEF value, e, c
<1>4. ASSUME NEW k \in 1..n PROVE octet(k) = input[k]
  <2>1. PICK q \in Nat, t \in 0..2 : k = 3 * q + t + 1 /\ q = (k - 1) \div 3 /\ t = (k - 1) % 3
    <3>1. k - 1 \in Nat  BY <1>1
    <3>2. PICK q \in Nat, t \in 0..2 :
             k - 1 = 3 * q + t /\ q = (k - 1) \div 3 /\ t = (k - 1) % 3
      BY <3>1, Thirds
    <3>3. k = 3 * q + t + 1  BY <3>1, <3>2
    <3> QED BY <3>2, <3>3
  <2> DEFINE x == ByteOf(input, 3 * q + 1)
             y == ByteOf(input, 3 * q + 2)
             z == ByteOf(input, 3 * q + 3)
  <2>2. x \in 0..255 /\ y \in 0..255 /\ z \in 0..255
    <3>1. /\ 3 * q \in Nat /\ 3 * q + 1 \in Nat /\ 3 * q + 2 \in Nat
          /\ 3 * q + 2 = (3 * q + 1) + 1 /\ 3 * q + 3 = (3 * q + 2) + 1
      OBVIOUS
    <3> QED BY <3>1, InputType
  <2>3. ASSUME NEW j \in 0..3 PROVE SextetOf(input, 4 * q + j + 1) = Sextet(j, x, y, z)
    <3>1. ((4 * q + j + 1) - 1) % 4 = j /\ ((4 * q + j + 1) - 1) \div 4 = q
      BY <2>1, Z3
    <3> QED BY <3>1 DEF SextetOf, Group
  <2>4. c >= 4 * q + t + 2
    <3>1. PICK p \in Nat, d \in 0..2 : n = 3 * p + d /\ p = n \div 3 /\ d = n % 3
      BY <1>1, Thirds
    <3>2. p > q \/ (p = q /\ d > t)
      BY <1>1, <2>1, <3>1
    <3>3. c = 4 * p + IF d = 0 THEN 0 ELSE d + 1
      BY <3>1 DEF c, Characters
    <3> HIDE DEF n, c, octet, x, y, z
    <3>4. q \in Nat /\ t \in 0..2 /\ p \in Nat /\ d \in 0..2  BY <2>1, <3>1
    <3>5. CASE d = 0  BY <3>2, <3>3, <3>4, <3>5
    <3>6. CASE d # 0  BY <3>2, <3>3, <3>4, <3>6
    <3> QED BY <3>5, <3>6
  <2>5. octet(k) = Octet(t, value(4 * q + 1), value(4 * q + 2), value(4 * q + 3), value(4 * q + 4))
    BY <2>1
  <2>6. \A j \in 0..3 : j <= t + 1 => value(4 * q + j + 1) = Sextet(j, x, y, z)
    BY <1>1, <1>3, <2>1, <2>3, <2>4, SMTT(30)
  <2>7. input[k] = IF t = 0 THEN x ELSE IF t = 1 THEN y ELSE z
    BY <1>1, <2>1 DEF ByteOf
  <2> HIDE DEF x, y, z, octet
  <2>8. CASE t = 0
    <3>1. value(4 * q + 1) = Sextet(0, x, y, z) /\ value(4 * q + 2) = Sextet(1, x, y, z)
      BY <2>1, <2>6, <2>8, 4 * q + 0 + 1 = 4 * q + 1, 4 * q + 1 + 1 = 4 * q + 2
    <3>2. Octet(0, Sextet(0, x, y, z), Sextet(1, x, y, z),
                value(4 * q + 3), value(4 * q + 4))
            = Octet(0, Sextet(0, x, y, z), Sextet(1, x, y, z), 0, 0)
      BY DEF Octet
    <3>3. Octet(0, Sextet(0, x, y, z), Sextet(1, x, y, z), 0, 0) = x
      BY <2>2, FirstOctet
    <3> QED BY <2>5, <2>7, <2>8, <3>1, <3>2, <3>3
  <2>9. CASE t = 1
    <3>1. /\ value(4 * q + 1) = Sextet(0, x, y, z) /\ value(4 * q + 2) = Sextet(1, x, y, z)
          /\ value(4 * q + 3) = Sextet(2, x, y, z)
      BY <2>1, <2>6, <2>9, 4 * q + 0 + 1 = 4 * q + 1, 4 * q + 1 + 1 = 4 * q + 2,
         4 * q + 2 + 1 = 4 * q + 3
    <3>2. Octet(1, Sextet(0, x, y, z), Sextet(1, x, y, z), Sextet(2, x, y, z),
                value(4 * q + 4))
            = Octet(1, Sextet(0, x, y, z), Sextet(1, x, y, z), Sextet(2, x, y, z), 0)
      BY DEF Octet
    <3>3. Octet(1, Sextet(0, x, y, z), Sextet(1, x, y, z), Sextet(2, x, y, z), 0) = y
      BY <2>2, SecondOctet, ZenonT(40)
    <3> QED BY <2>5, <2>7, <2>9, <3>1, <3>2, <3>3
  <2>10. CASE t = 2
    <3>1. /\ value(4 * q + 1) = Sextet(0, x, y, z) /\ value(4 * q + 2) = Sextet(1, x, y, z)
          /\ value(4 * q + 3) = Sextet(2, x, y, z) /\ value(4 * q + 4) = Sextet(3, x, y, z)
      BY <2>1, <2>6, <2>10, 4 * q + 0 + 1 = 4 * q + 1, 4 * q + 1 + 1 = 4 * q + 2,
         4 * q + 2 + 1 = 4 * q + 3, 4 * q + 3 + 1 = 4 * q + 4
    <3>2. Octet(2, Sextet(0, x, y, z), Sextet(1, x, y, z), Sextet(2, x, y, z),
                Sextet(3, x, y, z)) = z
      BY <2>2, ThirdOctet
    <3> QED BY <2>5, <2>7, <2>10, <3>1, <3>2
  <2> QED BY <2>1, <2>8, <2>9, <2>10
<1> HIDE DEF octet
<1>5. input = [k \in 1..n |-> input[k]]  BY InputType
<1>6. [k \in 1..n |-> octet(k)] = [k \in 1..n |-> input[k]]  BY <1>4
<1> QED BY <1>2, <1>5, <1>6 DEF e

------------------------------------------------------------------------------
(* The padded message.                                                     *)

Text == Seq(1..255)

(* The walk over src: the hashed blocks are its whole blocks until calc    *)
(* has finished, which it does with less than a block left.                *)
Walked ==
  /\ hash = <<>> => currentBlock = 64 * Len(blocks)
  /\ hash # <<>> => Len(src) < currentBlock + 64

IInv == TypeOK /\ Walked /\ Padded

------------------------------------------------------------------------------
LEMMA Lengths ==
  ASSUME NEW n \in Nat, NEW m \in Nat, 64 * m <= n, n < 64 * m + 64
  PROVE  PaddedLength(n) = IF n - 64 * m < 56 THEN 64 * (m + 1) ELSE 64 * (m + 2)
<1>1. CASE n - 64 * m < 56
  <2>1. (n + 72) \div 64 = m + 1  BY <1>1
  <2> QED BY <1>1, <2>1 DEF PaddedLength
<1>2. CASE ~(n - 64 * m < 56)
  <2>1. (n + 72) \div 64 = m + 2  BY <1>2
  <2> QED BY <1>2, <2>1 DEF PaddedLength
<1> QED BY <1>1, <1>2

(* The bytes behind the whole blocks: what is left, 0x80 and zeros.        *)
RestByte(s, j) ==
  IF j <= Len(s) THEN Bits(s[j]) ELSE IF j = Len(s) + 1 THEN {7} ELSE {}

LEMMA LoadedByte ==
  ASSUME NEW s \in Text, NEW m \in Nat, 64 * m + 64 <= Len(s),
         NEW j \in (64 * m + 1)..(64 * m + 64)
  PROVE  PaddedByte(s, j) = Bits(s[j])
<1>1. Len(s) \in Nat  BY LenProperties DEF Text
<1>2. j <= Len(s)      BY <1>1
<1> QED BY <1>2 DEF PaddedByte

LEMMA OneBlockByte ==
  ASSUME NEW s \in Text, NEW m \in Nat, 64 * m <= Len(s), Len(s) < 64 * m + 56,
         NEW j \in (64 * m + 1)..(64 * m + 64)
  PROVE  PaddedByte(s, j) =
           IF j <= 64 * m + 60 THEN RestByte(s, j)
           ELSE Bits(LengthByte(Len(s), 64 * m + 64 - j) % 256)
<1>1. Len(s) \in Nat  BY LenProperties DEF Text
<1>2. PaddedLength(Len(s)) = 64 * m + 64
  BY <1>1, Lengths
<1>3. CASE j <= 64 * m + 60
  <2>1. j <= PaddedLength(Len(s)) - 4  BY <1>2, <1>3
  <2> QED BY <1>3, <2>1 DEF PaddedByte, RestByte
<1>4. CASE ~(j <= 64 * m + 60)
  <2>1. ~(j <= PaddedLength(Len(s)) - 4) /\ ~(j <= Len(s)) /\ j # Len(s) + 1
    BY <1>1, <1>2, <1>4
  <2> QED BY <1>2, <1>4, <2>1 DEF PaddedByte
<1> QED BY <1>3, <1>4

LEMMA TwoBlockByte ==
  ASSUME NEW s \in Text, NEW m \in Nat, 64 * m + 56 <= Len(s), Len(s) < 64 * m + 64,
         NEW j \in (64 * m + 1)..(64 * m + 128)
  PROVE  PaddedByte(s, j) =
           IF j <= 64 * m + 124 THEN RestByte(s, j)
           ELSE Bits(LengthByte(Len(s), 64 * m + 128 - j) % 256)
<1>1. Len(s) \in Nat  BY LenProperties DEF Text
<1>2. PaddedLength(Len(s)) = 64 * m + 128
  BY <1>1, Lengths
<1>3. CASE j <= 64 * m + 124
  <2>1. j <= PaddedLength(Len(s)) - 4  BY <1>2, <1>3
  <2> QED BY <1>3, <2>1 DEF PaddedByte, RestByte
<1>4. CASE ~(j <= 64 * m + 124)
  <2>1. ~(j <= PaddedLength(Len(s)) - 4) /\ ~(j <= Len(s)) /\ j # Len(s) + 1
    BY <1>1, <1>2, <1>4
  <2> QED BY <1>2, <1>4, <2>1 DEF PaddedByte
<1> QED BY <1>3, <1>4

------------------------------------------------------------------------------
LEMMA WordType ==
  ASSUME NEW a, NEW b, NEW c, NEW d
  PROVE  FromBytes(a, b, c, d) \in Word
BY DEF FromBytes, Word

LEMMA OrCleared ==
  ASSUME NEW x \in Word
  PROVE  Or({}, x) = x
BY DEF Or, Word

LEMMA ClearedWord == FromBytes({}, {}, {}, {}) = {}
<1>1. \A i \in 0..31 : (i \div 8) + 1 \in 1..4  BY Z3
<1>2. \A j \in 1..4 : <<{}, {}, {}, {}>>[j] = {}  OBVIOUS
<1> QED BY <1>1, <1>2 DEF FromBytes

(* The word of the four bytes that end at position j.                      *)
LoadedWord(s, j) ==
  FromBytes(Bits(s[j - 3]), Bits(s[j - 2]), Bits(s[j - 1]), Bits(s[j]))

RestWord(s, j) ==
  FromBytes(RestByte(s, j - 3), RestByte(s, j - 2), RestByte(s, j - 1), RestByte(s, j))

LengthWord(s) ==
  FromBytes(Bits(LengthByte(Len(s), 3) % 256), Bits(LengthByte(Len(s), 2) % 256),
            Bits(LengthByte(Len(s), 1) % 256), Bits(LengthByte(Len(s), 0) % 256))

LEMMA LoadedBlock ==
  ASSUME NEW s \in Text, NEW m \in Nat, 64 * m + 64 <= Len(s), NEW i \in 1..16
  PROVE  PaddedWord(s, 16 * m + i) = LoadedWord(s, 64 * m + 4 * i)
<1> DEFINE j == 4 * (16 * m + i)
<1>1. j = 64 * m + 4 * i  OBVIOUS
<1>2. j - 3 \in (64 * m + 1)..(64 * m + 64) /\ j - 2 \in (64 * m + 1)..(64 * m + 64)
      /\ j - 1 \in (64 * m + 1)..(64 * m + 64) /\ j \in (64 * m + 1)..(64 * m + 64)
  BY <1>1
<1>3. PaddedWord(s, 16 * m + i) = FromBytes(PaddedByte(s, j - 3), PaddedByte(s, j - 2),
                                            PaddedByte(s, j - 1), PaddedByte(s, j))
  BY DEF PaddedWord
<1> HIDE DEF j
<1> QED BY <1>1, <1>2, <1>3, LoadedByte DEF LoadedWord

LEMMA OneBlock ==
  ASSUME NEW s \in Text, NEW m \in Nat, 64 * m <= Len(s), Len(s) < 64 * m + 56,
         NEW i \in 1..16
  PROVE  PaddedWord(s, 16 * m + i) =
           IF i = 16 THEN LengthWord(s) ELSE RestWord(s, 64 * m + 4 * i)
<1> DEFINE j == 4 * (16 * m + i)
<1>1. j = 64 * m + 4 * i  OBVIOUS
<1>2. j - 3 \in (64 * m + 1)..(64 * m + 64) /\ j - 2 \in (64 * m + 1)..(64 * m + 64)
      /\ j - 1 \in (64 * m + 1)..(64 * m + 64) /\ j \in (64 * m + 1)..(64 * m + 64)
  BY <1>1
<1>3. PaddedWord(s, 16 * m + i) = FromBytes(PaddedByte(s, j - 3), PaddedByte(s, j - 2),
                                            PaddedByte(s, j - 1), PaddedByte(s, j))
  BY DEF PaddedWord
<1>4. CASE i = 16
  <2>1. /\ 64 * m + 64 - (j - 3) = 3 /\ 64 * m + 64 - (j - 2) = 2
        /\ 64 * m + 64 - (j - 1) = 1 /\ 64 * m + 64 - j = 0
        /\ ~(j - 3 <= 64 * m + 60) /\ ~(j - 2 <= 64 * m + 60)
        /\ ~(j - 1 <= 64 * m + 60) /\ ~(j <= 64 * m + 60)
    BY <1>1, <1>4
  <2> HIDE DEF j
  <2>2. /\ PaddedByte(s, j - 3) = Bits(LengthByte(Len(s), 3) % 256)
        /\ PaddedByte(s, j - 2) = Bits(LengthByte(Len(s), 2) % 256)
        /\ PaddedByte(s, j - 1) = Bits(LengthByte(Len(s), 1) % 256)
        /\ PaddedByte(s, j) = Bits(LengthByte(Len(s), 0) % 256)
    BY <1>2, <2>1, OneBlockByte
  <2> QED BY <1>3, <1>4, <2>2 DEF LengthWord
<1>5. CASE i # 16
  <2>1. j - 3 <= 64 * m + 60 /\ j - 2 <= 64 * m + 60 /\ j - 1 <= 64 * m + 60 /\ j <= 64 * m + 60
    BY <1>1, <1>5
  <2> HIDE DEF j
  <2> QED BY <1>1, <1>2, <1>3, <1>5, <2>1, OneBlockByte DEF RestWord
<1> QED BY <1>4, <1>5

LEMMA TwoBlocks ==
  ASSUME NEW s \in Text, NEW m \in Nat, 64 * m + 56 <= Len(s), Len(s) < 64 * m + 64,
         NEW i \in 1..16
  PROVE  /\ PaddedWord(s, 16 * m + i) = RestWord(s, 64 * m + 4 * i)
         /\ PaddedWord(s, 16 * (m + 1) + i) = IF i = 16 THEN LengthWord(s) ELSE {}
<1>1. PaddedWord(s, 16 * m + i) = RestWord(s, 64 * m + 4 * i)
  <2> DEFINE j == 4 * (16 * m + i)
  <2>1. j = 64 * m + 4 * i  OBVIOUS
  <2>2. /\ j - 3 \in (64 * m + 1)..(64 * m + 128) /\ j - 3 <= 64 * m + 124
        /\ j - 2 \in (64 * m + 1)..(64 * m + 128) /\ j - 2 <= 64 * m + 124
        /\ j - 1 \in (64 * m + 1)..(64 * m + 128) /\ j - 1 <= 64 * m + 124
        /\ j \in (64 * m + 1)..(64 * m + 128) /\ j <= 64 * m + 124
    BY <2>1
  <2>3. PaddedWord(s, 16 * m + i) = FromBytes(PaddedByte(s, j - 3), PaddedByte(s, j - 2),
                                              PaddedByte(s, j - 1), PaddedByte(s, j))
    BY DEF PaddedWord
  <2> HIDE DEF j
  <2> QED BY <2>1, <2>2, <2>3, TwoBlockByte DEF RestWord
<1>2. PaddedWord(s, 16 * (m + 1) + i) = IF i = 16 THEN LengthWord(s) ELSE {}
  <2> DEFINE j == 4 * (16 * (m + 1) + i)
  <2>1. j = 64 * m + 64 + 4 * i  OBVIOUS
  <2>2. /\ j - 3 \in (64 * m + 1)..(64 * m + 128) /\ j - 2 \in (64 * m + 1)..(64 * m + 128)
        /\ j - 1 \in (64 * m + 1)..(64 * m + 128) /\ j \in (64 * m + 1)..(64 * m + 128)
    BY <2>1
  <2>3. PaddedWord(s, 16 * (m + 1) + i) = FromBytes(PaddedByte(s, j - 3), PaddedByte(s, j - 2),
                                                    PaddedByte(s, j - 1), PaddedByte(s, j))
    BY DEF PaddedWord
  <2>4. CASE i = 16
    <3>1. /\ 64 * m + 128 - (j - 3) = 3 /\ 64 * m + 128 - (j - 2) = 2
          /\ 64 * m + 128 - (j - 1) = 1 /\ 64 * m + 128 - j = 0
          /\ ~(j - 3 <= 64 * m + 124) /\ ~(j - 2 <= 64 * m + 124)
          /\ ~(j - 1 <= 64 * m + 124) /\ ~(j <= 64 * m + 124)
      BY <2>1, <2>4
    <3> HIDE DEF j
    <3>2. /\ PaddedByte(s, j - 3) = Bits(LengthByte(Len(s), 3) % 256)
          /\ PaddedByte(s, j - 2) = Bits(LengthByte(Len(s), 2) % 256)
          /\ PaddedByte(s, j - 1) = Bits(LengthByte(Len(s), 1) % 256)
          /\ PaddedByte(s, j) = Bits(LengthByte(Len(s), 0) % 256)
      BY <2>2, <3>1, TwoBlockByte
    <3> QED BY <2>3, <2>4, <3>2 DEF LengthWord
  <2>5. CASE i # 16
    <3>1. /\ j - 3 <= 64 * m + 124 /\ j - 2 <= 64 * m + 124
          /\ j - 1 <= 64 * m + 124 /\ j <= 64 * m + 124
      BY <2>1, <2>5
    <3>2. Len(s) \in Nat  BY LenProperties DEF Text
    <3>3. j - 3 > Len(s) + 1 /\ j - 2 > Len(s) + 1 /\ j - 1 > Len(s) + 1 /\ j > Len(s) + 1
      BY <2>1, <3>2
    <3> HIDE DEF j
    <3>4. /\ PaddedByte(s, j - 3) = RestByte(s, j - 3) /\ PaddedByte(s, j - 2) = RestByte(s, j - 2)
          /\ PaddedByte(s, j - 1) = RestByte(s, j - 1) /\ PaddedByte(s, j) = RestByte(s, j)
      BY <2>2, <3>1, TwoBlockByte
    <3>5. \A l \in Nat : l > Len(s) + 1 => RestByte(s, l) = {}
      BY <3>2 DEF RestByte
    <3>6. j - 3 \in Nat /\ j - 2 \in Nat /\ j - 1 \in Nat /\ j \in Nat
      BY <2>2
    <3> QED BY <2>3, <2>5, <3>3, <3>4, <3>5, <3>6, ClearedWord
  <2> QED BY <2>4, <2>5
<1> QED BY <1>1, <1>2

------------------------------------------------------------------------------
(* Types of what the steps compute.                                        *)
LEMMA TuplesAreSequences ==
  ASSUME NEW S, NEW n \in Nat, NEW s \in [1..n -> S]
  PROVE  s \in Seq(S) /\ Len(s) = n
OBVIOUS

LEMMA EncodedType ==
  ASSUME NEW input \in Input
  PROVE  base64_encode(input) \in Text
<1> DEFINE e == base64_encode(input)
<1>1. \A v \in 0..63 : base64_chars(v) \in 1..255
  BY DEF base64_chars
<1>2. \A k \in 1..Len(e) : e[k] \in 1..255
  <2>1. ASSUME NEW k \in 1..Len(e)
        PROVE  /\ SextetOf(input, k) \in 0..63
               /\ e[k] = base64_chars(SextetOf(input, k)) \/ e[k] = 61
    BY <2>1, Encoded DEF PAD
  <2>2. 61 \in 1..255  OBVIOUS
  <2>3. ASSUME NEW k \in 1..Len(e) PROVE base64_chars(SextetOf(input, k)) \in 1..255
    BY <1>1, <2>1
  <2> HIDE DEF e
  <2>4. ASSUME NEW k \in 1..Len(e) PROVE e[k] \in 1..255
    <3>1. CASE e[k] = 61  BY <2>2, <3>1
    <3>2. CASE e[k] = base64_chars(SextetOf(input, k))  BY <2>3, <3>2
    <3> QED BY <2>1, <3>1, <3>2
  <2> QED BY <2>4
<1>3. Len(e) \in Nat /\ e = [k \in 1..Len(e) |-> e[k]]
  <2>1. Len(input) \in Nat  BY InputType
  <2>2. Len(e) = 4 * ((Len(input) + 2) \div 3) /\ Len(e) \in Nat
    BY <2>1, Encoded, Counts
  <2> QED BY <2>2 DEF base64_encode
<1> HIDE DEF e
<1>4. e \in [1..Len(e) -> 1..255]
  BY <1>2, <1>3
<1>5. e \in Text
  <2> DEFINE n == Len(e)
  <2>0. n \in Nat /\ e \in [1..n -> 1..255]
    BY <1>3, <1>4
  <2> HIDE DEF n
  <2>1. e \in Seq(1..255)
    BY <2>0, TuplesAreSequences
  <2> QED BY <2>1 DEF Text
<1> QED BY <1>5 DEF e

LEMMA GuidType == handshakeGuid \in Text
BY DEF handshakeGuid, Text

LEMMA DigestType ==
  ASSUME NEW digest, NEW words
  PROVE  innerHash(digest, words) \in [1..5 -> Word]
<1>1. \A x, y : Plus(x, y) \in Word
  BY DEF Plus, Xor, Word
<1> QED BY <1>1 DEF innerHash

LEMMA HashType ==
  ASSUME NEW digest
  PROVE  HashBytes(digest) \in [1..20 -> 0..255]
<1>1. ASSUME NEW bits PROVE ByteValue(bits) \in 0..255
  BY DEF ByteValue
<1> QED BY <1>1 DEF HashBytes

------------------------------------------------------------------------------
LEMMA InitIInv == Init => IInv
<1> SUFFICES ASSUME Init PROVE IInv  OBVIOUS
<1> USE DEF Init, CalcInit
<1>1. key \in Text
  <2>1. ASSUME NEW raw \in RandomBytes PROVE getSecWebsocketKey(raw) \in Text
    <3>1. raw \in [1..16 -> 0..255]  BY RandomBytesAreBytes
    <3>2. raw \in Input  BY <3>1, TuplesAreSequences DEF Input
    <3> QED BY <3>2, EncodedType DEF getSecWebsocketKey
  <2> QED BY <2>1, ForeignKeysAreHeaders DEF Text
<1>2. src \in Text /\ Len(src) \in Nat
  BY <1>1, GuidType, ConcatProperties, LenProperties DEF Text
<1>3. InitialResult \in [1..5 -> Word]
  <2>1. \A a, b, c, d : Hex(a, b, c, d) \in Word
    BY WordType DEF Hex
  <2> QED BY <2>1, SMTT(30) DEF InitialResult
<1>4. [i \in 1..16 |-> 0..31] \in [1..16 -> Word]
  BY DEF Word
<1>5. blocks \in Seq([1..16 -> Word]) /\ Len(blocks) = 0 /\ accept \in Seq(0..255)
  BY EmptySeq
<1>6. TypeOK
  BY <1>1, <1>2, <1>3, <1>4, <1>5 DEF TypeOK, Text
<1>7. Walked
  BY <1>5 DEF Walked
<1>8. Padded
  BY <1>5 DEF Padded
<1> QED BY <1>6, <1>7, <1>8 DEF IInv

(* A block of src appended to the history is the next one of the message.  *)
LEMMA FullBlockKeeps ==
  ASSUME IInv, FullBlock, UNCHANGED <<key, accept>>
  PROVE  IInv'
<1> DEFINE m == Len(blocks)
<1>1. src \in Text /\ Len(src) \in Nat /\ blocks \in Seq([1..16 -> Word]) /\ m \in Nat
  BY LenProperties DEF IInv, TypeOK, Text
<1>2. hash = <<>>
  BY <1>1 DEF IInv, TypeOK, Walked, FullBlock
<1>3. currentBlock = 64 * m
  BY <1>2 DEF IInv, Walked
<1>4. w' = [i \in 1..16 |-> LoadedWord(src, 64 * m + 4 * i)]
  <2>1. \A i \in 1..16 :
          FromBytes(Bits(src[currentBlock + (4*i - 3)]), Bits(src[currentBlock + (4*i - 2)]),
                    Bits(src[currentBlock + (4*i - 1)]), Bits(src[currentBlock + 4*i]))
            = LoadedWord(src, 64 * m + 4 * i)
    <3> TAKE i \in 1..16
    <3>1. /\ currentBlock + (4*i - 3) = 64 * m + 4 * i - 3
          /\ currentBlock + (4*i - 2) = 64 * m + 4 * i - 2
          /\ currentBlock + (4*i - 1) = 64 * m + 4 * i - 1
          /\ currentBlock + 4*i = 64 * m + 4 * i
      BY <1>1, <1>3
    <3> QED BY <3>1 DEF LoadedWord
  <2> QED BY <2>1 DEF FullBlock
<1>5. w' \in [1..16 -> Word]
  BY <1>4, WordType DEF LoadedWord
<1>6. blocks' = Append(blocks, w')
  BY DEF FullBlock
<1>7. /\ blocks' \in Seq([1..16 -> Word])
      /\ Len(blocks') = m + 1
      /\ \A b \in 1..m : blocks'[b] = blocks[b]
      /\ blocks'[m + 1] = w'
  BY <1>1, <1>5, <1>6, AppendProperties
<1>8. currentBlock' = currentBlock + 64 /\ 64 * m + 64 <= Len(src)
  BY <1>3 DEF FullBlock
<1>9. UNCHANGED <<src, hash, key, accept>>
  BY DEF FullBlock
<1>10. TypeOK'
  <2>1. result' \in [1..5 -> Word]
    BY DigestType DEF FullBlock
  <2>2. currentBlock' \in 0..Len(src)
    BY <1>1, <1>3, <1>8
  <2> QED BY <1>5, <1>7, <1>9, <2>1, <2>2 DEF IInv, TypeOK
<1>11. Walked'
  BY <1>1, <1>2, <1>3, <1>7, <1>8, <1>9 DEF Walked
<1>12. Padded'
  <2>1. ASSUME NEW b \in 1..(m + 1)
        PROVE  blocks'[b] = [i \in 1..16 |-> PaddedWord(src, 16 * (b - 1) + i)]
    <3> HIDE DEF m
    <3>3. b \in 1..m \/ b = m + 1  BY <1>1
    <3>1. CASE b \in 1..m
      BY <1>7, <3>1 DEF IInv, Padded, m
    <3>2. CASE b = m + 1
      <4>1. \A i \in 1..16 : PaddedWord(src, 16 * m + i) = LoadedWord(src, 64 * m + 4 * i)
        BY <1>1, <1>8, LoadedBlock
      <4>2. b - 1 = m  BY <1>1, <3>2
      <4>3. [i \in 1..16 |-> PaddedWord(src, 16 * m + i)] = w'
        BY <1>4, <4>1
      <4> QED BY <1>7, <3>2, <4>2, <4>3
    <3> QED BY <3>1, <3>2, <3>3
  <2> QED BY <1>1, <1>2, <1>3, <1>7, <1>8, <1>9, <2>1 DEF Padded
<1> QED BY <1>10, <1>11, <1>12 DEF IInv

(* What is left of src, loaded into a cleared buffer, and the length.      *)
LEMMA RestLoaded ==
  ASSUME src \in Text, NEW m \in Nat, currentBlock = 64 * m, currentBlock <= Len(src)
  PROVE  OrRest(Cleared) = [i \in 1..16 |-> RestWord(src, 64 * m + 4 * i)]
<1>1. Len(src) \in Nat  BY LenProperties DEF Text
<1>2. ASSUME NEW k \in 1..64
      PROVE  LeftByte(k) = RestByte(src, 64 * m + k)
  <2>1. /\ (k <= Left) <=> (64 * m + k <= Len(src))
        /\ (k = Left + 1) <=> (64 * m + k = Len(src) + 1)
        /\ currentBlock + k = 64 * m + k
    BY <1>1 DEF Left
  <2> QED BY <2>1 DEF LeftByte, RestByte
<1>3. ASSUME NEW i \in 1..16
      PROVE  Or(Cleared[i], FromBytes(LeftByte(4*i - 3), LeftByte(4*i - 2),
                                      LeftByte(4*i - 1), LeftByte(4*i)))
               = RestWord(src, 64 * m + 4 * i)
  <2>1. /\ 4*i - 3 \in 1..64 /\ 64 * m + (4*i - 3) = 64 * m + 4 * i - 3
        /\ 4*i - 2 \in 1..64 /\ 64 * m + (4*i - 2) = 64 * m + 4 * i - 2
        /\ 4*i - 1 \in 1..64 /\ 64 * m + (4*i - 1) = 64 * m + 4 * i - 1
        /\ 4*i \in 1..64
    OBVIOUS
  <2>2. /\ LeftByte(4*i - 3) = RestByte(src, 64 * m + 4 * i - 3)
        /\ LeftByte(4*i - 2) = RestByte(src, 64 * m + 4 * i - 2)
        /\ LeftByte(4*i - 1) = RestByte(src, 64 * m + 4 * i - 1)
        /\ LeftByte(4*i) = RestByte(src, 64 * m + 4 * i)
    <3>1. LeftByte(4*i - 3) = RestByte(src, 64 * m + (4 * i - 3))  BY <1>2, <2>1, Zenon
    <3>2. LeftByte(4*i - 2) = RestByte(src, 64 * m + (4 * i - 2))  BY <1>2, <2>1, Zenon
    <3>3. LeftByte(4*i - 1) = RestByte(src, 64 * m + (4 * i - 1))  BY <1>2, <2>1, Zenon
    <3>4. LeftByte(4*i) = RestByte(src, 64 * m + 4 * i)  BY <1>2, <2>1, Zenon
    <3> QED BY <2>1, <3>1, <3>2, <3>3, <3>4
  <2>3. Cleared[i] = {}  BY DEF Cleared
  <2>4. RestWord(src, 64 * m + 4 * i) \in Word  BY WordType DEF RestWord
  <2>5. Or({}, RestWord(src, 64 * m + 4 * i)) = RestWord(src, 64 * m + 4 * i)
    BY <2>4, OrCleared, Zenon
  <2> QED BY <2>2, <2>3, <2>5 DEF RestWord
<1> QED BY <1>3 DEF OrRest

LEMMA LengthLoaded ==
  ASSUME src \in Text
  PROVE  BitLength = LengthWord(src)
<1>1. Len(src) \in Nat  BY LenProperties DEF Text
<1>2. \A n \in Nat : n \div 1 = n  BY Z3
<1>3. /\ LengthByte(Len(src), 3) = (8 * Len(src)) \div 16777216
      /\ LengthByte(Len(src), 2) = (8 * Len(src)) \div 65536
      /\ LengthByte(Len(src), 1) = (8 * Len(src)) \div 256
      /\ LengthByte(Len(src), 0) = 8 * Len(src)
  BY <1>1, <1>2 DEF LengthByte
<1> QED BY <1>3 DEF BitLength, Hex, LengthWord

LEMMA OneMore ==
  ASSUME NEW S, NEW s \in Seq(S), NEW x \in S
  PROVE  /\ s \o <<x>> \in Seq(S)
         /\ Len(s \o <<x>>) = Len(s) + 1
         /\ \A b \in 1..Len(s) : (s \o <<x>>)[b] = s[b]
         /\ (s \o <<x>>)[Len(s) + 1] = x
<1>1. <<x>> \in Seq(S) /\ Len(<<x>>) = 1 /\ <<x>>[1] = x  OBVIOUS
<1>2. Len(s) \in Nat  BY LenProperties
<1> QED BY <1>1, <1>2, ConcatProperties

LEMMA TwoMore ==
  ASSUME NEW S, NEW s \in Seq(S), NEW x \in S, NEW y \in S
  PROVE  /\ s \o <<x, y>> \in Seq(S)
         /\ Len(s \o <<x, y>>) = Len(s) + 2
         /\ \A b \in 1..Len(s) : (s \o <<x, y>>)[b] = s[b]
         /\ (s \o <<x, y>>)[Len(s) + 1] = x
         /\ (s \o <<x, y>>)[Len(s) + 2] = y
<1>1. <<x, y>> \in Seq(S) /\ Len(<<x, y>>) = 2 /\ <<x, y>>[1] = x /\ <<x, y>>[2] = y  OBVIOUS
<1>2. Len(s) \in Nat  BY LenProperties
<1> QED BY <1>1, <1>2, ConcatProperties

LEMMA StoredHash ==
  ASSUME NEW digest
  PROVE  HashBytes(digest) \in Input /\ Len(HashBytes(digest)) = 20
<1>1. ASSUME NEW n \in Nat, n = 20
      PROVE  HashBytes(digest) \in Seq(0..255) /\ Len(HashBytes(digest)) = n
  <2>1. HashBytes(digest) \in [1..n -> 0..255]  BY <1>1, HashType
  <2> QED BY <2>1, TuplesAreSequences
<1> QED BY <1>1 DEF Input

(* The words of the rest, with the length for the last of them, and those  *)
(* of the length alone.                                                    *)
LEMMA RestWords ==
  ASSUME src \in Text, NEW m \in Nat, currentBlock = 64 * m, currentBlock <= Len(src)
  PROVE  /\ OrRest(Cleared) \in [1..16 -> Word]
         /\ WithLength(OrRest(Cleared)) \in [1..16 -> Word]
         /\ WithLength(Cleared) \in [1..16 -> Word]
         /\ WithLength(OrRest(Cleared)) =
              [i \in 1..16 |-> IF i = 16 THEN LengthWord(src) ELSE RestWord(src, 64 * m + 4 * i)]
         /\ WithLength(Cleared) = [i \in 1..16 |-> IF i = 16 THEN LengthWord(src) ELSE {}]
<1>1. BitLength = LengthWord(src) /\ BitLength \in Word
  BY LengthLoaded, WordType DEF BitLength, Hex
<1>2. OrRest(Cleared) = [i \in 1..16 |-> RestWord(src, 64 * m + 4 * i)]
  BY RestLoaded
<1>3. \A j : RestWord(src, j) \in Word  BY WordType DEF RestWord
<1>4. OrRest(Cleared) \in [1..16 -> Word]  BY <1>2, <1>3
<1>5. Cleared = [i \in 1..16 |-> {}] /\ {} \in Word  BY DEF Cleared, Word
<1>6. Cleared \in [1..16 -> Word]  BY <1>5
<1>7. ASSUME NEW words \in [1..16 -> Word]
      PROVE  /\ WithLength(words) \in [1..16 -> Word]
             /\ WithLength(words) = [i \in 1..16 |-> IF i = 16 THEN LengthWord(src) ELSE words[i]]
  BY <1>1 DEF WithLength
<1>8. \A i \in 1..16 : OrRest(Cleared)[i] = RestWord(src, 64 * m + 4 * i)  BY <1>2
<1>9. \A i \in 1..16 : Cleared[i] = {}  BY <1>5
<1>10. WithLength(OrRest(Cleared)) =
         [i \in 1..16 |-> IF i = 16 THEN LengthWord(src) ELSE RestWord(src, 64 * m + 4 * i)]
  <2>1. WithLength(OrRest(Cleared)) =
          [i \in 1..16 |-> IF i = 16 THEN LengthWord(src) ELSE OrRest(Cleared)[i]]
    BY <1>4, <1>7
  <2> QED BY <1>8, <2>1
<1>11. WithLength(Cleared) = [i \in 1..16 |-> IF i = 16 THEN LengthWord(src) ELSE {}]
  <2>1. WithLength(Cleared) = [i \in 1..16 |-> IF i = 16 THEN LengthWord(src) ELSE Cleared[i]]
    BY <1>6, <1>7
  <2> QED BY <1>9, <2>1
<1> QED BY <1>4, <1>6, <1>7, <1>10, <1>11

(* The last one or two blocks are the end of the padded message.           *)
LEMMA LastBlockKeeps ==
  ASSUME IInv, LastBlock, UNCHANGED <<key, accept>>
  PROVE  IInv'
<1> DEFINE m == Len(blocks)
           loaded == OrRest(Cleared)
           last == LastBlocks(loaded)
<1>1. src \in Text /\ Len(src) \in Nat /\ blocks \in Seq([1..16 -> Word]) /\ m \in Nat
  BY LenProperties DEF IInv, TypeOK, Text
<1>2. hash = <<>> /\ currentBlock = 64 * m /\ 64 * m <= Len(src) /\ Len(src) < 64 * m + 64
  BY <1>1 DEF IInv, TypeOK, Walked, LastBlock, Left
<1>3. /\ loaded \in [1..16 -> Word]
      /\ WithLength(loaded) \in [1..16 -> Word]
      /\ WithLength(Cleared) \in [1..16 -> Word]
      /\ loaded = [i \in 1..16 |-> RestWord(src, 64 * m + 4 * i)]
      /\ WithLength(loaded) =
           [i \in 1..16 |-> IF i = 16 THEN LengthWord(src) ELSE RestWord(src, 64 * m + 4 * i)]
      /\ WithLength(Cleared) = [i \in 1..16 |-> IF i = 16 THEN LengthWord(src) ELSE {}]
  BY <1>1, <1>2, RestWords, RestLoaded
<1>4. hash' \in [1..20 -> 0..255] /\ hash' # <<>>
  <2>1. hash' = HashBytes(result')  BY DEF LastBlock
  <2> HIDE DEF m, loaded, last
  <2>2. hash' \in [1..20 -> 0..255] /\ Len(hash') = 20  BY <2>1, HashType, StoredHash
  <2>3. Len(<<>>) = 0 /\ 20 # 0  BY EmptySeq
  <2> QED BY <2>2, <2>3, Zenon
<1>5. result' \in [1..5 -> Word]
  BY DigestType DEF LastBlock
<1>6. UNCHANGED <<src, currentBlock, key, accept>> /\ w' = last[Len(last)]
      /\ blocks' = blocks \o last
  BY DEF LastBlock
<1>7. CASE Len(src) < 64 * m + 56
  <2>1. last = <<WithLength(loaded)>> /\ w' = WithLength(loaded)
    BY <1>1, <1>2, <1>6, <1>7 DEF LastBlocks, Left
  <2> HIDE DEF last, m, loaded
  <2>2. /\ blocks' \in Seq([1..16 -> Word])
        /\ Len(blocks') = m + 1
        /\ \A b \in 1..m : blocks'[b] = blocks[b]
        /\ blocks'[m + 1] = WithLength(loaded)
    BY <1>1, <1>3, <1>6, <2>1, OneMore DEF m
  <2>3. PaddedLength(Len(src)) = 64 * (m + 1)
    BY <1>1, <1>2, <1>7, Lengths
  <2>4. ASSUME NEW b \in 1..(m + 1)
        PROVE  blocks'[b] = [i \in 1..16 |-> PaddedWord(src, 16 * (b - 1) + i)]
    <3>1. b \in 1..m \/ b = m + 1  BY <1>1
    <3>2. CASE b \in 1..m
      BY <2>2, <3>2 DEF IInv, Padded, m
    <3>3. CASE b = m + 1
      <4>1. \A i \in 1..16 : PaddedWord(src, 16 * m + i) =
                               IF i = 16 THEN LengthWord(src) ELSE RestWord(src, 64 * m + 4 * i)
        BY <1>1, <1>2, <1>7, OneBlock
      <4>2. b - 1 = m  BY <1>1, <3>3
      <4>3. [i \in 1..16 |-> PaddedWord(src, 16 * m + i)] = WithLength(loaded)
        BY <1>3, <4>1
      <4> QED BY <2>2, <3>3, <4>2, <4>3
    <3> QED BY <3>1, <3>2, <3>3
  <2>5. Padded'
    BY <1>4, <1>6, <2>2, <2>3, <2>4, ZenonT(40) DEF Padded
  <2>6. Walked'
    BY <1>1, <1>2, <1>4, <1>6, SMTT(30) DEF Walked
  <2>7. TypeOK'
    BY <1>3, <1>4, <1>5, <1>6, <2>1, <2>2, ZenonT(40) DEF IInv, TypeOK
  <2> QED BY <2>5, <2>6, <2>7 DEF IInv
<1>8. CASE ~(Len(src) < 64 * m + 56)
  <2>1. last = <<loaded, WithLength(Cleared)>> /\ w' = WithLength(Cleared)
    BY <1>1, <1>2, <1>6, <1>8 DEF LastBlocks, Left
  <2> HIDE DEF last, m, loaded
  <2>2. /\ blocks' \in Seq([1..16 -> Word])
        /\ Len(blocks') = m + 2
        /\ \A b \in 1..m : blocks'[b] = blocks[b]
        /\ blocks'[m + 1] = loaded
        /\ blocks'[m + 2] = WithLength(Cleared)
    <3>1. blocks' = blocks \o <<loaded, WithLength(Cleared)>>  BY <1>6, <2>1
    <3>2. /\ blocks \in Seq([1..16 -> Word])
          /\ loaded \in [1..16 -> Word]
          /\ WithLength(Cleared) \in [1..16 -> Word]
      BY <1>1, <1>3
    <3> QED BY <3>1, <3>2, TwoMore DEF m
  <2>3. PaddedLength(Len(src)) = 64 * (m + 2)
    BY <1>1, <1>2, <1>8, Lengths
  <2>4. ASSUME NEW b \in 1..(m + 2)
        PROVE  blocks'[b] = [i \in 1..16 |-> PaddedWord(src, 16 * (b - 1) + i)]
    <3>1. b \in 1..m \/ b = m + 1 \/ b = m + 2  BY <1>1
    <3>2. CASE b \in 1..m
      BY <2>2, <3>2 DEF IInv, Padded, m
    <3>5. \A i \in 1..16 :
            /\ PaddedWord(src, 16 * m + i) = RestWord(src, 64 * m + 4 * i)
            /\ PaddedWord(src, 16 * (m + 1) + i) = IF i = 16 THEN LengthWord(src) ELSE {}
      <4>1. 64 * m + 56 <= Len(src) /\ Len(src) < 64 * m + 64  BY <1>1, <1>2, <1>8
      <4> QED BY <1>1, <4>1, TwoBlocks
    <3>3. CASE b = m + 1
      <4>1. b - 1 = m  BY <1>1, <3>3
      <4>2. [i \in 1..16 |-> PaddedWord(src, 16 * m + i)] = loaded
        <5>1. \A i \in 1..16 : PaddedWord(src, 16 * m + i) = RestWord(src, 64 * m + 4 * i)
          BY <3>5
        <5> QED BY <1>3, <5>1
      <4> QED BY <2>2, <3>3, <4>1, <4>2
    <3>4. CASE b = m + 2
      <4>1. b - 1 = m + 1  BY <1>1, <3>4
      <4>2. [i \in 1..16 |-> PaddedWord(src, 16 * (m + 1) + i)] = WithLength(Cleared)
        <5>1. \A i \in 1..16 : PaddedWord(src, 16 * (m + 1) + i) = IF i = 16 THEN LengthWord(src) ELSE {}
          BY <3>5, SMTT(30)
        <5> QED BY <1>3, <5>1
      <4> QED BY <2>2, <3>4, <4>1, <4>2
    <3> QED BY <3>1, <3>2, <3>3, <3>4
  <2>5. Padded'
    BY <1>4, <1>6, <2>2, <2>3, <2>4, ZenonT(40) DEF Padded
  <2>6. Walked'
    BY <1>1, <1>2, <1>4, <1>6 DEF Walked
  <2>7. TypeOK'
    BY <1>3, <1>4, <1>5, <1>6, <2>1, <2>2, ZenonT(40) DEF IInv, TypeOK
  <2> QED BY <2>5, <2>6, <2>7 DEF IInv
<1> QED BY <1>7, <1>8

LEMMA EncodeHashKeeps ==
  ASSUME IInv, EncodeHash
  PROVE  IInv'
<1>1. hash \in [1..20 -> 0..255]
  BY DEF IInv, TypeOK, EncodeHash
<1>2. hash \in Input
  BY <1>1, TuplesAreSequences, ZenonT(40) DEF Input
<1>3. accept' \in Seq(0..255)
  <2>1. accept' \in Seq(1..255)  BY <1>2, EncodedType DEF EncodeHash, Text
  <2> QED BY <2>1, SeqMonotonic
<1>4. UNCHANGED <<sha1Vars, key>>  BY DEF EncodeHash
<1> USE <1>4 DEF sha1Vars
<1>5. TypeOK'  BY <1>3 DEF IInv, TypeOK
<1>6. Walked'  BY DEF IInv, Walked
<1>7. Padded'
  BY DEF IInv, Padded
<1> QED BY <1>5, <1>6, <1>7 DEF IInv

LEMMA StepIInv == IInv /\ [Next]_vars => IInv'
<1> SUFFICES ASSUME IInv, [Next]_vars PROVE IInv'  OBVIOUS
<1>1. CASE FullBlock /\ UNCHANGED <<key, accept>>  BY <1>1, FullBlockKeeps
<1>2. CASE LastBlock /\ UNCHANGED <<key, accept>>  BY <1>2, LastBlockKeeps
<1>3. CASE EncodeHash  BY <1>3, EncodeHashKeeps
<1>4. CASE UNCHANGED vars
  <2>1. UNCHANGED <<src, currentBlock, w, result, hash, blocks, key, accept>>
    BY <1>4 DEF vars, sha1Vars
  <2>2. TypeOK'  BY <2>1 DEF IInv, TypeOK
  <2>3. Walked'  BY <2>1 DEF IInv, Walked
  <2>4. Padded'  BY <2>1 DEF IInv, Padded
  <2> QED BY <2>2, <2>3, <2>4 DEF IInv
<1> QED BY <1>1, <1>2, <1>3, <1>4 DEF Next, Calculate

------------------------------------------------------------------------------
(* The invariant holds from the first block to the last.                   *)
THEOREM Invariant == Spec => []IInv
BY InitIInv, StepIInv, PTL DEF Spec

(* calc keeps within the string, its buffer and its words.                 *)
THEOREM TypeCorrect == Spec => []TypeOK
<1>1. IInv => TypeOK  BY DEF IInv
<1> QED BY <1>1, Invariant, PTL

(* For a key of any length: what is hashed is the padded message.          *)
THEOREM MessagePadded == Spec => []Padded
<1>1. IInv => Padded  BY DEF IInv
<1> QED BY <1>1, Invariant, PTL

(* For all random bytes, and for every hash and beginning of it.           *)
THEOREM EncodingsReadBack == Spec => []EncodingInverts
<1>1. ASSUME NEW input \in Input PROVE ReadBack(input)
  <2>1. Len(input) \in Nat  BY InputType
  <2>2. \A n \in Nat : (4 * ((n + 2) \div 3)) % 4 = 0  BY Z3
  <2> QED BY <2>1, <2>2, Encoded, EncodingInverse DEF ReadBack
<1>2. \A raw \in RandomBytes : raw \in Input
  BY RandomBytesAreBytes, TuplesAreSequences DEF Input
<1>3. TypeOK => \A n \in 0..Len(hash) : SubSeq(hash, 1, n) \in Input
  <2>1. SUFFICES ASSUME TypeOK PROVE \A n \in 0..Len(hash) : SubSeq(hash, 1, n) \in Input
    OBVIOUS
  <2>2. hash \in Input
    <3>1. CASE hash = <<>>  BY <3>1, EmptySeq DEF Input
    <3>2. CASE hash \in [1..20 -> 0..255]  BY <3>2, TuplesAreSequences, ZenonT(40) DEF Input
    <3> QED BY <2>1, <3>1, <3>2 DEF TypeOK
  <2>3. Len(hash) \in Nat /\ \A i \in 1..Len(hash) : hash[i] \in 0..255
    BY <2>2, LenProperties, ZenonT(40) DEF Input
  <2> QED BY <2>3, SubSeqProperties DEF Input
<1>4. TypeOK => EncodingInverts
  BY <1>1, <1>2, <1>3 DEF EncodingInverts
<1> QED BY <1>4, TypeCorrect, PTL
==============================================================================
