-------------------------------- MODULE Base64 --------------------------------
(***************************************************************************)
(* base64.h.  Bytes and characters are the integers 0..255, a string is a  *)
(* sequence of character codes.  The loops, which carry three bytes or     *)
(* four characters at a time, are given by what they append: the positions *)
(* of the input that each position of the result is made of.               *)
(***************************************************************************)
EXTENDS Integers, Sequences

PAD == 61                 \* '='

(* The character of a six-bit value, and the inverse, find.  The code of a *)
(* character outside the alphabet is npos cut to a byte.                   *)
base64_chars(v) ==
  CASE v \in 0..25  -> 65 + v
    [] v \in 26..51 -> 71 + v
    [] v \in 52..61 -> v - 4
    [] v = 62       -> 43
    [] v = 63       -> 47

find(c) ==
  CASE c \in 65..90  -> c - 65
    [] c \in 97..122 -> c - 71
    [] c \in 48..57  -> c + 4
    [] c = 43        -> 62
    [] c = 47        -> 63
    [] OTHER         -> 255

(* Mutant: '/' is left out.                                                *)
is_base64WithoutSlash(c) == c = 43 \/ c \in 48..57 \/ c \in 65..90 \/ c \in 97..122

is_base64(c) == c = 43 \/ c \in 47..57 \/ c \in 65..90 \/ c \in 97..122

------------------------------------------------------------------------------
(* char_array_4 of char_array_3, and back.  An unsigned char keeps the sum *)
(* of two parts modulo 256.                                                *)
Sextet(k, a, b, c) ==
  CASE k = 0 -> a \div 4
    [] k = 1 -> (a % 4) * 16 + b \div 16
    [] k = 2 -> (b % 16) * 4 + c \div 64
    [] k = 3 -> c % 64

Octet(k, p, q, r, s) ==
  CASE k = 0 -> (p * 4 + ((q \div 16) % 4)) % 256
    [] k = 1 -> ((q % 16) * 16 + ((r \div 4) % 16)) % 256
    [] k = 2 -> ((r % 4) * 64 + s) % 256

(* Mutant: a tail of i bytes gets i characters.                            *)
CharactersShortTail(n) == 4 * (n \div 3) + (n % 3)

(* How many characters n bytes are turned into before the padding: four    *)
(* for every three bytes, i + 1 for a tail of i bytes.                     *)
Characters(n) == 4 * (n \div 3) + IF n % 3 = 0 THEN 0 ELSE (n % 3) + 1

base64_encode(input) ==
  LET n       == Len(input)
      byte(i) == IF i <= n THEN input[i] ELSE 0
  IN  [k \in 1..4 * ((n + 2) \div 3) |->
         LET g == 3 * ((k - 1) \div 4)
         IN  IF k <= Characters(n)
             THEN base64_chars(Sextet((k - 1) % 4, byte(g + 1), byte(g + 2), byte(g + 3)))
             ELSE PAD]

(* How many characters are read: those before the first that is '=' or not *)
(* of the alphabet.                                                        *)
Readable(input) ==
  CHOOSE m \in 0..Len(input) :
    /\ \A i \in 1..m : input[i] # PAD /\ is_base64(input[i])
    /\ m < Len(input) => ~(input[m + 1] # PAD /\ is_base64(input[m + 1]))

(* Four characters make three bytes, a tail of j characters makes j - 1.   *)
Bytes(m) == 3 * (m \div 4) + IF m % 4 = 0 THEN 0 ELSE (m % 4) - 1

base64_decode(input) ==
  LET m        == Readable(input)
      value(i) == IF i <= m THEN find(input[i]) ELSE find(0)
  IN  [k \in 1..Bytes(m) |->
         LET g == 4 * ((k - 1) \div 3)
         IN  Octet((k - 1) % 3, value(g + 1), value(g + 2), value(g + 3), value(g + 4))]
==============================================================================
