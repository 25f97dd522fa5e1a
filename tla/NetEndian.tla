------------------------------ MODULE NetEndian ------------------------------
(***************************************************************************)
(* netEndian.h, and the unions through which WebsocketContext.h turns an   *)
(* integer into bytes of memory and back.  An unsigned integer of 16, 32   *)
(* or 64 bits is the sequence of its bytes, the most significant first;    *)
(* little says which way the host stores them.                             *)
(***************************************************************************)
EXTENDS Integers, Sequences

(* data >> 8n, data << 8n, and data & a mask of ones over byte i.          *)
ShiftRight(data, n) ==
  [i \in 1..Len(data) |-> IF i > n THEN data[i - n] ELSE 0]

ShiftLeft(data, n) ==
  [i \in 1..Len(data) |-> IF i + n <= Len(data) THEN data[i + n] ELSE 0]

ByteAt(data, i) == [j \in 1..Len(data) |-> IF j = i THEN data[j] ELSE 0]

(* a | b, on bytes by the weight of each bit, and on integers.             *)
BitOr(a, b) ==
  LET bit(w) == IF (a \div w) % 2 = 1 \/ (b \div w) % 2 = 1 THEN w ELSE 0
  IN  bit(1) + bit(2) + bit(4) + bit(8) + bit(16) + bit(32) + bit(64) + bit(128)

Or(x, y) == [i \in 1..Len(x) |-> BitOr(x[i], y[i])]

bswap16(data) == Or(ShiftRight(data, 1), ShiftLeft(data, 1))

bswap32(data) ==
  Or(Or(Or(ShiftRight(data, 3), ShiftRight(ByteAt(data, 2), 1)),
        ShiftLeft(ByteAt(data, 3), 1)), ShiftLeft(data, 3))

(* Mutant: the mask and the shift of one term do not belong together.      *)
bswap64Slip(data) ==
  Or(Or(Or(Or(Or(Or(Or(ShiftRight(data, 7),
     ShiftRight(ByteAt(data, 2), 5)), ShiftRight(ByteAt(data, 3), 3)),
     ShiftRight(ByteAt(data, 4), 1)), ShiftLeft(ByteAt(data, 5), 1)),
     ShiftLeft(ByteAt(data, 6), 2)), ShiftLeft(ByteAt(data, 7), 5)), ShiftLeft(data, 7))

bswap64(data) ==
  Or(Or(Or(Or(Or(Or(Or(ShiftRight(data, 7),
     ShiftRight(ByteAt(data, 2), 5)), ShiftRight(ByteAt(data, 3), 3)),
     ShiftRight(ByteAt(data, 4), 1)), ShiftLeft(ByteAt(data, 5), 1)),
     ShiftLeft(ByteAt(data, 6), 3)), ShiftLeft(ByteAt(data, 7), 5)), ShiftLeft(data, 7))

bswap(data) ==
  CASE Len(data) = 2 -> bswap16(data)
    [] Len(data) = 4 -> bswap32(data)
    [] Len(data) = 8 -> bswap64(data)

(* hton16, hton32 and hton64; ntoh16, ntoh32 and ntoh64 call them.         *)
hton(little, data) == IF little THEN bswap(data) ELSE data

ntoh(little, data) == hton(little, data)

(* The members i and c of a converter: what is stored through one is read  *)
(* through the other.                                                      *)
Stored(little, i) ==
  [k \in 1..Len(i) |-> IF little THEN i[Len(i) + 1 - k] ELSE i[k]]

Loaded(little, c) ==
  [k \in 1..Len(c) |-> IF little THEN c[Len(c) + 1 - k] ELSE c[k]]
==============================================================================
