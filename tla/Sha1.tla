--------------------------------- MODULE Sha1 ---------------------------------
(***************************************************************************)
(* sha1.h: calc hashes a byte string in blocks of 64 bytes through one     *)
(* round buffer w, whose first 16 words are loaded or cleared for each     *)
(* block.  An unsigned int is the set of the positions of its bits that    *)
(* are 1, so the bit operations are set operations.                        *)
(***************************************************************************)
EXTENDS Integers, Sequences, SequencesExt

Word == SUBSET (0..31)

Not(x)    == (0..31) \ x
Or(x, y)  == {i \in 0..31 : i \in x \/ i \in y}
Xor(x, y) == {i \in 0..31 : (i \in x) # (i \in y)}

rol(x, steps) == {(i + steps) % 32 : i \in x}

(* Mutant: a word that is wider than 32 bits keeps the last carry.         *)
PlusWide(x, y) ==
  LET carry == {i \in 1..32 : \E j \in 0..(i - 1) :
                   /\ j \in x \cap y
                   /\ \A k \in (j + 1)..(i - 1) : k \in x \cup y}
      sum == (x \ y) \cup (y \ x)
  IN  (sum \ carry) \cup (carry \ sum)

(* x + y modulo 2^32: a position takes a carry when some lower one makes   *)
(* it and all between pass it on.                                          *)
Plus(x, y) ==
  LET carry == {i \in 1..31 : \E j \in 0..(i - 1) :
                   /\ j \in x \cap y
                   /\ \A k \in (j + 1)..(i - 1) : k \in x \cup y}
  IN  Xor(Xor(x, y), carry)

(* The bits of a byte, and the word of four bytes, the highest first.      *)
Bits(b) == {i \in 0..7 : (b \div 2^i) % 2 = 1}

FromBytes(b3, b2, b1, b0) ==
  {i \in 0..31 : (i % 8) \in <<b0, b1, b2, b3>>[(i \div 8) + 1]}

Hex(b3, b2, b1, b0) == FromBytes(Bits(b3), Bits(b2), Bits(b1), Bits(b0))

InitialResult ==
  << Hex(\h67, \h45, \h23, \h01), Hex(\hef, \hcd, \hab, \h89),
     Hex(\h98, \hba, \hdc, \hfe), Hex(\h10, \h32, \h54, \h76),
     Hex(\hc3, \hd2, \he1, \hf0) >>

------------------------------------------------------------------------------
(* The function and the constant of a round.                               *)
Func(round, b, c, d) ==
  CASE round \in 0..19  -> (b \cap c) \cup (Not(b) \cap d)
    [] round \in 20..39 -> Xor(Xor(b, c), d)
    [] round \in 40..59 -> (b \cap c) \cup (b \cap d) \cup (c \cap d)
    [] round \in 60..79 -> Xor(Xor(b, c), d)

Val(round) ==
  CASE round \in 0..19  -> Hex(\h5a, \h82, \h79, \h99)
    [] round \in 20..39 -> Hex(\h6e, \hd9, \heb, \ha1)
    [] round \in 40..59 -> Hex(\h8f, \h1b, \hbc, \hdc)
    [] round \in 60..79 -> Hex(\hca, \h62, \hc1, \hd6)

(* Mutant: the schedule of SHA-0, without the rotation.                    *)
ScheduledUnrotated(words, round) ==
  IF round < 16 THEN words
  ELSE LET at(n) == words[round - n + 1]
       IN  Append(words, Xor(Xor(at(3), at(8)), Xor(at(14), at(16))))

(* w[round], which from the 16th round on is made of earlier words.        *)
Scheduled(words, round) ==
  IF round < 16 THEN words
  ELSE LET at(n) == words[round - n + 1]
       IN  Append(words, rol(Xor(Xor(at(3), at(8)), Xor(at(14), at(16))), 1))

(* sha1macro, after the word of the round is there.                        *)
Round(s, round) ==
  LET words == Scheduled(s.w, round)
      t == Plus(Plus(Plus(rol(s.a, 5), Func(round, s.b, s.c, s.d)),
                     Plus(s.e, Val(round))), words[round + 1])
  IN  [s EXCEPT !.a = t, !.b = s.a, !.c = rol(s.b, 30), !.d = s.c, !.e = s.d, !.w = words]

(* The words of the digest after the block in words, the first 16 of w.        *)
innerHash(digest, words) ==
  LET start == [a |-> digest[1], b |-> digest[2], c |-> digest[3],
                d |-> digest[4], e |-> digest[5], w |-> words]
      end   == FoldLeft(Round, start, [i \in 1..80 |-> i - 1])
  IN  << Plus(digest[1], end.a), Plus(digest[2], end.b), Plus(digest[3], end.c),
         Plus(digest[4], end.d), Plus(digest[5], end.e) >>

(* The byte that has the bits, and the 20 bytes of hash.                   *)
ByteValue(bits) ==
  LET at(i, weight) == IF i \in bits THEN weight ELSE 0
  IN  at(0, 1) + at(1, 2) + at(2, 4) + at(3, 8) + at(4, 16) + at(5, 32) + at(6, 64) + at(7, 128)

HashBytes(digest) ==
  [k \in 1..20 |->
     LET shift == 8 * (3 - ((k - 1) % 4))
     IN  ByteValue({i - shift : i \in digest[((k - 1) \div 4) + 1]} \cap (0..7))]

------------------------------------------------------------------------------
VARIABLES
  src,                    \* the bytes to hash
  currentBlock,           \* how many of them have been hashed
  w,                      \* the first 16 words of the round buffer
  result,
  hash,                   \* <<>> until calc has stored it
  blocks                  \* history: what innerHash was given, in order

sha1Vars == <<src, currentBlock, w, result, hash, blocks>>

Cleared == [i \in 1..16 |-> {}]

(* w is not initialized; nothing may depend on what it holds, for which    *)
(* all ones stand.                                                         *)
CalcInit ==
  /\ currentBlock = 0
  /\ w = [i \in 1..16 |-> 0..31]
  /\ result = InitialResult
  /\ hash = <<>>
  /\ blocks = <<>>

(* A block of 64 bytes of src is loaded and hashed.                        *)
FullBlock ==
  LET byte(k) == Bits(src[currentBlock + k])
  IN  /\ currentBlock + 64 <= Len(src)
      /\ w' = [i \in 1..16 |-> FromBytes(byte(4*i - 3), byte(4*i - 2),
                                         byte(4*i - 1), byte(4*i))]
      /\ currentBlock' = currentBlock + 64
      /\ result' = innerHash(result, w')
      /\ blocks' = Append(blocks, w')
      /\ UNCHANGED <<src, hash>>

(* The bytes that are left, and 0x80 behind them, or-ed into words.        *)
Left == Len(src) - currentBlock

LeftByte(k) ==
  IF k <= Left THEN Bits(src[currentBlock + k]) ELSE IF k = Left + 1 THEN {7} ELSE {}

OrRest(words) ==
  [i \in 1..16 |-> Or(words[i], FromBytes(LeftByte(4*i - 3), LeftByte(4*i - 2),
                                          LeftByte(4*i - 1), LeftByte(4*i)))]

(* bytelength << 3 cut to an unsigned int.                                 *)
BitLength ==
  LET n == 8 * Len(src)
  IN  Hex((n \div 16777216) % 256, (n \div 65536) % 256, (n \div 256) % 256, n % 256)

WithLength(words) == [i \in 1..16 |-> IF i = 16 THEN BitLength ELSE words[i]]

(* Mutant: a rest of 56 bytes is taken to leave room for the length.       *)
LastBlocksShort(loaded) ==
  IF Left > 56
  THEN <<loaded, WithLength(Cleared)>> ELSE <<WithLength(loaded)>>

(* Mutant: the buffer is not cleared before the length.                    *)
LastBlocksNotCleared(loaded) ==
  IF Left >= 56
  THEN <<loaded, WithLength(loaded)>> ELSE <<WithLength(loaded)>>

(* What is hashed for the rest: the length has a block of its own when the *)
(* rest leaves no room for it.                                             *)
LastBlocks(loaded) ==
  IF Left >= 56
  THEN <<loaded, WithLength(Cleared)>> ELSE <<WithLength(loaded)>>

LastBlock ==
  LET last == LastBlocks(OrRest(Cleared))
  IN  /\ hash = <<>>
      /\ Left < 64
      /\ w' = last[Len(last)]
      /\ result' = IF Len(last) = 1 THEN innerHash(result, last[1])
                   ELSE innerHash(innerHash(result, last[1]), last[2])
      /\ hash' = HashBytes(result')
      /\ blocks' = blocks \o last
      /\ UNCHANGED <<src, currentBlock>>
==============================================================================
