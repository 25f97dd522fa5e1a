------------------------------- MODULE AcceptKey -------------------------------
(***************************************************************************)
(* The answer to a handshake's key: getSecWebsocketAccept appends the GUID *)
(* to the key it is given, hashes the string and encodes the hash.  The    *)
(* client makes its key of 16 random bytes; the server answers whatever    *)
(* value the header of a request has.                                      *)
(***************************************************************************)
EXTENDS Sha1, Base64

CONSTANTS
  RandomBytes,            \* what uint32RandomNumber may yield, four times
  ForeignKeys,            \* keys of clients that are not of this code
  KnownAnswers            \* answers to some of the keys, known from elsewhere

ASSUME RandomBytesAreBytes == RandomBytes \subseteq [1..16 -> 0..255]
(* A header is at most HTTP_MAX_HEADER_SIZE, 80 KB, long.                  *)
ASSUME ForeignKeysAreHeaders ==
  \A key \in ForeignKeys : key \in Seq(1..255) /\ Len(key) <= 81920

VARIABLES
  key,                    \* the value of Sec-WebSocket-Key
  accept                  \* <<>> until getSecWebsocketAccept returns

vars == <<sha1Vars, key, accept>>

(* 258EAFA5-E914-47DA-95CA-C5AB0DC85B11                                    *)
handshakeGuid ==
  <<50, 53, 56, 69, 65, 70, 65, 53, 45, 69, 57, 49, 52, 45, 52, 55, 68, 65, 45,
    57, 53, 67, 65, 45, 67, 53, 65, 66, 48, 68, 67, 56, 53, 66, 49, 49>>

(* getSecWebsocketKey, with the bytes that the random numbers are made of. *)
getSecWebsocketKey(raw) == base64_encode(raw)

Init ==
  /\ key \in {getSecWebsocketKey(raw) : raw \in RandomBytes} \cup ForeignKeys
  /\ src = key \o handshakeGuid
  /\ accept = <<>>
  /\ CalcInit

Calculate == (FullBlock \/ LastBlock) /\ UNCHANGED <<key, accept>>

EncodeHash ==
  /\ hash # <<>>
  /\ accept = <<>>
  /\ accept' = base64_encode(hash)
  /\ UNCHANGED <<sha1Vars, key>>

Next == Calculate \/ EncodeHash

Spec == Init /\ [][Next]_vars
------------------------------------------------------------------------------
(* The message of FIPS 180-4, 5.1.1 for the bytes s: a one bit, as few     *)
(* zeros as reach 64 bits below a multiple of 512, and the length in bits, *)
(* of which a header's length leaves the upper half zero.                  *)
PaddedLength(n) == 64 * ((n + 72) \div 64)

LengthByte(n, k) ==
  (8 * n) \div (CASE k = 3 -> 16777216 [] k = 2 -> 65536 [] k = 1 -> 256 [] k = 0 -> 1)

PaddedByte(s, k) ==
  LET n == Len(s)
      p == PaddedLength(n)
  IN  IF k <= n THEN Bits(s[k])
      ELSE IF k = n + 1 THEN {7}
      ELSE IF k <= p - 4 THEN {}
      ELSE Bits(LengthByte(n, p - k) % 256)

PaddedWord(s, i) ==
  FromBytes(PaddedByte(s, 4*i - 3), PaddedByte(s, 4*i - 2),
            PaddedByte(s, 4*i - 1), PaddedByte(s, 4*i))

(* Type correctness: the loop of calc stays within its string, and the     *)
(* round buffer and the result are words.                                  *)
TypeOK ==
  /\ key \in Seq(1..255)
  /\ src \in Seq(1..255)
  /\ currentBlock \in 0..Len(src)
  /\ w \in [1..16 -> Word]
  /\ result \in [1..5 -> Word]
  /\ hash = <<>> \/ hash \in [1..20 -> 0..255]
  /\ blocks \in Seq([1..16 -> Word])
  /\ accept \in Seq(0..255)

(* Wherever the last block ends (before, at and behind the 56th byte, and  *)
(* at the end of a block), and whatever the round buffer held before, calc *)
(* hashes the padded message of the standard, block by block, and all of   *)
(* it before it stores the hash.                                           *)
Padded ==
  /\ \A b \in 1..Len(blocks) :
        blocks[b] = [i \in 1..16 |-> PaddedWord(src, 16 * (b - 1) + i)]
  /\ 64 * Len(blocks) = IF hash = <<>> THEN currentBlock ELSE PaddedLength(Len(src))

(* The round constants, the schedule, the rotations and the order of the   *)
(* bytes of the hash: the answers are those that other implementations     *)
(* give, the example of RFC 6455 among them.                               *)
Answered ==
  \A known \in KnownAnswers :
    key = known.key /\ accept # <<>> => accept = known.accept

(* What base64_encode writes base64_decode reads back, whichever of the    *)
(* three tails the input has, and the padding makes every encoding a       *)
(* multiple of four characters long: for the random bytes of every key,    *)
(* and for every beginning of the hash.                                    *)
ReadBack(input) ==
  /\ base64_decode(base64_encode(input)) = input
  /\ Len(base64_encode(input)) % 4 = 0

EncodingInverts ==
  /\ \A raw \in RandomBytes : ReadBack(raw)
  /\ \A n \in 0..Len(hash) : ReadBack(SubSeq(hash, 1, n))
==============================================================================
