------------------------------ MODULE MCAcceptKey ------------------------------
(* Keys of every length up to 94, so that the string hashed has 36 to 130  *)
(* bytes: the rest of it takes every length, with no, one or two full      *)
(* blocks before it.                                                       *)
EXTENDS AcceptKey

CONSTANT MaxKeyLength

MCRandomBytes ==
  { [i \in 1..16 |-> 0], [i \in 1..16 |-> 255],
    (* "the sample nonce" of RFC 6455, 1.3 *)
    <<116, 104, 101, 32, 115, 97, 109, 112, 108, 101, 32, 110, 111,
      110, 99, 101>>,
    [i \in 1..16 |-> (i * 59) % 256] }

ForeignKey(n) == [i \in 1..n |-> ((i * 37) % 255) + 1]

MCForeignKeys == {ForeignKey(n) : n \in 0..MaxKeyLength}

(* The answer of RFC 6455, and those of other implementations of SHA-1 and *)
(* base64 for keys with which the string hashed has 55, 56, 63, 64 and 128 *)
(* bytes.                                                                  *)
MCKnownAnswers ==
  { [key |-> getSecWebsocketKey(<<116, 104, 101, 32, 115, 97, 109, 112, 108, 101, 32, 110, 111,
                110, 99, 101>>),
     accept |-> <<115, 51, 112, 80, 76, 77, 66, 105, 84, 120, 97, 81, 57, 107, 89,
                  71, 122, 122, 104, 90, 82, 98, 75, 43, 120, 79, 111, 61>>],
    [key |-> ForeignKey(19),
     accept |-> <<71, 73, 81, 100, 56, 51, 111, 86, 100, 85, 85, 114, 121, 108,
                  47, 115, 120, 119, 75, 101, 49, 79, 116, 108, 98, 98, 81, 61>>],
    [key |-> ForeignKey(20),
     accept |-> <<113, 115, 49, 103, 104, 85, 78, 82, 110, 87, 43, 86, 109, 79,
                  100, 69, 47, 101, 79, 67, 76, 89, 51, 97, 47, 117, 48, 61>>],
    [key |-> ForeignKey(27),
     accept |-> <<79, 67, 102, 104, 57, 68, 47, 108, 101, 115, 65, 75, 121, 70,
                  84, 68, 57, 100, 88, 70, 88, 65, 79, 111, 88, 68, 103, 61>>],
    [key |-> ForeignKey(28),
     accept |-> <<84, 87, 52, 85, 72, 115, 121, 116, 53, 98, 83, 120, 112, 77,
                  120, 109, 86, 98, 84, 103, 82, 72, 67, 73, 68, 105, 73, 61>>],
    [key |-> ForeignKey(92),
     accept |-> <<87, 69, 69, 54, 122, 83, 48, 43, 100, 103, 109, 53, 86, 117,
                  103, 114, 105, 97, 99, 75, 82, 86, 97, 102, 80, 43, 77, 61>>] }
==============================================================================
