-------------------------- MODULE MCWebsocketContext --------------------------
(* Byte streams of a peer with its own encoder: every way to write a       *)
(* length, masks with and without payload, frames the decoder must refuse, *)
(* and lengths at the limit; two such frames in a row, or one cut short.   *)
EXTENDS WebsocketContext

Zeros(n) == [i \in 1..n |-> 0]

Key == <<165, 0, 255, 17>>

(* Complete frames; the first byte of some carries FIN, RSV bits or none.  *)
Good == {
  <<129, 0>>,                                    \* TEXT, empty
  <<1, 3, 72, 105, 33>>,                         \* TEXT, no FIN
  <<138, 128>> \o Key,                           \* PONG, masked, empty
  <<249, 130>> \o Key \o <<1, 2>>,               \* PING with RSV bits, masked
  <<130, 126, 0, 2, 5, 6>>,                      \* BINARY, 2 as a 16-bit length
  <<130, 254, 0, 0>> \o Key,                     \* masked, 0 as a 16-bit length
  <<136, 127>> \o Zeros(7) \o <<1, 9>>,          \* CLOSE, 1 as a 64-bit length
  <<129, 255>> \o Zeros(7) \o <<2>> \o Key \o <<3, 4>> }

(* Frames that are refused, or that the stream ends in the middle of.      *)
Final == {
  <<128, 1, 7>>,                                 \* CONTINUATION
  <<131, 0>>, <<143, 0>>,                        \* reserved opcodes
  <<130, 127>> \o Zeros(5) \o <<64, 0, 1, 7>>,   \* MAX_PAYLOAD_LENGTH + 1
  <<130, 127>> \o Zeros(5) \o <<64, 0, 0, 7>>,   \* MAX_PAYLOAD_LENGTH, unfinished
  <<130, 255, 1>> \o Zeros(7) \o Key,            \* 2^56
  <<130, 126, 255, 255, 1, 2>>,                  \* 65535, unfinished
  <<137>> }

MCStreams == {a \o b : a \in Good, b \in Good \cup Final}
             \cup {a \o <<129, 1, 66>> \o b : a \in Good, b \in Final}
==============================================================================
