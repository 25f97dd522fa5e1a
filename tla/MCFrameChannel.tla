---------------------------- MODULE MCFrameChannel ----------------------------
(* Up to two short frames of every opcode the code sends, masked or not,   *)
(* single frames at the ends of the 7-bit and 16-bit length classes, and   *)
(* headers at the ends of all classes and of the range setPayload takes,   *)
(* some with lengths in which every byte of the field differs.             *)
EXTENDS FrameChannel

CONSTANTS ShortPayloads, Keys, LongSizes

Frames(opcodes, keys, payloads) ==
  [opcode : opcodes, mask : BOOLEAN, key : keys, payload : payloads]

Short == Frames({TEXT, PONG}, Keys, ShortPayloads)

Long == Frames({BINARY}, {<<165, 255, 1, 128>>},
               {[i \in 1..n |-> (i * 37) % 256] : n \in LongSizes})

Ping == Frames({PING}, {<<9, 8, 7, 6>>}, {<<>>})

MCOutboxes == {<<f, g>> : f \in Short, g \in Short}
              \cup {<<f>> : f \in Long}
              \cup {<<f, g>> : f \in Ping, g \in {h \in Long : Len(h.payload) = 126}}

MCLengths == (1..4) \cup (120..130) \cup {255, 256, 258, 511, 65279, 65280}
             \cup (65533..65538) \cup {66051, 197121, 2097151, 2097152, 2097153}
             \cup {4194303, 4194304}

MCShortPayloads == {<<>>, <<200>>, <<1, 128, 255, 7, 90>>}

MCKeys == {<<0, 0, 0, 0>>, <<165, 255, 1, 128>>}
==============================================================================
