----------------------------- MODULE FrameChannel -----------------------------
(***************************************************************************)
(* Encoder and decoder joined by a TCP stream: one endpoint sends frames,  *)
(* the other reads the bytes in pieces of any size.  Of a frame too long   *)
(* to carry only the header is sent.                                       *)
(***************************************************************************)
EXTENDS WebsocketContext, FrameEncoder, SequencesExt

CONSTANTS
  Outboxes,               \* sequences of frames an endpoint may send
  Lengths                 \* payload lengths of which only a header is sent

(* setPayload's assertion and the signatures of sendText and its kin.      *)
ASSUME OutboxesAreSendable == \A outbox \in Outboxes : outbox \in Seq(Sendable)

ASSUME LengthsWithinLimit == Lengths \subseteq 1..MAX_PAYLOAD_LENGTH

VARIABLES
  sent,                   \* history: the frames sent on this connection
  announced               \* the length in the one header sent, 0 if none is

channelVars == <<vars, sent, announced>>

(* The bytes sendText, sendBinary and the ping and pong helpers put on the *)
(* connection for the frames of outbox, in order.                          *)
BytesOf(little, outbox) ==
  FlattenSeq([i \in 1..Len(outbox) |-> GetFrame(little, outbox[i])])

(* The same through encode and one WebsocketData, reset before each frame, *)
(* as the interface allows; the repository's own senders are BytesOf.      *)
BytesOfReused(little, outbox) ==
  LET send(so, frame) ==
        LET d == Fill(ResetData(so.data), frame)
        IN  [data |-> d, bytes |-> so.bytes \o Encode(little, d)]
  IN  FoldLeft(send, [data |-> NewData, bytes |-> <<>>], outbox).bytes

(* The header of a BINARY frame whose payload has n bytes.                 *)
HeaderBytes(little, mask, n) ==
  EncodeHeader(little, SetLength(FillHead(NewData, BINARY, mask, <<165, 255, 1, 128>>), n))

(* The peer of this decoder is this encoder.                               *)
PeerStreams ==
  {BytesOf(little, outbox) : little \in BOOLEAN, outbox \in Outboxes}
  \cup {BytesOfReused(little, outbox) : little \in BOOLEAN, outbox \in Outboxes}
  \cup {HeaderBytes(little, mask, n) : little \in BOOLEAN, mask \in BOOLEAN, n \in Lengths}

ASSUME PeerStreamsExpected == PeerStreams \subseteq Streams

ChannelInit ==
  /\ \E little \in BOOLEAN :
       \/ /\ sent \in Outboxes
          /\ announced = 0
          /\ stream \in {BytesOf(little, sent), BytesOfReused(little, sent)}
       \/ /\ announced \in Lengths
          /\ sent = <<>>
          /\ \E mask \in BOOLEAN : stream = HeaderBytes(little, mask, announced)
  /\ Fresh

ChannelNext == Next /\ UNCHANGED <<sent, announced>>

ChannelSpec == ChannelInit /\ [][ChannelNext]_channelVars

------------------------------------------------------------------------------
MessagesOf(outbox) ==
  [i \in 1..Len(outbox) |-> Message(outbox[i].opcode, outbox[i].payload)]

(* What one endpoint encodes the other decodes, for every mask key, byte   *)
(* order, length class and cut of the byte stream, and also when one       *)
(* WebsocketData serves for all frames: the messages dispatched are the    *)
(* first of those sent, read from exactly their bytes, no frame is         *)
(* refused, and once all bytes have arrived the decoder is never left in   *)
(* the middle of a frame.                                                  *)
RoundTrip ==
  announced = 0 =>
    /\ open
    /\ IsPrefix(delivered, MessagesOf(sent))
    /\ start = Len(BytesOf(TRUE, SubSeq(sent, 1, Len(delivered))))
    /\ arrived = Len(stream) => dec.state = "BASIC_HEADER"

(* For every length setPayload accepts, whatever its class and wherever    *)
(* the header is cut, and whichever byte orders the two hosts have, the    *)
(* decoder accepts the header and reads the length that was announced.     *)
LengthAgreed ==
  announced > 0 =>
    /\ open
    /\ arrived = Len(stream) =>
         /\ dec.len = announced /\ dec.state # "EXTENDED_HEADER_LENGTH"
         /\ dec.ext > 0 =>
              \A little \in BOOLEAN :
                ntoh(little, Loaded(little, SubSeq(stream, 3, 2 + dec.ext)))
                  = Unsigned(announced, dec.ext)
==============================================================================
