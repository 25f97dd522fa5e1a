--------------------------- MODULE WebsocketContext ---------------------------
(***************************************************************************)
(* The incremental frame decoder: WebsocketContext::decode over a muduo    *)
(* Buffer, called by both endpoints' onMessage once per read event.        *)
(*                                                                         *)
(* The bytes the peer will ever send are fixed in the initial state; the   *)
(* kernel hands them over in pieces of any size.  The readable part of the *)
(* Buffer is the bytes after dec.pos up to arrived: retrieve(n) adds n to  *)
(* dec.pos, and peek()[i] is stream[dec.pos + 1 + i].                      *)
(***************************************************************************)
EXTENDS FrameFormat

CONSTANT Streams          \* the byte sequences a peer may send

ASSUME StreamsAreBytes == \A s \in Streams : s \in Seq(Byte)

VARIABLES
  stream,                 \* all the bytes this peer will ever send
  arrived,                \* how many of them the read events have appended
  dec,                    \* the WebsocketContext object and the Buffer's read index
  start,                  \* history: offset of the frame being decoded
  delivered,              \* history: messages dispatched by onMessage
  open                    \* FALSE once onMessage has forced the close

vars == <<stream, arrived, dec, start, delivered, open>>

Reader == INSTANCE FrameReader

ParserState == {"BASIC_HEADER", "EXTENDED_HEADER_LENGTH", "GET_MASK",
                "APPLICATION", "READY", "FATAL"}

(* state_, the fields of reqData_ and the read index of the Buffer.        *)
Decoder == [state   : ParserState,
            byte1   : Byte,
            byte2   : Byte,
            ext     : {0, 2, 8},
            len     : 0..MAX_PAYLOAD_LENGTH,
            key     : Seq(Byte),
            payload : Seq(Byte),
            pos     : Nat]

------------------------------------------------------------------------------
(* One turn of the loop of decode for each parser state; d is the object   *)
(* before the turn.                                                        *)

DecodeBasicHeader(d) ==
  LET b1   == stream[d.pos + 1]
      b2   == stream[d.pos + 2]
      size == PayloadSize(b2)
      read == [d EXCEPT !.byte1 = b1, !.byte2 = b2]
  IN  IF ~CanHandleOpcode(Opcode(b1))
      THEN [read EXCEPT !.state = "FATAL"]
      ELSE [read EXCEPT
              !.pos   = @ + BASIC_HEADER_LENGTH,
              !.len   = size,
              !.ext   = IF size > PAYLOAD_SIZE_BASIC THEN ExtendedLength(size) ELSE @,
              !.state = IF size > PAYLOAD_SIZE_BASIC THEN "EXTENDED_HEADER_LENGTH"
                        ELSE IF Masked(b2) THEN "GET_MASK"
                        ELSE IF size = 0 THEN "READY" ELSE "APPLICATION"]

(* Mutant: no mask is read after an explicit length.                       *)
DecodeExtendedLengthUnmasked(d) ==
  IF d.ext # 2 /\ TooLong(stream, d.pos)
  THEN [d EXCEPT !.state = "FATAL"]
  ELSE [d EXCEPT
          !.pos   = @ + d.ext,
          !.len   = IF d.ext = 2 THEN Ntoh16(stream, d.pos) ELSE Ntoh64(stream, d.pos),
          !.state = "APPLICATION"]

DecodeExtendedLength(d) ==
  IF d.ext # 2 /\ TooLong(stream, d.pos)
  THEN [d EXCEPT !.state = "FATAL"]
  ELSE [d EXCEPT
          !.pos   = @ + d.ext,
          !.len   = IF d.ext = 2 THEN Ntoh16(stream, d.pos) ELSE Ntoh64(stream, d.pos),
          !.state = IF Masked(d.byte2) THEN "GET_MASK" ELSE "APPLICATION"]

DecodeMask(d) ==
  [d EXCEPT
     !.pos   = @ + MASK_BYTES,
     !.key   = [i \in 1..MASK_BYTES |-> stream[d.pos + i]],
     !.state = IF PayloadSize(d.byte2) = 0 THEN "READY" ELSE "APPLICATION"]

DecodeApplication(d) ==
  LET raw == [i \in 1..d.len |-> stream[d.pos + i]]
  IN  [d EXCEPT
         !.pos     = @ + d.len,
         !.payload = @ \o (IF Masked(d.byte2) THEN ApplyMask(raw, d.key) ELSE raw),
         !.state   = "READY"]

(* The bytes a turn waits for; the loop breaks while fewer are readable.   *)
Needed(d) ==
  CASE d.state = "BASIC_HEADER"           -> BASIC_HEADER_LENGTH
    [] d.state = "EXTENDED_HEADER_LENGTH" -> d.ext
    [] d.state = "GET_MASK"               -> MASK_BYTES
    [] OTHER                              -> d.len

DecodeTurn(d, a) ==
  IF d.state \in {"READY", "FATAL"} \/ a - d.pos < Needed(d) THEN d
  ELSE CASE d.state = "BASIC_HEADER"           -> DecodeBasicHeader(d)
         [] d.state = "EXTENDED_HEADER_LENGTH" -> DecodeExtendedLength(d)
         [] d.state = "GET_MASK"               -> DecodeMask(d)
         [] d.state = "APPLICATION"            -> DecodeApplication(d)

(* The whole loop, with a bytes received: every turn that does not break   *)
(* moves to a later parser state, so four turns reach its exit.            *)
Decode(d, a) ==
  DecodeTurn(DecodeTurn(DecodeTurn(DecodeTurn(d, a), a), a), a)

(* Mutant: the size of the length field is not reset.                      *)
ResetKeepsExt(d) == [d EXCEPT !.state = "BASIC_HEADER", !.byte1 = 0, !.byte2 = 0,
                              !.len = 0, !.payload = <<>>]

(* WebsocketContext::reset; the mask key keeps its old bytes.              *)
Reset(d) == [d EXCEPT !.state = "BASIC_HEADER", !.byte1 = 0, !.byte2 = 0,
                      !.ext = 0, !.len = 0, !.payload = <<>>]

------------------------------------------------------------------------------
(* A context and the Buffer of a new connection.                           *)
Fresh ==
  /\ arrived = 0
  /\ dec = [state |-> "BASIC_HEADER", byte1 |-> 0, byte2 |-> 0, ext |-> 0,
            len |-> 0, key |-> <<>>, payload |-> <<>>, pos |-> 0]
  /\ start = 0
  /\ delivered = <<>>
  /\ open = TRUE

Init == stream \in Streams /\ Fresh

(* decode returned false: onMessage forces the close.                      *)
Refuse(d) ==
  /\ d.state = "FATAL"
  /\ dec' = d
  /\ open' = FALSE
  /\ UNCHANGED <<start, delivered>>

(* The frame is ready: it is dispatched and the context reset.  Only one   *)
(* frame is taken per call, whatever else the Buffer holds.                *)
Dispatch(d) ==
  /\ d.state = "READY"
  /\ delivered' = Append(delivered, Message(Opcode(d.byte1), d.payload))
  /\ dec' = Reset(d)
  /\ start' = d.pos
  /\ UNCHANGED open

Await(d) ==
  /\ d.state \notin {"READY", "FATAL"}
  /\ dec' = d
  /\ UNCHANGED <<start, delivered, open>>

(* A read event appends n bytes and calls onMessage.                       *)
OnMessage(n) ==
  /\ open
  /\ arrived' = arrived + n
  /\ UNCHANGED stream
  /\ LET d == Decode(dec, arrived') IN Refuse(d) \/ Dispatch(d) \/ Await(d)

Next == \E n \in 1..(Len(stream) - arrived) : OnMessage(n)

Spec == Init /\ [][Next]_vars
------------------------------------------------------------------------------
(* Every variable has its type; a context at rest between two calls is     *)
(* never READY, because onMessage resets it (WebsocketServer.cc:126).      *)
TypeOK ==
  /\ stream \in Streams
  /\ arrived \in 0..Len(stream)
  /\ dec \in Decoder
  /\ start \in Nat
  /\ delivered \in Seq([opcode : 0..15, payload : Seq(Byte)])
  /\ open \in BOOLEAN

(* Between two read events the parser state says exactly how much of the   *)
(* frame at start has been taken out of the Buffer, and every field it has *)
(* kept agrees with the bytes of that frame: what makes resuming in the    *)
(* middle of a header, of a length or before a mask key correct.           *)
Resumable ==
  LET s == stream
      o == start
      headerRead == /\ dec.byte1 = s[o + 1]
                    /\ dec.byte2 = s[o + 2]
                    /\ CanHandleOpcode(Opcode(s[o + 1]))
                    /\ dec.ext = Reader!ExtendedLengthAt(s, o)
      lengthRead == /\ dec.len = Reader!PayloadLengthAt(s, o)
                    /\ dec.ext = 8 => ~TooLong(s, o + 2)
  IN
  /\ start <= dec.pos /\ dec.pos <= arrived
  /\ dec.state # "READY"
  /\ dec.state = "FATAL" <=> ~open
  /\ dec.payload = <<>>
  /\ dec.state = "BASIC_HEADER" => dec.pos = o /\ dec.ext = 0
  /\ dec.state = "EXTENDED_HEADER_LENGTH" =>
       headerRead /\ dec.pos = o + 2 /\ dec.ext # 0
  /\ dec.state = "GET_MASK" =>
       /\ headerRead /\ lengthRead /\ Masked(dec.byte2)
       /\ dec.pos = o + Reader!MaskOffset(s, o)
  /\ dec.state = "APPLICATION" =>
       /\ headerRead /\ lengthRead
       /\ dec.pos = o + Reader!HeaderLength(s, o)
       /\ Masked(dec.byte2) => dec.key = Reader!MaskKeyAt(s, o)

(* The decoder implements the reader: however the stream is cut into read  *)
(* events, the messages dispatched are the frames of the stream.           *)
ImplementsReader == Reader!Spec
==============================================================================
