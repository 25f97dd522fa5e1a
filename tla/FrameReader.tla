----------------------------- MODULE FrameReader -----------------------------
(***************************************************************************)
(* What the frame decoder promises to its caller, whatever the boundaries  *)
(* at which TCP cuts the byte stream: the frames of the stream are handed  *)
(* over whole, in order, once each and at most one per read event, and the *)
(* first frame the endpoint cannot handle ends the reading.                *)
(*                                                                         *)
(* The frame that begins at offset o of a byte sequence s is defined here  *)
(* from the bytes alone, with no parser state.                             *)
(***************************************************************************)
EXTENDS FrameFormat

CONSTANT Streams          \* the byte sequences a peer may send

VARIABLES
  stream,                 \* all the bytes this peer will ever send
  arrived,                \* how many of them have reached the input buffer
  start,                  \* offset of the first frame not handed over yet
  delivered,              \* messages handed over so far
  open                    \* FALSE once a frame was refused

vars == <<stream, arrived, start, delivered, open>>

------------------------------------------------------------------------------
ExtendedLengthAt(s, o) == ExtendedLength(PayloadSize(s[o + 2]))

PayloadLengthAt(s, o) ==
  CASE ExtendedLengthAt(s, o) = 0 -> PayloadSize(s[o + 2])
    [] ExtendedLengthAt(s, o) = 2 -> Ntoh16(s, o + 2)
    [] ExtendedLengthAt(s, o) = 8 -> Ntoh64(s, o + 2)

MaskOffset(s, o) == BASIC_HEADER_LENGTH + ExtendedLengthAt(s, o)

HeaderLength(s, o) ==
  MaskOffset(s, o) + IF Masked(s[o + 2]) THEN MASK_BYTES ELSE 0

FrameLength(s, o) == HeaderLength(s, o) + PayloadLengthAt(s, o)

MaskKeyAt(s, o) ==
  [i \in 1..MASK_BYTES |-> s[o + MaskOffset(s, o) + i]]

RawPayload(s, o, n) == [i \in 1..n |-> s[o + i]]

MessageAt(s, o) ==
  LET raw == RawPayload(s, o + HeaderLength(s, o), PayloadLengthAt(s, o))
  IN  Message(Opcode(s[o + 1]),
              IF Masked(s[o + 2]) THEN ApplyMask(raw, MaskKeyAt(s, o)) ELSE raw)

(* With a bytes of s received, the frame at o must be refused: its opcode  *)
(* is known and not handled, or its declared length is known and too big.  *)
Refused(s, o, a) ==
  /\ a - o >= BASIC_HEADER_LENGTH
  /\ \/ ~CanHandleOpcode(Opcode(s[o + 1]))
     \/ /\ ExtendedLengthAt(s, o) = 8
        /\ a - o >= MaskOffset(s, o)
        /\ TooLong(s, o + 2)

(* With a bytes of s received, the frame at o is there to its last byte.   *)
Complete(s, o, a) ==
  /\ a - o >= BASIC_HEADER_LENGTH
  /\ a - o >= HeaderLength(s, o)
  /\ a - o >= FrameLength(s, o)
  /\ ~Refused(s, o, a)

------------------------------------------------------------------------------
Init ==
  /\ stream \in Streams
  /\ arrived = 0
  /\ start = 0
  /\ delivered = <<>>
  /\ open = TRUE

(* One read event brings n more bytes.                                     *)
Receive(n) ==
  /\ open
  /\ arrived' = arrived + n
  /\ UNCHANGED stream
  /\ \/ /\ Refused(stream, start, arrived')
        /\ open' = FALSE
        /\ UNCHANGED <<start, delivered>>
     \/ /\ Complete(stream, start, arrived')
        /\ start' = start + FrameLength(stream, start)
        /\ delivered' = Append(delivered, MessageAt(stream, start))
        /\ UNCHANGED open
     \/ /\ ~Refused(stream, start, arrived')
        /\ ~Complete(stream, start, arrived')
        /\ UNCHANGED <<start, delivered, open>>

Next == \E n \in 1..(Len(stream) - arrived) : Receive(n)

Spec == Init /\ [][Next]_vars
==============================================================================
