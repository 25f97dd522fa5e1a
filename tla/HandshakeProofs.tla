---------------------------- MODULE HandshakeProofs ----------------------------
(***************************************************************************)
(* For every key, every sequence of frames and reads that end anywhere: a  *)
(* client that takes the connection for open has a server that answered    *)
(* the key it sent, and decode is given the frames of the other side, all  *)
(* and nothing else.                                                       *)
(*                                                                         *)
(* The bytes of the request and of the answer are worked out first: the    *)
(* key and the digest stand at one place in them.  Whatever a parser holds *)
(* it has read somewhere in its stream (CallReads), so the key an endpoint *)
(* holds can only be a beginning of what stands there.                     *)
(*                                                                         *)
(* For the frames each message is a stream of its own (HttpParserProofs'   *)
(* Place), which the loop leaves with its last byte: what the call was     *)
(* given behind it stays in the Buffer (UpgradeCall, HearsFurther).        *)
(***************************************************************************)
EXTENDS Handshake, HttpParserProofs

------------------------------------------------------------------------------
(* The turns that leave the headers alone.                                 *)

(* The headers are left alone, and no header line is being read then.      *)
Kept(h, t, g) ==
  /\ DOMAIN g.message = MessageFields
  /\ g.message.headers = h.message.headers
  /\ g.status \in {h.status, t}
  /\ g.message.status \in {h.message.status, h.status}

Away(g) == g.state \notin {"field", "value_ws", "value", "empty_value"} /\ g.mark.kind # "value"

KeptAway(h, t, g) == Kept(h, t, g) /\ (g.error = FALSE => Away(g))

Shape(h) == IsParser(h) /\ DOMAIN h.message = MessageFields

LEMMA CompletedKept ==
  ASSUME NEW h, NEW t, Shape(h), h.mark.kind # "value"
  PROVE  LET g == Complete(h) IN Shape(g) /\ KeptAway(h, t, g)
<1> DEFINE s == IF ShouldKeepAlive(h) THEN "start" ELSE "dead"
           e == Go(h, s)
           m == [e.message EXCEPT !.version = e.version,
                                  !.method = IF e.type = "request" THEN e.method ELSE @,
                                  !.status = IF e.type = "response" THEN e.status ELSE @]
           g == [[e EXCEPT !.complete = TRUE] EXCEPT !.message = m]
<1>1. /\ Shape(e) /\ e.message = h.message /\ e.status = h.status /\ e.mark = h.mark
      /\ e.state \in {"start", "dead"}
  BY DEF Go, Shape, IsParser, Fields, ParserState
<1>2. Complete(h) = g
  BY DEF Complete, OnMessageComplete
<1> HIDE DEF e
<1>3. /\ DOMAIN m = MessageFields /\ m.headers = h.message.headers
      /\ m.status \in {h.message.status, h.status}
  BY <1>1 DEF Shape, MessageFields
<1> HIDE DEF m
<1>4. Shape(g) /\ KeptAway(h, t, g)
  BY <1>1, <1>3 DEF Shape, IsParser, Fields, KeptAway, Kept, Away
<1> QED BY <1>2, <1>4

LEMMA FinishedKept ==
  ASSUME NEW h, NEW t, Shape(h), h.mark.kind # "value"
  PROVE  LET g == MessageDone(h) IN Shape(g) /\ KeptAway(h, t, g)
<1> DEFINE c == Complete(h)
<1>1. Shape(c) /\ KeptAway(h, t, c)
  BY CompletedKept
<1>2. MessageDone(h) = [c EXCEPT !.stop = h.upgrade]
  BY DEF MessageDone
<1> HIDE DEF c
<1> QED BY <1>1, <1>2 DEF Shape, IsParser, Fields, KeptAway, Kept, Away

LEMMA DeliveredKept ==
  ASSUME NEW h, NEW t, Shape(h), h.mark.kind # "value",
         h.state \notin {"field", "value_ws", "value", "empty_value"}
  PROVE  LET g == CallbackData(h) IN Shape(g) /\ KeptAway(h, t, g)
BY DEF CallbackData, OnUrl, OnHeaderField, OnHeaderValue, OnBody, Shape, IsParser, Fields,
       NoMark, MessageFields, KeptAway, Kept, Away

LEMMA HeadersDoneKept ==
  ASSUME NEW h, NEW t, Shape(h), h.mark.kind # "value", h.state = "field_start"
  PROVE  KeptAway(h, t, HeadersDone(h))
<1> DEFINE g == CountAgain(h)
<1>1. Shape(g) /\ g.mark = h.mark /\ g.message = h.message /\ g.status = h.status
      /\ g.state = "field_start"
  BY DEF CountAgain, Shape, IsParser, Fields
<1> HIDE DEF g
<1>2. KeptAway(h, t, MessageDone(g)) /\ KeptAway(h, t, Complete(g))
  <2>1. KeptAway(g, t, MessageDone(g)) /\ KeptAway(g, t, Complete(g))
    BY <1>1, FinishedKept, CompletedKept
  <2> QED BY <1>1, <2>1 DEF KeptAway, Kept
<1>3. \A s \in {"chunk_start", "body", "body_eof"} : KeptAway(h, t, Go(g, s))
  BY <1>1 DEF KeptAway, Kept, Away, Go, Shape, IsParser, Fields
<1>4. KeptAway(h, t, Fail(g))
  BY <1>1 DEF KeptAway, Kept, Away, Fail, Shape, IsParser, Fields
<1>5. HeadersDone(h) \in {MessageDone(g), Complete(g), Fail(g)}
                         \cup {Go(g, s) : s \in {"chunk_start", "body", "body_eof"}}
  BY DEF HeadersDone, g
<1> QED BY <1>2, <1>3, <1>4, <1>5

LEMMA HeadersAlmostDoneKept ==
  ASSUME NEW h, NEW t, Shape(h), h.mark.kind # "value", h.state = "field_start"
  PROVE  KeptAway(h, t, HeadersAlmostDone(h))
<1>1. KeptAway(h, t, MessageDone(h))
  BY FinishedKept
<1>2. KeptAway(h, t, Fail(h))
  BY DEF KeptAway, Kept, Away, Fail, Shape, IsParser, Fields
<1>3. ASSUME NEW u \in BOOLEAN
      PROVE  KeptAway(h, t, HeadersDone([h EXCEPT !.upgrade = u]))
  <2> DEFINE g == [h EXCEPT !.upgrade = u]
  <2>1. /\ Shape(g) /\ g.mark = h.mark /\ g.message = h.message /\ g.status = h.status
        /\ g.state = "field_start"
    BY DEF Shape, IsParser, Fields
  <2> HIDE DEF g
  <2>2. KeptAway(h, t, HeadersDone(g))
    BY <2>1, HeadersDoneKept DEF KeptAway, Kept
  <2> QED BY <2>2 DEF g
<1>4. \E u \in BOOLEAN : HeadersAlmostDone(h) \in
         {MessageDone(h), Fail(h), HeadersDone([h EXCEPT !.upgrade = u])}
  BY DEF HeadersAlmostDone
<1> QED BY <1>1, <1>2, <1>3, <1>4

LEMMA StartKept ==
  ASSUME NEW h, NEW t, Shape(h), h.mark.kind # "value", h.state = "start"
  PROVE  KeptAway(h, t, StartReq(h, t)) /\ KeptAway(h, t, StartRes(h, t))
BY DEF StartReq, StartRes, NewMessage, Fail, KeptAway, Kept, Away, Shape, IsParser, Fields

LEMMA DeadKept ==
  ASSUME NEW h, NEW t, Shape(h), h.mark.kind # "value", h.state = "dead"
  PROVE  KeptAway(h, t, Dead(h, t))
BY DEF Dead, Fail, KeptAway, Kept, Away, Shape, IsParser, Fields

LEMMA RequestLineKept ==
  ASSUME NEW h, NEW t, Shape(h), h.mark.kind # "value"
  PROVE  /\ h.state = "method" => KeptAway(h, t, ReqMethod(h, t))
         /\ h.state = "before_url" => KeptAway(h, t, ReqSpacesBeforeUrl(h, t))
         /\ h.state = "http" => KeptAway(h, t, ReqHttp(h, t))
         /\ h.state = "line_end" => KeptAway(h, t, ReqLineEnd(h, t))
<1>1. h.state = "method" => KeptAway(h, t, ReqMethod(h, t))
  BY DEF ReqMethod, Go, Fail, KeptAway, Kept, Away, Shape, IsParser, Fields
<1>2. h.state = "before_url" => KeptAway(h, t, ReqSpacesBeforeUrl(h, t))
  BY DEF ReqSpacesBeforeUrl, IsText, Marked, Go, Fail, KeptAway, Kept, Away, Shape, IsParser, Fields
<1>3. h.state = "http" => KeptAway(h, t, ReqHttp(h, t))
  BY DEF ReqHttp, Go, Fail, KeptAway, Kept, Away, Shape, IsParser, Fields, Version
<1>4. h.state = "line_end" => KeptAway(h, t, ReqLineEnd(h, t))
  BY DEF ReqLineEnd, Go, Fail, KeptAway, Kept, Away, Shape, IsParser, Fields
<1> QED BY <1>1, <1>2, <1>3, <1>4

LEMMA ReqUrlKept ==
  ASSUME NEW h, NEW t, Shape(h), h.mark.kind # "value", h.state = "url"
  PROVE  KeptAway(h, t, ReqUrl(h, t))
<1>1. CASE t = "sp"
  <2> DEFINE g == Go(h, "http")
  <2>1. /\ Shape(g) /\ g.mark = h.mark /\ g.message = h.message /\ g.status = h.status
        /\ g.state = "http"
    BY DEF Go, Shape, IsParser, Fields, ParserState
  <2>2. ReqUrl(h, t) = CallbackData(g)
    BY <1>1 DEF ReqUrl
  <2> HIDE DEF g
  <2> QED BY <2>1, <2>2, DeliveredKept DEF KeptAway, Kept
<1>2. CASE t = "crlf"
  <2> DEFINE g == [h EXCEPT !.version = "HTTP/0.9", !.state = "field_start"]
  <2>1. /\ Shape(g) /\ g.mark = h.mark /\ g.message = h.message /\ g.status = h.status
        /\ g.state = "field_start"
    BY DEF Shape, IsParser, Fields, ParserState
  <2>2. ReqUrl(h, t) = CallbackData(g)
    BY <1>2 DEF ReqUrl
  <2> HIDE DEF g
  <2> QED BY <2>1, <2>2, DeliveredKept DEF KeptAway, Kept
<1>3. CASE t \notin {"sp", "crlf"}
  BY <1>3 DEF ReqUrl, Marked, KeptAway, Kept, Away, Shape, IsParser, Fields
<1> QED BY <1>1, <1>2, <1>3

LEMMA StatusLineKept ==
  ASSUME NEW h, NEW t, Shape(h), h.mark.kind # "value"
  PROVE  /\ h.state = "res_http_end" => KeptAway(h, t, ResHttpEnd(h, t))
         /\ h.state = "status" => KeptAway(h, t, ResStatus(h, t))
         /\ h.state = "status_end" => KeptAway(h, t, ResStatusEnd(h, t))
         /\ h.state = "reason" => KeptAway(h, t, ResReason(h, t))
<1>1. h.state = "res_http_end" => KeptAway(h, t, ResHttpEnd(h, t))
  BY DEF ResHttpEnd, Go, Fail, KeptAway, Kept, Away, Shape, IsParser, Fields
<1>2. h.state = "status" => KeptAway(h, t, ResStatus(h, t))
  BY DEF ResStatus, Go, Fail, KeptAway, Kept, Away, Shape, IsParser, Fields, Status
<1>3. h.state = "status_end" => KeptAway(h, t, ResStatusEnd(h, t))
  BY DEF ResStatusEnd, Go, Fail, KeptAway, Kept, Away, Shape, IsParser, Fields
<1>4. h.state = "reason" => KeptAway(h, t, ResReason(h, t))
  BY DEF ResReason, Go, KeptAway, Kept, Away, Shape, IsParser, Fields
<1> QED BY <1>1, <1>2, <1>3, <1>4

LEMMA BodyKept ==
  ASSUME NEW h, NEW t, Shape(h), h.mark.kind # "value"
  PROVE  /\ h.state = "body" => KeptAway(h, t, BodyIdentity(h, t))
         /\ h.state = "body_eof" => KeptAway(h, t, BodyIdentityEof(h, t))
<1>1. ASSUME h.state = "body" PROVE KeptAway(h, t, BodyIdentity(h, t))
  <2> DEFINE g == [Marked(h, "body", t) EXCEPT !.length = @ - 1]
             c == CallbackData(g)
  <2>1. /\ Shape(g) /\ g.mark.kind = "body" /\ g.message = h.message /\ g.status = h.status
        /\ g.state = "body"
    BY <1>1 DEF Marked, Shape, IsParser, Fields
  <2>2. BodyIdentity(h, t) = IF g.length = 0 THEN MessageDone(c) ELSE g
    BY SMTT(30) DEF BodyIdentity
  <2> HIDE DEF g
  <2>3. Shape(c) /\ KeptAway(g, t, c) /\ c.mark.kind # "value"
        /\ c.message.status = g.message.status /\ c.status = g.status
    BY <2>1, DeliveredKept DEF CallbackData, OnBody, Shape, IsParser, Fields, NoMark, MessageFields
  <2> HIDE DEF c
  <2>4. KeptAway(c, t, MessageDone(c))
    BY <2>3, FinishedKept
  <2>5. KeptAway(h, t, g)
    BY <2>1 DEF KeptAway, Kept, Away, Shape
  <2> QED BY <2>1, <2>2, <2>3, <2>4, <2>5 DEF KeptAway, Kept
<1>2. h.state = "body_eof" => KeptAway(h, t, BodyIdentityEof(h, t))
  BY DEF BodyIdentityEof, Marked, KeptAway, Kept, Away, Shape, IsParser, Fields
<1> QED BY <1>1, <1>2

LEMMA ChunkKept ==
  ASSUME NEW h, NEW t, Shape(h), h.mark.kind # "value"
  PROVE  /\ h.state = "chunk_start" => KeptAway(h, t, ChunkSizeStart(h, t))
         /\ h.state = "chunk_size" => KeptAway(h, t, ChunkSize(h, t))
         /\ h.state = "chunk_data" => KeptAway(h, t, ChunkData(h, t))
         /\ h.state = "chunk_end" => KeptAway(h, t, ChunkDataAlmostDone(h, t))
<1>1. h.state = "chunk_start" => KeptAway(h, t, ChunkSizeStart(h, t))
  BY DEF ChunkSizeStart, Fail, KeptAway, Kept, Away, Shape, IsParser, Fields
<1>2. h.state = "chunk_size" => KeptAway(h, t, ChunkSize(h, t))
  BY DEF ChunkSize, CountAgain, Digit, Go, Fail, KeptAway, Kept, Away, Shape, IsParser, Fields
<1>3. h.state = "chunk_data" => KeptAway(h, t, ChunkData(h, t))
  BY DEF ChunkData, Marked, KeptAway, Kept, Away, Shape, IsParser, Fields
<1>4. ASSUME h.state = "chunk_end" PROVE KeptAway(h, t, ChunkDataAlmostDone(h, t))
  <2>1. CASE t = "crlf"
    <3> DEFINE g == Go(CountAgain(h), "chunk_start")
    <3>1. /\ Shape(g) /\ g.mark = h.mark /\ g.message = h.message /\ g.status = h.status
          /\ g.state = "chunk_start"
      BY DEF Go, CountAgain, Shape, IsParser, Fields, ParserState
    <3>2. ChunkDataAlmostDone(h, t) = CallbackData(g)
      BY <2>1 DEF ChunkDataAlmostDone
    <3> HIDE DEF g
    <3>3. Shape(CallbackData(g)) /\ KeptAway(g, t, CallbackData(g))
      BY <3>1, DeliveredKept
    <3>4. KeptAway(h, t, CallbackData(g))
      BY ONLY <3>1, <3>3 DEF KeptAway, Kept
    <3> QED BY <3>2, <3>4
  <2>2. CASE t # "crlf"
    BY <1>4, <2>2 DEF ChunkDataAlmostDone, Fail, KeptAway, Kept, Away, Shape, IsParser, Fields
  <2> QED BY <2>1, <2>2
<1> QED BY <1>1, <1>2, <1>3, <1>4

------------------------------------------------------------------------------
(* What the parser has read, by the places in a byte sequence w: the first *)
(* c bytes of it have been given to the parser.                            *)

(* The name ends before the ":" at place p.                                *)
NameBefore(w, p, name) ==
  /\ name \in Seq(Piece) /\ Len(name) < p
  /\ w[p] = ":"
  /\ \A i \in 1..Len(name) : name[i] = w[p - Len(name) - 1 + i]

(* Nothing but white space stands between the places p and q.              *)
Blank(w, p, q) == \A r \in p + 1 .. q - 1 : w[r] \in {"sp", "crlf"}

(* The value v begins at place q, on one line.                             *)
ValueAt(w, q, v) ==
  /\ v \in Seq(Piece)
  /\ \A i \in 1..Len(v) : v[i] = w[q - 1 + i] /\ v[i] # "crlf"

(* In the first c bytes a header line has an end of its name and the       *)
(* beginning of its value so.                                              *)
HeaderLine(w, c, name, v) ==
  \E p, q \in 1..c :
    /\ p < q /\ q - 1 + Len(v) <= c
    /\ NameBefore(w, p, name) /\ Blank(w, p, q)
    /\ ValueAt(w, q, v) /\ w[q] # "sp"

(* All that the parser and the message hold of w.                          *)
Seen(w, c) == {"unset"} \cup {w[i] : i \in 1..c}

Entries(h, w, c) ==
  /\ DOMAIN h.message = MessageFields
  /\ h.status \in Seen(w, c) /\ h.message.status \in Seen(w, c)
  /\ \A name \in DOMAIN h.message.headers :
       h.message.headers[name] = <<>> \/ HeaderLine(w, c, name, h.message.headers[name])

(* A pending name has just ended, with white space behind it.              *)
NamePending(h, w, c) ==
  h.state \in {"value_ws", "empty_value"} /\ h.headFieldTemp # <<>> =>
    \E p \in 1..c : NameBefore(w, p, h.headFieldTemp[1]) /\ Blank(w, p, c + 1)

(* The name that is being read, and the value if a name is pending.        *)
NameMarked(h, w, c) ==
  h.state = "field" =>
    /\ h.mark.kind = "field" /\ h.mark.text \in Seq(Piece) /\ Len(h.mark.text) <= c
    /\ \A i \in 1..Len(h.mark.text) : h.mark.text[i] = w[c - Len(h.mark.text) + i]

ValueMarked(h, w, c) ==
  /\ h.mark.kind = "value" => h.state = "value"
  /\ h.state = "value" /\ h.headFieldTemp # <<>> =>
       \E p, q \in 1..c :
         /\ p < q /\ q - 1 + Len(h.mark.text) = c
         /\ NameBefore(w, p, h.headFieldTemp[1]) /\ Blank(w, p, q)
         /\ ValueAt(w, q, h.mark.text) /\ w[q] # "sp"

Marks(h, w, c) == NamePending(h, w, c) /\ NameMarked(h, w, c) /\ ValueMarked(h, w, c)

(* What every turn keeps: the headers and the status come from the first e *)
(* bytes, and unless the parser has failed the marks are those of the      *)
(* first c.                                                                *)
Reading(h, w, c, e) == Entries(h, w, e) /\ (h.error = FALSE => Marks(h, w, c))

LEMMA AwayReads ==
  ASSUME NEW w, NEW e \in Nat, NEW c \in Nat, c + 1 <= e,
         NEW h, NEW g, Entries(h, w, e), KeptAway(h, w[c + 1], g)
  PROVE  Reading(g, w, c + 1, e)
<1>1. w[c + 1] \in Seen(w, e)
  BY DEF Seen
<1>2. Entries(g, w, e)
  BY <1>1 DEF Entries, KeptAway, Kept
<1> QED BY <1>2 DEF KeptAway, Away, Reading, Marks, NamePending, NameMarked, ValueMarked

LEMMA HeaderFieldStartReads ==
  ASSUME NEW w \in Seq(Piece), NEW e \in Nat, NEW c \in Nat, c + 1 <= e, e <= Len(w),
         NEW h, Shape(h), Entries(h, w, e), h.mark.kind \notin {"field", "value"},
         h.state = "field_start"
  PROVE  Reading(HeaderFieldStart(h, w[c + 1]), w, c + 1, e)
<1> DEFINE t == w[c + 1]
           g == [Marked(h, "field", t) EXCEPT !.name = <<t>>, !.value = <<>>, !.state = "field"]
<1>1. CASE t = "crlf"
  <2>1. HeaderFieldStart(h, t) = HeadersAlmostDone(h)
    BY <1>1 DEF HeaderFieldStart, IsText
  <2>2. KeptAway(h, t, HeadersAlmostDone(h))
    BY HeadersAlmostDoneKept
  <2> QED BY <2>1, <2>2, AwayReads
<1>2. CASE t # "crlf" /\ IsText(t)
  <2>1. HeaderFieldStart(h, t) = g
    BY <1>2 DEF HeaderFieldStart
  <2>2. t \in Piece
    <3>1. Len(w) \in Nat /\ c + 1 \in 1..Len(w)
      BY LenProperties
    <3> QED BY <3>1, ElementOfSeq
  <2>3. /\ g.mark.kind = "field" /\ g.mark.text = <<t>> /\ g.state = "field"
        /\ g.message = h.message /\ g.status = h.status
    <3> DEFINE m == Marked(h, "field", t)
    <3>1. m.mark = [kind |-> "field", text |-> Append(<<>>, t)] /\ DOMAIN m = Fields
          /\ m.message = h.message /\ m.status = h.status
      BY DEF Marked, Shape, IsParser, Fields
    <3> HIDE DEF m
    <3>2. g.mark = m.mark /\ g.message = m.message /\ g.status = m.status /\ g.state = "field"
      BY <3>1 DEF Fields, m
    <3>3. Append(<<>>, t) = <<t>>
      OBVIOUS
    <3> QED BY <3>1, <3>2, <3>3
  <2> HIDE DEF g
  <2>4. Entries(g, w, e)
    BY <2>3 DEF Entries
  <2>5. Marks(g, w, c + 1)
    <3>1. <<t>> \in Seq(Piece) /\ Len(<<t>>) = 1 /\ <<t>>[1] = t
      BY <2>2
    <3>2. NameMarked(g, w, c + 1)
      <4> DEFINE x == <<t>>
      <4>1. x \in Seq(Piece) /\ Len(x) = 1 /\ x[1] = w[c + 1]
        BY <3>1
      <4>2. g.mark.text = x
        BY <2>3
      <4> HIDE DEF x
      <4>3. \A i \in 1..1 : x[i] = w[(c + 1) - 1 + i]
        BY <4>1
      <4> QED BY <2>3, <4>1, <4>2, <4>3 DEF NameMarked
    <3> QED BY <2>3, <3>2 DEF Marks, NamePending, ValueMarked
  <2> QED BY <2>1, <2>4, <2>5 DEF Reading
<1>3. CASE t # "crlf" /\ ~IsText(t)
  <2>1. HeaderFieldStart(h, t) = Fail(h)
    BY <1>3 DEF HeaderFieldStart
  <2>2. KeptAway(h, t, Fail(h))
    BY DEF KeptAway, Kept, Away, Fail, Shape, IsParser, Fields
  <2> QED BY <2>1, <2>2, AwayReads
<1> QED BY <1>1, <1>2, <1>3

LEMMA HeaderFieldReads ==
  ASSUME NEW w \in Seq(Piece), NEW e \in Nat, NEW c \in Nat, c + 1 <= e, e <= Len(w),
         NEW h, Shape(h), Entries(h, w, e), Marks(h, w, c), h.state = "field"
  PROVE  Reading(HeaderField(h, w[c + 1]), w, c + 1, e)
<1> DEFINE t == w[c + 1]
           x == h.mark.text
<1>1. h.mark.kind = "field" /\ x \in Seq(Piece) /\ Len(x) <= c /\ Len(x) \in Nat
      /\ \A i \in 1..Len(x) : x[i] = w[c - Len(x) + i]
  BY LenProperties DEF Marks, NameMarked
<1>2. t \in Piece
  <2>1. Len(w) \in Nat /\ c + 1 \in 1..Len(w)
    BY LenProperties
  <2> QED BY <2>1, ElementOfSeq
<1>3. CASE IsText(t)
  <2> DEFINE n == Append(h.name, t)
             g == [Marked(h, "field", t) EXCEPT !.name = n]
             y == Append(x, t)
  <2>1. HeaderField(h, t) = g
    <3>1. HeaderField(h, t) = [Marked(h, "field", t) EXCEPT !.name = Append(@, t)]
      BY <1>3 DEF HeaderField, IsText
    <3>2. Marked(h, "field", t).name = h.name
      BY DEF Marked, Shape, IsParser, Fields
    <3> QED BY <3>1, <3>2
  <2> HIDE DEF n
  <2>2. /\ g.mark.kind = "field" /\ g.mark.text = y /\ g.state = "field"
        /\ g.message = h.message /\ g.status = h.status
    BY <1>1 DEF Marked, Shape, IsParser, Fields
  <2> HIDE DEF g
  <2>3. y \in Seq(Piece) /\ Len(y) = Len(x) + 1 /\ y[Len(x) + 1] = t
        /\ \A i \in 1..Len(x) : y[i] = x[i]
    BY <1>1, <1>2, AppendProperties
  <2> HIDE DEF y, x
  <2>9. Len(x) \in Nat /\ Len(y) = Len(x) + 1 /\ Len(x) <= c
    BY <1>1, <2>3
  <2>4. Entries(g, w, e)
    BY <2>2 DEF Entries
  <2>5. ASSUME NEW i \in 1..Len(y) PROVE y[i] = w[(c + 1) - Len(y) + i]
    <3>1. CASE i \in 1..Len(x)
      <4>1. (c + 1) - Len(y) + i = c - Len(x) + i
        BY <1>1, <2>3
      <4> QED BY <1>1, <2>3, <3>1, <4>1
    <3>2. CASE i = Len(x) + 1
      <4>1. (c + 1) - Len(y) + i = c + 1
        BY <2>9, <3>2
      <4> QED BY <2>3, <3>2, <4>1
    <3>3. i \in 1..Len(x) \/ i = Len(x) + 1
      BY <2>9
    <3> QED BY <3>1, <3>2, <3>3
  <2>6. NameMarked(g, w, c + 1)
    BY <2>2, <2>3, <2>9, <2>5 DEF NameMarked
  <2>7. Marks(g, w, c + 1)
    BY <2>2, <2>6 DEF Marks, NamePending, ValueMarked
  <2> QED BY <2>1, <2>4, <2>7 DEF Reading
<1>4. CASE ~IsText(t) /\ t = ":" /\ ~Overflow(h)
  <2> DEFINE fl == h.flags \cup IF h.name = TransferEncoding THEN {"te"} ELSE {}
             g == [h EXCEPT !.state = "value_ws", !.flags = fl]
             d == CallbackData(g)
  <2>1. HeaderField(h, t) = d
    BY <1>4, Zenon DEF HeaderField
  <2>2. /\ DOMAIN g = Fields /\ g.mark = h.mark /\ g.state = "value_ws"
        /\ g.message = h.message /\ g.status = h.status
    BY DEF Shape, IsParser, Fields
  <2> HIDE DEF g
  <2>3. d = [[g EXCEPT !.mark = NoMark] EXCEPT !.headFieldTemp = <<x>>]
    BY <1>1, <2>2 DEF CallbackData, OnHeaderField
  <2> HIDE DEF d
  <2>4. /\ d.mark = NoMark /\ d.headFieldTemp = <<x>> /\ d.state = "value_ws"
        /\ d.message = h.message /\ d.status = h.status
    BY <2>2, <2>3 DEF Fields
  <2>5. NameBefore(w, c + 1, x)
    <3>1. ASSUME NEW i \in 1..Len(x) PROVE x[i] = w[(c + 1) - Len(x) - 1 + i]
      <4>1. (c + 1) - Len(x) - 1 + i = c - Len(x) + i
        BY <1>1
      <4> QED BY <1>1, <4>1
    <3> HIDE DEF x
    <3>2. Len(x) < c + 1 /\ w[c + 1] = ":"
      BY <1>1, <1>4
    <3> QED BY <1>1, <3>1, <3>2 DEF NameBefore
  <2>6. Blank(w, c + 1, (c + 1) + 1) /\ c + 1 \in 1..(c + 1)
    BY DEF Blank
  <2> HIDE DEF x
  <2>7. <<x>>[1] = x
    OBVIOUS
  <2>8. NamePending(d, w, c + 1)
    BY <2>4, <2>5, <2>6, <2>7 DEF NamePending
  <2>9. Marks(d, w, c + 1)
    BY <2>4, <2>8 DEF Marks, NameMarked, ValueMarked, NoMark
  <2>10. Entries(d, w, e)
    BY <2>4 DEF Entries
  <2> QED BY <2>1, <2>9, <2>10 DEF Reading
<1>5. CASE ~IsText(t) /\ ~(t = ":" /\ ~Overflow(h))
  <2>1. HeaderField(h, t) = Fail(h)
    BY <1>5 DEF HeaderField
  <2>2. KeptAway(h, t, Fail(h))
    BY DEF KeptAway, Kept, Away, Fail, Shape, IsParser, Fields
  <2> QED BY <2>1, <2>2, AwayReads
<1> QED BY <1>3, <1>4, <1>5

(* White space behind a name.                                              *)
LEMMA BlankOn ==
  ASSUME NEW w, NEW c \in Nat, NEW p \in 1..c, Blank(w, p, c + 1), w[c + 1] \in {"sp", "crlf"}
  PROVE  Blank(w, p, (c + 1) + 1)
<1> SUFFICES ASSUME NEW r \in p + 1 .. (c + 1) + 1 - 1 PROVE w[r] \in {"sp", "crlf"}
  BY DEF Blank
<1>1. r = c + 1 \/ r \in p + 1 .. c + 1 - 1
  OBVIOUS
<1> QED BY <1>1 DEF Blank

(* A piece of a value, the first or a later one.                           *)
LEMMA ValuePieceReads ==
  ASSUME NEW w \in Seq(Piece), NEW e \in Nat, NEW c \in Nat, c + 1 <= e, e <= Len(w),
         NEW h, Shape(h), Entries(h, w, e), Marks(h, w, c), w[c + 1] # "crlf",
         \/ h.state = "value_ws" /\ w[c + 1] # "sp"
         \/ h.state = "value" /\ h.mark.kind = "value"
  PROVE  Reading(ValuePiece(h, w[c + 1]), w, c + 1, e)
<1> DEFINE t == w[c + 1]
           g == CASE h.name = ContentLength -> LengthPiece(h, t)
                  [] h.name = Upgrade       -> [h EXCEPT !.flags = @ \cup {"upgrade"}]
                  [] OTHER                  -> h
           Same(u) == /\ DOMAIN u = Fields /\ u.mark = h.mark /\ u.message = h.message
                      /\ u.status = h.status /\ u.headFieldTemp = h.headFieldTemp
           y == Append(IF h.mark.kind = "value" THEN h.mark.text ELSE <<>>, t)
           v == Append(g.value, t)
           d == [Marked(g, "value", t) EXCEPT !.value = v, !.state = "value"]
<1>1. Same(LengthPiece(h, t))
  BY DEF LengthPiece, Fail, Shape, IsParser, Fields
<1>2. Same([h EXCEPT !.flags = @ \cup {"upgrade"}])
  BY DEF Shape, IsParser, Fields
<1>3. Same(h)
  BY DEF Shape, IsParser
<1> HIDE DEF Same
<1>4. Same(g)
  BY <1>1, <1>2, <1>3
<1>5. ValuePiece(h, t) = d
  <2>1. Marked(g, "value", t).value = g.value
    BY <1>4 DEF Same, Marked, Fields
  <2> QED BY <2>1 DEF ValuePiece
<1> HIDE DEF g, v
<1>6. /\ d.mark.kind = "value" /\ d.mark.text = y /\ d.state = "value"
      /\ d.message = h.message /\ d.status = h.status /\ d.headFieldTemp = h.headFieldTemp
  BY <1>4 DEF Same, Marked, Fields
<1> HIDE DEF d
<1>7. t \in Piece
  <2>1. Len(w) \in Nat /\ c + 1 \in 1..Len(w)
    BY LenProperties
  <2> QED BY <2>1, ElementOfSeq
<1>8. ASSUME h.headFieldTemp # <<>>
      PROVE  \E p, q \in 1..(c + 1) :
               /\ p < q /\ q - 1 + Len(y) = c + 1
               /\ NameBefore(w, p, h.headFieldTemp[1]) /\ Blank(w, p, q)
               /\ ValueAt(w, q, y) /\ w[q] # "sp"
  <2>1. CASE h.state = "value_ws" /\ w[c + 1] # "sp"
    <3>1. PICK p \in 1..c : NameBefore(w, p, h.headFieldTemp[1]) /\ Blank(w, p, c + 1)
      BY <1>8, <2>1 DEF Marks, NamePending
    <3>2. h.mark.kind # "value"
      BY <2>1 DEF Marks, ValueMarked
    <3>3. y = <<t>>
      BY <3>2
    <3> HIDE DEF y
    <3>4. y \in Seq(Piece) /\ Len(y) = 1 /\ y[1] = w[c + 1]
      BY <1>7, <3>3
    <3>5. ValueAt(w, c + 1, y)
      <4>1. \A i \in 1..Len(y) : y[i] = w[(c + 1) - 1 + i] /\ y[i] # "crlf"
        BY <3>4
      <4> QED BY <3>4, <4>1 DEF ValueAt
    <3>6. p \in 1..(c + 1) /\ c + 1 \in 1..(c + 1) /\ p < c + 1 /\ (c + 1) - 1 + Len(y) = c + 1
      BY <3>4
    <3> QED BY <2>1, <3>1, <3>5, <3>6
  <2>2. CASE h.state = "value" /\ h.mark.kind = "value"
    <3> DEFINE x == h.mark.text
    <3>1. PICK p \in 1..c, q \in 1..c :
            /\ p < q /\ q - 1 + Len(x) = c
            /\ NameBefore(w, p, h.headFieldTemp[1]) /\ Blank(w, p, q)
            /\ ValueAt(w, q, x) /\ w[q] # "sp"
      BY <1>8, <2>2 DEF Marks, ValueMarked
    <3>2. y = Append(x, t)
      BY <2>2
    <3> HIDE DEF x, y
    <3>3. x \in Seq(Piece) /\ Len(x) \in Nat
          /\ \A i \in 1..Len(x) : x[i] = w[q - 1 + i] /\ x[i] # "crlf"
      BY <3>1, LenProperties DEF ValueAt
    <3>4. y \in Seq(Piece) /\ Len(y) = Len(x) + 1 /\ y[Len(x) + 1] = t
          /\ \A i \in 1..Len(x) : y[i] = x[i]
      BY <1>7, <3>2, <3>3, AppendProperties
    <3>8. Len(x) \in Nat /\ Len(y) = Len(x) + 1 /\ q - 1 + Len(x) = c /\ p < q
      BY <3>1, <3>3, <3>4
    <3>5. ASSUME NEW i \in 1..Len(y) PROVE y[i] = w[q - 1 + i] /\ y[i] # "crlf"
      <4>1. CASE i \in 1..Len(x)
        BY <3>3, <3>4, <4>1
      <4>2. CASE i = Len(x) + 1
        <5>1. q - 1 + i = c + 1
          BY <3>8, <4>2
        <5> QED BY <3>4, <4>2, <5>1
      <4> QED BY <3>3, <3>4, <4>1, <4>2
    <3>6. ValueAt(w, q, y)
      BY <3>4, <3>5 DEF ValueAt
    <3>7. p \in 1..(c + 1) /\ q \in 1..(c + 1) /\ q - 1 + Len(y) = c + 1
      BY <3>8
    <3> QED BY <3>1, <3>6, <3>7
  <2> QED BY <2>1, <2>2
<1> HIDE DEF y
<1>9. ValueMarked(d, w, c + 1)
  BY <1>6, <1>8 DEF ValueMarked
<1>10. Marks(d, w, c + 1) /\ Entries(d, w, e)
  BY <1>6, <1>9 DEF Marks, NamePending, NameMarked, Entries
<1> QED BY <1>5, <1>10 DEF Reading

LEMMA HeaderValueStartReads ==
  ASSUME NEW w \in Seq(Piece), NEW e \in Nat, NEW c \in Nat, c + 1 <= e, e <= Len(w),
         NEW h, Shape(h), Entries(h, w, e), Marks(h, w, c), h.state = "value_ws"
  PROVE  Reading(HeaderValueStart(h, w[c + 1]), w, c + 1, e)
<1> DEFINE t == w[c + 1]
<1>1. CASE t \in {"sp", "crlf"}
  <2> DEFINE g == HeaderValueStart(h, t)
  <2>1. /\ g.mark = h.mark /\ g.state \in {"value_ws", "empty_value"}
        /\ g.message = h.message /\ g.status = h.status /\ g.headFieldTemp = h.headFieldTemp
    BY <1>1 DEF HeaderValueStart, Go, Shape, IsParser, Fields
  <2> HIDE DEF g
  <2>2. NamePending(g, w, c + 1)
    <3> SUFFICES ASSUME h.headFieldTemp # <<>>
                 PROVE  \E p \in 1..(c + 1) :
                          NameBefore(w, p, h.headFieldTemp[1]) /\ Blank(w, p, (c + 1) + 1)
      BY <2>1 DEF NamePending
    <3>1. PICK p \in 1..c : NameBefore(w, p, h.headFieldTemp[1]) /\ Blank(w, p, c + 1)
      BY DEF Marks, NamePending
    <3>2. Blank(w, p, (c + 1) + 1) /\ p \in 1..(c + 1)
      BY <1>1, <3>1, BlankOn
    <3> QED BY <3>1, <3>2
  <2>3. Marks(g, w, c + 1) /\ Entries(g, w, e)
    BY <2>1, <2>2 DEF Marks, NameMarked, ValueMarked, Entries
  <2> QED BY <2>3 DEF Reading, g
<1>2. CASE t \notin {"sp", "crlf"}
  <2>1. HeaderValueStart(h, t) = ValuePiece(h, t)
    BY <1>2 DEF HeaderValueStart
  <2> QED BY <1>2, <2>1, ValuePieceReads
<1> QED BY <1>1, <1>2

(* A header is stored, under the name that is pending.                     *)
LEMMA HeaderStored ==
  ASSUME NEW w, NEW e \in Nat, NEW h, Shape(h), Entries(h, w, e), NEW x,
         h.headFieldTemp # <<>> => x = <<>> \/ HeaderLine(w, e, h.headFieldTemp[1], x)
  PROVE  LET g == OnHeaderValue(h, x)
         IN  Shape(g) /\ Entries(g, w, e) /\ g.mark = h.mark /\ g.state = h.state
               /\ g.error = h.error
<1> DEFINE g == OnHeaderValue(h, x)
<1>1. CASE h.headFieldTemp = <<>>
  BY <1>1 DEF OnHeaderValue
<1>2. CASE h.headFieldTemp # <<>>
  <2> DEFINE name == h.headFieldTemp[1]
             hs == WithHeader(h.message.headers, name, x)
             m == [h.message EXCEPT !.headers = hs]
  <2>1. g = [h EXCEPT !.message = m, !.headFieldTemp = <<>>]
    BY <1>2 DEF OnHeaderValue
  <2>2. /\ DOMAIN hs = DOMAIN h.message.headers \cup {name}
        /\ \A k \in DOMAIN hs : hs[k] = IF k = name THEN x ELSE h.message.headers[k]
    BY DEF WithHeader
  <2> HIDE DEF hs
  <2>3. DOMAIN m = MessageFields /\ m.headers = hs /\ m.status = h.message.status
    BY DEF Shape, MessageFields
  <2> HIDE DEF m
  <2> HIDE DEF g
  <2>4. /\ Shape(g) /\ g.message = m /\ g.status = h.status /\ g.mark = h.mark
        /\ g.state = h.state /\ g.error = h.error
    BY <2>1, <2>3 DEF Shape, IsParser, Fields
  <2>5. ASSUME NEW k \in DOMAIN hs
        PROVE  hs[k] = <<>> \/ HeaderLine(w, e, k, hs[k])
    <3>1. CASE k = name
      BY <1>2, <2>2, <3>1
    <3>2. CASE k # name
      BY <2>2, <3>2 DEF Entries
    <3> QED BY <3>1, <3>2
  <2>6. Entries(g, w, e)
    BY <2>3, <2>4, <2>5 DEF Entries
  <2> QED BY <2>4, <2>6 DEF g
<1> QED BY <1>1, <1>2

(* The value that was marked goes to its callback.                         *)
LEMMA ValueStored ==
  ASSUME NEW w, NEW e \in Nat, NEW c \in Nat, c <= e,
         NEW h, Shape(h), Entries(h, w, e), h.mark.kind = "value",
         h.headFieldTemp # <<>> =>
           \E p, q \in 1..c :
             /\ p < q /\ q - 1 + Len(h.mark.text) = c
             /\ NameBefore(w, p, h.headFieldTemp[1]) /\ Blank(w, p, q)
             /\ ValueAt(w, q, h.mark.text) /\ w[q] # "sp"
  PROVE  LET g == CallbackData(h)
         IN  Shape(g) /\ Entries(g, w, e) /\ g.mark = NoMark /\ g.state = h.state
               /\ g.error = h.error
<1> DEFINE u == [h EXCEPT !.mark = NoMark]
           x == h.mark.text
<1>1. CallbackData(h) = OnHeaderValue(u, x)
  BY DEF CallbackData
<1>2. /\ Shape(u) /\ u.message = h.message /\ u.status = h.status /\ u.mark = NoMark
      /\ u.state = h.state /\ u.error = h.error /\ u.headFieldTemp = h.headFieldTemp
  BY DEF Shape, IsParser, Fields
<1> HIDE DEF u
<1>3. Entries(u, w, e)
  BY <1>2 DEF Entries
<1>4. ASSUME h.headFieldTemp # <<>>
      PROVE  HeaderLine(w, e, h.headFieldTemp[1], x)
  <2>1. PICK p \in 1..c, q \in 1..c :
             /\ p < q /\ q - 1 + Len(x) = c
             /\ NameBefore(w, p, h.headFieldTemp[1]) /\ Blank(w, p, q)
             /\ ValueAt(w, q, x) /\ w[q] # "sp"
    BY <1>4
  <2> HIDE DEF x
  <2>2. p \in 1..e /\ q \in 1..e /\ q - 1 + Len(x) <= e
    BY <2>1
  <2> QED BY <2>1, <2>2 DEF HeaderLine
<1> HIDE DEF x
<1>5. u.headFieldTemp # <<>> => x = <<>> \/ HeaderLine(w, e, u.headFieldTemp[1], x)
  BY <1>2, <1>4
<1> DEFINE d == OnHeaderValue(u, x)
<1>6. CallbackData(h) = d
  BY <1>1
<1>7. Shape(u) /\ d = OnHeaderValue(u, x)
  BY <1>2
<1> HIDE DEF d
<1>8. Shape(d) /\ Entries(d, w, e) /\ d.mark = u.mark /\ d.state = u.state /\ d.error = u.error
  BY <1>3, <1>5, <1>7, HeaderStored
<1> QED BY <1>2, <1>6, <1>8

LEMMA HeaderValueReads ==
  ASSUME NEW w \in Seq(Piece), NEW e \in Nat, NEW c \in Nat, c + 1 <= e, e <= Len(w),
         NEW h, Shape(h), Entries(h, w, e), Marks(h, w, c), h.state = "value",
         h.mark.kind = "value"
  PROVE  Reading(HeaderValue(h, w[c + 1]), w, c + 1, e)
<1> DEFINE t == w[c + 1]
           g == Go(h, "value_lws")
           d == CallbackData(g)
<1>1. CASE t # "crlf"
  <2>1. HeaderValue(h, t) = ValuePiece(h, t)
    BY <1>1 DEF HeaderValue
  <2> QED BY <1>1, <2>1, ValuePieceReads
<1>2. CASE t = "crlf"
  <2>1. /\ Shape(g) /\ g.mark = h.mark /\ g.message = h.message /\ g.status = h.status
        /\ g.headFieldTemp = h.headFieldTemp /\ g.state = "value_lws"
    BY DEF Go, Shape, IsParser, Fields, ParserState
  <2> HIDE DEF g
  <2>2. Entries(g, w, e)
    BY <2>1 DEF Entries
  <2>3. g.headFieldTemp # <<>> =>
           \E p, q \in 1..c :
             /\ p < q /\ q - 1 + Len(g.mark.text) = c
             /\ NameBefore(w, p, g.headFieldTemp[1]) /\ Blank(w, p, q)
             /\ ValueAt(w, q, g.mark.text) /\ w[q] # "sp"
    BY <2>1 DEF Marks, ValueMarked
  <2>4. c <= e /\ g.mark.kind = "value"
    BY <2>1
  <2>5. Shape(d) /\ Entries(d, w, e) /\ d.mark = NoMark /\ d.state = "value_lws"
    BY <2>1, <2>2, <2>3, <2>4, ValueStored, ZenonT(40)
  <2> HIDE DEF d
  <2>6. Reading(d, w, c + 1, e)
    BY <2>5 DEF Reading, Marks, NamePending, NameMarked, ValueMarked, NoMark
  <2>7. Reading(Fail(d), w, c + 1, e)
    <3>1. Fail(d).message = d.message /\ Fail(d).status = d.status /\ Fail(d).error = TRUE
      BY <2>5 DEF Fail, Shape, IsParser, Fields
    <3> QED BY <2>5, <3>1 DEF Reading, Entries
  <2>8. HeaderValue(h, t) \in {d, Fail(d)}
    BY <1>2 DEF HeaderValue, d, g
  <2> QED BY <2>6, <2>7, <2>8
<1> QED BY <1>1, <1>2

LEMMA HeaderValueLwsReads ==
  ASSUME NEW w \in Seq(Piece), NEW e \in Nat, NEW c \in Nat, c + 1 <= e, e <= Len(w),
         NEW h, Shape(h), Entries(h, w, e), h.mark.kind \notin {"field", "value"},
         h.state = "value_lws"
  PROVE  Reading(HeaderValueLws(h, w[c + 1]), w, c + 1, e)
<1> DEFINE fl == h.flags \cup HeaderFlags(h)
           g == [h EXCEPT !.flags = fl, !.state = "field_start"]
<1>1. HeaderValueLws(h, w[c + 1]) = HeaderFieldStart(g, w[c + 1])
  BY DEF HeaderValueLws
<1>2. /\ Shape(g) /\ g.mark = h.mark /\ g.message = h.message /\ g.status = h.status
      /\ g.state = "field_start"
  BY DEF Shape, IsParser, Fields, ParserState
<1> HIDE DEF g
<1>3. Entries(g, w, e)
  BY <1>2 DEF Entries
<1> QED BY <1>1, <1>2, <1>3, HeaderFieldStartReads

LEMMA HeaderValueDiscardLwsReads ==
  ASSUME NEW w \in Seq(Piece), NEW e \in Nat, NEW c \in Nat, c + 1 <= e, e <= Len(w),
         NEW h, Shape(h), Entries(h, w, e), Marks(h, w, c), h.mark.kind \notin {"field", "value"},
         h.state = "empty_value"
  PROVE  Reading(HeaderValueDiscardLws(h, w[c + 1]), w, c + 1, e)
<1> DEFINE t == w[c + 1]
           u == OnHeaderValue(h, <<>>)
           g == Go(u, "field_start")
<1>1. CASE t = "sp"
  <2> DEFINE d == Go(h, "value_ws")
  <2>1. HeaderValueDiscardLws(h, t) = d
    BY <1>1 DEF HeaderValueDiscardLws
  <2>2. /\ d.mark = h.mark /\ d.state = "value_ws"
        /\ d.message = h.message /\ d.status = h.status /\ d.headFieldTemp = h.headFieldTemp
    BY DEF Go, Shape, IsParser, Fields
  <2> HIDE DEF d
  <2>3. NamePending(d, w, c + 1)
    <3> SUFFICES ASSUME h.headFieldTemp # <<>>
                 PROVE  \E p \in 1..(c + 1) :
                          NameBefore(w, p, h.headFieldTemp[1]) /\ Blank(w, p, (c + 1) + 1)
      BY <2>2 DEF NamePending
    <3>1. PICK p \in 1..c : NameBefore(w, p, h.headFieldTemp[1]) /\ Blank(w, p, c + 1)
      BY DEF Marks, NamePending
    <3>2. Blank(w, p, (c + 1) + 1) /\ p \in 1..(c + 1)
      BY <1>1, <3>1, BlankOn
    <3> QED BY <3>1, <3>2
  <2>4. Marks(d, w, c + 1) /\ Entries(d, w, e)
    BY <2>2, <2>3 DEF Marks, NameMarked, ValueMarked, Entries
  <2> QED BY <2>1, <2>4 DEF Reading
<1>2. CASE t # "sp" /\ h.name = ContentLength
  <2>1. HeaderValueDiscardLws(h, t) = Fail(h)
    BY <1>2 DEF HeaderValueDiscardLws
  <2>2. KeptAway(h, t, Fail(h))
    BY DEF KeptAway, Kept, Away, Fail, Shape, IsParser, Fields
  <2> QED BY <2>1, <2>2, AwayReads
<1>3. CASE t # "sp" /\ h.name # ContentLength
  <2>1. HeaderValueDiscardLws(h, t) = HeaderFieldStart(g, t)
    BY <1>3 DEF HeaderValueDiscardLws
  <2>2. Shape(u) /\ Entries(u, w, e) /\ u.mark = h.mark
    <3> DEFINE x == <<>>
    <3>1. h.headFieldTemp # <<>> => x = <<>> \/ HeaderLine(w, e, h.headFieldTemp[1], x)
      OBVIOUS
    <3>2. u = OnHeaderValue(h, x)
      OBVIOUS
    <3> HIDE DEF x, u
    <3>3. Shape(h) /\ Entries(h, w, e)
      OBVIOUS
    <3> QED BY ONLY <3>1, <3>2, <3>3, HeaderStored
  <2> HIDE DEF u
  <2>3. /\ Shape(g) /\ g.mark = h.mark /\ g.message = u.message /\ g.status = u.status
        /\ g.state = "field_start"
    BY <2>2 DEF Go, Shape, IsParser, Fields, ParserState
  <2> HIDE DEF g
  <2>4. Entries(g, w, e)
    BY <2>2, <2>3 DEF Entries
  <2> QED BY <2>1, <2>3, <2>4, HeaderFieldStartReads
<1> QED BY <1>1, <1>2, <1>3

(* Whatever the state and the byte.                                        *)
LEMMA TurnReads ==
  ASSUME NEW w \in Seq(Piece), NEW e \in Nat, NEW c \in Nat, c + 1 <= e, e <= Len(w),
         NEW h, IsParser(h), Pending(h), Entries(h, w, e), Marks(h, w, c)
  PROVE  Reading(Turn(h, w[c + 1]), w, c + 1, e)
<1> DEFINE t == w[c + 1]
<1>1. h.state \in ParserState /\ h.type \in {"request", "response"} /\ Shape(h)
  BY DEF IsParser, Shape, Entries
<1>2. h.state # "value" => h.mark.kind # "value"
  BY DEF Marks, ValueMarked
<1>3. CASE h.state \in {"start", "dead"}
  <2>1. h.state = "start" => KeptAway(h, t, StartReq(h, t)) /\ KeptAway(h, t, StartRes(h, t))
    BY <1>1, <1>2, <1>3, StartKept
  <2>2. h.state = "dead" => KeptAway(h, t, Dead(h, t))
    BY <1>1, <1>2, <1>3, DeadKept
  <2>3. KeptAway(h, t, Turn(h, t))
    BY <1>1, <1>3, <2>1, <2>2 DEF Turn
  <2> QED BY <2>3, AwayReads
<1>4. CASE h.state \in {"method", "before_url", "http", "line_end"}
  <2>1. KeptAway(h, t, Turn(h, t))
    BY <1>1, <1>2, <1>4, RequestLineKept DEF Turn
  <2> QED BY <2>1, AwayReads
<1>5. CASE h.state = "url"
  <2>1. KeptAway(h, t, Turn(h, t))
    BY <1>1, <1>2, <1>5, ReqUrlKept DEF Turn
  <2> QED BY <2>1, AwayReads
<1>6. CASE h.state \in {"res_http_end", "status", "status_end", "reason"}
  <2>1. KeptAway(h, t, Turn(h, t))
    BY <1>1, <1>2, <1>6, StatusLineKept DEF Turn
  <2> QED BY <2>1, AwayReads
<1>7. CASE h.state \in {"body", "body_eof"}
  <2>1. KeptAway(h, t, Turn(h, t))
    BY <1>1, <1>2, <1>7, BodyKept DEF Turn
  <2> QED BY <2>1, AwayReads
<1>8. CASE h.state \in {"chunk_start", "chunk_size", "chunk_data", "chunk_end"}
  <2>1. KeptAway(h, t, Turn(h, t))
    BY <1>1, <1>2, <1>8, ChunkKept DEF Turn
  <2> QED BY <2>1, AwayReads
<1>9. CASE h.state = "field_start"
  <2>1. Turn(h, t) = HeaderFieldStart(h, t) /\ h.mark.kind \notin {"field", "value"}
    BY <1>2, <1>9 DEF Turn, Pending
  <2> QED BY <1>1, <1>9, <2>1, HeaderFieldStartReads
<1>10. CASE h.state = "field"
  <2>1. Turn(h, t) = HeaderField(h, t)
    BY <1>10 DEF Turn
  <2> QED BY <1>1, <1>10, <2>1, HeaderFieldReads
<1>11. CASE h.state = "value_ws"
  <2>1. Turn(h, t) = HeaderValueStart(h, t)
    BY <1>11 DEF Turn
  <2> QED BY <1>1, <1>11, <2>1, HeaderValueStartReads
<1>12. CASE h.state = "value"
  <2>1. Turn(h, t) = HeaderValue(h, t) /\ h.mark.kind = "value"
    BY <1>12 DEF Turn, Pending
  <2> QED BY <1>1, <1>12, <2>1, HeaderValueReads
<1>13. CASE h.state = "value_lws"
  <2>1. Turn(h, t) = HeaderValueLws(h, t) /\ h.mark.kind \notin {"field", "value"}
    BY <1>2, <1>13 DEF Turn, Pending
  <2> QED BY <1>1, <1>13, <2>1, HeaderValueLwsReads
<1>14. CASE h.state = "empty_value"
  <2>1. Turn(h, t) = HeaderValueDiscardLws(h, t) /\ h.mark.kind \notin {"field", "value"}
    BY <1>2, <1>14 DEF Turn, Pending
  <2> QED BY <1>1, <1>14, <2>1, HeaderValueDiscardLwsReads
<1> QED BY <1>1, <1>3, <1>4, <1>5, <1>6, <1>7, <1>8, <1>9, <1>10, <1>11, <1>12, <1>13, <1>14
        DEF ParserState

(* The count of the bytes matters to nothing of this.                      *)
LEMMA SameReading ==
  ASSUME NEW w, NEW c, NEW e, NEW h, NEW g, Reading(h, w, c, e),
         g.message = h.message, g.status = h.status, g.state = h.state, g.mark = h.mark,
         g.headFieldTemp = h.headFieldTemp, g.error = FALSE => h.error = FALSE
  PROVE  Reading(g, w, c, e)
BY DEF Reading, Entries, Marks, NamePending, NameMarked, ValueMarked

LEMMA AdvanceReads ==
  ASSUME NEW w \in Seq(Piece), NEW e \in Nat, NEW c \in Nat, c + 1 <= e, e <= Len(w),
         NEW h, InLoop(h), h.error = FALSE, h.stop = FALSE, Reading(h, w, c, e)
  PROVE  Reading(Advance(h, w[c + 1]), w, c + 1, e)
<1> DEFINE t == w[c + 1]
           k == Counted(h)
           u == Turn(k, t)
           g == Advance(h, t)
<1>1. /\ IsParser(k) /\ Pending(k) /\ k.error = FALSE /\ k.message = h.message
      /\ k.status = h.status /\ k.state = h.state /\ k.mark = h.mark
      /\ k.headFieldTemp = h.headFieldTemp /\ k.stop = FALSE
  BY DEF InLoop, Counted, IsParser, Pending, Fields
<1> HIDE DEF k
<1>2. Reading(k, w, c, e)
  BY <1>1, SameReading
<1>3. Reading(u, w, c + 1, e)
  BY <1>1, <1>2, TurnReads DEF Reading
<1>4. IsParser(u)
  BY <1>1, TurnTurned DEF Turned
<1> HIDE DEF u
<1>5. CASE Overflow(k) /\ ~Scanning(h)
  <2>1. g = Fail(k)
    BY <1>5 DEF Advance, k
  <2> HIDE DEF g
  <2>2. g.error = TRUE /\ g.message = k.message /\ g.status = k.status
    BY <1>1, <2>1 DEF Fail, IsParser, Fields
  <2> QED BY <1>2, <2>2 DEF Reading, Entries, g
<1>6. CASE ~(Overflow(k) /\ ~Scanning(h))
  <2>1. g = [u EXCEPT !.used = @ + 1]
    BY <1>6 DEF Advance, k, u
  <2> HIDE DEF g
  <2>2. /\ g.error = u.error /\ g.message = u.message /\ g.status = u.status
        /\ g.state = u.state /\ g.mark = u.mark /\ g.headFieldTemp = u.headFieldTemp
    BY <1>4, <2>1 DEF IsParser, Fields
  <2>3. Reading(g, w, c + 1, e)
    BY <1>3, <2>2, SameReading
  <2> QED BY <2>3 DEF g
<1> QED BY <1>5, <1>6

(* The loop over the bytes c + 1 to d of w.                                *)
LEMMA LoopReads ==
  ASSUME NEW w \in Seq(Piece), NEW c \in Nat, NEW d \in Nat, c < d, d <= Len(w),
         NEW h, InLoop(h), h.used = 0, Reading(h, w, c, d)
  PROVE  LET g == FoldLeft(Advance, h, SubSeq(w, c + 1, d))
         IN  Entries(g, w, d) /\ (g.error = FALSE => g.used <= d - c /\ Marks(g, w, c + g.used))
<1> DEFINE bytes == SubSeq(w, c + 1, d)
           n == d - c
<1>1. /\ n \in Nat /\ bytes \in Seq(Piece) /\ Len(bytes) = n
      /\ \A k \in 1..n : bytes[k] = w[c + k]
  <2>1. c + 1 \in 1..(Len(w) + 1) /\ d \in 0..Len(w) /\ Len(w) \in Nat
    BY LenProperties
  <2>2. bytes \in Seq(Piece) /\ Len(bytes) = (IF c + 1 <= d THEN d - (c + 1) + 1 ELSE 0)
        /\ \A k \in 1..(d - (c + 1) + 1) : bytes[k] = w[(c + 1) + k - 1]
    BY <2>1, SubSeqProperties
  <2>3. d - (c + 1) + 1 = n /\ c + 1 <= d
    OBVIOUS
  <2> HIDE DEF bytes
  <2>4. \A k \in 1..n : (c + 1) + k - 1 = c + k
    OBVIOUS
  <2> QED BY <2>2, <2>3, <2>4
<1> HIDE DEF bytes
<1>2. PICK run : IsRun(run, h, bytes)
  BY <1>1, RunExists
<1> DEFINE SoFar(k) == /\ InLoop(run[k]) /\ Entries(run[k], w, d)
                       /\ run[k].error \/ run[k].stop \/ run[k].used = k
                       /\ run[k].error = FALSE => run[k].used <= k /\ Marks(run[k], w, c + run[k].used)
           T == {k \in Nat : k <= n => SoFar(k)}
<1>3. 0 \in T
  <2>1. run[0] = h /\ c + 0 = c
    BY <1>2 DEF IsRun
  <2> QED BY <2>1 DEF Reading
<1>4. ASSUME NEW k \in Nat, k \in T PROVE k + 1 \in T
  <2> DEFINE a == run[k]
             b == run[k + 1]
  <2>1. ASSUME k + 1 <= n PROVE SoFar(k + 1)
    <3>1. k \in 0..(n - 1) /\ k <= n /\ k + 1 \in 1..n
      BY <1>1, <2>1
    <3>2. b = Advance(a, bytes[k + 1]) /\ bytes[k + 1] = w[(c + k) + 1]
      <4>1. bytes[k + 1] = w[c + (k + 1)] /\ c + (k + 1) = (c + k) + 1
        BY <1>1, <3>1
      <4> QED BY <1>1, <1>2, <3>1, <4>1 DEF IsRun
    <3>3. SoFar(k)
      BY <1>4, <3>1
    <3> HIDE DEF a, b
    <3>4. /\ InLoop(b)
          /\ b.error \/ b.stop \/ b.used = a.used + 1
          /\ a.error \/ a.stop => b = a
      BY <3>2, <3>3, AdvanceLoop DEF a
    <3>5. CASE a.error \/ a.stop
      BY <3>3, <3>4, <3>5, a.used \in Nat, SMTT(30) DEF a, b, InLoop, IsParser
    <3>6. CASE ~(a.error \/ a.stop)
      <4>1. a.error = FALSE /\ a.stop = FALSE /\ a.used = k
        BY <3>3, <3>6 DEF InLoop, IsParser, a
      <4>2. Reading(a, w, c + k, d) /\ InLoop(a)
        BY <3>3, <4>1 DEF Reading, a
      <4>3. c + k \in Nat /\ (c + k) + 1 <= d
        BY <3>1
      <4>4. Reading(b, w, (c + k) + 1, d)
        BY <3>2, <4>1, <4>2, <4>3, AdvanceReads
      <4>5. b.error = FALSE => b.used = k + 1
        <5> SUFFICES ASSUME b.error = FALSE PROVE b.used = k + 1
          OBVIOUS
        <5> DEFINE q == Counted(a)
                   u == Turn(q, bytes[k + 1])
        <5>1. b = [u EXCEPT !.used = @ + 1] \/ b = Fail(q)
          BY <3>2, <4>1 DEF Advance
        <5>2. IsParser(q) /\ Pending(q) /\ q.error = FALSE /\ q.stop = FALSE /\ q.used = k
          BY <4>1, <4>2 DEF InLoop, Counted, IsParser, Pending, Fields
        <5> HIDE DEF q
        <5>3. IsParser(u) /\ u.used = k
          BY <5>2, TurnTurned DEF Turned
        <5> HIDE DEF u
        <5> QED BY <5>1, <5>2, <5>3 DEF Fail, IsParser, Fields
      <4>6. c + (k + 1) = (c + k) + 1
        OBVIOUS
      <4> QED BY <3>4, <4>1, <4>4, <4>5, <4>6 DEF Reading, b, InLoop, IsParser
    <3> QED BY <3>5, <3>6
  <2> HIDE DEF SoFar
  <2> QED BY <2>1
<1> HIDE DEF T, SoFar
<1>5. Nat \subseteq T
  BY <1>3, <1>4, NatSetInduction
<1>6. SoFar(n)
  BY <1>1, <1>5 DEF T
<1>7. run[n] = FoldLeft(Advance, h, bytes)
  BY <1>1, <1>2 DEF IsRun
<1> QED BY <1>6, <1>7 DEF SoFar, bytes

(* A call of http_parser_execute with the bytes c + 1 to d of w.           *)
LEMMA CallReads ==
  ASSUME NEW w \in Seq(Piece), NEW c \in Nat, NEW d \in Nat, c < d, d <= Len(w),
         NEW h, AtRest(h), h.error = FALSE, Entries(h, w, d), NamePending(h, w, c)
  PROVE  LET g == Execute(h, SubSeq(w, c + 1, d))
         IN  /\ Entries(Idle(g), w, d)
             /\ g.error = FALSE => g.used <= d - c /\ NamePending(Idle(g), w, c + g.used)
<1> DEFINE r == Resume(h)
           bytes == SubSeq(w, c + 1, d)
           f == FoldLeft(Advance, r, bytes)
           g == Execute(h, bytes)
<1>1. InLoop(r) /\ r.used = 0
  BY DEF Resume, AtRest, InLoop, IsParser, Fields, Pending, NoMark
<1>2. Reading(r, w, c, d)
  <2>1. /\ r.message = h.message /\ r.status = h.status /\ r.state = h.state
        /\ r.headFieldTemp = h.headFieldTemp
        /\ r.mark = IF h.state \in {"url", "field", "value"}
                    THEN [kind |-> h.state, text |-> <<>>] ELSE NoMark
    BY DEF Resume, AtRest, IsParser, Fields
  <2> HIDE DEF r
  <2>2. Entries(r, w, d)
    BY <2>1 DEF Entries
  <2>3. NamePending(r, w, c)
    BY <2>1 DEF NamePending
  <2>4. NameMarked(r, w, c)
    <3> SUFFICES ASSUME h.state = "field" PROVE NameMarked(r, w, c)
      BY <2>1 DEF NameMarked
    <3>1. r.mark.kind = "field" /\ r.mark.text = <<>>
      BY <2>1
    <3>2. <<>> \in Seq(Piece) /\ Len(<<>>) = 0
      OBVIOUS
    <3> QED BY <3>1, <3>2 DEF NameMarked
  <2>5. ValueMarked(r, w, c)
    BY <2>1 DEF ValueMarked, AtRest, NoMark
  <2> QED BY <2>2, <2>3, <2>4, <2>5 DEF Reading, Marks
<1> HIDE DEF r
<1>3. /\ Entries(f, w, d)
      /\ f.error = FALSE => f.used <= d - c /\ Marks(f, w, c + f.used)
  BY <1>1, <1>2, LoopReads
<1>4. Len(w) \in Nat /\ bytes \in Seq(Piece) /\ bytes # <<>>
  <2>1. Len(w) \in Nat /\ c + 1 \in 1..(Len(w) + 1) /\ d \in 0..Len(w) /\ c + 1 <= d
        /\ d - (c + 1) + 1 = d - c /\ d - c # 0
    BY LenProperties
  <2>2. bytes \in Seq(Piece) /\ Len(bytes) = d - c
    BY <2>1, SubSeqProperties
  <2> HIDE DEF bytes
  <2> QED BY <2>1, <2>2
<1>5. InLoop(f)
  BY <1>1, <1>4, LoopResult
<1>6. g = ExecuteBytes(h, bytes)
  BY <1>4 DEF Execute
<1> HIDE DEF f, g
<1>7. CASE f.error \/ f.stop
  <2>1. g = [f EXCEPT !.mark = NoMark]
    BY <1>6, <1>7 DEF ExecuteBytes, f, r
  <2>2. /\ Idle(g).message = f.message /\ Idle(g).status = f.status /\ Idle(g).state = f.state
        /\ g.error = f.error /\ g.used = f.used
    BY <1>5, <2>1 DEF Idle, InLoop, IsParser, Fields
  <2>3. Entries(Idle(g), w, d)
    BY <1>3, <2>2 DEF Entries
  <2>4. g.error = FALSE => g.used <= d - c /\ NamePending(Idle(g), w, c + g.used)
    BY <1>3, <1>5, <1>7, <2>2 DEF InLoop, NamePending
  <2> QED BY <2>3, <2>4 DEF g
<1>8. CASE ~(f.error \/ f.stop) /\ Overflow(f)
  <2>1. g = Fail([f EXCEPT !.mark = NoMark])
    BY <1>6, <1>8 DEF ExecuteBytes, f, r
  <2>2. Idle(g).message = f.message /\ Idle(g).status = f.status /\ g.error = TRUE
    BY <1>5, <2>1 DEF Fail, Idle, InLoop, IsParser, Fields
  <2> QED BY <1>3, <2>2 DEF Entries, g
<1>9. CASE ~(f.error \/ f.stop) /\ ~Overflow(f)
  <2>1. g = CallbackData(f)
    BY <1>6, <1>9 DEF ExecuteBytes, f, r
  <2>2. f.error = FALSE /\ Shape(f) /\ f.used \in Nat
    BY <1>3, <1>5, <1>9 DEF InLoop, IsParser, Shape, Entries
  <2>3. Marks(f, w, c + f.used) /\ f.used <= d - c
    BY <1>3, <2>2
  <2>4. IsParser(g) /\ g.error = FALSE /\ g.used = f.used /\ g.state = f.state
    BY <2>1, <2>2, CallbackTurned DEF Shape
  <2>5. /\ Idle(g).message = g.message /\ Idle(g).status = g.status /\ Idle(g).state = g.state
        /\ Idle(g).headFieldTemp = g.headFieldTemp
    BY <2>4 DEF Idle, IsParser, Fields
  <2>6. CASE f.mark.kind = "value"
    <3>1. f.state = "value"
      BY <2>3, <2>6 DEF Marks, ValueMarked
    <3>2. c + f.used \in Nat /\ c + f.used <= d
      BY <2>2, <2>3
    <3>3. Entries(g, w, d)
      <4> DEFINE k == c + f.used
      <4>1. f.headFieldTemp # <<>> =>
              \E p, q \in 1..k :
                /\ p < q /\ q - 1 + Len(f.mark.text) = k
                /\ NameBefore(w, p, f.headFieldTemp[1]) /\ Blank(w, p, q)
                /\ ValueAt(w, q, f.mark.text) /\ w[q] # "sp"
        BY <2>3, <3>1 DEF Marks, ValueMarked
      <4> HIDE DEF k
      <4>2. k \in Nat /\ k <= d
        BY <3>2 DEF k
      <4> QED BY <1>3, <2>1, <2>2, <2>6, <4>1, <4>2, ValueStored
    <3>4. Entries(Idle(g), w, d)
      BY <2>5, <3>3 DEF Entries
    <3>5. NamePending(Idle(g), w, c + g.used)
      BY <2>4, <2>5, <3>1 DEF NamePending
    <3> QED BY <2>3, <2>4, <3>4, <3>5 DEF g
  <2>7. CASE f.mark.kind = "field"
    <3>1. f.state = "field"
      BY <1>5, <2>2, <2>7 DEF InLoop, Pending
    <3>2. g.message = f.message /\ g.status = f.status
      BY <2>1, <2>2, <2>7 DEF CallbackData, OnHeaderField, Shape, IsParser, Fields
    <3>3. Entries(Idle(g), w, d)
      BY <1>3, <2>5, <3>2 DEF Entries
    <3>4. NamePending(Idle(g), w, c + g.used)
      BY <2>4, <2>5, <3>1 DEF NamePending
    <3> QED BY <2>3, <2>4, <3>3, <3>4 DEF g
  <2>8. CASE f.mark.kind \notin {"value", "field"}
    <3>1. /\ g.message.headers = f.message.headers /\ g.message.status = f.message.status
          /\ DOMAIN g.message = MessageFields
          /\ g.status = f.status /\ g.headFieldTemp = f.headFieldTemp
      BY <2>1, <2>2, <2>8 DEF CallbackData, OnUrl, OnBody, Shape, IsParser, Fields, MessageFields
    <3>2. Entries(Idle(g), w, d)
      BY <1>3, <2>5, <3>1 DEF Entries
    <3>3. NamePending(Idle(g), w, c + g.used)
      BY <2>3, <2>4, <2>5, <3>1 DEF Marks, NamePending
    <3> QED BY <2>3, <2>4, <3>2, <3>3 DEF g
  <2> QED BY <2>6, <2>7, <2>8
<1> QED BY <1>7, <1>8, <1>9

(* More bytes are there, at the end or behind those that were read.        *)
LEMMA EntriesLonger ==
  ASSUME NEW w, NEW x, NEW d \in Nat, NEW e \in Nat, d <= e,
         \A i \in 1..d : x[i] = w[i], NEW h, Entries(h, w, d)
  PROVE  Entries(h, x, e)
<1>1. ASSUME NEW s \in Seen(w, d) PROVE s \in Seen(x, e)
  <2>1. ASSUME NEW i \in 1..d, s = w[i] PROVE s \in Seen(x, e)
    <3>1. i \in 1..e /\ x[i] = s
      BY <2>1
    <3> QED BY <3>1 DEF Seen
  <2> QED BY <2>1 DEF Seen
<1>2. ASSUME NEW name, NEW v, HeaderLine(w, d, name, v) PROVE HeaderLine(x, e, name, v)
  <2>1. PICK p \in 1..d, q \in 1..d :
          /\ p < q /\ q - 1 + Len(v) <= d
          /\ NameBefore(w, p, name) /\ Blank(w, p, q)
          /\ ValueAt(w, q, v) /\ w[q] # "sp"
    BY <1>2 DEF HeaderLine
  <2>2. NameBefore(x, p, name)
    <3>1. name \in Seq(Piece) /\ Len(name) \in Nat /\ Len(name) < p
      BY <2>1, LenProperties DEF NameBefore
    <3>2. \A i \in 1..Len(name) : p - Len(name) - 1 + i \in 1..d
      BY <3>1
    <3> QED BY <2>1, <3>1, <3>2 DEF NameBefore
  <2>3. Blank(x, p, q)
    <3>1. \A r \in p + 1 .. q - 1 : r \in 1..d
      OBVIOUS
    <3> QED BY <2>1, <3>1 DEF Blank
  <2>4. ValueAt(x, q, v)
    <3>1. v \in Seq(Piece) /\ Len(v) \in Nat
      BY <2>1, LenProperties DEF ValueAt
    <3>2. \A i \in 1..Len(v) : q - 1 + i \in 1..d
      BY <2>1, <3>1
    <3> QED BY <2>1, <3>2 DEF ValueAt
  <2>5. p \in 1..e /\ q \in 1..e /\ q - 1 + Len(v) <= e
    <3>1. Len(v) \in Nat
      BY <2>1, LenProperties DEF ValueAt
    <3> QED BY <2>1, <3>1
  <2> QED BY <2>1, <2>2, <2>3, <2>4, <2>5 DEF HeaderLine
<1> QED BY <1>1, <1>2 DEF Entries

LEMMA PendingLonger ==
  ASSUME NEW w, NEW x, NEW c \in Nat, \A i \in 1..c : x[i] = w[i],
         NEW h, NamePending(h, w, c)
  PROVE  NamePending(h, x, c)
<1> SUFFICES ASSUME h.state \in {"value_ws", "empty_value"}, h.headFieldTemp # <<>>
             PROVE  \E p \in 1..c : NameBefore(x, p, h.headFieldTemp[1]) /\ Blank(x, p, c + 1)
  BY DEF NamePending
<1> DEFINE name == h.headFieldTemp[1]
<1>1. PICK p \in 1..c : NameBefore(w, p, name) /\ Blank(w, p, c + 1)
  BY DEF NamePending
<1> HIDE DEF name
<1>2. NameBefore(x, p, name)
  <2>1. name \in Seq(Piece) /\ Len(name) \in Nat /\ Len(name) < p
    BY <1>1, LenProperties DEF NameBefore
  <2>2. \A i \in 1..Len(name) : p - Len(name) - 1 + i \in 1..c
    BY <2>1
  <2> QED BY <1>1, <2>1, <2>2 DEF NameBefore
<1>3. Blank(x, p, c + 1)
  <2>1. \A r \in p + 1 .. (c + 1) - 1 : r \in 1..c
    OBVIOUS
  <2> QED BY <1>1, <2>1 DEF Blank
<1> QED BY <1>2, <1>3 DEF name

------------------------------------------------------------------------------
(* The header lines that every handshake message has.                      *)
LEMMA Words ==
  /\ Connection \in Seq(Piece) /\ Len(Connection) = 1 /\ Connection[1] = "Connection"
  /\ Upgrade \in Seq(Piece) /\ Len(Upgrade) = 2 /\ Upgrade[1] = "Up" /\ Upgrade[2] = "grade"
  /\ WebSocket \in Seq(Piece) /\ Len(WebSocket) = 2
  /\ WebSocket[1] = "web" /\ WebSocket[2] = "socket"
  /\ SecVersion \in Seq(Piece) /\ Len(SecVersion) = 1 /\ SecVersion[1] = "Sec-WebSocket-Version"
  /\ <<"13">> \in Seq(Piece) /\ Len(<<"13">>) = 1 /\ <<"13">>[1] = "13"
<1>1. {"Connection", "Up", "grade", "web", "socket", "Sec-WebSocket-Version", "13"} \subseteq Piece
  BY DEF Piece
<1> QED BY <1>1 DEF Connection, Upgrade, WebSocket, SecVersion

ConnectionIn(w, n, l) ==
  /\ Len(l) = 6
  /\ w[n + 1] = "Connection" /\ w[n + 2] = ":" /\ w[n + 3] = "sp"
  /\ w[n + 4] = "Up" /\ w[n + 5] = "grade" /\ w[n + 6] = "crlf"

UpgradeIn(w, n, l) ==
  /\ Len(l) = 7
  /\ w[n + 1] = "Up" /\ w[n + 2] = "grade" /\ w[n + 3] = ":" /\ w[n + 4] = "sp"
  /\ w[n + 5] = "web" /\ w[n + 6] = "socket" /\ w[n + 7] = "crlf"

VersionIn(w, n, l) ==
  /\ Len(l) = 5
  /\ w[n + 1] = "Sec-WebSocket-Version" /\ w[n + 2] = ":" /\ w[n + 3] = "sp"
  /\ w[n + 4] = "13" /\ w[n + 5] = "crlf"

(* The three lines, piece by piece, wherever they stand.                   *)
LEMMA ConnectionLine ==
  ASSUME NEW w \in Seq(Piece), NEW n \in Nat, NEW l,
         l = Bytes(HeaderParts(<<Connection, Upgrade>>)), At(w, n, l)
  PROVE  ConnectionIn(w, n, l)
<1> DEFINE v == Upgrade
           h == <<Connection, v>>
<1>1. /\ Connection \in Seq(Piece) /\ v \in Seq(Piece)
      /\ Len(Connection) = 1 /\ Len(v) = 2
      /\ Connection[1] = "Connection" /\ v[1] = "Up" /\ v[2] = "grade"
  BY Words
<1>2. h[1] = Connection /\ h[2] = v
  OBVIOUS
<1>3. l = Bytes(HeaderParts(h))
  OBVIOUS
<1> HIDE DEF v, h
<1>4. LineIn(w, n, l, Connection, v)
  BY <1>1, <1>2, <1>3, LineAt
<1>5. At(w, n + 1 + 2, v)
  BY <1>1, <1>4 DEF LineIn
<1>6. w[n + 1] = "Connection" /\ w[(n + 1 + 2) + 1] = "Up" /\ w[(n + 1 + 2) + 2] = "grade"
  BY <1>1, <1>4, <1>5 DEF At, LineIn
<1> QED BY <1>1, <1>4, <1>6 DEF LineIn, ConnectionIn

LEMMA UpgradeLine ==
  ASSUME NEW w \in Seq(Piece), NEW n \in Nat, NEW l,
         l = Bytes(HeaderParts(<<Upgrade, WebSocket>>)), At(w, n, l)
  PROVE  UpgradeIn(w, n, l)
<1> DEFINE v == WebSocket
           h == <<Upgrade, v>>
<1>1. /\ Upgrade \in Seq(Piece) /\ v \in Seq(Piece)
      /\ Len(Upgrade) = 2 /\ Len(v) = 2
      /\ Upgrade[1] = "Up" /\ Upgrade[2] = "grade" /\ v[1] = "web" /\ v[2] = "socket"
  BY Words
<1>2. h[1] = Upgrade /\ h[2] = v
  OBVIOUS
<1>3. l = Bytes(HeaderParts(h))
  OBVIOUS
<1> HIDE DEF v, h
<1>4. LineIn(w, n, l, Upgrade, v)
  BY <1>1, <1>2, <1>3, LineAt
<1>5. At(w, n + 2 + 2, v)
  BY <1>1, <1>4 DEF LineIn
<1>6. /\ w[n + 1] = "Up" /\ w[n + 2] = "grade"
      /\ w[(n + 2 + 2) + 1] = "web" /\ w[(n + 2 + 2) + 2] = "socket"
  BY <1>1, <1>4, <1>5 DEF At, LineIn
<1> QED BY <1>1, <1>4, <1>6 DEF LineIn, UpgradeIn

LEMMA VersionLine ==
  ASSUME NEW w \in Seq(Piece), NEW n \in Nat, NEW l,
         l = Bytes(HeaderParts(<<SecVersion, <<"13">>>>)), At(w, n, l)
  PROVE  VersionIn(w, n, l)
<1> DEFINE v == <<"13">>
           h == <<SecVersion, v>>
<1>1. /\ SecVersion \in Seq(Piece) /\ v \in Seq(Piece)
      /\ Len(SecVersion) = 1 /\ Len(v) = 1
      /\ SecVersion[1] = "Sec-WebSocket-Version" /\ v[1] = "13"
  BY Words
<1>2. h[1] = SecVersion /\ h[2] = v
  OBVIOUS
<1>3. l = Bytes(HeaderParts(h))
  OBVIOUS
<1> HIDE DEF v, h
<1>4. LineIn(w, n, l, SecVersion, v)
  BY <1>1, <1>2, <1>3, LineAt
<1>5. At(w, n + 1 + 2, v)
  BY <1>1, <1>4 DEF LineIn
<1>6. w[n + 1] = "Sec-WebSocket-Version" /\ w[(n + 1 + 2) + 1] = "13"
  BY <1>1, <1>4, <1>5 DEF At, LineIn
<1> QED BY <1>1, <1>4, <1>6 DEF LineIn, VersionIn

------------------------------------------------------------------------------
(* The four header lines of a message.                                     *)
IsHeader(h) == h[1] \in Seq(Piece) /\ h[2] \in Seq(Piece)

FourLines(a, b, c, d) == AllParts(<<a, b, c, d>>, HeaderParts)

(* The bytes of four header lines are those of each, one by one.           *)
LEMMA BytesOfHeaders ==
  ASSUME NEW a, NEW b, NEW c, NEW d, IsHeader(a), IsHeader(b), IsHeader(c), IsHeader(d)
  PROVE  /\ FourLines(a, b, c, d) \in Seq(Part) /\ Len(FourLines(a, b, c, d)) # 0
         /\ Bytes(FourLines(a, b, c, d)) =
              ((Bytes(HeaderParts(a)) \o Bytes(HeaderParts(b)))
                 \o Bytes(HeaderParts(c))) \o Bytes(HeaderParts(d))
<1> DEFINE s == [i \in DOMAIN <<a, b, c, d>> |-> HeaderParts(<<a, b, c, d>>[i])]
           p == FourLines(a, b, c, d)
           x == HeaderParts(a)
           y == HeaderParts(b)
           z == HeaderParts(c)
           u == HeaderParts(d)
<1>1. /\ x \in Seq(Part) /\ y \in Seq(Part) /\ z \in Seq(Part) /\ u \in Seq(Part)
      /\ Len(x) = 4 /\ Len(y) = 4 /\ Len(z) = 4 /\ Len(u) = 4
  BY BytesOfHeader DEF IsHeader
<1>2. Len(s) = 4 /\ s[1] = x /\ s[2] = y /\ s[3] = z /\ s[4] = u
  OBVIOUS
<1>3. p = FlattenSeq(s)
  BY DEF AllParts, FourLines
<1> HIDE DEF s, x, y, z, u, p
<1>4. p = ((x \o y) \o z) \o u
  BY <1>2, <1>3, FlattenFour
<1> DEFINE xy == x \o y
           xyz == xy \o z
<1>5. Len(x) # 0 /\ Len(y) # 0 /\ Len(z) # 0 /\ Len(u) # 0
  BY <1>1
<1>6. xy \in Seq(Part) /\ Len(xy) # 0
  <2>1. xy \in Seq(Part) /\ Len(xy) = Len(x) + Len(y)
    BY ONLY <1>1, ConcatProperties
  <2> HIDE DEF xy
  <2> QED BY <1>1, <2>1
<1>7. Bytes(xy) = Bytes(x) \o Bytes(y)
  BY ONLY <1>1, <1>5, BytesConcat
<1> HIDE DEF xy
<1>8. xyz \in Seq(Part) /\ Len(xyz) # 0
  <2>1. xyz \in Seq(Part) /\ Len(xyz) = Len(xy) + Len(z) /\ Len(xy) \in Nat
    BY ONLY <1>1, <1>6, ConcatProperties, LenProperties
  <2> HIDE DEF xyz
  <2> QED BY <1>1, <2>1
<1>9. Bytes(xyz) = Bytes(xy) \o Bytes(z)
  BY ONLY <1>1, <1>5, <1>6, BytesConcat
<1> HIDE DEF xyz
<1>10. p = xyz \o u
  BY <1>4 DEF xyz, xy
<1>11. p \in Seq(Part) /\ Len(p) # 0
  <2>1. p \in Seq(Part) /\ Len(p) = Len(xyz) + Len(u) /\ Len(xyz) \in Nat
    BY ONLY <1>1, <1>8, <1>10, ConcatProperties, LenProperties
  <2> QED BY <1>1, <2>1
<1>12. Bytes(p) = Bytes(xyz) \o Bytes(u)
  BY ONLY <1>1, <1>5, <1>8, <1>10, BytesConcat
<1>13. Bytes(p) = ((Bytes(x) \o Bytes(y)) \o Bytes(z)) \o Bytes(u)
  BY <1>7, <1>9, <1>12
<1> QED BY <1>11, <1>13 DEF x, y, z, u, p

------------------------------------------------------------------------------
(* In w the one header line with this name has this value, on one line:    *)
(* the name is the 25th piece.                                             *)
LineStands(w, name, value) ==
  /\ w \in Seq(Piece) /\ value \in Seq(Piece) /\ 28 + Len(value) <= Len(w)
  /\ w[25] = name /\ w[26] = ":" /\ w[27] = "sp" /\ w[28 + Len(value)] = "crlf"
  /\ \A i \in 1..Len(value) : w[27 + i] = value[i] /\ IsText(value[i])
  /\ \A i \in 2..Len(w) : w[i] = ":" /\ w[i - 1] = name => i = 26

(* A byte sequence with a first line of six pieces and the four lines.     *)
LEMMA HeadLaid ==
  ASSUME NEW w \in Seq(Piece), NEW first \in Seq(Piece), Len(first) = 6,
         \A i \in 1..6 : first[i] # ":",
         NEW a, NEW b, \/ a = <<Connection, Upgrade>> /\ b = <<Upgrade, WebSocket>>
                       \/ a = <<Upgrade, WebSocket>> /\ b = <<Connection, Upgrade>>,
         NEW name \in Piece, name \notin {"Connection", "grade", "Sec-WebSocket-Version"},
         NEW value \in Seq(Piece), \A i \in 1..Len(value) : IsText(value[i]),
         NEW lines, lines = Bytes(FourLines(a, b, <<SecVersion, <<"13">>>>, <<<<name>>, value>>)),
         At(w, 0, first), At(w, 6, lines), At(w, 6 + Len(lines), <<"crlf">>),
         Len(w) = 7 + Len(lines)
  PROVE  LineStands(w, name, value)
<1> DEFINE c == <<SecVersion, <<"13">>>>
           d == <<<<name>>, value>>
           la == Bytes(HeaderParts(a))
           lb == Bytes(HeaderParts(b))
           lc == Bytes(HeaderParts(c))
           ld == Bytes(HeaderParts(d))
           k == Len(value)
<1>1. /\ a[1] \in Seq(Piece) /\ a[2] \in Seq(Piece) /\ b[1] \in Seq(Piece) /\ b[2] \in Seq(Piece)
      /\ c[1] \in Seq(Piece) /\ c[2] \in Seq(Piece)
  BY Words, SMTT(30)
<1>2. d[1] = <<name>> /\ d[2] = value /\ <<name>> \in Seq(Piece) /\ Len(<<name>>) = 1
      /\ <<name>>[1] = name /\ k \in Nat
  BY LenProperties
<1>3. lines = ((la \o lb) \o lc) \o ld
  <2> HIDE DEF c, d
  <2>1. IsHeader(a) /\ IsHeader(b) /\ IsHeader(c) /\ IsHeader(d)
    BY <1>1, <1>2 DEF IsHeader
  <2>2. lines = Bytes(FourLines(a, b, c, d))
    BY DEF c, d
  <2>3. Bytes(FourLines(a, b, c, d)) = ((Bytes(HeaderParts(a)) \o Bytes(HeaderParts(b)))
                             \o Bytes(HeaderParts(c))) \o Bytes(HeaderParts(d))
    BY ONLY <2>1, BytesOfHeaders, SMTT(30)
  <2> QED BY <2>2, <2>3
<1>4. /\ la \in Seq(Piece) /\ lb \in Seq(Piece) /\ lc \in Seq(Piece) /\ ld \in Seq(Piece)
  <2>1. \A h : h[1] \in Seq(Piece) /\ h[2] \in Seq(Piece) => Bytes(HeaderParts(h)) \in Seq(Piece)
    <3> TAKE h
    <3> HAVE h[1] \in Seq(Piece) /\ h[2] \in Seq(Piece)
    <3> DEFINE n == h[1]
               v == h[2]
               s == <<":", "sp">>
               e == <<"crlf">>
    <3>1. s \in Seq(Piece) /\ e \in Seq(Piece) /\ n \in Seq(Piece) /\ v \in Seq(Piece)
      BY DEF Piece
    <3>2. Bytes(HeaderParts(h)) = ((n \o s) \o v) \o e
      BY BytesOfHeader
    <3> HIDE DEF n, v, s, e
    <3>3. n \o s \in Seq(Piece)
      BY ONLY <3>1, ConcatProperties
    <3>4. (n \o s) \o v \in Seq(Piece)
      BY ONLY <3>1, <3>3, ConcatProperties
    <3>5. ((n \o s) \o v) \o e \in Seq(Piece)
      BY ONLY <3>1, <3>4, ConcatProperties
    <3> QED BY <3>2, <3>5
  <2> HIDE DEF c, d
  <2> QED BY <1>1, <1>2, <2>1
<1> HIDE DEF c, d, la, lb, lc, ld
<1> DEFINE ab == la \o lb
           abc == ab \o lc
<1>5. ab \in Seq(Piece) /\ Len(ab) = Len(la) + Len(lb)
  BY ONLY <1>4, ConcatProperties
<1> HIDE DEF ab
<1>6. abc \in Seq(Piece) /\ Len(abc) = Len(ab) + Len(lc)
  BY ONLY <1>4, <1>5, ConcatProperties
<1> HIDE DEF abc
<1>7. lines = abc \o ld /\ lines \in Seq(Piece) /\ Len(lines) = Len(abc) + Len(ld)
  <2>1. lines = abc \o ld
    BY <1>3 DEF abc, ab
  <2> QED BY ONLY <2>1, <1>4, <1>6, ConcatProperties
<1>8. At(w, 6, abc) /\ At(w, 6 + Len(abc), ld)
  BY <1>4, <1>6, <1>7, SplitAt, ZenonT(40)
<1>9. At(w, 6, ab) /\ At(w, 6 + Len(ab), lc)
  BY <1>4, <1>5, <1>8, SplitAt DEF abc
<1>10. At(w, 6, la) /\ At(w, 6 + Len(la), lb)
  BY <1>4, <1>9, SplitAt DEF ab
<1>11. /\ Len(la) + Len(lb) = 13
       /\ \/ /\ w[7] = "Connection" /\ w[8] = ":" /\ w[9] = "sp" /\ w[10] = "Up" /\ w[11] = "grade"
             /\ w[12] = "crlf" /\ w[13] = "Up" /\ w[14] = "grade" /\ w[15] = ":" /\ w[16] = "sp"
             /\ w[17] = "web" /\ w[18] = "socket" /\ w[19] = "crlf"
          \/ /\ w[7] = "Up" /\ w[8] = "grade" /\ w[9] = ":" /\ w[10] = "sp" /\ w[11] = "web"
             /\ w[12] = "socket" /\ w[13] = "crlf" /\ w[14] = "Connection" /\ w[15] = ":"
             /\ w[16] = "sp" /\ w[17] = "Up" /\ w[18] = "grade" /\ w[19] = "crlf"
  <2>1. CASE a = <<Connection, Upgrade>> /\ b = <<Upgrade, WebSocket>>
    <3>1. /\ Len(la) = 6 /\ w[6 + 1] = "Connection" /\ w[6 + 2] = ":" /\ w[6 + 3] = "sp"
          /\ w[6 + 4] = "Up" /\ w[6 + 5] = "grade" /\ w[6 + 6] = "crlf"
      <4>1. la = Bytes(HeaderParts(<<Connection, Upgrade>>))
        BY <2>1 DEF la
      <4>2. ConnectionIn(w, 6, la)
        BY ONLY w \in Seq(Piece), 6 \in Nat, <4>1, <1>10, ConnectionLine
      <4> QED BY <4>2 DEF ConnectionIn
    <3>2. At(w, 12, lb)
      BY <1>10, <3>1
    <3>3. /\ Len(lb) = 7 /\ w[12 + 1] = "Up" /\ w[12 + 2] = "grade" /\ w[12 + 3] = ":"
          /\ w[12 + 4] = "sp" /\ w[12 + 5] = "web" /\ w[12 + 6] = "socket" /\ w[12 + 7] = "crlf"
      <4>1. lb = Bytes(HeaderParts(<<Upgrade, WebSocket>>))
        BY <2>1 DEF lb
      <4>2. UpgradeIn(w, 12, lb)
        BY ONLY w \in Seq(Piece), 12 \in Nat, <4>1, <3>2, UpgradeLine
      <4> QED BY <4>2 DEF UpgradeIn
    <3> QED BY <3>1, <3>3
  <2>2. CASE a = <<Upgrade, WebSocket>> /\ b = <<Connection, Upgrade>>
    <3>1. /\ Len(la) = 7 /\ w[6 + 1] = "Up" /\ w[6 + 2] = "grade" /\ w[6 + 3] = ":"
          /\ w[6 + 4] = "sp" /\ w[6 + 5] = "web" /\ w[6 + 6] = "socket" /\ w[6 + 7] = "crlf"
      <4>1. la = Bytes(HeaderParts(<<Upgrade, WebSocket>>))
        BY <2>2 DEF la
      <4>2. UpgradeIn(w, 6, la)
        BY ONLY w \in Seq(Piece), 6 \in Nat, <4>1, <1>10, UpgradeLine
      <4> QED BY <4>2 DEF UpgradeIn
    <3>2. At(w, 13, lb)
      BY <1>10, <3>1
    <3>3. /\ Len(lb) = 6 /\ w[13 + 1] = "Connection" /\ w[13 + 2] = ":" /\ w[13 + 3] = "sp"
          /\ w[13 + 4] = "Up" /\ w[13 + 5] = "grade" /\ w[13 + 6] = "crlf"
      <4>1. lb = Bytes(HeaderParts(<<Connection, Upgrade>>))
        BY <2>2 DEF lb
      <4>2. ConnectionIn(w, 13, lb)
        BY ONLY w \in Seq(Piece), 13 \in Nat, <4>1, <3>2, ConnectionLine
      <4> QED BY <4>2 DEF ConnectionIn
    <3> QED BY <3>1, <3>3
  <2> QED BY <2>1, <2>2
<1>12. /\ Len(lc) = 5 /\ w[20] = "Sec-WebSocket-Version" /\ w[21] = ":" /\ w[22] = "sp"
       /\ w[23] = "13" /\ w[24] = "crlf"
  <2>1. At(w, 19, lc)
    <3>1. 6 + Len(ab) = 19
      BY <1>5, <1>11
    <3> QED BY <1>9, <3>1
  <2>2. /\ Len(lc) = 5 /\ w[19 + 1] = "Sec-WebSocket-Version" /\ w[19 + 2] = ":"
        /\ w[19 + 3] = "sp" /\ w[19 + 4] = "13" /\ w[19 + 5] = "crlf"
    <3>1. lc = Bytes(HeaderParts(<<SecVersion, <<"13">>>>))
      BY DEF lc, c
    <3>2. VersionIn(w, 19, lc)
      BY ONLY w \in Seq(Piece), 19 \in Nat, <2>1, <3>1, VersionLine
    <3> QED BY <3>2 DEF VersionIn
  <2> QED BY <2>2
<1>13. Len(abc) = 18
  BY <1>5, <1>6, <1>11, <1>12, SMTT(30)
<1>14. /\ Len(ld) = k + 4 /\ w[25] = name /\ w[26] = ":" /\ w[27] = "sp"
       /\ At(w, 27, value) /\ w[28 + k] = "crlf"
  <2> DEFINE n == <<name>>
  <2>1. At(w, 24, ld)
    BY <1>8, <1>13
  <2> HIDE DEF k
  <2>2. LineIn(w, 24, ld, n, value)
    <3>1. d[1] = n /\ n \in Seq(Piece) /\ d[2] = value
      BY <1>2
    <3> HIDE DEF n
    <3> QED BY <2>1, <3>1, LineAt DEF ld
  <2>3. Len(n) = 1 /\ n[1] = name
    BY <1>2
  <2> HIDE DEF n
  <2>4. At(w, 24, n) /\ w[24 + 1 + 1] = ":" /\ w[24 + 1 + 2] = "sp" /\ At(w, 24 + 1 + 2, value)
        /\ w[24 + 1 + k + 3] = "crlf" /\ Len(ld) = 1 + k + 3
    BY <2>2, <2>3 DEF LineIn, k
  <2>5. w[24 + 1] = name
    BY <2>3, <2>4 DEF At
  <2> QED BY <1>2, <2>4, <2>5 DEF k
<1>15. Len(lines) = k + 22 /\ Len(w) = k + 29
  <2>1. Len(lines) = 18 + (k + 4) /\ Len(w) = 7 + Len(lines)
    BY <1>7, <1>13, <1>14
  <2> QED BY <1>2, <2>1
<1>16. w[29 + k] = "crlf"
  <2> DEFINE e == <<"crlf">>
  <2>1. Len(e) = 1 /\ e[1] = "crlf" /\ At(w, 6 + Len(lines), e)
    OBVIOUS
  <2> HIDE DEF e
  <2>2. w[(6 + Len(lines)) + 1] = "crlf"
    BY <2>1 DEF At
  <2>3. (6 + Len(lines)) + 1 = 29 + k
    BY <1>2, <1>15
  <2> QED BY <2>2, <2>3
<1>17. ASSUME NEW i \in 1..k PROVE w[27 + i] = value[i]
  BY <1>14 DEF At
<1>18. ASSUME NEW i \in 2..Len(w), w[i] = ":", w[i - 1] = name PROVE i = 26
  <2>1. CASE i \in 1..6
    <3>1. w[0 + i] = first[i] /\ 0 + i = i
      BY <2>1 DEF At
    <3> QED BY <1>18, <2>1, <3>1
  <2>2. CASE i \in 7..27
    <3>1. i \in 7..19 => i \in {8, 9, 15}
      <4>1. i \in 7..19 => i \in {7, 8, 9, 10, 11, 12, 13, 14, 15, 16, 17, 18, 19}
        OBVIOUS
      <4> QED BY <1>11, <1>18, <4>1
    <3>2. i \in 20..27 => i \in {21, 26}
      BY <1>12, <1>14, <1>18, <2>2, SMTT(30)
    <3>3. i \in {8, 9, 15, 21} => w[i - 1] \in {"Connection", "grade", "Sec-WebSocket-Version"}
      <4>1. /\ i = 8 => i - 1 = 7
            /\ i = 9 => i - 1 = 8
            /\ i = 15 => i - 1 = 14
            /\ i = 21 => i - 1 = 20
        OBVIOUS
      <4> QED BY <1>11, <1>12, <1>18, <4>1, ZenonT(40)
    <3> QED BY <1>18, <2>2, <3>1, <3>2, <3>3
  <2>3. CASE i \in 28..(27 + k)
    <3>1. i - 27 \in 1..k /\ 27 + (i - 27) = i
      BY <1>2, <2>3
    <3>2. w[i] = value[i - 27] /\ IsText(value[i - 27])
      BY <1>17, <3>1
    <3> QED BY <1>18, <3>2 DEF IsText
  <2>4. CASE i \in {28 + k, 29 + k}
    BY <1>14, <1>16, <1>18, <2>4
  <2>5. \/ i \in 1..6 \/ i \in 7..27 \/ i \in 28..(27 + k) \/ i \in {28 + k, 29 + k}
    <3>1. i \in Nat /\ i >= 2 /\ i <= k + 29 /\ k \in Nat
      BY <1>2, <1>15, <1>18
    <3> HIDE DEF k
    <3> QED BY <3>1
  <2> QED BY <2>1, <2>2, <2>3, <2>4, <2>5
<1>19. \A i \in 1..k : w[27 + i] = value[i] /\ IsText(value[i])
  BY <1>17
<1>20. 28 + k <= Len(w)
  <2>1. k \in Nat /\ Len(w) = k + 29
    BY <1>2, <1>15
  <2> HIDE DEF k
  <2> QED BY <2>1
<1> QED BY <1>14, <1>18, <1>19, <1>20 DEF LineStands

(* What a message is laid out of.                                          *)
LEMMA MessageLaid ==
  ASSUME NEW first \in Seq(Piece), Len(first) = 6, \A i \in 1..6 : first[i] # ":",
         NEW a, NEW b, \/ a = <<Connection, Upgrade>> /\ b = <<Upgrade, WebSocket>>
                       \/ a = <<Upgrade, WebSocket>> /\ b = <<Connection, Upgrade>>,
         NEW name \in Piece, name \notin {"Connection", "grade", "Sec-WebSocket-Version"},
         NEW value \in Seq(Piece), \A i \in 1..Len(value) : IsText(value[i]),
         NEW lines, lines = Bytes(FourLines(a, b, <<SecVersion, <<"13">>>>, <<<<name>>, value>>)),
         NEW w, \/ w = first \o (lines \o <<"crlf">>)
                \/ w = (first \o lines) \o <<"crlf">>
  PROVE  LineStands(w, name, value)
<1> DEFINE e == <<"crlf">>
           le == lines \o e
<1>1. e \in Seq(Piece) /\ Len(e) = 1
  BY DEF Piece
<1>2. lines \in Seq(Piece)
  <2> DEFINE c == <<SecVersion, <<"13">>>>
             d == <<<<name>>, value>>
  <2>1. IsHeader(a) /\ IsHeader(b) /\ IsHeader(c) /\ IsHeader(d)
    BY Words, SMTT(30) DEF IsHeader
  <2>2. lines = Bytes(FourLines(a, b, c, d))
    OBVIOUS
  <2> HIDE DEF c, d
  <2> DEFINE p == FourLines(a, b, c, d)
  <2>3. p \in Seq(Part) /\ Len(p) # 0
    BY ONLY <2>1, BytesOfHeaders
  <2> HIDE DEF p
  <2>4. Bytes(p) \in Seq(Piece)
    BY ONLY <2>3, BytesConcat
  <2> QED BY <2>2, <2>4 DEF p
<1> HIDE DEF e
<1>3. le \in Seq(Piece) /\ Len(le) = Len(lines) + 1 /\ Len(lines) \in Nat
  <2>1. le \in Seq(Piece) /\ Len(le) = Len(lines) + Len(e) /\ Len(lines) \in Nat
    BY ONLY <1>1, <1>2, ConcatProperties, LenProperties
  <2> HIDE DEF le
  <2> QED BY <1>1, <2>1
<1>4. w = first \o le
  <2>1. (first \o lines) \o e = first \o (lines \o e)
    BY ONLY first \in Seq(Piece), <1>1, <1>2, ConcatAssociative
  <2> QED BY <2>1 DEF e
<1> HIDE DEF le
<1>5. w \in Seq(Piece) /\ Len(w) = 7 + Len(lines)
  <2>1. w \in Seq(Piece) /\ Len(w) = Len(first) + Len(le)
    BY ONLY first \in Seq(Piece), <1>3, <1>4, ConcatProperties
  <2> QED BY <1>3, <2>1
<1>6. At(w, 0, w)
  BY <1>5, LenProperties DEF At
<1>7. At(w, 0, first) /\ At(w, 0 + Len(first), le)
  BY <1>3, <1>4, <1>5, <1>6, SplitAt
<1>8. At(w, 6, le)
  <2>1. 0 + Len(first) = 6
    OBVIOUS
  <2> QED BY <1>7, <2>1
<1>9. At(w, 6, lines) /\ At(w, 6 + Len(lines), e)
  BY <1>1, <1>2, <1>5, <1>8, SplitAt DEF le
<1>10. At(w, 6 + Len(lines), <<"crlf">>)
  BY <1>9 DEF e
<1> HIDE DEF LineStands
<1> QED BY <1>5, <1>7, <1>9, <1>10, HeadLaid

(* The request has the key there.                                          *)
LEMMA RequestLaid ==
  ASSUME key_ \in Seq(Piece), \A i \in 1..Len(key_) : IsText(key_[i])
  PROVE  LineStands(Bytes(HandshakeRequest), "Sec-WebSocket-Key", key_)
<1> DEFINE a == <<Connection, Upgrade>>
           b == <<Upgrade, WebSocket>>
           c == <<SecVersion, <<"13">>>>
           d == << <<"Sec-WebSocket-Key">>, key_>>
           items == <<a, b, c, d>>
           x == <<"GET", "sp">>
           y == <<"/">>
           z == <<"sp", "HTTP/1.1", "crlf">>
           first == <<Plain(x), Name(y), Plain(z)>>
           end == <<Plain(<<"crlf">>)>>
           h == FourLines(a, b, c, d)
           m == [ method |-> "GET", url |-> <<"/">>, version |-> "HTTP/1.1",
                  headers |-> items, coding |-> "none", body |-> <<>> ]
<1>1. HandshakeRequest = RequestParts(m)
  BY DEF HandshakeRequest, SecKey
<1>2. HeaderLinesOf(m) = items
  <2>1. HeaderLinesOf(m) = items \o <<>>
    BY DEF HeaderLinesOf
  <2>2. items \in Seq({a, b, c, d})
    <3> HIDE DEF a, b, c, d
    <3> QED OBVIOUS
  <2>3. items \o <<>> = items
    <3> HIDE DEF items
    <3> QED BY <2>2, ConcatEmptySeq
  <2> QED BY <2>1, <2>3
<1>3. HeadEnd(m) = h \o end
  <2>1. HeadEnd(m) = AllParts(HeaderLinesOf(m), HeaderParts) \o end
    BY DEF HeadEnd
  <2> QED BY <1>2, <2>1 DEF FourLines
<1>4. RequestHead(m) = first \o HeadEnd(m)
  BY DEF RequestHead
<1>5. BodyParts(m) = <<>>
  BY DEF BodyParts
<1>6. IsHeader(a) /\ IsHeader(b) /\ IsHeader(c) /\ IsHeader(d)
  BY Words DEF IsHeader, Piece
<1>7. h \in Seq(Part) /\ Len(h) # 0
  <2> HIDE DEF a, b, c, d
  <2> QED BY ONLY <1>6, BytesOfHeaders
<1>8. x \in Seq(Piece) /\ y \in Seq(Piece) /\ z \in Seq(Piece) /\ <<"crlf">> \in Seq(Piece)
  BY DEF Piece
<1>9. end \in Seq(Part) /\ Len(end) = 1 /\ Bytes(end) = <<"crlf">>
  <2> DEFINE t == <<"crlf">>
  <2>1. t \in Seq(Piece)
    BY <1>8
  <2> HIDE DEF t
  <2>2. Bytes(<<Plain(t)>>) = t /\ <<Plain(t)>> \in Seq(Part)
    BY <2>1, BytesPlain
  <2>3. Len(end) = 1
    OBVIOUS
  <2> QED BY <2>2, <2>3 DEF t
<1>10. first \in Seq(Part) /\ Len(first) = 3 /\ Bytes(first) = (x \o y) \o z
  <2>1. Plain(x) \in Part /\ Name(y) \in Part /\ Plain(z) \in Part
    <3> HIDE DEF x, y, z
    <3> QED BY <1>8 DEF Plain, Name, Part
  <2>2. first \in Seq(Part) /\ Len(first) = 3
    BY <2>1
  <2>3. Plain(x).text = x /\ Name(y).text = y /\ Plain(z).text = z
    BY DEF Plain, Name
  <2> DEFINE f == first
  <2>4. f[1].text = x /\ f[2].text = y /\ f[3].text = z
    BY <2>3
  <2>5. f \in Seq(Part) /\ Len(f) = 3
    BY <2>2
  <2> HIDE DEF x, y, z, f
  <2>6. /\ Len(Texts(f)) = 3 /\ Bytes(f) = FlattenSeq(Texts(f)) /\ DOMAIN f = 1..3
    BY <2>5, TextsOf, LenProperties
  <2>7. Texts(f)[1] = x /\ Texts(f)[2] = y /\ Texts(f)[3] = z
    BY <2>4, <2>6 DEF Texts
  <2>8. Bytes(f) = (Texts(f)[1] \o Texts(f)[2]) \o Texts(f)[3]
    BY <2>6, FlattenThree
  <2> QED BY <2>5, <2>7, <2>8 DEF f
<1> DEFINE w == Bytes(HandshakeRequest)
           lines == Bytes(h)
           head == (x \o y) \o z
<1>11. head \in Seq(Piece) /\ Len(head) = 6 /\ \A i \in 1..6 : head[i] # ":"
  <2> DEFINE xy == x \o y
  <2>1. Len(x) = 2 /\ Len(y) = 1 /\ Len(z) = 3 /\ x[1] # ":" /\ x[2] # ":" /\ y[1] # ":"
        /\ z[1] # ":" /\ z[2] # ":" /\ z[3] # ":"
    OBVIOUS
  <2> HIDE DEF x, y, z
  <2>2. /\ xy \in Seq(Piece) /\ Len(xy) = Len(x) + Len(y)
        /\ \A i \in 1..(Len(x) + Len(y)) : xy[i] = IF i <= Len(x) THEN x[i] ELSE y[i - Len(x)]
    BY ONLY <1>8, ConcatProperties
  <2> HIDE DEF xy
  <2>3. Len(xy) = 3 /\ \A i \in 1..3 : xy[i] # ":"
    BY <2>1, <2>2
  <2> DEFINE u == xy \o z
  <2>4. /\ u \in Seq(Piece) /\ Len(u) = Len(xy) + Len(z)
        /\ \A i \in 1..(Len(xy) + Len(z)) : u[i] = IF i <= Len(xy) THEN xy[i] ELSE z[i - Len(xy)]
    <3>1. xy \in Seq(Piece) /\ z \in Seq(Piece)
      BY <1>8, <2>2
    <3> QED BY ONLY <3>1, ConcatProperties
  <2> HIDE DEF u
  <2>5. Len(u) = 6 /\ \A i \in 1..6 : u[i] # ":"
    BY <2>1, <2>3, <2>4
  <2> QED BY <2>4, <2>5 DEF u, xy
<1>12. h \o end \in Seq(Part) /\ Len(h \o end) # 0 /\ Bytes(h \o end) = lines \o Bytes(end)
  <2> HIDE DEF h, end
  <2> DEFINE he == h \o end
  <2>1. he \in Seq(Part) /\ Len(he) = Len(h) + Len(end) /\ Len(h) \in Nat
    BY ONLY <1>7, <1>9, ConcatProperties, LenProperties
  <2>2. Len(end) # 0
    BY <1>9
  <2>3. Bytes(he) = Bytes(h) \o Bytes(end)
    BY ONLY <1>7, <1>9, <2>2, BytesConcat
  <2> HIDE DEF he
  <2>4. Len(he) # 0
    BY <1>9, <2>1
  <2> QED BY <2>1, <2>3, <2>4 DEF he
<1>13. w = head \o (lines \o <<"crlf">>)
  <2> DEFINE he == h \o end
             all == first \o he
  <2> HIDE DEF m, h, end, first, x, y, z
  <2>1. he \in Seq(Part) /\ Len(he) # 0
    BY <1>12
  <2>2. first \in Seq(Part) /\ Len(first) # 0
    BY <1>10
  <2> HIDE DEF he
  <2>3. Bytes(all) = Bytes(first) \o Bytes(he)
    BY ONLY <2>1, <2>2, BytesConcat
  <2>4. all \in Seq(Part)
    BY ONLY <2>1, <2>2, ConcatProperties
  <2>5. HandshakeRequest = all \o <<>>
    BY <1>1, <1>3, <1>4, <1>5 DEF RequestParts, he
  <2> HIDE DEF all
  <2>6. HandshakeRequest = all
    BY <2>4, <2>5, ConcatEmptySeq
  <2> QED BY <1>9, <1>10, <1>12, <2>3, <2>6 DEF he
<1> DEFINE name == "Sec-WebSocket-Key"
<1>14. name \in Piece /\ name \notin {"Connection", "grade", "Sec-WebSocket-Version"}
  BY DEF Piece
<1>15. lines = Bytes(FourLines(a, b, <<SecVersion, <<"13">>>>, <<<<name>>, key_>>))
  OBVIOUS
<1>16. a = <<Connection, Upgrade>> /\ b = <<Upgrade, WebSocket>>
  OBVIOUS
<1> HIDE DEF w, lines, head, a, b, name
<1>17. LineStands(w, name, key_)
  BY <1>11, <1>13, <1>14, <1>15, <1>16, MessageLaid
<1> QED BY <1>17 DEF w, name

(* The answer that accepts, which names the key it is for.                 *)
LEMMA ResponseLaid ==
  ASSUME NEW key \in Seq(Piece), \A i \in 1..Len(key) : IsText(key[i])
  PROVE  LET w == Bytes(responseHandShake(key))
             k == <<"digest">> \o key
         IN  /\ LineStands(w, "Sec-WebSocket-Accept", k)
             /\ Len(k) = Len(key) + 1 /\ \A i \in 1..Len(key) : k[i + 1] = key[i]
<1> DEFINE a == <<Upgrade, WebSocket>>
           b == <<Connection, Upgrade>>
           c == <<SecVersion, <<"13">>>>
           dg == <<"digest">>
           k == dg \o key
           d == << <<"Sec-WebSocket-Accept">>, k>>
           first == <<"HTTP/1.1", "sp", "101", "sp", "reason", "crlf">>
           e == <<"crlf">>
           p == <<Plain(first)>>
           q == <<Plain(e)>>
           h == FourLines(a, b, c, d)
           lines == Bytes(h)
           r == responseHandShake(key)
           name == "Sec-WebSocket-Accept"
<1>1. r = (p \o h) \o q
  BY DEF responseHandShake, FourLines, SecAccept, getSecWebsocketAccept
<1>2. first \in Seq(Piece) /\ e \in Seq(Piece) /\ dg \in Seq(Piece)
  BY DEF Piece
<1>3. Len(first) = 6 /\ \A i \in 1..6 : first[i] # ":"
  OBVIOUS
<1>4. Len(dg) = 1 /\ dg[1] = "digest" /\ IsText("digest")
  BY DEF IsText
<1> HIDE DEF first, e, dg
<1>5. /\ k \in Seq(Piece) /\ Len(k) = Len(dg) + Len(key)
      /\ \A i \in 1..(Len(dg) + Len(key)) : k[i] = IF i <= Len(dg) THEN dg[i] ELSE key[i - Len(dg)]
  BY ONLY key \in Seq(Piece), <1>2, ConcatProperties
<1> HIDE DEF k
<1>6. /\ Len(k) = Len(key) + 1 /\ k[1] = "digest" /\ Len(key) \in Nat
      /\ \A i \in 1..Len(key) : k[i + 1] = key[i]
  <2>1. Len(key) \in Nat
    BY LenProperties
  <2>2. \A i \in 1..Len(key) : i + 1 \in 1..(1 + Len(key)) /\ ~(i + 1 <= 1) /\ (i + 1) - 1 = i
    BY <2>1
  <2> QED BY <1>4, <1>5, <2>1, <2>2
<1>7. \A i \in 1..Len(k) : IsText(k[i])
  <2> TAKE i \in 1..Len(k)
  <2>1. CASE i = 1
    BY <1>4, <1>6, <2>1
  <2>2. CASE i # 1
    <3>1. i - 1 \in 1..Len(key) /\ (i - 1) + 1 = i
      BY <1>6, <2>2
    <3>2. k[i] = key[i - 1]
      BY <1>6, <3>1
    <3> QED BY <3>1, <3>2
  <2> QED BY <2>1, <2>2
<1>8. <<name>> \in Seq(Piece) /\ name \in Piece
      /\ name \notin {"Connection", "grade", "Sec-WebSocket-Version"}
  BY DEF Piece
<1>9. IsHeader(a) /\ IsHeader(b) /\ IsHeader(c) /\ IsHeader(d)
  BY <1>5, <1>8, Words DEF IsHeader
<1>10. h \in Seq(Part) /\ Len(h) # 0 /\ lines \in Seq(Piece)
  <2> HIDE DEF a, b, c, d
  <2>1. h \in Seq(Part) /\ Len(h) # 0
    BY ONLY <1>9, BytesOfHeaders
  <2> HIDE DEF h
  <2>2. Bytes(h) \in Seq(Piece)
    BY ONLY <2>1, BytesConcat
  <2> QED BY <2>1, <2>2
<1>11. /\ p \in Seq(Part) /\ Bytes(p) = first /\ Len(p) = 1
       /\ q \in Seq(Part) /\ Bytes(q) = e /\ Len(q) = 1
  <2>1. Len(p) = 1 /\ Len(q) = 1
    OBVIOUS
  <2> QED BY <1>2, <2>1, BytesPlain
<1>12. Bytes(r) = (first \o lines) \o e
  <2> HIDE DEF h, p, q, r, lines
  <2> DEFINE ph == p \o h
             all == ph \o q
  <2>1. Bytes(ph) = Bytes(p) \o Bytes(h)
    <3>1. Len(p) # 0
      BY <1>11
    <3> QED BY ONLY <1>10, <1>11, <3>1, BytesConcat
  <2>2. ph \in Seq(Part) /\ Len(ph) = Len(p) + Len(h) /\ Len(h) \in Nat
    BY ONLY <1>10, <1>11, ConcatProperties, LenProperties
  <2> HIDE DEF ph
  <2>3. Len(ph) # 0 /\ Len(q) # 0
    BY <1>11, <2>2
  <2>4. Bytes(all) = Bytes(ph) \o Bytes(q)
    BY ONLY <1>11, <2>2, <2>3, BytesConcat
  <2>5. r = all
    BY <1>1 DEF ph
  <2> QED BY <1>11, <2>1, <2>4, <2>5 DEF lines
<1> DEFINE w == Bytes(r)
<1>13. w = (first \o lines) \o <<"crlf">>
  BY <1>12 DEF e
<1>14. lines = Bytes(FourLines(a, b, <<SecVersion, <<"13">>>>, <<<<name>>, k>>))
  OBVIOUS
<1>15. a = <<Upgrade, WebSocket>> /\ b = <<Connection, Upgrade>>
  OBVIOUS
<1> HIDE DEF w, lines, a, b, name
<1>16. LineStands(w, name, k)
  BY <1>2, <1>3, <1>5, <1>7, <1>8, <1>13, <1>14, <1>15, MessageLaid
<1> QED BY <1>6, <1>16 DEF w, name, k, dg, r

(* The answer that does not.                                               *)
LEMMA BadRequestBytes ==
  /\ Bytes(BadRequest) \in Seq(Piece)
  /\ \A i \in 1..Len(Bytes(BadRequest)) : Bytes(BadRequest)[i] # "101"
<1> DEFINE t == <<"HTTP/1.1", "sp", "400", "sp", "reason", "crlf", "crlf">>
<1>1. t \in Seq(Piece)
  BY DEF Piece
<1>2. \A i \in 1..Len(t) : t[i] # "101"
  OBVIOUS
<1> HIDE DEF t
<1>3. Bytes(<<Plain(t)>>) = t
  BY <1>1, BytesPlain
<1>4. BadRequest = <<Plain(t)>>
  BY DEF BadRequest, t
<1> QED BY <1>1, <1>2, <1>3, <1>4

(* What is sent later changes nothing in it, if there is no ":" in it.     *)
LEMMA LaidLonger ==
  ASSUME NEW w, NEW name, NEW value, LineStands(w, name, value),
         NEW x \in Seq(Piece), \A i \in 1..Len(x) : x[i] # ":"
  PROVE  LineStands(w \o x, name, value)
<1> DEFINE u == w \o x
<1>1. w \in Seq(Piece) /\ value \in Seq(Piece)
  BY DEF LineStands
<1>2. /\ u \in Seq(Piece) /\ Len(u) = Len(w) + Len(x)
      /\ \A i \in 1..(Len(w) + Len(x)) : u[i] = IF i <= Len(w) THEN w[i] ELSE x[i - Len(w)]
  BY ONLY <1>1, x \in Seq(Piece), ConcatProperties
<1> HIDE DEF u
<1>3. Len(w) \in Nat /\ Len(x) \in Nat /\ Len(value) \in Nat
  BY <1>1, LenProperties
<1>4. \A i \in 1..Len(w) : u[i] = w[i]
  BY <1>2, <1>3
<1>5. 28 + Len(value) <= Len(u) /\ 28 + Len(value) <= Len(w)
  BY <1>2, <1>3 DEF LineStands
<1>6. /\ u[25] = w[25] /\ u[26] = w[26] /\ u[27] = w[27] /\ u[28 + Len(value)] = w[28 + Len(value)]
      /\ \A i \in 1..Len(value) : u[27 + i] = w[27 + i]
  BY <1>3, <1>4, <1>5
<1>7. ASSUME NEW i \in 2..Len(u), u[i] = ":", u[i - 1] = name PROVE i = 26
  <2>1. CASE i <= Len(w)
    <3>1. i \in 2..Len(w) /\ u[i] = w[i] /\ u[i - 1] = w[i - 1]
      BY <1>3, <1>4, <2>1
    <3> QED BY <1>7, <3>1 DEF LineStands
  <2>2. CASE i > Len(w)
    <3>1. i - Len(w) \in 1..Len(x) /\ u[i] = x[i - Len(w)]
      BY <1>2, <1>3, <2>2
    <3> QED BY <1>7, <3>1
  <2> QED BY <1>3, <2>1, <2>2
<1>8. LineStands(u, name, value)
  <2>1. /\ w[25] = name /\ w[26] = ":" /\ w[27] = "sp" /\ w[28 + Len(value)] = "crlf"
        /\ \A i \in 1..Len(value) : w[27 + i] = value[i] /\ IsText(value[i])
    BY DEF LineStands
  <2> QED BY <1>1, <1>2, <1>5, <1>6, <1>7, <2>1 DEF LineStands
<1> QED BY <1>8 DEF u

------------------------------------------------------------------------------
(* What a header with this name can have been read as: the value or a      *)
(* beginning of it.                                                        *)
Begins(v, value) ==
  /\ v \in Seq(Piece) /\ Len(v) <= Len(value)
  /\ \A i \in 1..Len(v) : v[i] = value[i]

LEMMA ReadOff ==
  ASSUME NEW w, NEW name, NEW value, LineStands(w, name, value), value # <<>>,
         NEW c \in Nat, c <= Len(w), NEW v, HeaderLine(w, c, <<name>>, v)
  PROVE  Begins(v, value)
<1> DEFINE n == <<name>>
<1>1. Len(n) = 1 /\ n[1] = name
  OBVIOUS
<1> HIDE DEF n
<1>2. HeaderLine(w, c, n, v)
  BY DEF n
<1>3. PICK p \in 1..c, q \in 1..c :
        /\ p < q /\ q - 1 + Len(v) <= c
        /\ NameBefore(w, p, n) /\ Blank(w, p, q)
        /\ ValueAt(w, q, v) /\ w[q] # "sp"
  BY <1>2 DEF HeaderLine
<1>4. /\ w \in Seq(Piece) /\ value \in Seq(Piece) /\ Len(w) \in Nat /\ Len(value) \in Nat
      /\ v \in Seq(Piece) /\ Len(v) \in Nat
  BY <1>3, LenProperties DEF LineStands, ValueAt
<1>5. p = 26
  <2>1. w[p] = ":" /\ 1 < p /\ n[1] = w[p - 1 - 1 + 1]
    BY <1>1, <1>3 DEF NameBefore
  <2>2. p \in 2..Len(w) /\ p - 1 - 1 + 1 = p - 1
    BY <1>4, <2>1
  <2> QED BY <1>1, <2>1, <2>2 DEF LineStands
<1>6. /\ w[27] = "sp" /\ w[28 + Len(value)] = "crlf"
      /\ \A i \in 1..Len(value) : w[27 + i] = value[i] /\ IsText(value[i])
  BY DEF LineStands
<1>7. Len(value) >= 1
  <2>1. Len(value) # 0
    BY <1>4, EmptySeq
  <2> QED BY <1>4, <2>1
<1>8. w[28] \notin {"sp", "crlf"}
  <2>1. w[27 + 1] = value[1] /\ IsText(value[1])
    BY <1>4, <1>6, <1>7
  <2> QED BY <2>1 DEF IsText
<1>9. q = 28
  <2>1. q # 27
    BY <1>3, <1>6
  <2>2. ~(28 \in p + 1 .. q - 1)
    BY <1>3, <1>8 DEF Blank
  <2> QED BY <1>3, <1>5, <2>1, <2>2
<1>10. \A i \in 1..Len(v) : v[i] = w[27 + i] /\ v[i] # "crlf"
  <2>1. \A i \in 1..Len(v) : v[i] = w[q - 1 + i] /\ v[i] # "crlf"
    BY <1>3 DEF ValueAt
  <2>2. \A i \in 1..Len(v) : q - 1 + i = 27 + i
    BY <1>4, <1>9
  <2> QED BY <2>1, <2>2
<1>11. Len(v) <= Len(value)
  <2> SUFFICES ASSUME Len(v) > Len(value) PROVE FALSE
    BY <1>4
  <2>1. Len(value) + 1 \in 1..Len(v) /\ 27 + (Len(value) + 1) = 28 + Len(value)
    BY <1>4
  <2>2. w[27 + (Len(value) + 1)] # "crlf"
    BY <1>10, <2>1
  <2> QED BY <1>6, <2>1, <2>2
<1>12. \A i \in 1..Len(v) : i \in 1..Len(value)
  BY <1>4, <1>11
<1> QED BY <1>4, <1>6, <1>10, <1>11, <1>12 DEF Begins

------------------------------------------------------------------------------
(* The inductive invariant.                                                *)
IsStream(s) ==
  /\ DOMAIN s = {"bytes", "cuts", "read"}
  /\ s.bytes \in Seq(Piece)
  /\ s.read \in 0..Len(s.bytes)

IsEndpoint(e) ==
  /\ DOMAIN e = {"http", "buffer", "handshaked", "closing"}
  /\ e.handshaked \in BOOLEAN /\ e.closing \in BOOLEAN

(* Before the handshake the parser has been given all that has arrived but *)
(* what is in the Buffer.                                                  *)
Listening(e, s) ==
  ~e.handshaked /\ ~e.closing =>
    /\ AtRest(e.http) /\ e.http.error = FALSE
    /\ Entries(e.http, s.bytes, s.read)
    /\ \E c \in 0..s.read :
         e.buffer = SubSeq(s.bytes, c + 1, s.read) /\ NamePending(e.http, s.bytes, c)
    /\ e.buffer # <<>> => e.http.complete /\ e.http.upgrade

Accepted == server.handshaked /\ ~server.closing

(* What the server has answered, and to what: nothing yet, a refusal, or   *)
(* an answer for a beginning of the key with frames behind it.             *)
Answers ==
  /\ ~server.handshaked => toServer.bytes = Bytes(HandshakeRequest)
  /\ ~server.handshaked /\ ~server.closing => toClient.bytes = <<>>
  /\ ~Accepted => \A i \in 1..Len(toClient.bytes) : toClient.bytes[i] # "101"
  /\ Accepted =>
       /\ answered # <<>> /\ Begins(answered, key_)
       /\ LineStands(toClient.bytes, "Sec-WebSocket-Accept", <<"digest">> \o answered)

IInv ==
  /\ IsStream(toServer) /\ IsStream(toClient)
  /\ IsEndpoint(server) /\ IsEndpoint(client)
  /\ Listening(server, toServer) /\ Listening(client, toClient)
  /\ Answers
  /\ Agreement

------------------------------------------------------------------------------
(* A read before the handshake.                                            *)
Further(s, n) == [s EXCEPT !.read = @ + n]

(* Reading n bytes of a stream leaves a stream.                            *)
LEMMA FurtherIsStream ==
  ASSUME NEW s, IsStream(s), NEW n \in Nat, n <= Len(s.bytes) - s.read
  PROVE  /\ IsStream(Further(s, n)) /\ Further(s, n).bytes = s.bytes
         /\ Further(s, n).read = s.read + n
<1>1. Len(s.bytes) \in Nat
  BY LenProperties DEF IsStream
<1> QED BY <1>1 DEF Further, IsStream

(* The bytes the parser is given are those of the stream behind what it    *)
(* has had, and those it leaves are in the Buffer.                         *)
LEMMA ParsedListens ==
  ASSUME NEW s, IsStream(s), NEW n \in Nat, n # 0, n <= Len(s.bytes) - s.read,
         NEW e, IsEndpoint(e), ~e.handshaked, ~e.closing, Listening(e, s)
  PROVE  LET x == Parsed(e, e.buffer \o Arriving(s, n))
         IN  /\ IsEndpoint(x) /\ x.handshaked = FALSE
             /\ Entries(x.http, s.bytes, s.read + n)
             /\ Listening(x, Further(s, n))
<1> DEFINE w == s.bytes
           d == s.read + n
           h == e.http
           bytes == e.buffer \o Arriving(s, n)
           g == Execute(h, bytes)
           x == Parsed(e, bytes)
<1>1. /\ w \in Seq(Piece) /\ Len(w) \in Nat /\ s.read \in Nat /\ d \in Nat /\ s.read < d
      /\ d <= Len(w)
  <2>1. w \in Seq(Piece) /\ Len(w) \in Nat /\ s.read \in 0..Len(w)
    BY LenProperties DEF IsStream
  <2> QED BY <2>1
<1>2. PICK c \in 0..s.read :
        e.buffer = SubSeq(w, c + 1, s.read) /\ NamePending(h, w, c)
  BY DEF Listening
<1>3. AtRest(h) /\ h.error = FALSE /\ Entries(h, w, s.read)
  BY DEF Listening
<1>4. bytes = SubSeq(w, c + 1, d)
  <2> DEFINE m == c + 1
             k == s.read
  <2>1. m \in 1..(Len(w) + 1) /\ k \in (m - 1)..Len(w) /\ d \in k..Len(w)
    BY <1>1
  <2>2. bytes = SubSeq(w, m, k) \o SubSeq(w, k + 1, d)
    BY <1>2 DEF Arriving
  <2> HIDE DEF m, k, d, w, bytes
  <2>3. SubSeq(w, m, k) \o SubSeq(w, k + 1, d) = SubSeq(w, m, d)
    BY <1>1, <2>1, ConcatAdjacentSubSeq
  <2> QED BY <2>2, <2>3 DEF m
<1>5. c \in Nat /\ c < d
  BY <1>1
<1> HIDE DEF bytes, d, w, h
<1>6. bytes \in Seq(Piece) /\ Len(bytes) = d - c
  <2>1. c + 1 \in Int /\ d \in Int /\ c + 1 <= d /\ d - (c + 1) + 1 = d - c
        /\ \A i \in (c + 1)..d : w[i] \in Piece
    BY <1>1, <1>5
  <2>2. SubSeq(w, c + 1, d) \in Seq(Piece) /\ Len(SubSeq(w, c + 1, d)) = d - (c + 1) + 1
    BY ONLY <2>1, SubSeqProperties
  <2> QED BY <1>4, <2>1, <2>2
<1>7. bytes # <<>>
  <2>1. Len(bytes) # 0
    BY <1>1, <1>5, <1>6
  <2> QED BY <2>1
<1>8. Entries(h, w, d)
  BY <1>1, <1>3, EntriesLonger
<1>9. /\ Entries(Idle(g), w, d)
      /\ g.error = FALSE => g.used <= d - c /\ NamePending(Idle(g), w, c + g.used)
  BY <1>1, <1>2, <1>3, <1>4, <1>5, <1>8, CallReads
<1>10. /\ AtRest(Idle(g)) /\ Idle(g).error = g.error
       /\ Idle(g).upgrade = g.upgrade /\ Idle(g).complete = g.complete
       /\ IsParser(g) /\ g.used \in Nat
       /\ LeftOver(g, bytes) # <<>> => g.error \/ (g.upgrade /\ g.complete)
  BY <1>3, <1>6, <1>7, AfterBytes
<1> HIDE DEF g
<1>11. /\ IsEndpoint(x) /\ x.handshaked = FALSE /\ x.http = Idle(g)
       /\ x.buffer = LeftOver(g, bytes) /\ x.closing = g.error
  <2>1. x = [e EXCEPT !.http = Idle(g), !.buffer = LeftOver(g, bytes), !.closing = g.error]
    BY DEF Parsed, g, h
  <2>2. g.error \in BOOLEAN
    BY <1>10 DEF IsParser
  <2> QED BY <2>1, <2>2 DEF IsEndpoint
<1> HIDE DEF x
<1>12. ASSUME g.error = FALSE
       PROVE  \E k \in 0..d : x.buffer = SubSeq(w, k + 1, d) /\ NamePending(x.http, w, k)
  <2> DEFINE k == c + g.used
  <2>1. g.used <= d - c /\ NamePending(x.http, w, k)
    BY <1>9, <1>11, <1>12
  <2>2. k \in 0..d
    BY <1>1, <1>5, <1>10, <2>1
  <2>3. x.buffer = SubSeq(SubSeq(w, c + 1, d), g.used + 1, d - c)
    BY <1>4, <1>6, <1>11, <1>12 DEF LeftOver
  <2>4. CASE g.used = d - c
    <3>1. x.buffer = <<>>
      BY <1>1, <1>5, <2>3, <2>4, SubSeqEmpty
    <3>2. SubSeq(w, k + 1, d) = <<>>
      BY <1>1, <1>5, <2>4, SubSeqEmpty
    <3> QED BY <2>1, <2>2, <3>1, <3>2
  <2>5. CASE g.used # d - c
    <3> DEFINE i == c + 1
               m == g.used + 1
               o == d - c
    <3>1. /\ i \in 1..Len(w) /\ d \in 1..Len(w) /\ m \in 1..(d - i + 1) /\ o \in 1..(d - i + 1)
          /\ i + m - 1 = k + 1 /\ i + o - 1 = d
      <4> DEFINE z == g.used
                 l == Len(w)
      <4>1. /\ z \in Nat /\ z <= d - c /\ z # d - c /\ c \in Nat /\ d \in Nat /\ l \in Nat
            /\ c < d /\ d <= l
        BY <1>1, <1>5, <1>10, <2>1, <2>5
      <4>2. i = c + 1 /\ m = z + 1 /\ o = d - c /\ k = c + z
        OBVIOUS
      <4> HIDE DEF z, l, i, m, o, k
      <4>3. /\ i \in 1..l /\ d \in 1..l /\ m \in 1..(d - i + 1) /\ o \in 1..(d - i + 1)
            /\ i + m - 1 = k + 1 /\ i + o - 1 = d
        BY ONLY <4>1, <4>2
      <4> QED BY <4>3 DEF l
    <3> HIDE DEF i, m, o
    <3>2. SubSeq(w, i, d) \in Seq(Piece)
      BY <1>4, <1>6 DEF i
    <3>3. SubSeq(SubSeq(w, i, d), m, o) = SubSeq(w, i + m - 1, i + o - 1)
      BY <1>1, <3>1, <3>2, SubSeqOfSubSeq
    <3>4. x.buffer = SubSeq(SubSeq(w, i, d), m, o)
      BY <2>3 DEF i, m, o
    <3> QED BY <2>1, <2>2, <3>1, <3>3, <3>4
  <2> QED BY <2>4, <2>5
<1>13. Further(s, n).bytes = w /\ Further(s, n).read = d
  BY FurtherIsStream DEF w, d
<1>14. Listening(x, Further(s, n))
  <2> SUFFICES ASSUME g.error = FALSE PROVE Listening(x, Further(s, n))
    BY <1>10, <1>11 DEF Listening, IsParser
  <2>1. AtRest(x.http) /\ x.http.error = FALSE /\ Entries(x.http, w, d)
    BY <1>9, <1>10, <1>11
  <2>2. x.buffer # <<>> => x.http.complete /\ x.http.upgrade
    BY <1>10, <1>11
  <2> QED BY <1>12, <1>13, <2>1, <2>2 DEF Listening
<1> QED BY <1>9, <1>11, <1>14 DEF x, bytes, w, d

(* An endpoint goes on listening when its peer sends, and one that is      *)
(* upgraded or closed listens no more.                                     *)
LEMMA ListensOn ==
  ASSUME NEW s, IsStream(s), NEW t, IsStream(t), s.read = t.read,
         Len(s.bytes) <= Len(t.bytes), \A i \in 1..Len(s.bytes) : t.bytes[i] = s.bytes[i],
         NEW e, Listening(e, s)
  PROVE  Listening(e, t)
<1> SUFFICES ASSUME ~e.handshaked, ~e.closing PROVE Listening(e, t)
  BY DEF Listening
<1> DEFINE w == s.bytes
           u == t.bytes
           d == s.read
<1>1. /\ w \in Seq(Piece) /\ u \in Seq(Piece) /\ Len(w) \in Nat /\ Len(u) \in Nat
      /\ d \in Nat /\ d <= Len(w) /\ d <= Len(u)
  <2>1. w \in Seq(Piece) /\ u \in Seq(Piece) /\ d \in 0..Len(w) /\ Len(w) \in Nat /\ Len(u) \in Nat
    BY LenProperties DEF IsStream
  <2> QED BY <2>1
<1>2. \A i \in 1..d : u[i] = w[i]
  BY <1>1
<1>3. PICK c \in 0..d : e.buffer = SubSeq(w, c + 1, d) /\ NamePending(e.http, w, c)
  BY DEF Listening
<1>4. AtRest(e.http) /\ e.http.error = FALSE /\ Entries(e.http, w, d)
      /\ (e.buffer # <<>> => e.http.complete /\ e.http.upgrade)
  BY DEF Listening
<1> HIDE DEF w, u, d
<1>5. Entries(e.http, u, d)
  <2> DEFINE h == e.http
  <2>1. d \in Nat /\ d <= d /\ Entries(h, w, d)
    BY <1>1, <1>4
  <2> HIDE DEF h
  <2>2. Entries(h, u, d)
    BY ONLY <1>2, <2>1, EntriesLonger
  <2> QED BY <2>2 DEF h
<1>6. NamePending(e.http, u, c)
  <2>1. c \in Nat /\ \A i \in 1..c : u[i] = w[i]
    BY <1>1, <1>2
  <2> QED BY <1>3, <2>1, PendingLonger
<1>7. SubSeq(w, c + 1, d) = SubSeq(u, c + 1, d)
  <2> DEFINE a == c + 1
             x == SubSeq(w, a, d)
             y == SubSeq(u, a, d)
             l == IF a <= d THEN d - a + 1 ELSE 0
  <2>1. a \in Int /\ d \in Int /\ \A i \in a..d : i \in 1..d /\ w[i] \in Piece /\ u[i] \in Piece
    BY <1>1
  <2>2. l \in Nat /\ \A i \in 1..l : i \in 1..(d - a + 1) /\ a + i - 1 \in 1..d
    BY <1>1
  <2> HIDE DEF a
  <2>3. x \in Seq(Piece) /\ Len(x) = l /\ \A i \in 1..(d - a + 1) : x[i] = w[a + i - 1]
    BY ONLY <2>1, SubSeqProperties
  <2>4. y \in Seq(Piece) /\ Len(y) = l /\ \A i \in 1..(d - a + 1) : y[i] = u[a + i - 1]
    BY ONLY <2>1, SubSeqProperties
  <2> HIDE DEF x, y, l
  <2>5. \A i \in 1..Len(x) : x[i] = y[i]
    BY <1>2, <2>2, <2>3, <2>4
  <2>6. x = y
    BY <2>3, <2>4, <2>5, SeqEqual
  <2> QED BY <2>6 DEF x, y, a
<1> QED BY <1>3, <1>4, <1>5, <1>6, <1>7 DEF Listening, w, u, d

(* What sending does to a stream.                                          *)
LEMMA SentIsStream ==
  ASSUME NEW s, IsStream(s), NEW parts, Bytes(parts) \in Seq(Piece)
  PROVE  LET t == Sent(s, parts)
         IN  /\ IsStream(t) /\ t.bytes = s.bytes \o Bytes(parts) /\ t.read = s.read
             /\ Len(s.bytes) <= Len(t.bytes)
             /\ \A i \in 1..Len(s.bytes) : t.bytes[i] = s.bytes[i]
<1> DEFINE t == Sent(s, parts)
           b == Bytes(parts)
           w == s.bytes
           u == w \o b
<1>1. DOMAIN t = {"bytes", "cuts", "read"} /\ t.bytes = u /\ t.read = s.read
  BY DEF Sent, IsStream
<1> HIDE DEF t, b
<1>2. w \in Seq(Piece) /\ b \in Seq(Piece) /\ s.read \in 0..Len(w)
  BY DEF IsStream, b
<1> HIDE DEF w
<1>3. /\ u \in Seq(Piece) /\ Len(u) = Len(w) + Len(b) /\ Len(w) \in Nat /\ Len(b) \in Nat
      /\ \A i \in 1..(Len(w) + Len(b)) : u[i] = IF i <= Len(w) THEN w[i] ELSE b[i - Len(w)]
  BY ONLY <1>2, ConcatProperties, LenProperties
<1> HIDE DEF u
<1>4. Len(w) <= Len(u) /\ \A i \in 1..Len(w) : u[i] = w[i]
  BY <1>3
<1>5. IsStream(t)
  BY <1>1, <1>2, <1>3, <1>4 DEF IsStream
<1> QED BY <1>1, <1>4, <1>5 DEF t, b, w, u

(* The key, the request and the frames, as the lemmas need them.           *)
LEMMA KeyPieces ==
  key_ \in Seq(Piece) /\ key_ # <<>> /\ \A i \in 1..Len(key_) : IsText(key_[i])
<1>1. STRING \subseteq Piece
  BY DEF Piece
<1>2. key_ \in Seq(Piece)
  BY <1>1, KeyIsText, SeqMonotonic
<1>3. DOMAIN key_ = 1..Len(key_)
  BY <1>2, LenProperties
<1> QED BY <1>2, <1>3, KeyIsText

LEMMA RequestBytes ==
  /\ LineStands(Bytes(HandshakeRequest), "Sec-WebSocket-Key", key_)
  /\ Bytes(HandshakeRequest) \in Seq(Piece)
<1>1. LineStands(Bytes(HandshakeRequest), "Sec-WebSocket-Key", key_)
  BY KeyPieces, RequestLaid
<1> QED BY <1>1 DEF LineStands

LEMMA FrameBytes ==
  ASSUME NEW i \in DOMAIN Frames
  PROVE  LET x == Bytes(<<Plain(<<Frames[i]>>)>>)
         IN  x \in Seq(Piece) /\ \A k \in 1..Len(x) : x[k] # ":"
<1> DEFINE f == Frames[i]
           y == <<f>>
<1>1. f \in Piece /\ f # ":"
  <2>1. Frames[i] \in STRING
    <3>1. DOMAIN Frames = 1..Len(Frames)
      BY FramesAreOpaque, LenProperties
    <3> QED BY <3>1, FramesAreOpaque, ElementOfSeq
  <2> QED BY <2>1, FramesAreOpaque DEF Piece, IsText
<1> HIDE DEF f
<1>2. y \in Seq(Piece) /\ Len(y) = 1 /\ y[1] = f
  BY <1>1
<1> HIDE DEF y
<1>3. Bytes(<<Plain(y)>>) = y
  BY <1>2, BytesPlain
<1>4. \A k \in 1..Len(y) : y[k] # ":"
  BY <1>1, <1>2
<1> QED BY <1>2, <1>3, <1>4 DEF y, f

(* The invariant holds at first: nothing read, nothing answered.           *)
LEMMA HandshakeStart ==
  ASSUME Init
  PROVE  IInv
<1> DEFINE r == Bytes(HandshakeRequest)
<1>1. r \in Seq(Piece)
  BY RequestBytes
<1>2. toServer.bytes = r /\ toServer.read = 0 /\ IsStream(toServer)
  <2>1. IsStream(Quiet) /\ Quiet.bytes = <<>> /\ Quiet.read = 0
    BY EmptySeq DEF Quiet, IsStream
  <2>2. IsStream(toServer) /\ toServer.bytes = <<>> \o r /\ toServer.read = 0
    <3>1. toServer = Sent(Quiet, HandshakeRequest)
      BY DEF Init
    <3>2. IsStream(Quiet) /\ Bytes(HandshakeRequest) \in Seq(Piece)
      BY <1>1, <2>1
    <3>3. /\ IsStream(Sent(Quiet, HandshakeRequest))
          /\ Sent(Quiet, HandshakeRequest).bytes = Quiet.bytes \o Bytes(HandshakeRequest)
          /\ Sent(Quiet, HandshakeRequest).read = Quiet.read
      BY ONLY <3>2, SentIsStream
    <3> QED BY <2>1, <3>1, <3>3
  <2> HIDE DEF r
  <2> QED BY <1>1, <2>2, ConcatEmptySeq
<1> HIDE DEF r
<1>3. toClient.bytes = <<>> /\ toClient.read = 0 /\ IsStream(toClient)
  BY EmptySeq DEF Init, Quiet, IsStream
<1>4. ASSUME NEW type \in {"request", "response"}, NEW s, s.read = 0
      PROVE  IsEndpoint(Endpoint(type)) /\ Listening(Endpoint(type), s)
  <2> DEFINE h == NewParser(type)
  <2>1. AtRest(h) /\ h.error = FALSE
    BY NewAtRest
  <2>2. Entries(h, s.bytes, 0)
    BY DEF NewParser, Entries, MessageFields, Seen, NoHeaders
  <2>3. NamePending(h, s.bytes, 0)
    BY DEF NewParser, NamePending
  <2>4. SubSeq(s.bytes, 0 + 1, 0) = <<>>
    BY SubSeqEmpty
  <2>5. /\ IsEndpoint(Endpoint(type)) /\ Endpoint(type).http = h /\ Endpoint(type).buffer = <<>>
    BY DEF Endpoint, IsEndpoint
  <2> HIDE DEF h
  <2> QED BY <1>4, <2>1, <2>2, <2>3, <2>4, <2>5 DEF Listening
<1>5. /\ IsEndpoint(server) /\ Listening(server, toServer)
      /\ IsEndpoint(client) /\ Listening(client, toClient)
  BY <1>2, <1>3, <1>4 DEF Init
<1>6. server.handshaked = FALSE /\ client.handshaked = FALSE
  BY DEF Init, Endpoint
<1>7. Answers
  BY <1>2, <1>3, <1>6 DEF Answers, Accepted, r
<1> QED BY <1>2, <1>3, <1>5, <1>6, <1>7 DEF IInv, Agreement

(* A key the server can have read.                                         *)
LEMMA KeyRead ==
  ASSUME NEW h, NEW d \in Nat, d <= Len(Bytes(HandshakeRequest)),
         Entries(h, Bytes(HandshakeRequest), d), isHandShakeRequest(h.message)
  PROVE  LET key == GetHeader(h.message, SecKey) IN key # <<>> /\ Begins(key, key_)
<1> DEFINE key == GetHeader(h.message, SecKey)
           w == Bytes(HandshakeRequest)
<1>1. key # <<>>
  BY DEF isHandShakeRequest
<1>2. SecKey \in DOMAIN h.message.headers /\ key = h.message.headers[SecKey]
  BY <1>1 DEF GetHeader
<1> HIDE DEF w, key
<1>3. HeaderLine(w, d, SecKey, key)
  BY <1>1, <1>2 DEF Entries, w
<1>4. HeaderLine(w, d, <<"Sec-WebSocket-Key">>, key)
  BY <1>3 DEF SecKey
<1>5. LineStands(w, "Sec-WebSocket-Key", key_) /\ key_ # <<>> /\ d <= Len(w)
  BY RequestBytes, KeyPieces DEF w
<1>6. Begins(key, key_)
  BY <1>4, <1>5, ReadOff
<1> QED BY <1>1, <1>6 DEF key

(* A response the client accepts is one for its key.                       *)
LEMMA ResponseRead ==
  ASSUME NEW h, NEW w, NEW d \in Nat, d <= Len(w), Entries(h, w, d),
         validHandleShakeResponse(h.message)
  PROVE  /\ \E i \in 1..d : w[i] = "101"
         /\ \A key : /\ Begins(key, key_)
                     /\ LineStands(w, "Sec-WebSocket-Accept", <<"digest">> \o key)
                     => key = key_
<1> DEFINE v == GetHeader(h.message, SecAccept)
           dg == <<"digest">>
           k == dg \o key_
<1>1. dg \in Seq(Piece) /\ Len(dg) = 1
  BY DEF Piece
<1>2. v = k /\ h.message.status = "101"
  BY DEF validHandleShakeResponse, getSecWebsocketAccept
<1> HIDE DEF dg
<1>3. /\ k \in Seq(Piece) /\ Len(k) = Len(dg) + Len(key_) /\ Len(key_) \in Nat
      /\ \A i \in 1..(Len(dg) + Len(key_)) :
           k[i] = IF i <= Len(dg) THEN dg[i] ELSE key_[i - Len(dg)]
  <2>1. key_ \in Seq(Piece)
    BY KeyPieces
  <2> QED BY ONLY <1>1, <2>1, ConcatProperties, LenProperties
<1> HIDE DEF k
<1>4. v # <<>>
  <2>1. Len(k) # 0
    BY <1>1, <1>3
  <2>2. k # <<>>
    BY <2>1
  <2> QED BY <1>2, <2>2
<1>5. SecAccept \in DOMAIN h.message.headers /\ v = h.message.headers[SecAccept]
  BY <1>4 DEF GetHeader
<1> HIDE DEF v
<1>6. HeaderLine(w, d, SecAccept, v)
  BY <1>4, <1>5 DEF Entries
<1>7. \E i \in 1..d : w[i] = "101"
  <2>1. "101" \in Seen(w, d)
    BY <1>2 DEF Entries
  <2> QED BY <2>1 DEF Seen
<1>8. ASSUME NEW key, Begins(key, key_), LineStands(w, "Sec-WebSocket-Accept", dg \o key)
      PROVE  key = key_
  <2> DEFINE m == dg \o key
  <2>1. key \in Seq(Piece) /\ Len(key) <= Len(key_) /\ \A i \in 1..Len(key) : key[i] = key_[i]
    BY <1>8 DEF Begins
  <2>2. m \in Seq(Piece) /\ Len(m) = Len(dg) + Len(key) /\ Len(key) \in Nat
    BY ONLY <1>1, <2>1, ConcatProperties, LenProperties
  <2> HIDE DEF m
  <2>3. m # <<>>
    <3>1. Len(m) # 0
      BY <1>1, <2>2
    <3> QED BY <3>1
  <2>4. Begins(v, m)
    <3>1. HeaderLine(w, d, <<"Sec-WebSocket-Accept">>, v)
      BY <1>6 DEF SecAccept
    <3>2. LineStands(w, "Sec-WebSocket-Accept", m)
      BY <1>8 DEF m
    <3> QED BY <2>3, <3>1, <3>2, ReadOff
  <2>5. Len(key_) = Len(key)
    <3>1. Len(k) <= Len(m)
      BY <1>2, <2>4 DEF Begins
    <3> QED BY <1>1, <1>3, <2>1, <2>2, <3>1
  <2>6. key_ \in Seq(Piece) /\ \A i \in 1..Len(key) : key[i] = key_[i]
    BY <2>1, KeyPieces
  <2> QED BY ONLY <2>1, <2>5, <2>6, SeqEqual
<1> QED BY <1>7, <1>8 DEF dg

(* The stream in which nothing has been sent, once the server answers.     *)
LEMMA FirstSent ==
  ASSUME NEW s, IsStream(s), s.bytes = <<>>, NEW parts, Bytes(parts) \in Seq(Piece)
  PROVE  Sent(s, parts).bytes = Bytes(parts)
<1> DEFINE b == Bytes(parts)
<1>1. Sent(s, parts).bytes = s.bytes \o Bytes(parts)
  BY SentIsStream
<1> HIDE DEF b
<1>2. <<>> \o b = b
  BY ConcatEmptySeq DEF b
<1> QED BY <1>1, <1>2 DEF b

(* The server reads before its handshake: it waits, refuses or accepts.    *)
LEMMA ServerOnMessageStep ==
  ASSUME IInv, NEW n \in Nat, n # 0, ServerOnMessage(n)
  PROVE  IInv'
<1> DEFINE x == Parsed(server, server.buffer \o Arriving(toServer, n))
           t == Further(toServer, n)
           d == toServer.read + n
           w == Bytes(HandshakeRequest)
           accept == responseHandShake(GetHeader(x.http.message, SecKey))
<1>1. /\ IsStream(toServer) /\ IsStream(toClient) /\ IsEndpoint(server) /\ IsEndpoint(client)
      /\ Listening(server, toServer) /\ Listening(client, toClient) /\ Answers /\ Agreement
  BY DEF IInv
<1>2. ~server.closing /\ ~server.handshaked /\ n <= Len(toServer.bytes) - toServer.read
  BY DEF ServerOnMessage, Arrive
<1>3. toServer' = t /\ client' = client
  BY DEF ServerOnMessage, Further
<1>4. toServer.bytes = w /\ toClient.bytes = <<>> /\ ~client.handshaked
  BY <1>1, <1>2 DEF Answers, Agreement
<1>5. IsStream(t) /\ t.bytes = w /\ t.read = d
  BY <1>1, <1>2, <1>4, FurtherIsStream
<1>6. /\ IsEndpoint(x) /\ x.handshaked = FALSE
      /\ Entries(x.http, w, d) /\ Listening(x, t)
  BY <1>1, <1>2, <1>4, ParsedListens
<1>7. ServerAwaits(x) \/ ServerRejects(x) \/ ServerAccepts(x)
  BY DEF ServerOnMessage
<1> HIDE DEF x, t, w
<1>8. IsStream(toServer') /\ IsEndpoint(client') /\ Agreement'
  BY <1>1, <1>3, <1>4, <1>5 DEF Agreement
<1>9. ASSUME NEW parts, Bytes(parts) \in Seq(Piece), toClient' = Sent(toClient, parts)
      PROVE  /\ IsStream(toClient') /\ Listening(client', toClient')
             /\ toClient'.bytes = Bytes(parts)
  <2>1. /\ IsStream(toClient') /\ toClient'.read = toClient.read
        /\ Len(toClient.bytes) <= Len(toClient'.bytes)
        /\ \A i \in 1..Len(toClient.bytes) : toClient'.bytes[i] = toClient.bytes[i]
    BY <1>1, <1>9, SentIsStream
  <2>2. Listening(client, toClient')
    BY <1>1, <2>1, ListensOn
  <2>3. Sent(toClient, parts).bytes = Bytes(parts)
    BY <1>1, <1>4, <1>9, FirstSent
  <2> QED BY <1>3, <1>9, <2>1, <2>2, <2>3
<1>10. CASE ServerAwaits(x)
  <2>1. server' = x
    BY <1>10 DEF ServerAwaits
  <2>2. IsEndpoint(server') /\ Listening(server', toServer') /\ server'.handshaked = FALSE
    BY <1>3, <1>6, <2>1
  <2>3. CASE x.closing
    <3>1. toClient' = Sent(toClient, BadRequest)
      BY <1>10, <2>3 DEF ServerAwaits
    <3>2. /\ IsStream(toClient') /\ Listening(client', toClient')
          /\ toClient'.bytes = Bytes(BadRequest)
      BY <1>9, <3>1, BadRequestBytes
    <3>3. Answers'
      BY <1>3, <1>5, <2>1, <2>2, <2>3, <3>2, BadRequestBytes DEF Answers, Accepted, w
    <3> QED BY <1>8, <2>2, <3>2, <3>3 DEF IInv
  <2>4. CASE ~x.closing
    <3>1. toClient' = toClient
      BY <1>10, <2>4 DEF ServerAwaits
    <3>2. Len(toClient'.bytes) = 0
      BY <1>4, <3>1
    <3>3. Answers'
      BY <1>3, <1>4, <1>5, <2>2, <3>1, <3>2 DEF Answers, Accepted, w
    <3> QED BY <1>1, <1>3, <1>8, <2>2, <3>1, <3>3 DEF IInv
  <2> QED BY <2>3, <2>4
<1>11. CASE ServerRejects(x)
  <2>1. server' = [x EXCEPT !.closing = TRUE] /\ toClient' = Sent(toClient, BadRequest)
    BY <1>11 DEF ServerRejects
  <2>2. IsEndpoint(server') /\ server'.closing = TRUE /\ server'.handshaked = FALSE
    BY <1>6, <2>1 DEF IsEndpoint
  <2>3. Listening(server', toServer')
    BY <2>2 DEF Listening
  <2>4. /\ IsStream(toClient') /\ Listening(client', toClient')
        /\ toClient'.bytes = Bytes(BadRequest)
    BY <1>9, <2>1, BadRequestBytes
  <2>5. Answers'
    BY <1>3, <1>5, <2>2, <2>4, BadRequestBytes DEF Answers, Accepted, w
  <2> QED BY <1>8, <2>2, <2>3, <2>4, <2>5 DEF IInv
<1>12. CASE ServerAccepts(x)
  <2> DEFINE key == GetHeader(x.http.message, SecKey)
  <2>1. /\ server' = [x EXCEPT !.handshaked = TRUE]
        /\ toClient' = Sent(toClient, IF x.closing THEN BadRequest ELSE responseHandShake(key))
        /\ answered' = key /\ isHandShakeRequest(x.http.message)
    BY <1>12 DEF ServerAccepts
  <2>2. IsEndpoint(server') /\ server'.closing = x.closing /\ server'.handshaked = TRUE
    BY <1>6, <2>1 DEF IsEndpoint
  <2>3. Listening(server', toServer')
    BY <2>2 DEF Listening
  <2>4. CASE x.closing
    <3>1. /\ IsStream(toClient') /\ Listening(client', toClient')
          /\ toClient'.bytes = Bytes(BadRequest)
      BY <1>9, <2>1, <2>4, BadRequestBytes
    <3>2. Answers'
      BY <2>2, <2>4, <3>1, BadRequestBytes DEF Answers, Accepted
    <3> QED BY <1>8, <2>2, <2>3, <3>1, <3>2 DEF IInv
  <2>5. CASE ~x.closing
    <3>1. key # <<>> /\ Begins(key, key_)
      <4>1. d \in Nat /\ d <= Len(w)
        <5>1. Len(w) \in Nat
          BY RequestBytes, LenProperties DEF w
        <5> QED BY <1>5, <5>1 DEF IsStream
      <4> HIDE DEF d
      <4>2. Entries(x.http, Bytes(HandshakeRequest), d) /\ d <= Len(Bytes(HandshakeRequest))
        BY <1>6, <4>1 DEF w
      <4> QED BY <2>1, <4>1, <4>2, KeyRead
    <3> HIDE DEF key
    <3> DEFINE r == Bytes(responseHandShake(key))
    <3>2. key \in Seq(Piece) /\ \A i \in 1..Len(key) : IsText(key[i])
      <4>1. key_ \in Seq(Piece) /\ Len(key_) \in Nat /\ \A i \in 1..Len(key_) : IsText(key_[i])
        BY KeyPieces, LenProperties
      <4>2. key \in Seq(Piece) /\ Len(key) \in Nat
        BY <3>1, LenProperties DEF Begins
      <4>3. \A i \in 1..Len(key) : i \in 1..Len(key_)
        BY <3>1, <4>1, <4>2 DEF Begins
      <4> QED BY <3>1, <4>1, <4>2, <4>3 DEF Begins
    <3>3. LineStands(r, "Sec-WebSocket-Accept", <<"digest">> \o key)
      BY <3>2, ResponseLaid
    <3>4. r \in Seq(Piece)
      BY <3>3 DEF LineStands
    <3>5. /\ IsStream(toClient') /\ Listening(client', toClient') /\ toClient'.bytes = r
      BY <1>9, <2>1, <2>5, <3>4
    <3> HIDE DEF r
    <3>6. Answers'
      BY <2>1, <2>2, <2>5, <3>1, <3>3, <3>5 DEF Answers, Accepted
    <3> QED BY <1>8, <2>2, <2>3, <3>5, <3>6 DEF IInv
  <2> QED BY <2>4, <2>5
<1> QED BY <1>7, <1>10, <1>11, <1>12

(* The client reads before its handshake.                                  *)
LEMMA ClientOnMessageStep ==
  ASSUME IInv, NEW n \in Nat, n # 0, ClientOnMessage(n)
  PROVE  IInv'
<1> DEFINE x == Parsed(client, client.buffer \o Arriving(toClient, n))
           t == Further(toClient, n)
           d == toClient.read + n
           w == toClient.bytes
           valid == x.http.complete /\ validHandleShakeResponse(x.http.message)
<1>1. /\ IsStream(toServer) /\ IsStream(toClient) /\ IsEndpoint(server) /\ IsEndpoint(client)
      /\ Listening(server, toServer) /\ Listening(client, toClient) /\ Answers /\ Agreement
  BY DEF IInv
<1>2. ~client.closing /\ ~client.handshaked /\ n <= Len(w) - toClient.read
  BY DEF ClientOnMessage, Arrive
<1>3. /\ toClient' = t /\ server' = server /\ toServer' = toServer /\ answered' = answered
      /\ client' = [x EXCEPT !.handshaked = valid]
  BY DEF ClientOnMessage, Further
<1>4. IsStream(t) /\ t.bytes = w /\ t.read = d
  BY <1>1, <1>2, FurtherIsStream
<1>5. IsEndpoint(x) /\ Entries(x.http, w, d) /\ Listening(x, t) /\ x.handshaked = FALSE
  BY <1>1, <1>2, ParsedListens
<1>6. d \in Nat /\ d <= Len(w)
  <2>1. Len(w) \in Nat
    BY <1>1, LenProperties DEF IsStream
  <2> QED BY <1>4, <2>1 DEF IsStream
<1>7. valid => Accepted /\ answered = key_
  <2> SUFFICES ASSUME valid PROVE Accepted /\ answered = key_
    OBVIOUS
  <2>1. validHandleShakeResponse(x.http.message)
    OBVIOUS
  <2> HIDE DEF x, d, w, valid
  <2>2. /\ \E i \in 1..d : w[i] = "101"
        /\ \A key : Begins(key, key_) /\ LineStands(w, "Sec-WebSocket-Accept", <<"digest">> \o key)
                      => key = key_
    BY <1>5, <1>6, <2>1, ResponseRead
  <2>3. Len(w) \in Nat
    BY <1>1, LenProperties DEF IsStream, w
  <2>4. Accepted
    BY <1>1, <1>6, <2>2, <2>3 DEF Answers, w
  <2> QED BY <1>1, <2>2, <2>4 DEF Answers, w
<1> HIDE DEF x, t, w, valid
<1>8. /\ IsEndpoint(client') /\ client'.handshaked = valid /\ client'.closing = x.closing
      /\ client'.http = x.http /\ client'.buffer = x.buffer
  BY <1>3, <1>5 DEF IsEndpoint, valid
<1>9. Listening(client', toClient')
  <2>1. client'.handshaked = FALSE => Listening(client', t)
    BY <1>5, <1>8 DEF Listening
  <2> QED BY <1>3, <1>8, <2>1 DEF Listening, valid
<1>10. Answers'
  BY <1>1, <1>3, <1>4 DEF Answers, Accepted, w
<1>11. Agreement'
  BY <1>3, <1>7, <1>8 DEF Agreement, Accepted
<1> QED BY <1>1, <1>3, <1>4, <1>8, <1>9, <1>10, <1>11 DEF IInv

------------------------------------------------------------------------------
(* Frames: the endpoints that send or take them are upgraded, and those    *)
(* that are not see only a longer stream.                                  *)
LEMMA ServerOnFramesStep ==
  ASSUME IInv, NEW n \in Nat, ServerOnFrames(n)
  PROVE  IInv'
<1>1. /\ server.handshaked /\ ~server.closing /\ n <= Len(toServer.bytes) - toServer.read
      /\ server' = [server EXCEPT !.buffer = @ \o Arriving(toServer, n)]
      /\ toServer' = Further(toServer, n)
      /\ UNCHANGED <<client, toClient, answered>>
  BY DEF ServerOnFrames, Arrive, Further
<1>2. IsStream(toServer') /\ toServer'.bytes = toServer.bytes
  BY <1>1, FurtherIsStream DEF IInv
<1>3. IsEndpoint(server') /\ server'.handshaked = TRUE /\ server'.closing = FALSE
  BY <1>1 DEF IInv, IsEndpoint
<1>4. Listening(server', toServer') /\ Accepted'
  BY <1>3 DEF Listening, Accepted
<1>5. Answers'
  BY <1>1, <1>3, <1>4 DEF IInv, Answers, Accepted
<1> QED BY <1>1, <1>2, <1>3, <1>4, <1>5 DEF IInv, Agreement

LEMMA ClientOnFramesStep ==
  ASSUME IInv, NEW n \in Nat, ClientOnFrames(n)
  PROVE  IInv'
<1>1. /\ client.handshaked /\ ~client.closing /\ n <= Len(toClient.bytes) - toClient.read
      /\ client' = [client EXCEPT !.buffer = @ \o Arriving(toClient, n)]
      /\ toClient' = Further(toClient, n)
      /\ UNCHANGED <<server, toServer, answered>>
  BY DEF ClientOnFrames, Arrive, Further
<1>2. IsStream(toClient') /\ toClient'.bytes = toClient.bytes
  BY <1>1, FurtherIsStream DEF IInv
<1>3. IsEndpoint(client') /\ client'.handshaked = TRUE
  BY <1>1 DEF IInv, IsEndpoint
<1>4. Listening(client', toClient')
  BY <1>3 DEF Listening
<1>5. Answers'
  BY <1>1, <1>2 DEF IInv, Answers, Accepted
<1> QED BY <1>1, <1>2, <1>3, <1>4, <1>5 DEF IInv, Agreement

LEMMA ServerSendsStep ==
  ASSUME IInv, ServerSends
  PROVE  IInv'
<1>1. /\ server.handshaked /\ ~server.closing
      /\ UNCHANGED <<client, server, toServer, answered>>
  BY DEF ServerSends
<1>2. PICK i \in DOMAIN Frames : toClient' = Sent(toClient, <<Plain(<<Frames[i]>>)>>)
  BY DEF ServerSends, SendFrame
<1> DEFINE parts == <<Plain(<<Frames[i]>>)>>
           x == Bytes(parts)
<1>3. x \in Seq(Piece) /\ \A k \in 1..Len(x) : x[k] # ":"
  BY FrameBytes
<1>4. IsStream(toClient)
  BY DEF IInv
<1> HIDE DEF parts
<1>5. /\ IsStream(toClient') /\ toClient'.bytes = toClient.bytes \o x
      /\ toClient'.read = toClient.read /\ Len(toClient.bytes) <= Len(toClient'.bytes)
      /\ \A k \in 1..Len(toClient.bytes) : toClient'.bytes[k] = toClient.bytes[k]
  BY <1>2, <1>3, <1>4, SentIsStream DEF parts
<1>6. Listening(client', toClient')
  <2>1. Listening(client, toClient')
    BY <1>4, <1>5, ListensOn DEF IInv
  <2> QED BY <1>1, <2>1
<1> HIDE DEF x
<1>7. Answers'
  <2> DEFINE value == <<"digest">> \o answered
             w == toClient.bytes
  <2>1. LineStands(w, "Sec-WebSocket-Accept", value)
    BY <1>1 DEF IInv, Answers, Accepted
  <2> HIDE DEF value, w
  <2>2. LineStands(w \o x, "Sec-WebSocket-Accept", value)
    BY <1>3, <2>1, LaidLonger
  <2> QED BY <1>1, <1>5, <2>2 DEF IInv, Answers, Accepted, value, w
<1> QED BY <1>1, <1>5, <1>6, <1>7 DEF IInv, Agreement

LEMMA ClientSendsStep ==
  ASSUME IInv, ClientSends
  PROVE  IInv'
<1>1. /\ client.handshaked /\ UNCHANGED <<client, server, toClient, answered>>
      /\ server.handshaked /\ ~server.closing
  BY DEF ClientSends, IInv, Agreement
<1>2. PICK i \in DOMAIN Frames : toServer' = Sent(toServer, <<Plain(<<Frames[i]>>)>>)
  BY DEF ClientSends, SendFrame
<1> DEFINE parts == <<Plain(<<Frames[i]>>)>>
<1>3. Bytes(parts) \in Seq(Piece) /\ IsStream(toServer)
  BY FrameBytes DEF IInv
<1>4. IsStream(toServer')
  BY <1>2, <1>3, SentIsStream
<1>5. Listening(server', toServer')
  BY <1>1 DEF Listening
<1>6. Answers'
  BY <1>1 DEF IInv, Answers, Accepted
<1> QED BY <1>1, <1>4, <1>5, <1>6 DEF IInv, Agreement

(* Every step keeps the invariant.                                         *)
LEMMA HandshakeStep == IInv /\ [Next]_vars => IInv'
<1> SUFFICES ASSUME IInv, [Next]_vars PROVE IInv'
  OBVIOUS
<1>1. CASE ServerReads
  <2>1. PICK n \in 1..(Len(toServer.bytes) - toServer.read) :
          ServerOnMessage(n) \/ ServerOnFrames(n)
    BY <1>1 DEF ServerReads
  <2>2. n \in Nat /\ n # 0
    <3>1. Len(toServer.bytes) - toServer.read \in Int
      BY LenProperties DEF IInv, IsStream
    <3> QED BY <3>1
  <2> QED BY <2>1, <2>2, ServerOnMessageStep, ServerOnFramesStep
<1>2. CASE ClientReads
  <2>1. PICK n \in 1..(Len(toClient.bytes) - toClient.read) :
          ClientOnMessage(n) \/ ClientOnFrames(n)
    BY <1>2 DEF ClientReads
  <2>2. n \in Nat /\ n # 0
    <3>1. Len(toClient.bytes) - toClient.read \in Int
      BY LenProperties DEF IInv, IsStream
    <3> QED BY <3>1
  <2> QED BY <2>1, <2>2, ClientOnMessageStep, ClientOnFramesStep
<1>3. CASE ServerSends
  BY <1>3, ServerSendsStep
<1>4. CASE ClientSends
  BY <1>4, ClientSendsStep
<1>5. CASE UNCHANGED vars
  BY <1>5 DEF vars, IInv, Answers, Accepted, Agreement
<1> QED BY <1>1, <1>2, <1>3, <1>4, <1>5 DEF Next

(* So it holds always.                                                     *)
LEMMA HandshakeInductive == Spec => []IInv
BY HandshakeStart, HandshakeStep, PTL DEF Spec

(* Neither side reads beyond what was sent, and before its handshake the   *)
(* Buffer holds nothing but what came behind a refused message that asked  *)
(* for the upgrade, or what was there when the parser failed.              *)
THEOREM HandshakeTypes == Spec => []TypeOK
<1>1. IInv => TypeOK
  <2> SUFFICES ASSUME IInv PROVE TypeOK
    OBVIOUS
  <2>1. toServer.read <= Len(toServer.bytes) /\ toClient.read <= Len(toClient.bytes)
    <3>1. Len(toServer.bytes) \in Nat /\ Len(toClient.bytes) \in Nat
      BY LenProperties DEF IInv, IsStream
    <3> QED BY <3>1 DEF IInv, IsStream
  <2>2. \A e \in {client, server} :
          e.buffer # <<>> => e.handshaked \/ e.closing \/ (e.http.complete /\ e.http.upgrade)
    BY DEF IInv, Listening
  <2> QED BY <2>1, <2>2 DEF TypeOK
<1> QED BY <1>1, HandshakeInductive, PTL

(* A client that takes the connection for open has a server that does, and *)
(* that answered the key the client sent: for every key, every sequence of *)
(* frames, and reads that end anywhere.                                    *)
THEOREM HandshakeAgreement == Spec => []Agreement
<1>1. IInv => Agreement
  BY DEF IInv
<1> QED BY <1>1, HandshakeInductive, PTL

------------------------------------------------------------------------------
(* A stream of one message, which has no body and asks for the upgrade, or *)
(* grants it.                                                              *)
OneUpgrade(y) ==
  /\ Stream(y) /\ Len(y.msgs) = 1
  /\ y.msgs[1].coding = "none" /\ UpgradesTo(y.type, y.msgs[1])

(* Its only head is all of it.                                             *)
LEMMA UpgradeSpot ==
  ASSUME NEW y, OneUpgrade(y)
  PROVE  /\ 1 \in 1..Len(y.msgs) /\ 1..Len(y.msgs) = {1} /\ 1..(Len(y.msgs) + 1) = {1, 2}
         /\ y.off[1] = 0 /\ y.off[2] = Len(y.wire)
         /\ Len(y.wire) \in Nat /\ 6 <= Len(y.wire)
         /\ BodyAt(y.msgs[1], y.at[1]) = Len(y.wire)
         /\ Good(y.type, y.msgs[1]) /\ Laid(y.wire, y.type, y.msgs[1], y.at[1])
         /\ y.at[1].begin = 0 /\ y.at[1].end = Len(y.wire)
<1>1. Stream(y) /\ Len(y.msgs) = 1 /\ 1 \in 1..Len(y.msgs)
  BY DEF OneUpgrade
<1>2. 1..Len(y.msgs) = {1} /\ 1..(Len(y.msgs) + 1) = {1, 2}
  BY <1>1
<1>3. y.off[1] = 0 /\ y.off[2] = Len(y.wire) /\ y.wire \in Seq(Piece)
  BY <1>1 DEF Stream
<1>4. /\ Good(y.type, y.msgs[1]) /\ Laid(y.wire, y.type, y.msgs[1], y.at[1])
      /\ y.at[1].begin = y.off[1] /\ y.at[1].end = y.off[2]
      /\ y.off[1] + 6 <= BodyAt(y.msgs[1], y.at[1])
  <2> HIDE DEF OneUpgrade
  <2>1. y.off[1 + 1] = y.off[2]
    OBVIOUS
  <2> QED BY <1>1, <2>1, MessageSpot
<1>5. y.at[1].end = BodyAt(y.msgs[1], y.at[1])
  BY <1>4 DEF OneUpgrade, Laid, BodyLaid
<1>6. Len(y.wire) \in Nat
  BY <1>3, LenProperties
<1> QED BY <1>1, <1>2, <1>3, <1>4, <1>5, <1>6

(* In the first turn of a message, and in the turns in which the count may *)
(* overflow, no message becomes complete.                                  *)
LEMMA NotTheEnd ==
  ASSUME NEW h, NEW t, IsParser(h), h.state \in {"start", "field", "value"}
  PROVE  Turn(h, t).complete = h.complete
<1>1. CASE h.state = "start"
  <2>1. CASE h.type = "request"
    <3>1. Turn(h, t) = StartReq(h, t)
      BY <1>1, <2>1 DEF Turn
    <3> QED BY <3>1 DEF StartReq, NewMessage, Fail, IsParser, Fields
  <2>2. CASE h.type = "response"
    <3>1. Turn(h, t) = StartRes(h, t)
      BY <1>1, <2>2 DEF Turn
    <3> QED BY <3>1 DEF StartRes, NewMessage, Fail, IsParser, Fields
  <2> QED BY <2>1, <2>2 DEF IsParser
<1>2. CASE h.state = "field"
  <2>1. Turn(h, t) = HeaderField(h, t)
    BY <1>2 DEF Turn
  <2>2. CASE IsText(t)
    BY <1>2, <2>2, FieldEffect DEF Steady
  <2>3. CASE ~IsText(t) /\ t = ":" /\ ~Overflow(h)
    <3> DEFINE x == h.flags \cup IF h.name = TransferEncoding THEN {"te"} ELSE {}
               a == [h EXCEPT !.state = "value_ws", !.flags = x]
    <3>1. Turn(h, t) = CallbackData(a)
      BY <2>1, <2>3 DEF HeaderField
    <3>2. IsParser(a) /\ a.complete = h.complete
      <4> HIDE DEF x
      <4> QED BY DEF IsParser, Fields, ParserState
    <3> HIDE DEF a
    <3> QED BY <3>1, <3>2, CallbackTurned
  <2>4. CASE ~IsText(t) /\ ~(t = ":" /\ ~Overflow(h))
    <3>1. Turn(h, t) = Fail(h)
      BY <2>1, <2>4 DEF HeaderField
    <3> QED BY <3>1 DEF Fail, IsParser, Fields
  <2> QED BY <2>2, <2>3, <2>4
<1>3. CASE h.state = "value"
  <2>1. Turn(h, t) = HeaderValue(h, t)
    BY <1>3 DEF Turn
  <2>2. CASE t = "crlf"
    <3> DEFINE a == Go(h, "value_lws")
    <3>1. IsParser(a) /\ a.complete = h.complete
      BY DEF Go, IsParser, Fields, ParserState
    <3> HIDE DEF a
    <3>2. IsParser(CallbackData(a)) /\ CallbackData(a).complete = h.complete
      BY <3>1, CallbackTurned
    <3>3. Fail(CallbackData(a)).complete = h.complete
      BY <3>2 DEF Fail, IsParser, Fields
    <3>4. Turn(h, t) \in {CallbackData(a), Fail(CallbackData(a))}
      BY <2>1, <2>2 DEF HeaderValue, a
    <3> QED BY <3>2, <3>3, <3>4
  <2>3. CASE t # "crlf"
    <3> DEFINE g == CASE h.name = ContentLength -> LengthPiece(h, t)
                      [] h.name = Upgrade       -> [h EXCEPT !.flags = @ \cup {"upgrade"}]
                      [] OTHER                  -> h
    <3>1. Turn(h, t) = [Marked(g, "value", t) EXCEPT !.value = Append(@, t), !.state = "value"]
      BY <2>1, <2>3 DEF HeaderValue, ValuePiece
    <3>2. DOMAIN LengthPiece(h, t) = Fields /\ LengthPiece(h, t).complete = h.complete
      BY DEF LengthPiece, Fail, IsParser, Fields
    <3>3. DOMAIN g = Fields /\ g.complete = h.complete
      <4>1. DOMAIN [h EXCEPT !.flags = @ \cup {"upgrade"}] = Fields
            /\ [h EXCEPT !.flags = @ \cup {"upgrade"}].complete = h.complete
        BY DEF IsParser, Fields
      <4>2. ContentLength # Upgrade
        BY DEF ContentLength, Upgrade
      <4> QED BY <3>2, <4>1, <4>2 DEF IsParser
    <3> HIDE DEF g
    <3> QED BY <3>1, <3>3 DEF Marked, Fields
  <2> QED BY <2>2, <2>3
<1> QED BY <1>1, <1>2, <1>3

(* No place in its body.                                                   *)
LEMMA NoBodyPlace ==
  ASSUME NEW e, NEW h, NEW type, NEW m, m.coding = "none", NEW l, NEW p
  PROVE  ~BodyPlace(e, h, type, m, l, p)
BY DEF BodyPlace, LengthPlace, EofPlace, ChunkPlace

------------------------------------------------------------------------------
(* A place in its head is one before its end.                              *)
LEMMA HeadBefore ==
  ASSUME NEW y, OneUpgrade(y), NEW h, NEW r \in Nat,
         HeadPlace(FALSE, h, y.type, y.msgs[1], y.at[1], r)
  PROVE  r < Len(y.wire)
<1> DEFINE m == y.msgs[1]
           l == y.at[1]
           x == y.wire
<1>1. Good(y.type, m) /\ Laid(x, y.type, m, l) /\ BodyAt(m, l) = Len(x)
  BY UpgradeSpot
<1>2. HeadPlace(FALSE, h, y.type, m, l, r)
  OBVIOUS
<1> HIDE DEF m, l, x
<1>3. r < BodyAt(m, l)
  BY <1>1, <1>2, HeadWithin
<1> QED BY <1>1, <1>3 DEF x

(* The loop over such a stream, after k bytes of a call that starts at c:  *)
(* the message becomes complete with the last byte of it and with no       *)
(* other, the loop is left then, and nothing has failed.                   *)
Upgrading(y, c, k, b) ==
  /\ Running(FALSE, y, c, k, b) /\ b.type = y.type
  /\ b.complete => ~b.error /\ b.stop /\ c + k = Len(y.wire)
  /\ ~b.error /\ c + k = Len(y.wire) => b.complete

LEMMA UpgradingOn ==
  ASSUME NEW y, OneUpgrade(y), NEW c \in Nat, NEW k \in Nat, c + k < Len(y.wire),
         NEW a, Upgrading(y, c, k, a), k = 0 => a.stop = FALSE
  PROVE  Upgrading(y, c, k + 1, Advance(a, y.wire[(c + k) + 1]))
<1> DEFINE N == Len(y.wire)
           t == y.wire[(c + k) + 1]
           q == Counted(a)
           u == Turn(q, t)
           b == Advance(a, t)
           p == c + k
           m == y.msgs[1]
           l == y.at[1]
<1>1. /\ 1..Len(y.msgs) = {1} /\ 1..(Len(y.msgs) + 1) = {1, 2}
      /\ y.off[1] = 0 /\ y.off[2] = N /\ N \in Nat /\ 6 <= N /\ BodyAt(m, l) = N
      /\ Good(y.type, m) /\ Laid(y.wire, y.type, m, l) /\ l.begin = 0 /\ l.end = N
      /\ Stream(y) /\ m.coding = "none" /\ UpgradesTo(y.type, m)
  BY UpgradeSpot DEF OneUpgrade
<1> HIDE DEF N
<1>2. p \in Nat /\ p < N /\ p # N /\ p + 1 = c + (k + 1) /\ p + 1 <= N /\ p + 1 \in Nat
  BY <1>1 DEF N
<1>3. /\ Running(FALSE, y, c, k, a) /\ InLoop(a) /\ a.type = y.type /\ a.complete = FALSE
      /\ {a.error, a.stop, a.complete} \subseteq BOOLEAN /\ a.used \in Nat
  <2>1. InLoop(a)
    BY DEF Upgrading, Running
  <2> QED BY <1>2, <2>1 DEF Upgrading, InLoop, IsParser, N
<1>4. Running(FALSE, y, c, k + 1, b)
  <2>1. Undivided(FALSE, y, c, N)
    BY DEF Undivided
  <2>2. N \in Nat /\ N <= Len(y.wire) /\ c + k < N
    BY <1>1, <1>2 DEF N
  <2>3. Running(FALSE, y, c, k + 1, Advance(a, y.wire[(c + k) + 1]))
    BY ONLY <1>1, <1>3, <2>1, <2>2, RunningOn, c \in Nat, k \in Nat, k = 0 => a.stop = FALSE
  <2> QED BY <2>3
<1>5. InLoop(b) /\ b.type = y.type /\ (a.error => b = a)
      /\ {b.error, b.stop, b.complete} \subseteq BOOLEAN
  <2>1. InLoop(b) /\ b.type = a.type /\ (a.error => b = a)
    BY <1>3, AdvanceLoop
  <2> HIDE DEF b
  <2> QED BY <1>3, <2>1 DEF InLoop, IsParser
<1>6. CASE a.error
  BY <1>3, <1>4, <1>5, <1>6 DEF Upgrading
<1>7. CASE ~a.error
  <2>1. a.error = FALSE /\ a.stop = FALSE /\ a.used = k /\ Place(FALSE, a, y, p)
    <3>1. a.stop = FALSE
      BY <1>3 DEF InLoop
    <3> QED BY <1>3, <1>7, <3>1 DEF Running
  <2>2. /\ IsParser(q) /\ Pending(q) /\ q.error = FALSE /\ q.stop = FALSE /\ q.used = k
        /\ q.complete = FALSE /\ q.state = a.state
    BY <1>3, <2>1 DEF InLoop, Counted, IsParser, Pending, Fields
  <2>3. Advanced(FALSE, a, q, u, b)
    BY <1>3, <2>1, AdvanceIs
  <2>4. b = IF Overflow(q) /\ ~Scanning(a) THEN Fail(q) ELSE [u EXCEPT !.used = @ + 1]
    BY <2>1 DEF Advance
  <2> HIDE DEF q
  <2>5. IsParser(u) /\ u.used = k
    BY <2>2, TurnTurned DEF Turned
  <2> HIDE DEF b
  <2>6. \/ b.error = TRUE /\ b.complete = FALSE
        \/ /\ ~(Overflow(q) /\ ~Scanning(a)) /\ b.error = u.error /\ b.stop = u.stop
           /\ b.complete = u.complete /\ b.used = k + 1
    <3> HIDE DEF u
    <3> QED BY <2>2, <2>4, <2>5 DEF Fail, IsParser, Fields
  <2>7. CASE b.error = TRUE /\ b.complete = FALSE
    BY <1>4, <1>5, <2>7 DEF Upgrading, b, t
  <2>8. CASE /\ ~(Overflow(q) /\ ~Scanning(a)) /\ b.error = u.error /\ b.stop = u.stop
             /\ b.complete = u.complete /\ b.used = k + 1
    <3>1. CASE a.state \in {"start", "field", "value"}
      <4>1. b.complete = FALSE
        BY <2>2, <2>8, <3>1, NotTheEnd
      <4>2. b.error \/ p + 1 # N
        <5> SUFFICES ASSUME ~b.error, p + 1 = N PROVE FALSE
          OBVIOUS
        <5>1. Reached(FALSE, b, y, p + 1)
          <6>1. k + 1 >= 1 /\ c + b.used = p + 1
            BY <1>2, <2>8
          <6> QED BY <1>4, <6>1 DEF Running
        <5>2. InHead(FALSE, b, y, p + 1, 1) \/ InBody(FALSE, b, y, p + 1, 1)
          BY <1>1, <4>1, <5>1 DEF Reached
        <5>3. HeadPlace(FALSE, b, y.type, m, l, p + 1)
          BY <1>1, <5>2, NoBodyPlace DEF InHead, InBody
        <5>4. p + 1 < N
          BY <1>2, <5>3, HeadBefore DEF N
        <5> QED BY <5>4
      <4> QED BY <1>2, <1>4, <1>5, <4>1, <4>2 DEF Upgrading, N, b, t
    <3>2. CASE a.state \notin {"start", "field", "value"}
      <4>1. HeadPlace(FALSE, a, y.type, m, l, p)
        <5>1. ~Between(FALSE, a, y, p, 1)
          BY <3>2 DEF Between
        <5>2. ~Between(FALSE, a, y, p, 2)
          BY <1>1, <1>2 DEF Between
        <5>3. InHead(FALSE, a, y, p, 1) \/ InBody(FALSE, a, y, p, 1)
          BY <1>1, <2>1, <5>1, <5>2 DEF Place
        <5> QED BY <1>1, <5>3, NoBodyPlace DEF InHead, InBody
      <4>2. HeadPlace(FALSE, q, y.type, m, l, p)
        <5>1. Alike(FALSE, a, q) /\ q.stop = a.stop
          BY <2>1, <2>3 DEF Advanced
        <5> QED BY <4>1, <5>1, HeadAlike
      <4>3. HeadTurned(FALSE, q, u, y.type, m, l, p + 1)
        <5> HIDE DEF p, m, l
        <5> QED BY <1>1, <1>2, <2>2, <4>2, HeadTurn DEF p
      <4>4. ~Overflow(q)
        BY <2>8, <3>2 DEF Scanning
      <4>5. CASE HeadPlace(FALSE, u, y.type, m, l, p + 1)
        <5>1. p + 1 < N
          BY <1>2, <4>5, HeadBefore DEF N
        <5>2. u.state \notin {"start", "dead"} /\ u.error = FALSE
          BY <4>5 DEF HeadPlace, FirstPlace, RequestPlace, ResponsePlace, StartPlace, LinePlace,
               NamePlace, ColonPlace, ValuePlace, ValueEndPlace, NoValuePlace, Live
        <5>3. u.complete = FALSE
          <6>1. Turned(q, u)
            BY <2>2, TurnTurned
          <6> QED BY <2>2, <2>5, <5>2, <6>1 DEF Turned, IsParser
        <5>4. b.complete = FALSE /\ c + (k + 1) # N
          BY <1>2, <2>8, <5>1, <5>3
        <5> QED BY <1>4, <1>5, <5>4 DEF Upgrading, N, b, t
      <4>6. CASE p + 1 = N /\ OverPlace(FALSE, u, y.type, m, l, p + 1)
        <5>1. u.error = FALSE /\ u.complete = TRUE /\ u.stop = TRUE
          BY <1>1, <4>6 DEF OverPlace
        <5> QED BY <1>2, <1>4, <1>5, <2>8, <4>6, <5>1 DEF Upgrading, N, b, t
      <4> QED BY <1>1, <4>3, <4>4, <4>5, <4>6, NoBodyPlace DEF HeadTurned
    <3> QED BY <3>1, <3>2
  <2> QED BY <2>6, <2>7, <2>8
<1> QED BY <1>6, <1>7

LEMMA UpgradeLoop ==
  ASSUME NEW y, OneUpgrade(y), NEW c \in Nat, NEW d \in Nat, c < d, d <= Len(y.wire),
         NEW h, InLoop(h), h.used = 0, h.error = FALSE, h.stop = FALSE, h.complete = FALSE,
         h.type = y.type, Place(FALSE, h, y, c)
  PROVE  Upgrading(y, c, d - c, FoldLeft(Advance, h, SubSeq(y.wire, c + 1, d)))
<1> DEFINE w == y.wire
           bytes == SubSeq(w, c + 1, d)
           n == d - c
<1>1. /\ n \in Nat /\ bytes \in Seq(Piece) /\ Len(bytes) = n
      /\ \A k \in 1..n : bytes[k] = w[c + k]
  <2>0. w \in Seq(Piece)
    BY DEF OneUpgrade, Stream
  <2>1. c + 1 \in 1..(Len(w) + 1) /\ d \in 0..Len(w) /\ Len(w) \in Nat
    BY <2>0, LenProperties
  <2>2. bytes \in Seq(Piece) /\ Len(bytes) = (IF c + 1 <= d THEN d - (c + 1) + 1 ELSE 0)
        /\ \A k \in 1..(d - (c + 1) + 1) : bytes[k] = w[(c + 1) + k - 1]
    BY <2>0, <2>1, SubSeqProperties
  <2>3. d - (c + 1) + 1 = n /\ c + 1 <= d
    OBVIOUS
  <2> HIDE DEF bytes
  <2>4. \A k \in 1..n : (c + 1) + k - 1 = c + k
    OBVIOUS
  <2>5. n \in Nat /\ bytes \in Seq(Piece) /\ Len(bytes) = n
    BY <2>2, <2>3
  <2>6. ASSUME NEW k \in 1..n PROVE bytes[k] = w[c + k]
    <3> DEFINE i == (c + 1) + k - 1
    <3>1. bytes[k] = w[i]
      BY <2>2, <2>3
    <3>2. i = c + k
      BY <2>4
    <3> HIDE DEF i
    <3> QED BY <3>1, <3>2
  <2> QED BY <2>5, <2>6
<1> HIDE DEF bytes
<1>2. PICK run : IsRun(run, h, bytes)
  BY <1>1, RunExists
<1> DEFINE T == {k \in Nat : k <= n => Upgrading(y, c, k, run[k])}
<1>3. 0 \in T
  <2>1. run[0] = h /\ c + 0 = c /\ c # Len(y.wire)
    BY <1>2 DEF IsRun
  <2>2. c # Len(y.wire) /\ c + 0 = c /\ c + h.used = c
    <3>1. Len(y.wire) \in Nat
      BY UpgradeSpot
    <3> DEFINE m == Len(y.wire)
    <3>2. m \in Nat /\ c < d /\ d <= m
      BY <3>1
    <3> HIDE DEF m
    <3>3. c # m
      BY <3>2
    <3> QED BY <3>3 DEF m
  <2>3. h.used <= 0
    OBVIOUS
  <2>4. Running(FALSE, y, c, 0, h)
    <3>1. ~(0 >= 1)
      OBVIOUS
    <3> QED BY <2>2, <2>3, <3>1 DEF Running
  <2>5. Upgrading(y, c, 0, h)
    BY <2>2, <2>4 DEF Upgrading
  <2> QED BY <2>1, <2>5
<1>4. ASSUME NEW k \in Nat, k \in T PROVE k + 1 \in T
  <2>1. ASSUME k + 1 <= n PROVE Upgrading(y, c, k + 1, run[k + 1])
    <3>1. k \in 0..(n - 1) /\ k <= n /\ k + 1 \in 1..n /\ c + k < d
      BY <1>1, <2>1
    <3>2. run[k + 1] = Advance(run[k], w[(c + k) + 1])
      <4> HIDE DEF w
      <4>1. bytes[k + 1] = w[c + (k + 1)]
        BY <1>1, <3>1
      <4>2. c + (k + 1) = (c + k) + 1
        OBVIOUS
      <4> QED BY <1>1, <1>2, <3>1, <4>1, <4>2 DEF IsRun
    <3>3. Upgrading(y, c, k, run[k])
      BY <1>4, <3>1
    <3>4. k = 0 => run[k] = h
      BY <1>2 DEF IsRun
    <3>5. k = 0 => run[k].stop = FALSE
      BY <3>4
    <3> DEFINE a == run[k]
    <3> HIDE DEF a
    <3>6. c + k < Len(y.wire)
      <4>1. Len(y.wire) \in Nat
        BY UpgradeSpot
      <4> QED BY <3>1, <4>1
    <3>7. Upgrading(y, c, k + 1, Advance(a, y.wire[(c + k) + 1]))
      BY <3>3, <3>5, <3>6, UpgradingOn DEF a
    <3> QED BY <3>2, <3>7 DEF a
  <2> QED BY <2>1
<1> HIDE DEF T
<1>5. Nat \subseteq T
  BY <1>3, <1>4, NatSetInduction
<1>6. Upgrading(y, c, n, run[n])
  BY <1>1, <1>5 DEF T
<1>7. run[n] = FoldLeft(Advance, h, bytes)
  BY <1>1, <1>2 DEF IsRun
<1> QED BY <1>6, <1>7 DEF bytes

(* Once the loop has been left, the bytes behind change nothing.           *)
LEMMA FoldOn ==
  ASSUME NEW x \in Seq(Piece), NEW z \in Seq(Piece), Len(x) <= Len(z),
         \A i \in 1..Len(x) : z[i] = x[i], NEW h,
         FoldLeft(Advance, h, x).error \/ FoldLeft(Advance, h, x).stop
  PROVE  FoldLeft(Advance, h, z) = FoldLeft(Advance, h, x)
<1> DEFINE n == Len(x)
           N == Len(z)
           f == FoldLeft(Advance, h, x)
<1>1. n \in Nat /\ N \in Nat /\ n <= N
  BY LenProperties
<1>2. PICK run : IsRun(run, h, x)
  BY RunExists
<1>3. PICK run2 : IsRun(run2, h, z)
  BY RunExists
<1>4. /\ run[0] = h /\ run[n] = f
      /\ \A k \in 0..(n - 1) : run[k + 1] = Advance(run[k], x[k + 1])
  BY <1>2 DEF IsRun
<1>5. /\ run2[0] = h /\ run2[N] = FoldLeft(Advance, h, z)
      /\ \A k \in 0..(N - 1) : run2[k + 1] = Advance(run2[k], z[k + 1])
  BY <1>3 DEF IsRun
<1>6. f.error \/ f.stop
  OBVIOUS
<1>7. \A i \in 1..n : z[i] = x[i]
  OBVIOUS
<1> HIDE DEF n, N, f
<1> DEFINE T == {k \in Nat : k <= N => run2[k] = IF k <= n THEN run[k] ELSE f}
<1>8. 0 \in T
  BY <1>1, <1>4, <1>5
<1>9. ASSUME NEW k \in Nat, k \in T PROVE k + 1 \in T
  <2>1. ASSUME k + 1 <= N PROVE run2[k + 1] = IF k + 1 <= n THEN run[k + 1] ELSE f
    <3>1. k \in 0..(N - 1) /\ k <= N
      BY <1>1, <2>1
    <3>2. run2[k + 1] = Advance(run2[k], z[k + 1])
      BY <1>5, <3>1
    <3>3. run2[k] = IF k <= n THEN run[k] ELSE f
      BY <1>9, <3>1
    <3>4. CASE k + 1 <= n
      <4>1. k \in 0..(n - 1) /\ k + 1 \in 1..n /\ k <= n
        BY <1>1, <3>4
      <4> QED BY <1>4, <1>7, <3>2, <3>3, <3>4, <4>1
    <3>5. CASE ~(k + 1 <= n)
      <4>1. k = n \/ ~(k <= n)
        BY <1>1, <3>5
      <4>2. run2[k] = f
        BY <1>1, <1>4, <3>3, <4>1
      <4>3. Advance(f, z[k + 1]) = f
        BY <1>6 DEF Advance
      <4> QED BY <3>2, <3>5, <4>2, <4>3
    <3> QED BY <3>4, <3>5
  <2> QED BY <2>1
<1> HIDE DEF T
<1>10. Nat \subseteq T
  BY <1>8, <1>9, NatSetInduction
<1>11. run2[N] = f
  BY <1>1, <1>4, <1>10 DEF T
<1> QED BY <1>5, <1>11 DEF f

(* What a call from c makes of the parser, if it takes the bytes up to e.  *)
WellRead(y, g, c, e) ==
  /\ g.type = y.type
  /\ g.error => Blame(y, e) /\ g.complete = FALSE
  /\ ~g.error => /\ g.used = e - c
                 /\ e < Len(y.wire) => g.complete = FALSE /\ Place(FALSE, Resume(Idle(g)), y, e)
                 /\ e = Len(y.wire) => g.complete /\ g.state \in {"start", "dead"}

(* A call that ends within the message, or with its last byte.             *)
LEMMA UpgradeCallWithin ==
  ASSUME NEW y, OneUpgrade(y), NEW c \in Nat, NEW d \in Nat, c < d, d <= Len(y.wire),
         NEW h, AtRest(h), h.error = FALSE, h.complete = FALSE, h.type = y.type,
         Place(FALSE, Resume(h), y, c)
  PROVE  WellRead(y, Execute(h, SubSeq(y.wire, c + 1, d)), c, d)
<1> DEFINE r == Resume(h)
           bytes == SubSeq(y.wire, c + 1, d)
           f == FoldLeft(Advance, r, bytes)
           g == Execute(h, bytes)
           k == d - c
           N == Len(y.wire)
<1>1. /\ InLoop(r) /\ r.used = 0 /\ r.error = FALSE /\ r.stop = FALSE /\ r.complete = FALSE
      /\ r.type = y.type
  BY DEF Resume, AtRest, InLoop, IsParser, Fields, Pending, NoMark
<1>2. Place(FALSE, r, y, c)
  OBVIOUS
<1> HIDE DEF r
<1>3. Upgrading(y, c, k, f)
  BY <1>1, <1>2, UpgradeLoop
<1>4. bytes # <<>>
  <2>1. y.wire \in Seq(Piece) /\ Len(y.wire) \in Nat
    BY LenProperties DEF OneUpgrade, Stream
  <2> DEFINE n == Len(y.wire)
  <2>2. n \in Nat /\ d <= n
    BY <2>1
  <2> HIDE DEF n
  <2>3. c + 1 \in 1..(n + 1) /\ d \in 0..n /\ c + 1 <= d /\ d - (c + 1) + 1 = d - c /\ d - c # 0
    BY <2>2
  <2>4. Len(bytes) = d - c
    BY <2>1, <2>3, SubSeqProperties DEF n
  <2> HIDE DEF bytes
  <2> QED BY <2>3, <2>4
<1>5. g = ExecuteBytes(h, bytes)
  BY <1>4 DEF Execute
<1> HIDE DEF f, g
<1>6. /\ InLoop(f) /\ IsParser(f) /\ f.used \in Nat /\ k \in Nat /\ k >= 1 /\ c + k = d
      /\ {f.error, f.stop, f.complete} \subseteq BOOLEAN /\ f.type = y.type
  BY <1>3 DEF Upgrading, Running, InLoop, IsParser
<1> HIDE DEF k
<1>7. f.error => Blame(y, d) /\ f.complete = FALSE
  BY <1>3, <1>6 DEF Upgrading, Running
<1>8. ~f.error => /\ f.used <= k /\ f.used >= 1 /\ Reached(FALSE, f, y, c + f.used)
                  /\ (~f.stop => f.used = k)
  BY <1>3, <1>6 DEF Upgrading, Running
<1> HIDE DEF N
<1>9. /\ f.complete => f.stop /\ d = N
      /\ ~f.error /\ d = N => f.complete
      /\ f.stop /\ ~f.error => f.complete
  BY <1>3, <1>6 DEF Upgrading, InLoop, N
<1>10. CASE f.error
  <2>1. g = [f EXCEPT !.mark = NoMark]
    BY <1>5, <1>10 DEF ExecuteBytes, f, r
  <2>2. g.error = f.error /\ g.complete = f.complete /\ g.type = f.type
    BY <1>6, <2>1 DEF IsParser, Fields
  <2> QED BY <1>6, <1>7, <1>10, <2>2 DEF g, WellRead
<1>11. CASE ~f.error /\ f.stop
  <2>1. g = [f EXCEPT !.mark = NoMark]
    BY <1>5, <1>11 DEF ExecuteBytes, f, r
  <2>2. PICK i \in 1..(Len(y.msgs) + 1) : i > 1 /\ Between(FALSE, f, y, c + f.used, i) /\ f.complete = TRUE
    BY <1>8, <1>11, InsideState DEF Reached
  <2>3. f.state \in {"start", "dead"} /\ y.off[i] = c + f.used
    BY <2>2 DEF Between
  <2>4. d = N
    BY <1>9, <2>2
  <2>5. y.off[i] = N
    BY <2>2, UpgradeSpot, SMTT(30) DEF N
  <2>6. f.used = k
    <3> DEFINE u == f.used
    <3>1. c + u = c + k /\ u \in Nat
      BY <1>6, <2>3, <2>4, <2>5
    <3> HIDE DEF u
    <3>2. u = k
      BY ONLY <1>6, <3>1, c \in Nat
    <3> QED BY <3>2 DEF u
  <2>7. /\ g.error = f.error /\ g.used = f.used /\ g.complete = f.complete /\ g.state = f.state
        /\ g.type = f.type
    BY <1>6, <2>1 DEF IsParser, Fields
  <2>8. ~(d < N)
    <3>1. N \in Nat
      BY UpgradeSpot DEF N
    <3> QED BY <2>4, <3>1
  <2> QED BY <1>6, <1>11, <2>2, <2>3, <2>6, <2>7, <2>8 DEF g, k, N, WellRead
<1>12. CASE ~(f.error \/ f.stop)
  <2>0. f.complete = FALSE /\ d # N
    BY <1>6, <1>9, <1>12
  <2>1. Place(FALSE, f, y, d)
    BY <1>6, <1>8, <1>12 DEF Reached, Place
  <2>2. CASE Overflow(f)
    <3>1. Stream(y)
      BY DEF OneUpgrade
    <3>2. Blame(y, d)
      BY <2>1, <2>2, <3>1, OverflowBlamed
    <3>3. g = Fail([f EXCEPT !.mark = NoMark])
      BY <1>5, <1>12, <2>2 DEF ExecuteBytes, f, r
    <3>4. g.error = TRUE /\ g.complete = FALSE /\ g.type = f.type
      BY <1>6, <2>0, <3>3 DEF Fail, IsParser, Fields
    <3> QED BY <1>6, <3>2, <3>4 DEF g, WellRead
  <2>3. CASE ~Overflow(f)
    <3>1. g = CallbackData(f)
      BY <1>5, <1>12, <2>3 DEF ExecuteBytes, f, r
    <3>2. /\ g.error = f.error /\ g.used = f.used /\ g.complete = f.complete /\ g.type = f.type
          /\ IsParser(g)
      BY <1>6, <3>1, CallbackTurned
    <3>3. SameControl(f, g)
      BY <1>6, <3>1, CallbackControl
    <3>4. Alike(FALSE, f, Resume(Idle(g))) /\ Resume(Idle(g)).nread = f.nread
          /\ Resume(Idle(g)).stop = FALSE
      BY <3>2, <3>3 DEF Alike, Resume, Idle, SameControl, IsParser, Fields
    <3> DEFINE q == Resume(Idle(g))
    <3> HIDE DEF q
    <3>5. Place(FALSE, q, y, d)
      BY <2>1, <3>4, PlaceAlike DEF q
    <3> QED BY <1>6, <1>8, <1>12, <2>0, <3>2, <3>5 DEF g, k, N, q, WellRead
  <2> QED BY <2>2, <2>3
<1> QED BY <1>6, <1>10, <1>11, <1>12

(* A call whose bytes may go on behind the message: what is behind it is   *)
(* left alone.                                                             *)
LEMMA UpgradeCall ==
  ASSUME NEW y, OneUpgrade(y), NEW w \in Seq(Piece), Len(y.wire) <= Len(w),
         \A i \in 1..Len(y.wire) : w[i] = y.wire[i],
         NEW c \in Nat, NEW d \in Nat, c < d, d <= Len(w), c < Len(y.wire),
         NEW h, AtRest(h), h.error = FALSE, h.complete = FALSE, h.type = y.type,
         Place(FALSE, Resume(h), y, c),
         NEW e \in Nat, e <= d, e <= Len(y.wire), e = d \/ e = Len(y.wire)
  PROVE  /\ c < e
         /\ Execute(h, SubSeq(w, c + 1, d)) = Execute(h, SubSeq(y.wire, c + 1, e))
         /\ WellRead(y, Execute(h, SubSeq(w, c + 1, d)), c, e)
<1> DEFINE N == Len(y.wire)
           z == SubSeq(w, c + 1, d)
           x == SubSeq(y.wire, c + 1, e)
           r == Resume(h)
           f == FoldLeft(Advance, r, x)
<1>1. y.wire \in Seq(Piece) /\ N \in Nat /\ Len(w) \in Nat
  BY LenProperties DEF OneUpgrade, Stream
<1>2. e \in Nat /\ c < e /\ e <= d /\ e <= N /\ (e # d => e = N)
  <2>1. c < N /\ N \in Nat /\ e <= d /\ e <= N /\ (e = d \/ e = N) /\ e \in Nat
    BY <1>1
  <2> HIDE DEF N
  <2> QED BY ONLY <2>1, c \in Nat, d \in Nat, c < d
<1> DEFINE m == Len(w)
<1>3. m \in Nat /\ d <= m /\ N <= m
  BY <1>1
<1>4. /\ x \in Seq(Piece) /\ Len(x) = e - c /\ \A i \in 1..(e - c) : x[i] = y.wire[c + i]
  <2>1. c + 1 \in 1..(N + 1) /\ e \in 0..N /\ c + 1 <= e /\ e - (c + 1) + 1 = e - c
    <3> HIDE DEF N
    <3> QED BY <1>1, <1>2
  <2>2. /\ x \in Seq(Piece) /\ Len(x) = e - (c + 1) + 1
        /\ \A i \in 1..(e - (c + 1) + 1) : x[i] = y.wire[(c + 1) + i - 1]
    BY <1>1, <2>1, SubSeqProperties
  <2>3. \A i \in 1..(e - c) : (c + 1) + i - 1 = c + i
    BY <1>2
  <2> HIDE DEF x
  <2> QED BY <2>1, <2>2, <2>3
<1>5. /\ z \in Seq(Piece) /\ Len(z) = d - c /\ \A i \in 1..(d - c) : z[i] = w[c + i]
  <2>1. c + 1 \in 1..(m + 1) /\ d \in 0..m /\ c + 1 <= d /\ d - (c + 1) + 1 = d - c
    <3> HIDE DEF m
    <3> QED BY <1>3
  <2>2. /\ z \in Seq(Piece) /\ Len(z) = d - (c + 1) + 1
        /\ \A i \in 1..(d - (c + 1) + 1) : z[i] = w[(c + 1) + i - 1]
    BY <2>1, SubSeqProperties
  <2>3. \A i \in 1..(d - c) : (c + 1) + i - 1 = c + i
    OBVIOUS
  <2> HIDE DEF z
  <2> QED BY <2>1, <2>2, <2>3
<1>6. \A i \in 1..N : w[i] = y.wire[i]
  OBVIOUS
<1> DEFINE g == Execute(h, x)
<1>7. WellRead(y, g, c, e)
  <2>1. e \in Nat /\ c < e /\ e <= Len(y.wire)
    BY <1>2
  <2> QED BY <2>1, UpgradeCallWithin
<1>8. Execute(h, z) = g
  <2>1. CASE e = d
    <3>1. z = x
      <4>1. \A i \in 1..(e - c) : c + i \in 1..N
        <5> HIDE DEF N
        <5> QED BY <1>1, <1>2
      <4>2. \A i \in 1..Len(x) : x[i] = z[i]
        <5> HIDE DEF N, x, z
        <5> QED BY <1>4, <1>5, <1>6, <2>1, <4>1
      <4>3. Len(x) = Len(z)
        <5> HIDE DEF x, z
        <5> QED BY <1>4, <1>5, <2>1
      <4> HIDE DEF x, z
      <4> QED BY <1>4, <1>5, <4>2, <4>3, SeqEqual
    <3> QED BY <3>1
  <2>2. CASE e # d
    <3>1. e = N /\ e < d
      <4> HIDE DEF N
      <4> QED BY <1>2, <2>2
    <3>2. x # <<>> /\ z # <<>>
      <4> HIDE DEF x, z
      <4>1. Len(x) # 0 /\ Len(z) # 0
        BY <1>2, <1>4, <1>5
      <4> QED BY <4>1
    <3>3. f.error \/ f.stop
      <4>1. InLoop(r) /\ r.used = 0 /\ r.error = FALSE /\ r.stop = FALSE /\ r.complete = FALSE
            /\ r.type = y.type
        BY DEF Resume, AtRest, InLoop, IsParser, Fields, Pending, NoMark
      <4>2. Place(FALSE, r, y, c)
        OBVIOUS
      <4> HIDE DEF r
      <4>3. Upgrading(y, c, e - c, f)
        BY <1>2, <4>1, <4>2, UpgradeLoop
      <4>4. c + (e - c) = Len(y.wire)
        BY <1>2, <3>1
      <4> HIDE DEF f
      <4> QED BY <4>3, <4>4 DEF Upgrading
    <3>4. Len(x) <= Len(z) /\ \A i \in 1..Len(x) : z[i] = x[i]
      <4> HIDE DEF x, z, N
      <4>1. Len(x) <= Len(z) /\ Len(x) = e - c
        BY <1>2, <1>4, <1>5
      <4>2. \A i \in 1..(e - c) : c + i \in 1..N /\ i \in 1..(d - c)
        BY <1>1, <1>2, <3>1
      <4> QED BY <1>4, <1>5, <1>6, <4>1, <4>2
    <3> HIDE DEF x, z
    <3>5. FoldLeft(Advance, r, z) = f
      <4> HIDE DEF r
      <4> QED BY <1>4, <1>5, <3>3, <3>4, FoldOn
    <3>6. Execute(h, z) = ExecuteBytes(h, z) /\ g = ExecuteBytes(h, x)
      BY <3>2 DEF Execute
    <3> HIDE DEF g
    <3>7. ExecuteBytes(h, z) = [f EXCEPT !.mark = NoMark] /\ ExecuteBytes(h, x) = [f EXCEPT !.mark = NoMark]
      BY <3>3, <3>5 DEF ExecuteBytes
    <3> QED BY <3>6, <3>7
  <2> QED BY <2>1, <2>2
<1> HIDE DEF g, N, z
<1>9. Execute(h, z) = Execute(h, SubSeq(y.wire, c + 1, e))
  BY <1>8 DEF g
<1> QED BY <1>2, <1>7, <1>8, <1>9 DEF N, z

------------------------------------------------------------------------------
(* A message of four header lines without a body.                          *)
Four(m, a, b, c, d) ==
  /\ m.coding = "none" /\ m.body = <<>> /\ m.headers = <<a, b, c, d>> /\ m.version = "HTTP/1.1"
  /\ IsLine(a) /\ IsLine(b) /\ IsLine(c) /\ IsLine(d)
  /\ a[1] # b[1] /\ a[1] # c[1] /\ a[1] # d[1] /\ b[1] # c[1] /\ b[1] # d[1] /\ c[1] # d[1]

LEMMA FourHeaders ==
  ASSUME NEW m, NEW a, NEW b, NEW c, NEW d, Four(m, a, b, c, d)
  PROVE  /\ IsMessage(m) /\ HeaderLinesOf(m) = m.headers /\ NL(m) = 4
         /\ TheLine(m, 1) = a /\ TheLine(m, 2) = b /\ TheLine(m, 3) = c /\ TheLine(m, 4) = d
         /\ \A x \in {a, b, c, d} : x[1] \in DOMAIN HeadersOf(m) /\ HeadersOf(m)[x[1]] = x[2]
<1> DEFINE S == {a, b, c, d}
           L == m.headers
<1>1. L \in Seq(S) /\ Len(L) = 4 /\ DOMAIN L = 1..4 /\ L[1] = a /\ L[2] = b /\ L[3] = c /\ L[4] = d
  BY DEF Four
<1>2. HeaderLinesOf(m) = L
  <2>1. HeaderLinesOf(m) = L \o <<>>
    BY DEF HeaderLinesOf, Four
  <2> HIDE DEF L, S
  <2> QED BY <1>1, <2>1, ConcatEmptySeq
<1>3. IsMessage(m)
  <2>1. Range(L) = S
    BY <1>1 DEF Range
  <2>2. m.headers \in Seq(Range(m.headers))
    BY <1>1, <2>1
  <2>3. \A i \in DOMAIN m.headers : IsLine(m.headers[i])
    BY <1>1 DEF Four
  <2>4. m.body \in Seq(Seq(STRING)) /\ m.version \in Version
    BY EmptySeq DEF Four, Version
  <2>5. m.coding = "none" /\ m.body = <<>>
    BY DEF Four
  <2> QED BY <2>2, <2>3, <2>4, <2>5 DEF IsMessage
<1>4. NL(m) = 4
  BY <1>1, <1>2 DEF NL
<1>5. TheLine(m, 1) = a /\ TheLine(m, 2) = b /\ TheLine(m, 3) = c /\ TheLine(m, 4) = d
  BY <1>1, <1>2 DEF TheLine
<1>6. ASSUME NEW j \in 1..4
      PROVE  L[j][1] \in DOMAIN HeadersOf(m) /\ HeadersOf(m)[L[j][1]] = L[j][2]
  <2>1. HeadersOf(m) = [name \in {L[i][1] : i \in 1..4} |->
                          L[Max({i \in 1..4 : L[i][1] = name})][2]]
    BY <1>1, <1>2 DEF HeadersOf, HeadersUpTo
  <2>2. {i \in 1..4 : L[i][1] = L[j][1]} = {j}
    <3>1. \A i, k \in 1..4 : i # k => L[i][1] # L[k][1]
      <4>1. \A i \in 1..4 : i \in {1, 2, 3, 4}
        OBVIOUS
      <4> HIDE DEF L
      <4> QED BY <1>1, <4>1 DEF Four
    <3> HIDE DEF L
    <3> QED BY <3>1
  <2>3. Max({j}) = j
    <3>1. {j} \in SUBSET (1..4) /\ {j} # {} /\ 4 \in Nat
      OBVIOUS
    <3> DEFINE s == {j}
    <3>2. s \in SUBSET (1..4) /\ s # {}
      BY <3>1
    <3> HIDE DEF s
    <3>3. Max(s) \in s
      BY <3>1, <3>2, MaxOf
    <3> QED BY <3>3 DEF s
  <2> DEFINE F(name) == L[Max({i \in 1..4 : L[i][1] = name})][2]
             M == {L[i][1] : i \in 1..4}
  <2> HIDE DEF L
  <2>4. F(L[j][1]) = L[j][2] /\ L[j][1] \in M
    BY <2>2, <2>3
  <2>5. HeadersOf(m) = [name \in M |-> F(name)]
    BY <2>1
  <2> HIDE DEF F, M
  <2> QED BY <2>4, <2>5
<1>7. \A x \in S : \E j \in 1..4 : x = L[j]
  BY <1>1
<1> HIDE DEF L
<1> QED BY <1>2, <1>3, <1>4, <1>5, <1>6, <1>7 DEF L

(* The scan of two pieces.                                                 *)
LEMMA ScanTwo ==
  ASSUME NEW x, NEW z, NEW tokens, NEW next
  PROVE  ListScan(<<x, z>>, tokens, next) =
           ListPiece(ListPiece(Unscanned, x, tokens, next), z, tokens, next)
<1> DEFINE v == <<x, z>>
           P == ListPiece(Unscanned, x, tokens, next)
           O == ListPiece(Unscanned, z, tokens, next)
           A == ListPiece(P, z, tokens, next)
           V(s) == IF s = {} THEN Unscanned ELSE IF s = {1} THEN P ELSE IF s = {2} THEN O ELSE A
           g == [s \in SUBSET {1, 2} |-> V(s)]
           f == CHOOSE f : IsScan(f, v, tokens, next)
<1>1. DOMAIN v = {1, 2} /\ v[1] = x /\ v[2] = z
  OBVIOUS
<1>2. \A s \in SUBSET {1, 2} : s = {} \/ s = {1} \/ s = {2} \/ s = {1, 2}
  OBVIOUS
<1>3. Max({1}) = 1 /\ Max({2}) = 2 /\ Max({1, 2}) = 2
  <2>1. {1} \in SUBSET (1..2) /\ {2} \in SUBSET (1..2) /\ {1, 2} \in SUBSET (1..2) /\ 2 \in Nat
    OBVIOUS
  <2>2. ASSUME NEW s \in SUBSET (1..2), s # {} PROVE Max(s) \in s /\ \A i \in s : i <= Max(s)
    BY <2>1, <2>2, MaxOf
  <2>3. Max({1}) = 1 /\ Max({2}) = 2
    BY <2>1, <2>2
  <2>4. Max({1, 2}) \in {1, 2} /\ \A i \in {1, 2} : i <= Max({1, 2})
    BY <2>1, <2>2
  <2> QED BY <2>3, <2>4
<1>4. {1} # {} /\ {2} # {} /\ {1, 2} # {} /\ {1} # {2} /\ {1, 2} # {1} /\ {1, 2} # {2}
      /\ {1} \ {1} = {} /\ {2} \ {2} = {} /\ {1, 2} \ {2} = {1}
  OBVIOUS
<1>5. IsScan(g, v, tokens, next)
  <2>1. ASSUME NEW s \in SUBSET {1, 2}
        PROVE  V(s) = IF s = {} THEN Unscanned
                      ELSE ListPiece(g[s \ {Max(s)}], v[Max(s)], tokens, next)
    <3>1. \A r \in SUBSET {1, 2} : g[r] = V(r)
      OBVIOUS
    <3>2. {} \in SUBSET {1, 2} /\ {1} \in SUBSET {1, 2}
      OBVIOUS
    <3>3. V({}) = Unscanned /\ V({1}) = P /\ V({2}) = O /\ V({1, 2}) = A
      BY <1>4
    <3>4. g[{}] = Unscanned /\ g[{1}] = P
      <4> HIDE DEF g, V
      <4> QED BY <3>1, <3>2, <3>3
    <3> HIDE DEF g, V, v
    <3>5. CASE s = {}
      BY <3>3, <3>5
    <3>6. CASE s = {1}
      BY <1>1, <1>3, <1>4, <3>3, <3>4, <3>6 DEF P
    <3>7. CASE s = {2}
      BY <1>1, <1>3, <1>4, <3>3, <3>4, <3>7 DEF O
    <3>8. CASE s = {1, 2}
      BY <1>1, <1>3, <1>4, <3>3, <3>4, <3>8 DEF A
    <3> QED BY <1>2, <3>5, <3>6, <3>7, <3>8
  <2>2. g = [s \in SUBSET (DOMAIN v) |->
               IF s = {} THEN Unscanned
               ELSE ListPiece(g[s \ {Max(s)}], v[Max(s)], tokens, next)]
    <3> DEFINE W(s) == IF s = {} THEN Unscanned
                       ELSE ListPiece(g[s \ {Max(s)}], v[Max(s)], tokens, next)
    <3>1. \A s \in SUBSET {1, 2} : V(s) = W(s)
      BY <2>1
    <3>2. [s \in SUBSET {1, 2} |-> V(s)] = [s \in SUBSET {1, 2} |-> W(s)]
      <4> HIDE DEF V, W
      <4> QED BY <3>1
    <3> HIDE DEF V, v
    <3> QED BY <1>1, <3>2
  <2> HIDE DEF g
  <2> QED BY <2>2, Zenon DEF IsScan
<1>6. IsScan(f, v, tokens, next)
  <2> HIDE DEF g
  <2> QED BY <1>5
<1>7. f[{1, 2}] = A
  <2> HIDE DEF f, g, v, V
  <2>1. \A s \in SUBSET {1, 2} :
          f[s] = IF s = {} THEN Unscanned
                 ELSE ListPiece(f[s \ {Max(s)}], v[Max(s)], tokens, next)
    BY <1>1, <1>6, Zenon DEF IsScan
  <2>2. {} \in SUBSET {1, 2} /\ {1} \in SUBSET {1, 2} /\ {1, 2} \in SUBSET {1, 2}
    OBVIOUS
  <2>3. f[{}] = Unscanned
    BY <2>1, <2>2
  <2>4. f[{1}] = P
    BY <1>1, <1>3, <1>4, <2>1, <2>2, <2>3 DEF P
  <2>5. f[{1, 2}] = ListPiece(f[{1, 2} \ {2}], v[2], tokens, next)
    <3>1. f[{1, 2}] = ListPiece(f[{1, 2} \ {Max({1, 2})}], v[Max({1, 2})], tokens, next)
      BY ONLY <1>4, <2>1, <2>2
    <3> QED BY ONLY <1>3, <3>1
  <2>6. f[{1, 2}] = ListPiece(P, z, tokens, next)
    BY ONLY <1>1, <1>4, <2>4, <2>5
  <2> QED BY ONLY <2>6 DEF A
<1> HIDE DEF f, g, V
<1> QED BY <1>1, <1>7, ScanUnfold DEF f, A, P

(* Connection: Upgrade lists the upgrade.                                  *)
LEMMA UpgradeListed == Lists(Upgrade, Upgrade)
<1> DEFINE T == {<<"close">>, <<"keep-alive">>, Upgrade}
           s1 == ListPiece(Unscanned, "Up", T, "start")
           s2 == ListPiece(s1, "grade", T, "start")
<1>1. Append(<<>>, "Up") = <<"Up">> /\ Append(<<"Up">>, "grade") = Upgrade
  <2>1. \A u : Append(<<>>, u) = <<u>>
    OBVIOUS
  <2>2. \A u, z : Append(<<u>>, z) = <<u, z>>
    <3> SUFFICES ASSUME NEW u, NEW z PROVE Append(<<u>>, z) = <<u, z>>
      OBVIOUS
    <3> DEFINE S == {u, z}
               s == Append(<<u>>, z)
               r == <<u, z>>
    <3>1. u \in S /\ z \in S
      OBVIOUS
    <3> HIDE DEF S
    <3>2. <<u>> \in Seq(S) /\ Len(<<u>>) = 1 /\ <<u>>[1] = u
      BY <3>1
    <3>3. r \in Seq(S) /\ Len(r) = 2 /\ r[1] = u /\ r[2] = z
      BY <3>1
    <3>4. /\ s \in Seq(S) /\ Len(s) = 1 + 1
          /\ \A i \in 1..1 : s[i] = <<u>>[i]
          /\ s[1 + 1] = z
      BY ONLY <3>1, <3>2, AppendProperties
    <3> HIDE DEF r, s
    <3>5. s = r
      <4>1. 1 \in 1..1 /\ 1 + 1 = 2 /\ \A i \in 1..2 : i = 1 \/ i = 2
        OBVIOUS
      <4>2. Len(s) = Len(r) /\ \A i \in 1..Len(s) : s[i] = r[i]
        BY <3>2, <3>3, <3>4, <4>1
      <4> QED BY <3>3, <3>4, <4>2, SeqEqual
    <3> QED BY <3>5 DEF r, s
  <2> QED BY <2>1, <2>2 DEF Upgrade
<1>2. IsPrefix(<<"Up">>, Upgrade) /\ IsPrefix(Upgrade, Upgrade)
  BY DEF IsPrefix, Upgrade
<1>3. <<"Up">> \notin T /\ Upgrade \in T
  <2>1. <<"Up">> # <<"close">> /\ <<"Up">> # <<"keep-alive">> /\ <<"Up">> # Upgrade
    BY DEF Upgrade
  <2> QED BY <2>1
<1>4. Unscanned.at = "first" /\ Unscanned.token = <<>> /\ Unscanned.found = {}
      /\ Unscanned = [at |-> "first", token |-> <<>>, found |-> {}]
  BY DEF Unscanned
<1> HIDE DEF T
<1>5. s1 = [Unscanned EXCEPT !.token = <<"Up">>, !.at = "part"]
  <2>1. \E k \in T : IsPrefix(<<"Up">>, k)
    BY <1>2, <1>3
  <2> QED BY <1>1, <1>3, <1>4, <2>1 DEF ListPiece
<1>6. s1.at = "part" /\ s1.token = <<"Up">> /\ s1.found = {}
      /\ s1 = [at |-> "part", token |-> <<"Up">>, found |-> {}]
  <2> HIDE DEF s1
  <2> QED BY <1>4, <1>5
<1> HIDE DEF s1
<1>7. s2 = [s1 EXCEPT !.token = Upgrade, !.at = "token"]
  <2>1. \E k \in T : IsPrefix(Upgrade, k)
    BY <1>2, <1>3
  <2> QED BY <1>1, <1>3, <1>6, <2>1 DEF ListPiece
<1>8. s2.at = "token" /\ s2.token = Upgrade
  <2> HIDE DEF s2
  <2> QED BY <1>6, <1>7
<1> HIDE DEF s2
<1>9. ListScan(Upgrade, T, "start") = s2
  BY ScanTwo DEF s1, s2, Upgrade
<1>10. Lists(Upgrade, Upgrade) <=> Upgrade \in s2.found \cup {s2.token}
  BY <1>8, <1>9 DEF Lists, T
<1> QED BY <1>8, <1>10

(* With Connection and Upgrade it asks for the upgrade.                    *)
LEMMA FourUpgrade ==
  ASSUME NEW m, NEW a, NEW b, NEW c, NEW d, Four(m, a, b, c, d),
         <<Connection, Upgrade>> \in {a, b, c, d}, <<Upgrade, WebSocket>> \in {a, b, c, d}
  PROVE  {"upgrade", "connection_upgrade"} \subseteq AllFlags(m)
<1>1. /\ NL(m) = 4
      /\ TheLine(m, 1) = a /\ TheLine(m, 2) = b /\ TheLine(m, 3) = c /\ TheLine(m, 4) = d
  BY FourHeaders
<1>2. \A f, x : x \in {a, b, c, d} /\ f \in FlagsOf(x) => f \in AllFlags(m)
  <2> SUFFICES ASSUME NEW f, NEW x \in {a, b, c, d}, f \in FlagsOf(x) PROVE f \in AllFlags(m)
    OBVIOUS
  <2>1. PICK j \in 1..4 : TheLine(m, j) = x
    <3>1. 1 \in 1..4 /\ 2 \in 1..4 /\ 3 \in 1..4 /\ 4 \in 1..4
      OBVIOUS
    <3> QED BY <1>1, <3>1
  <2> QED BY <1>1, <2>1 DEF AllFlags, FlagsUpTo
<1> DEFINE x == <<Upgrade, WebSocket>>
           y == <<Connection, Upgrade>>
<1>3. "upgrade" \in FlagsOf(x)
  <2>1. x[1] = Upgrade /\ x[2] # <<>>
    BY DEF WebSocket
  <2> QED BY <2>1 DEF FlagsOf, ValueFlags
<1>4. "connection_upgrade" \in FlagsOf(y)
  <2>1. y[1] = Connection /\ y[2] = Upgrade /\ Upgrade # <<>>
    BY DEF Upgrade
  <2>2. Lists(Upgrade, Upgrade)
    BY UpgradeListed
  <2>3. Connection # TransferEncoding
    BY DEF Connection, TransferEncoding
  <2>4. "connection_upgrade" \in LineFlags(y)
    BY <2>1, <2>2, <2>3 DEF LineFlags, HeaderFlags
  <2> QED BY <2>1, <2>4 DEF FlagsOf
<1> QED BY <1>2, <1>3, <1>4

(* The request, and the answer for a key.                                  *)
TheRequest ==
  [ method |-> "GET", url |-> <<"/">>, version |-> "HTTP/1.1",
    headers |-> << <<Connection, Upgrade>>, <<Upgrade, WebSocket>>,
                   <<SecVersion, <<"13">>>>, <<SecKey, key_>> >>,
    coding |-> "none", body |-> <<>> ]

TheAnswer(key) ==
  [ version |-> "HTTP/1.1", status |-> "101",
    headers |-> << <<Upgrade, WebSocket>>, <<Connection, Upgrade>>,
                   <<SecVersion, <<"13">>>>, <<SecAccept, getSecWebsocketAccept(key)>> >>,
    coding |-> "none", body |-> <<>> ]

LEMMA CommonLines ==
  IsLine(<<Connection, Upgrade>>) /\ IsLine(<<Upgrade, WebSocket>>) /\ IsLine(<<SecVersion, <<"13">>>>)
<1>1. Connection \in Seq(STRING) /\ Upgrade \in Seq(STRING) /\ WebSocket \in Seq(STRING)
      /\ SecVersion \in Seq(STRING) /\ <<"13">> \in Seq(STRING)
  BY WordsAreStrings DEF Connection, Upgrade, WebSocket, SecVersion
<1>2. /\ Connection \notin {ContentLength, TransferEncoding}
      /\ Upgrade \notin {ContentLength, TransferEncoding}
      /\ SecVersion \notin {ContentLength, TransferEncoding}
  BY DEF Connection, Upgrade, SecVersion, ContentLength, TransferEncoding
<1>3. /\ Connection # <<>> /\ Upgrade # <<>> /\ SecVersion # <<>>
      /\ \A i \in DOMAIN Connection : IsText(Connection[i])
      /\ \A i \in DOMAIN Upgrade : IsText(Upgrade[i])
      /\ \A i \in DOMAIN WebSocket : IsText(WebSocket[i])
      /\ \A i \in DOMAIN SecVersion : IsText(SecVersion[i])
      /\ \A i \in DOMAIN <<"13">> : IsText(<<"13">>[i])
  BY DEF Connection, Upgrade, WebSocket, SecVersion, IsText
<1>4. 1 \in DOMAIN Upgrade /\ 1 \in DOMAIN WebSocket /\ 1 \in DOMAIN <<"13">>
  BY DEF Upgrade, WebSocket
<1> DEFINE v == <<"13">>
<1> HIDE DEF v
<1>5. v \in Seq(STRING) /\ 1 \in DOMAIN v /\ \A i \in DOMAIN v : IsText(v[i])
  BY <1>1, <1>3, <1>4 DEF v
<1>6. IsLine(<<Connection, Upgrade>>)
  BY <1>1, <1>2, <1>3, <1>4 DEF IsLine, IsText
<1>7. IsLine(<<Upgrade, WebSocket>>)
  BY <1>1, <1>2, <1>3, <1>4 DEF IsLine, IsText
<1>8. IsLine(<<SecVersion, v>>)
  BY <1>1, <1>2, <1>3, <1>5 DEF IsLine, IsText
<1> QED BY <1>6, <1>7, <1>8 DEF v

(* The line with the key, or with its digest.                              *)
LEMMA KeyLine ==
  ASSUME NEW n \in STRING, IsText(n), n \notin {"Content-Length", "Transfer-Encoding"},
         NEW v \in Seq(STRING), v # <<>>, \A i \in 1..Len(v) : IsText(v[i])
  PROVE  IsLine(<< <<n>>, v>>)
<1> DEFINE x == <<n>>
<1>1. /\ x \in Seq(STRING) /\ x # <<>> /\ \A i \in DOMAIN x : IsText(x[i])
      /\ x \notin {ContentLength, TransferEncoding}
  BY DEF ContentLength, TransferEncoding
<1> HIDE DEF x
<1>2. DOMAIN v = 1..Len(v) /\ Len(v) \in Nat /\ Len(v) # 0
  BY LenProperties, EmptySeq
<1>3. 1 \in 1..Len(v)
  BY <1>2
<1>4. IsLine(<<x, v>>)
  BY <1>1, <1>2, <1>3 DEF IsLine, IsText
<1> QED BY <1>4 DEF x

(* Of one message.                                                         *)
LEMMA OneStream ==
  ASSUME NEW type \in {"request", "response"}, NEW m, Good(type, m), m.coding = "none",
         PartsOf(type, m) \in Seq(Part)
  PROVE  /\ MayCome(type, <<m>>)
         /\ PartsOfAll(type, <<m>>) = PartsOf(type, m)
<1> DEFINE s == <<m>>
<1>1. s \in Seq({m}) /\ DOMAIN s = 1..1 /\ Len(s) = 1 /\ s[1] = m
  OBVIOUS
<1>2. Range(s) = {m}
  BY <1>1 DEF Range
<1>3. \A i \in 1..1 : i = 1
  OBVIOUS
<1>4. [k \in DOMAIN s |-> PartsOf(type, s[k])] = <<PartsOf(type, m)>>
  BY <1>1, <1>3
<1> HIDE DEF s
<1>5. MayCome(type, s)
  BY <1>1, <1>2, <1>3 DEF MayCome
<1>6. FlattenSeq(<<PartsOf(type, m)>>) = PartsOf(type, m)
  BY FlattenOne
<1>7. PartsOfAll(type, s) = PartsOf(type, m)
  BY <1>4, <1>6 DEF PartsOfAll
<1> QED BY <1>5, <1>7 DEF s

LEMMA RequestIs ==
  /\ Good("request", TheRequest) /\ UpgradesTo("request", TheRequest)
  /\ TheRequest.coding = "none" /\ TheRequest.body = <<>>
  /\ MayCome("request", <<TheRequest>>)
  /\ PartsOfAll("request", <<TheRequest>>) = HandshakeRequest
  /\ isHandShakeRequest(RequestOf(TheRequest))
  /\ GetHeader(RequestOf(TheRequest), SecKey) = key_
<1> DEFINE m == TheRequest
           a == <<Connection, Upgrade>>
           b == <<Upgrade, WebSocket>>
           c == <<SecVersion, <<"13">>>>
           d == <<SecKey, key_>>
<1>1. Four(m, a, b, c, d)
  <2>1. IsLine(d)
    <3>1. "Sec-WebSocket-Key" \in STRING /\ IsText("Sec-WebSocket-Key")
          /\ "Sec-WebSocket-Key" \notin {"Content-Length", "Transfer-Encoding"}
      BY WordsAreStrings DEF IsText
    <3>2. key_ \in Seq(STRING) /\ key_ # <<>> /\ \A i \in 1..Len(key_) : IsText(key_[i])
      BY KeyIsText, KeyPieces
    <3> QED BY <3>1, <3>2, KeyLine DEF SecKey
  <2>2. Connection # Upgrade /\ Connection # SecVersion /\ Connection # SecKey
        /\ Upgrade # SecVersion /\ Upgrade # SecKey /\ SecVersion # SecKey
    BY DEF Connection, Upgrade, SecVersion, SecKey
  <2>3. /\ m.coding = "none" /\ m.body = <<>> /\ m.headers = <<a, b, c, d>>
        /\ m.version = "HTTP/1.1"
    BY DEF TheRequest
  <2> HIDE DEF m
  <2> QED BY <2>1, <2>2, <2>3, CommonLines DEF Four
<1>2. m.method = "GET" /\ m.url = <<"/">> /\ m.coding = "none" /\ m.body = <<>> /\ m.version = "HTTP/1.1"
  BY DEF TheRequest
<1>3. HandshakeRequest = RequestParts(m)
  BY DEF HandshakeRequest, TheRequest
<1> HIDE DEF m
<1>4. /\ IsMessage(m) /\ HeadersOf(m)[Connection] = Upgrade /\ HeadersOf(m)[Upgrade] = WebSocket
      /\ HeadersOf(m)[SecVersion] = <<"13">> /\ HeadersOf(m)[SecKey] = key_
      /\ {Connection, Upgrade, SecVersion, SecKey} \subseteq DOMAIN HeadersOf(m)
  <2>1. \A x \in {a, b, c, d} : x[1] \in DOMAIN HeadersOf(m) /\ HeadersOf(m)[x[1]] = x[2]
    BY <1>1, FourHeaders
  <2>2. IsMessage(m)
    BY <1>1, FourHeaders
  <2> QED BY <2>1, <2>2
<1>5. IsRequest(m)
  <2> DEFINE u == <<"/">>
  <2>1. /\ u \in Seq(STRING) /\ u # <<>> /\ IsText(u[1]) /\ \A i \in DOMAIN u : u[i] \notin {"sp", "crlf"}
    BY WordsAreStrings DEF IsText
  <2> HIDE DEF u
  <2>2. m.url = u
    BY <1>2 DEF u
  <2> QED BY <1>2, <1>4, <2>1, <2>2 DEF IsRequest, Method
<1>6. Good("request", m)
  <2>1. GoodLines(m) /\ GoodBody(m)
    BY <1>5, MessageLines DEF IsRequest
  <2> DEFINE u == <<"/">>
  <2>2. u \in Seq(Piece) /\ u # <<>> /\ Len(u) = 1 /\ u[1] = "/"
    BY DEF Piece
  <2> HIDE DEF u
  <2>3. m.url = u
    BY <1>2 DEF u
  <2>4. IsText(u[1]) /\ \A i \in 1..Len(u) : u[i] \notin {"sp", "crlf"}
    BY <2>2 DEF IsText
  <2>5. GoodFirst("request", m)
    BY <1>2, <1>5, <2>2, <2>3, <2>4 DEF GoodFirst, IsRequest, IsMessage
  <2> QED BY <2>1, <2>5 DEF Good
<1>7. UpgradesTo("request", m)
  <2>1. {"upgrade", "connection_upgrade"} \subseteq AllFlags(m)
    BY <1>1, FourUpgrade
  <2> QED BY <2>1 DEF UpgradesTo
<1>8. PartsOf("request", m) = HandshakeRequest /\ PartsOf("request", m) \in Seq(Part)
  BY <1>3, <1>6, PartsAreParts DEF PartsOf
<1>9. MayCome("request", <<m>>) /\ PartsOfAll("request", <<m>>) = HandshakeRequest
  BY <1>2, <1>6, <1>8, OneStream
<1>10. /\ GetHeader(RequestOf(m), Connection) = Upgrade /\ GetHeader(RequestOf(m), Upgrade) = WebSocket
       /\ GetHeader(RequestOf(m), SecVersion) = <<"13">> /\ GetHeader(RequestOf(m), SecKey) = key_
       /\ RequestOf(m).method = "GET" /\ RequestOf(m).version = "HTTP/1.1"
  <2>1. RequestOf(m).headers = HeadersOf(m) /\ RequestOf(m).method = m.method
        /\ RequestOf(m).version = m.version
    BY DEF RequestOf
  <2> QED BY <1>2, <1>4, <2>1 DEF GetHeader
<1>11. isHandShakeRequest(RequestOf(m))
  BY <1>10, KeyPieces DEF isHandShakeRequest
<1> QED BY <1>2, <1>6, <1>7, <1>9, <1>10, <1>11 DEF m


LEMMA AnswerIs ==
  ASSUME NEW key \in Seq(STRING), \A i \in 1..Len(key) : IsText(key[i])
  PROVE  /\ Good("response", TheAnswer(key)) /\ UpgradesTo("response", TheAnswer(key))
         /\ TheAnswer(key).coding = "none" /\ TheAnswer(key).body = <<>>
         /\ MayCome("response", <<TheAnswer(key)>>)
         /\ PartsOfAll("response", <<TheAnswer(key)>>) = responseHandShake(key)
         /\ key = key_ => validHandleShakeResponse(ResponseOf(TheAnswer(key)))
<1> DEFINE m == TheAnswer(key)
           a == <<Upgrade, WebSocket>>
           b == <<Connection, Upgrade>>
           c == <<SecVersion, <<"13">>>>
           v == getSecWebsocketAccept(key)
           d == <<SecAccept, v>>
<1>0. v \in Seq(STRING) /\ v # <<>> /\ \A i \in 1..Len(v) : IsText(v[i])
  <2> DEFINE g == <<"digest">>
  <2>1. g \in Seq(STRING) /\ Len(g) = 1 /\ IsText(g[1])
    BY WordsAreStrings DEF IsText
  <2>2. v = g \o key
    BY DEF getSecWebsocketAccept
  <2> HIDE DEF g, v
  <2>3. /\ v \in Seq(STRING) /\ Len(v) = Len(g) + Len(key) /\ Len(key) \in Nat
        /\ \A i \in 1..(Len(g) + Len(key)) : v[i] = IF i <= Len(g) THEN g[i] ELSE key[i - Len(g)]
    BY <2>1, <2>2, ConcatProperties, LenProperties
  <2>4. ASSUME NEW i \in 1..Len(v) PROVE IsText(v[i])
    <3>1. i = 1 \/ i - 1 \in 1..Len(key)
      BY <2>1, <2>3
    <3> QED BY <2>1, <2>3, <3>1, SMTT(30)
  <2>5. Len(v) # 0
    BY <2>1, <2>3
  <2> QED BY <2>3, <2>4, <2>5
<1> HIDE DEF v
<1>1. Four(m, a, b, c, d)
  <2>1. IsLine(d)
    <3>1. "Sec-WebSocket-Accept" \in STRING /\ IsText("Sec-WebSocket-Accept")
          /\ "Sec-WebSocket-Accept" \notin {"Content-Length", "Transfer-Encoding"}
      BY WordsAreStrings DEF IsText
    <3> QED BY <1>0, <3>1, KeyLine DEF SecAccept
  <2>2. Connection # Upgrade /\ Connection # SecVersion /\ Connection # SecAccept
        /\ Upgrade # SecVersion /\ Upgrade # SecAccept /\ SecVersion # SecAccept
    BY DEF Connection, Upgrade, SecVersion, SecAccept
  <2>3. /\ m.coding = "none" /\ m.body = <<>> /\ m.headers = <<a, b, c, d>>
        /\ m.version = "HTTP/1.1"
    BY DEF TheAnswer, v
  <2> HIDE DEF m
  <2> QED BY <2>1, <2>2, <2>3, CommonLines DEF Four
<1>2. m.status = "101" /\ m.coding = "none" /\ m.body = <<>> /\ m.version = "HTTP/1.1"
      /\ m.headers = <<a, b, c, d>>
  BY DEF TheAnswer, v
<1> HIDE DEF m
<1>4. /\ IsMessage(m) /\ HeadersOf(m)[Connection] = Upgrade /\ HeadersOf(m)[Upgrade] = WebSocket
      /\ HeadersOf(m)[SecAccept] = v
      /\ {Connection, Upgrade, SecAccept} \subseteq DOMAIN HeadersOf(m)
      /\ HeaderLinesOf(m) = m.headers
  <2>1. \A x \in {a, b, c, d} : x[1] \in DOMAIN HeadersOf(m) /\ HeadersOf(m)[x[1]] = x[2]
    BY <1>1, FourHeaders
  <2>2. IsMessage(m) /\ HeaderLinesOf(m) = m.headers
    BY <1>1, FourHeaders
  <2> QED BY <2>1, <2>2
<1>5. IsResponse(m)
  BY <1>2, <1>4 DEF IsResponse, Status
<1>6. Good("response", m)
  BY <1>5, ResponsesAreGood
<1>7. UpgradesTo("response", m)
  <2>1. {"upgrade", "connection_upgrade"} \subseteq AllFlags(m)
    BY <1>1, FourUpgrade
  <2> QED BY <1>2, <2>1 DEF UpgradesTo
<1>8. PartsOf("response", m) = responseHandShake(key) /\ PartsOf("response", m) \in Seq(Part)
  <2> DEFINE t == <<"HTTP/1.1", "sp", "101", "sp", "reason", "crlf">>
             A == <<Plain(t)>>
             B == FourLines(a, b, c, d)
             C == <<Plain(<<"crlf">>)>>
  <2>1. PartsOf("response", m) = (A \o (B \o C)) \o <<>>
    <3>1. PartsOf("response", m) = ResponseHead(m) \o BodyParts(m)
      BY DEF PartsOf, ResponseParts
    <3>2. BodyParts(m) = <<>>
      BY <1>2 DEF BodyParts
    <3>3. ResponseHead(m) = <<Plain(<<m.version, "sp", m.status, "sp", "reason", "crlf">>)>> \o HeadEnd(m)
      BY DEF ResponseHead
    <3>4. HeadEnd(m) = AllParts(<<a, b, c, d>>, HeaderParts) \o C
      BY <1>2, <1>4 DEF HeadEnd
    <3> QED BY <1>2, <3>1, <3>2, <3>3, <3>4 DEF FourLines
  <2>2. responseHandShake(key) = (A \o B) \o C
    BY DEF responseHandShake, FourLines, v
  <2>3. A \in Seq(Part) /\ C \in Seq(Part)
    <3> DEFINE e == <<"crlf">>
    <3>1. t \in Seq(Piece) /\ e \in Seq(Piece)
      BY DEF Piece
    <3> HIDE DEF t, e
    <3>2. <<Plain(t)>> \in Seq(Part) /\ <<Plain(e)>> \in Seq(Part)
      BY <3>1, BytesPlain
    <3> QED BY <3>2 DEF e
  <2>4. B \in Seq(Part)
    <3>1. STRING \subseteq Piece
      BY DEF Piece
    <3>2. IsHeader(a) /\ IsHeader(b) /\ IsHeader(c) /\ IsHeader(d)
      <4>1. \A s \in Seq(STRING) : s \in Seq(Piece)
        BY <3>1, SeqMonotonic
      <4>2. IsLine(a) /\ IsLine(b) /\ IsLine(c) /\ IsLine(d)
        BY <1>1 DEF Four
      <4> HIDE DEF a, b, c, d
      <4> QED BY <4>1, <4>2 DEF IsLine, IsHeader
    <3> HIDE DEF a, b, c, d
    <3> QED BY <3>2, BytesOfHeaders
  <2> HIDE DEF A, B, C
  <2>5. (A \o B) \o C = A \o (B \o C)
    <3>1. \A s, t1, u \in Seq(Part) : (s \o t1) \o u = s \o (t1 \o u)
      BY ONLY ConcatAssociative
    <3> QED BY ONLY <2>3, <2>4, <3>1
  <2> DEFINE D == A \o (B \o C)
  <2>6. D \in Seq(Part)
    <3>1. B \o C \in Seq(Part)
      BY ONLY <2>3, <2>4, ConcatProperties
    <3> QED BY ONLY <2>3, <3>1, ConcatProperties
  <2> HIDE DEF D
  <2>7. D \o <<>> = D
    BY <2>6, ConcatEmptySeq
  <2>8. PartsOf("response", m) = D
    BY <2>1, <2>7 DEF D
  <2> QED BY <2>2, <2>5, <2>6, <2>8 DEF D
<1>9. MayCome("response", <<m>>) /\ PartsOfAll("response", <<m>>) = responseHandShake(key)
  BY <1>2, <1>6, <1>8, OneStream
<1>10. /\ GetHeader(ResponseOf(m), Connection) = Upgrade /\ GetHeader(ResponseOf(m), Upgrade) = WebSocket
       /\ GetHeader(ResponseOf(m), SecAccept) = v
       /\ ResponseOf(m).status = "101" /\ ResponseOf(m).version = "HTTP/1.1"
  <2>1. ResponseOf(m).headers = HeadersOf(m) /\ ResponseOf(m).status = m.status
        /\ ResponseOf(m).version = m.version
    BY DEF ResponseOf
  <2> QED BY <1>2, <1>4, <2>1 DEF GetHeader
<1>11. key = key_ => validHandleShakeResponse(ResponseOf(m))
  BY <1>10 DEF validHandleShakeResponse, v
<1> QED BY <1>2, <1>6, <1>7, <1>9, <1>11 DEF m

------------------------------------------------------------------------------
(* The limit has room for the message.                                     *)
Room(y) == Len(y.wire) <= HTTP_MAX_HEADER_SIZE

LEMMA RoomLess ==
  ASSUME NEW y, OneUpgrade(y), NEW p \in Nat, p <= Len(y.wire), Blame(y, p)
  PROVE  ~Room(y)
<1>1. PICK i \in 1..Len(y.msgs) :
        \/ ~Fits(y, i) /\ Carry(y, i) + (p - y.off[i]) > HTTP_MAX_HEADER_SIZE
        \/ i > 1 /\ ~KeepsOpen(y.msgs[i - 1]) /\ p > y.off[i]
  BY DEF Blame
<1>2. i = 1 /\ y.off[1] = 0
  BY <1>1, UpgradeSpot
<1>3. Carry(y, 1) = 0
  BY DEF Carry
<1> DEFINE N == Len(y.wire)
<1>4. N \in Nat /\ HTTP_MAX_HEADER_SIZE \in Nat
  BY UpgradeSpot, HeaderSizeIsPositive
<1>5. 0 + (p - 0) > HTTP_MAX_HEADER_SIZE
  BY <1>1, <1>2, <1>3
<1>6. p <= N
  OBVIOUS
<1> HIDE DEF N
<1>7. ~(N <= HTTP_MAX_HEADER_SIZE)
  BY <1>4, <1>5, <1>6
<1> QED BY <1>7 DEF Room, N

(* The end of the message cuts no string of it.                            *)
LEMMA UncutAtEnd ==
  ASSUME NEW y, OneUpgrade(y)
  PROVE  Uncut(y, Len(y.wire))
<1> DEFINE N == Len(y.wire)
           m == y.msgs[1]
           l == y.at[1]
           F == FirstSize(y.type, m)
           k == NL(m)
<1>1. /\ 1..Len(y.msgs) = {1} /\ N \in Nat /\ BodyAt(m, l) = N /\ Good(y.type, m)
      /\ Laid(y.wire, y.type, m, l) /\ l.begin = 0 /\ m.coding = "none"
  BY UpgradeSpot DEF OneUpgrade
<1> HIDE DEF N, m, l, F, k
<1>2. /\ k \in Nat /\ N = l.line[k + 1] + 1 /\ l.line[1] = 0 + F
      /\ \A j \in 1..(k + 1) : l.line[j] \in Nat
      /\ \A j \in 1..k : /\ l.line[j + 1] = l.line[j] + Len(TheLine(m, j)[1]) + Len(TheLine(m, j)[2]) + 3
                         /\ l.line[j + 1] <= l.line[k + 1]
  BY <1>1 DEF Laid, LinesLaid, BodyAt, F, k, Good, GoodLines
<1>3. \A j \in 1..k : Len(TheLine(m, j)[1]) \in Nat /\ Len(TheLine(m, j)[2]) \in Nat
  BY <1>1, LenProperties DEF Good, GoodLines, LineOk, k
<1>4. l.line[1] <= l.line[k + 1]
  <2>1. CASE k = 0
    <3>1. k + 1 = 1
      BY <2>1
    <3> QED BY <1>2, <3>1
  <2>2. CASE k # 0
    <3>1. 1 \in 1..k /\ 1 \in 1..(k + 1) /\ 1 + 1 \in 1..(k + 1) /\ k + 1 \in 1..(k + 1)
      BY <1>2, <2>2
    <3> DEFINE a == l.line[1]
               b == l.line[1 + 1]
               c == l.line[k + 1]
               u == Len(TheLine(m, 1)[1])
               v == Len(TheLine(m, 1)[2])
    <3>2. b = a + u + v + 3 /\ b <= c /\ a \in Nat /\ b \in Nat /\ c \in Nat /\ u \in Nat /\ v \in Nat
      BY <1>2, <1>3, <3>1
    <3> HIDE DEF a, b, c, u, v
    <3>3. a <= c
      BY <3>2
    <3> QED BY <3>3 DEF a, c
  <2> QED BY <2>1, <2>2
<1>5. ASSUME y.type = "request" PROVE N - (l.begin + 2) \notin 1..Len(m.url)
  <2>1. F = Len(m.url) + 5 /\ Len(m.url) \in Nat
    BY <1>1, <1>5 DEF F, FirstSize, Good, GoodFirst
  <2> DEFINE u == Len(m.url)
             a == l.line[1]
             c == l.line[k + 1]
  <2>2. u \in Nat /\ a = 0 + (u + 5) /\ a <= c /\ N = c + 1 /\ c \in Nat
    <3>1. k + 1 \in 1..(k + 1)
      BY <1>2
    <3> QED BY <1>2, <1>4, <2>1, <3>1
  <2> HIDE DEF u, a, c
  <2>3. N - (0 + 2) \notin 1..u
    BY <2>2
  <2> QED BY <1>1, <2>3 DEF u
<1>6. ASSUME NEW j \in 1..k
      PROVE  /\ N - l.line[j] \notin 1..Len(TheLine(m, j)[1])
             /\ N - (l.line[j] + Len(TheLine(m, j)[1]) + 2) \notin 1..(Len(TheLine(m, j)[2]) - 1)
  <2> DEFINE a == l.line[j]
             b == l.line[j + 1]
             c == l.line[k + 1]
             u == Len(TheLine(m, j)[1])
             v == Len(TheLine(m, j)[2])
  <2>1. j \in 1..(k + 1) /\ j + 1 \in 1..(k + 1) /\ k + 1 \in 1..(k + 1)
    BY <1>2
  <2>2. b = a + u + v + 3 /\ b <= c /\ a \in Nat /\ b \in Nat /\ c \in Nat /\ u \in Nat /\ v \in Nat
        /\ N = c + 1
    BY <1>2, <1>3, <2>1
  <2> HIDE DEF a, b, c, u, v
  <2>3. N - a \notin 1..u /\ N - (a + u + 2) \notin 1..(v - 1)
    BY <2>2
  <2> QED BY <2>3 DEF a, u, v
<1>7. UncutIn(y.type, m, l, N)
  BY <1>1, <1>5, <1>6 DEF UncutIn, k
<1> QED BY <1>1, <1>7 DEF Uncut, m, l, N

(* A call of which no end cuts a string stores what was sent.              *)
LEMMA UpgradeExact ==
  ASSUME NEW y, OneUpgrade(y), y.msgs[1].body = <<>>,
         NEW c \in Nat, NEW d \in Nat, c < d, d <= Len(y.wire), Uncut(y, d),
         NEW h, AtRest(h), h.error = FALSE, h.complete = FALSE, h.type = y.type,
         Place(FALSE, Resume(h), y, c), Place(TRUE, Resume(h), y, c)
  PROVE  LET g == Execute(h, SubSeq(y.wire, c + 1, d))
         IN  ~g.error => /\ d < Len(y.wire) => Place(TRUE, Resume(Idle(g)), y, d)
                         /\ d = Len(y.wire) => g.message = MessageOf(y.type, y.msgs[1])
<1> DEFINE g == Execute(h, SubSeq(y.wire, c + 1, d))
           N == Len(y.wire)
           q == Resume(Idle(g))
<1> SUFFICES ASSUME ~g.error
             PROVE  /\ d < N => Place(TRUE, q, y, d)
                    /\ d = N => g.message = MessageOf(y.type, y.msgs[1])
  OBVIOUS
<1>1. /\ Stream(y) /\ 1..Len(y.msgs) = {1} /\ 1..(Len(y.msgs) + 1) = {1, 2}
      /\ y.off[1] = 0 /\ y.off[2] = N /\ N \in Nat
  BY UpgradeSpot DEF OneUpgrade
<1>2. Undivided(TRUE, y, c, d)
  <2>1. \A j \in 1..Len(y.msgs) : Len(y.msgs[j].body) <= 1
    <3>1. Len(<<>>) = 0
      OBVIOUS
    <3> QED BY <1>1, <3>1
  <2>2. ~(c < 0 /\ 0 < d) /\ ~(c < N /\ N < d)
    <3>1. d <= N
      OBVIOUS
    <3> HIDE DEF N
    <3> QED BY <1>1, <3>1
  <2> QED BY <1>1, <2>1, <2>2 DEF Undivided
<1>3. Reached(TRUE, q, y, d)
  BY <1>1, <1>2, CallExact
<1>4. d = N => g.complete /\ g.state \in {"start", "dead"}
  BY UpgradeCallWithin DEF WellRead
<1>5. IsParser(g)
  <2>1. SubSeq(y.wire, c + 1, d) \in Seq(Piece) /\ SubSeq(y.wire, c + 1, d) # <<>>
    <3> DEFINE z == SubSeq(y.wire, c + 1, d)
    <3>0. d <= N
      OBVIOUS
    <3>1. c + 1 \in 1..(N + 1) /\ d \in 0..N /\ c + 1 <= d /\ d - (c + 1) + 1 # 0
      <4> HIDE DEF N
      <4> QED BY <1>1, <3>0
    <3>2. z \in Seq(Piece) /\ Len(z) = d - (c + 1) + 1
      <4>1. y.wire \in Seq(Piece)
        BY <1>1 DEF Stream
      <4> QED BY <3>1, <4>1, SubSeqProperties
    <3> HIDE DEF z
    <3>3. z # <<>>
      BY <3>1, <3>2
    <3> QED BY <3>2, <3>3 DEF z
  <2> QED BY <2>1, AfterBytes
<1> HIDE DEF g
<1>6. /\ q.state = g.state /\ q.complete = g.complete /\ q.message = g.message
  BY <1>5 DEF Resume, Idle, IsParser, Fields
<1> HIDE DEF q
<1>7. ASSUME d < N PROVE Place(TRUE, q, y, d)
  <2>1. ~\E i \in 1..(Len(y.msgs) + 1) : i > 1 /\ Between(TRUE, q, y, d, i) /\ q.complete = TRUE
    <3> SUFFICES ASSUME NEW i \in 1..(Len(y.msgs) + 1), i > 1, Between(TRUE, q, y, d, i) PROVE FALSE
      OBVIOUS
    <3>1. i = 2
      BY <1>1
    <3>2. d = N
      BY <1>1, <3>1 DEF Between
    <3> HIDE DEF N
    <3> QED BY <1>1, <1>7, <3>2
  <2> QED BY <1>3, <2>1 DEF Reached, Place
<1>8. ASSUME d = N PROVE g.message = MessageOf(y.type, y.msgs[1])
  <2>1. q.complete = TRUE /\ q.state \in {"start", "dead"}
    BY <1>4, <1>5, <1>6, <1>8 DEF IsParser
  <2>2. PICK i \in 1..(Len(y.msgs) + 1) : i > 1 /\ Between(TRUE, q, y, d, i)
    BY <1>3, <2>1, InsideState DEF Reached
  <2>3. i = 2 /\ i - 1 = 1
    BY <1>1, <2>2
  <2>4. q.message = MessageOf(y.type, y.msgs[1])
    BY <2>1, <2>2, <2>3 DEF Between, Ready, Unended
  <2> QED BY <1>6, <2>4
<1> QED BY <1>7, <1>8

------------------------------------------------------------------------------
(* e has read the first r bytes of the message of y, and not the last; if  *)
(* x, what it has stored of it is exact.                                   *)
Hears(x, e, y, r) ==
  /\ e.buffer = <<>> /\ AtRest(e.http) /\ e.http.error = FALSE /\ e.http.complete = FALSE
  /\ e.http.type = y.type /\ r \in Nat /\ r < Len(y.wire)
  /\ Place(FALSE, Resume(e.http), y, r)
  /\ x => Place(TRUE, Resume(e.http), y, r)

(* A stream that begins with the message.                                  *)
Opening(s, y) == Len(y.wire) <= Len(s.bytes) /\ \A i \in 1..Len(y.wire) : s.bytes[i] = y.wire[i]

(* What it has become when it has read the first d.                        *)
Heard(z, f, y, w, d) ==
  /\ f.closing => f.http.complete = FALSE /\ ~Room(y)
  /\ ~f.closing /\ d < Len(y.wire) => Hears(z, f, y, d)
  /\ ~f.closing /\ Len(y.wire) <= d =>
       /\ f.http.complete = TRUE /\ f.http.type = y.type /\ f.http.state \in {"start", "dead"}
       /\ AtRest(f.http) /\ f.http.error = FALSE
       /\ f.buffer = SubSeq(w, Len(y.wire) + 1, d)
       /\ z => f.http.message = MessageOf(y.type, y.msgs[1])

LEMMA HearsFurther ==
  ASSUME NEW y, OneUpgrade(y), y.msgs[1].body = <<>>, NEW s, IsStream(s), Opening(s, y),
         NEW e, IsEndpoint(e), NEW x, Hears(x, e, y, s.read),
         NEW n \in Nat, n # 0, n <= Len(s.bytes) - s.read,
         NEW z, z => x, z /\ s.read + n < Len(y.wire) => Uncut(y, s.read + n)
  PROVE  Heard(z, Parsed(e, e.buffer \o Arriving(s, n)), y, s.bytes, s.read + n)
<1> DEFINE w == s.bytes
           c == s.read
           d == s.read + n
           h == e.http
           bytes == e.buffer \o Arriving(s, n)
           g == Execute(h, bytes)
           f == Parsed(e, bytes)
           N == Len(y.wire)
           k == IF d <= N THEN d ELSE N
<1> SUFFICES Heard(z, f, y, w, d)
  OBVIOUS
<1>1. /\ w \in Seq(Piece) /\ Len(w) \in Nat /\ c \in Nat /\ d \in Nat /\ c < d /\ d <= Len(w)
  <2>1. w \in Seq(Piece) /\ Len(w) \in Nat /\ s.read \in 0..Len(w)
    BY LenProperties DEF IsStream
  <2> QED BY <2>1
<1>2. N \in Nat /\ N <= Len(w) /\ \A i \in 1..N : w[i] = y.wire[i]
  BY UpgradeSpot DEF Opening
<1>3. /\ AtRest(h) /\ h.error = FALSE /\ h.complete = FALSE /\ h.type = y.type /\ c < N
      /\ Place(FALSE, Resume(h), y, c) /\ (x => Place(TRUE, Resume(h), y, c))
      /\ e.buffer = <<>>
  BY DEF Hears
<1>4. /\ bytes = SubSeq(w, c + 1, d) /\ bytes \in Seq(Piece) /\ Len(bytes) = d - c /\ bytes # <<>>
  <2> DEFINE a == SubSeq(w, c + 1, d)
             m == Len(w)
  <2>1. bytes = <<>> \o a
    BY <1>3 DEF Arriving
  <2>2. c + 1 \in 1..(m + 1) /\ d \in 0..m /\ c + 1 <= d /\ d - (c + 1) + 1 = d - c /\ d - c # 0
    <3> HIDE DEF m, c, d
    <3> QED BY <1>1 DEF m
  <2>3. a \in Seq(Piece) /\ Len(a) = d - (c + 1) + 1
    <3> HIDE DEF c, d, m
    <3> QED BY <1>1, <2>2, SubSeqProperties DEF m
  <2> HIDE DEF a
  <2>4. bytes = a
    BY <2>1, <2>3, ConcatEmptySeq
  <2> HIDE DEF bytes, c, d
  <2>5. bytes # <<>>
    BY <2>2, <2>3, <2>4
  <2> QED BY <2>2, <2>3, <2>4, <2>5 DEF a
<1>5. /\ AtRest(Idle(g)) /\ Idle(g).error = g.error /\ g.type = h.type
      /\ Idle(g).complete = g.complete /\ IsParser(g) /\ g.used \in Nat
  BY <1>3, <1>4, AfterBytes
<1>6. /\ f.http = Idle(g) /\ f.buffer = LeftOver(g, bytes) /\ f.closing = g.error
  BY DEF Parsed, IsEndpoint
<1> HIDE DEF bytes
<1>7. /\ k \in Nat /\ c < k /\ k <= d /\ k <= N
      /\ g = Execute(h, SubSeq(y.wire, c + 1, k))
      /\ g.error => Blame(y, k) /\ g.complete = FALSE
      /\ ~g.error => /\ g.used = k - c
                     /\ k < N => /\ g.complete = FALSE
                                 /\ Place(FALSE, Resume(Idle(g)), y, k)
                     /\ k = N => g.complete /\ g.state \in {"start", "dead"}
  <2>0. k \in Nat /\ k <= d /\ k <= N /\ (k = d \/ k = N)
    <3> HIDE DEF d, N
    <3> QED BY <1>1, <1>2
  <2>1. k <= Len(y.wire) /\ (k = d \/ k = Len(y.wire))
    BY <2>0
  <2> HIDE DEF k, d, c, w, h, N, g
  <2>2. OneUpgrade(y)
    OBVIOUS
  <2>3. g = Execute(h, SubSeq(w, c + 1, d))
    BY <1>4 DEF g
  <2>4. Len(y.wire) <= Len(w) /\ (\A i \in 1..Len(y.wire) : w[i] = y.wire[i]) /\ c < Len(y.wire)
    BY <1>2, <1>3 DEF N
  <2>5. /\ c < k
        /\ Execute(h, SubSeq(w, c + 1, d)) = Execute(h, SubSeq(y.wire, c + 1, k))
        /\ WellRead(y, Execute(h, SubSeq(w, c + 1, d)), c, k)
    BY ONLY <1>1, <1>3, <2>0, <2>1, <2>2, <2>4, UpgradeCall
  <2> QED BY <2>0, <2>3, <2>5 DEF N, WellRead
<1>8. ASSUME z, ~g.error
      PROVE  /\ k < N => Place(TRUE, Resume(Idle(g)), y, k)
             /\ k = N => g.message = MessageOf(y.type, y.msgs[1])
  <2>1. Uncut(y, k)
    <3>1. CASE k = N
      BY <3>1, UncutAtEnd
    <3>2. CASE k # N
      <4>1. k = d
        BY <3>2
      <4>2. d < N
        <5> HIDE DEF k, N, d, c
        <5> QED BY <1>1, <1>2, <1>7, <3>2, <4>1
      <4> QED BY <1>8, <4>1, <4>2
    <3> QED BY <3>1, <3>2
  <2>2. Place(TRUE, Resume(h), y, c)
    BY <1>3, <1>8
  <2> HIDE DEF k, d, c, w, h, N, g
  <2>3. OneUpgrade(y) /\ y.msgs[1].body = <<>>
    OBVIOUS
  <2>4. k <= Len(y.wire)
    BY <1>7 DEF N
  <2>5. ~Execute(h, SubSeq(y.wire, c + 1, k)).error
    BY <1>7, <1>8
  <2>6. /\ k < Len(y.wire) => Place(TRUE, Resume(Idle(Execute(h, SubSeq(y.wire, c + 1, k)))), y, k)
        /\ k = Len(y.wire) => Execute(h, SubSeq(y.wire, c + 1, k)).message = MessageOf(y.type, y.msgs[1])
    BY ONLY <1>1, <1>3, <1>7, <2>1, <2>2, <2>3, <2>4, <2>5, UpgradeExact
  <2> QED BY <1>7, <2>6 DEF N
<1>9. k = (IF d <= N THEN d ELSE N)
  OBVIOUS
<1> HIDE DEF g, f
<1>10. /\ Idle(g).message = g.message /\ Idle(g).state = g.state /\ Idle(g).type = g.type
       /\ {g.error, g.complete} \subseteq BOOLEAN
  BY <1>5 DEF Idle, IsParser, Fields
<1>11. CASE f.closing
  <2>1. g.error
    BY <1>6, <1>11
  <2>2. Blame(y, k) /\ g.complete = FALSE
    BY <1>7, <2>1
  <2>3. ~Room(y)
    BY <1>7, <2>2, RoomLess
  <2> QED BY <1>5, <1>6, <1>11, <2>2, <2>3 DEF Heard
<1>12. CASE ~f.closing /\ d < N
  <2>1. k = d /\ ~g.error /\ k < N
    <3>1. d <= N
      <4> HIDE DEF d, N
      <4> QED BY <1>1, <1>2, <1>12
    <3> QED BY <1>6, <1>12, <3>1
  <2>2. g.used = d - c /\ g.complete = FALSE /\ Place(FALSE, Resume(Idle(g)), y, d)
    BY <1>7, <2>1
  <2>3. f.buffer = <<>>
    <3>1. f.buffer = SubSeq(bytes, g.used + 1, Len(bytes))
      BY <1>6, <2>1 DEF LeftOver
    <3> HIDE DEF d, c
    <3> QED BY <1>1, <1>4, <2>2, <3>1, SubSeqEmpty
  <2>4. z => Place(TRUE, Resume(Idle(g)), y, d)
    BY <1>8, <2>1
  <2>5. Hears(z, f, y, d)
    <3> HIDE DEF d
    <3> QED BY <1>1, <1>3, <1>5, <1>6, <1>10, <1>12, <2>1, <2>2, <2>3, <2>4 DEF Hears, N
  <2>6. ~(N <= d)
    <3> HIDE DEF d, N
    <3> QED BY <1>1, <1>2, <1>12
  <2> QED BY <1>12, <2>5, <2>6 DEF Heard, N
<1>13. CASE ~f.closing /\ N <= d
  <2>1. k = N /\ ~g.error
    <3>1. d <= N => d = N
      <4> HIDE DEF d, N
      <4> QED BY <1>1, <1>2, <1>13
    <3> QED BY <1>6, <1>13, <3>1
  <2>2. g.used = N - c /\ g.complete /\ g.state \in {"start", "dead"}
    BY <1>7, <2>1
  <2>3. f.buffer = SubSeq(w, N + 1, d)
    <3>1. f.buffer = SubSeq(SubSeq(w, c + 1, d), (N - c) + 1, d - c)
      BY <1>4, <1>6, <2>1, <2>2 DEF LeftOver
    <3> HIDE DEF d, c, N, w
    <3>2. CASE N = d
      <4>1. f.buffer = <<>>
        BY <1>1, <3>1, <3>2, SubSeqEmpty
      <4>2. SubSeq(w, N + 1, d) = <<>>
        BY <1>1, <3>2, SubSeqEmpty
      <4> QED BY <4>1, <4>2
    <3>3. CASE N # d
      <4> DEFINE i == c + 1
                 m == (N - c) + 1
                 o == d - c
      <4>1. /\ i \in 1..Len(w) /\ d \in 1..Len(w) /\ m \in 1..(d - i + 1) /\ o \in 1..(d - i + 1)
            /\ i + m - 1 = N + 1 /\ i + o - 1 = d
        <5> DEFINE v == Len(w)
        <5>1. v \in Nat /\ d <= v /\ c < N /\ N < d /\ c \in Nat /\ d \in Nat /\ N \in Nat
          BY <1>1, <1>2, <1>3, <1>13, <3>3
        <5> HIDE DEF v
        <5>2. /\ i \in 1..v /\ d \in 1..v /\ m \in 1..(d - i + 1) /\ o \in 1..(d - i + 1)
              /\ i + m - 1 = N + 1 /\ i + o - 1 = d
          BY ONLY <5>1
        <5> QED BY <5>2 DEF v
      <4> HIDE DEF i, m, o
      <4>2. SubSeq(w, i, d) \in Seq(Piece)
        BY <1>4 DEF i
      <4>3. SubSeq(SubSeq(w, i, d), m, o) = SubSeq(w, i + m - 1, i + o - 1)
        BY <1>1, <4>1, <4>2, SubSeqOfSubSeq
      <4>4. f.buffer = SubSeq(SubSeq(w, i, d), m, o)
        BY <3>1 DEF i, m, o
      <4> QED BY <4>1, <4>3, <4>4
    <3> QED BY <3>2, <3>3
  <2>4. z => g.message = MessageOf(y.type, y.msgs[1])
    BY <1>8, <2>1
  <2>5. ~(d < N)
    <3> HIDE DEF d, N
    <3> QED BY <1>1, <1>2, <1>13
  <2> QED BY <1>3, <1>5, <1>6, <1>10, <1>13, <2>1, <2>2, <2>3, <2>4, <2>5 DEF Heard, N
<1>14. f.closing \/ (~f.closing /\ d < N) \/ (~f.closing /\ N <= d)
  <2> HIDE DEF d, N
  <2> QED BY <1>1, <1>2
<1> HIDE DEF d, N, c
<1> QED BY <1>11, <1>12, <1>13, <1>14

------------------------------------------------------------------------------
(* The two messages as streams of one message.                             *)
RequestStream == CHOOSE y : StreamOf("request", <<TheRequest>>, y)

AnswerStream(key) == CHOOSE y : StreamOf("response", <<TheAnswer(key)>>, y)

(* The stream y is the message m, whose parts are these.                   *)
Carries(y, type, m, parts) ==
  /\ OneUpgrade(y) /\ y.type = type /\ y.msgs[1] = m /\ m.body = <<>>
  /\ y.wire = Bytes(parts) /\ y.wire \in Seq(Piece) /\ Len(y.wire) # 0
  /\ \A p \in Nat : p \notin Harmful(parts) => Uncut(y, p)

LEMMA StreamCarries ==
  ASSUME NEW type, NEW m, MayCome(type, <<m>>), UpgradesTo(type, m),
         m.coding = "none", m.body = <<>>,
         NEW parts, PartsOfAll(type, <<m>>) = parts,
         NEW y, StreamOf(type, <<m>>, y)
  PROVE  Carries(y, type, m, parts)
<1> DEFINE s == <<m>>
<1>1. /\ Stream(y) /\ y.type = type /\ y.msgs = s /\ y.wire = Bytes(PartsOfAll(type, s))
  BY DEF StreamOf
<1>2. Len(s) = 1 /\ s[1] = m
  OBVIOUS
<1>3. OneUpgrade(y)
  BY <1>1, <1>2 DEF OneUpgrade
<1>4. y.wire \in Seq(Piece)
  BY <1>1 DEF Stream
<1>5. Len(y.wire) # 0
  <2> DEFINE N == Len(y.wire)
  <2>1. N \in Nat /\ 6 <= N
    BY <1>3, UpgradeSpot
  <2> HIDE DEF N
  <2>2. N # 0
    BY <2>1
  <2> QED BY <2>2 DEF N
<1>6. ASSUME NEW p \in Nat, p \notin Harmful(parts) PROVE Uncut(y, p)
  <2>1. p \notin Harmful(PartsOfAll(type, s))
    BY <1>6
  <2> HIDE DEF s
  <2> QED BY <2>1, StreamOfUncut DEF s
<1> QED BY <1>1, <1>2, <1>3, <1>4, <1>5, <1>6 DEF Carries

LEMMA RequestCarried == Carries(RequestStream, "request", TheRequest, HandshakeRequest)
<1>1. MayCome("request", <<TheRequest>>)
  BY RequestIs
<1>2. \E y : StreamOf("request", <<TheRequest>>, y)
  BY <1>1, StreamExists
<1>3. StreamOf("request", <<TheRequest>>, RequestStream)
  BY <1>2 DEF RequestStream
<1>4. /\ UpgradesTo("request", TheRequest) /\ TheRequest.coding = "none" /\ TheRequest.body = <<>>
      /\ PartsOfAll("request", <<TheRequest>>) = HandshakeRequest
  BY RequestIs
<1> QED BY ONLY <1>1, <1>3, <1>4, StreamCarries

LEMMA AnswerCarried ==
  ASSUME NEW key \in Seq(STRING), \A i \in 1..Len(key) : IsText(key[i])
  PROVE  Carries(AnswerStream(key), "response", TheAnswer(key), responseHandShake(key))
<1> DEFINE m == TheAnswer(key)
           a == responseHandShake(key)
<1>1. /\ MayCome("response", <<m>>) /\ UpgradesTo("response", m) /\ m.coding = "none" /\ m.body = <<>>
      /\ PartsOfAll("response", <<m>>) = a
  BY AnswerIs
<1> HIDE DEF m, a
<1>2. \E y : StreamOf("response", <<m>>, y)
  BY <1>1, StreamExists
<1>3. StreamOf("response", <<m>>, AnswerStream(key))
  BY <1>2 DEF AnswerStream, m
<1>4. Carries(AnswerStream(key), "response", m, a)
  BY ONLY <1>1, <1>3, StreamCarries
<1> QED BY <1>4 DEF m, a

(* An endpoint that has read nothing.                                      *)
LEMMA HearsNothing ==
  ASSUME NEW x, NEW y, NEW type, NEW m, NEW parts, Carries(y, type, m, parts)
  PROVE  Hears(x, Endpoint(type), y, 0)
<1> DEFINE h == NewParser(type)
           g == Resume(h)
           e == Endpoint(type)
<1>1. Stream(y) /\ y.type = type /\ type \in {"request", "response"}
  BY DEF Carries, OneUpgrade, Stream
<1>2. e.http = h /\ e.buffer = <<>>
  BY DEF Endpoint
<1>3. AtRest(h) /\ h.complete = FALSE /\ h.error = FALSE /\ h.type = type
  BY <1>1, NewAtRest DEF NewParser
<1>4. Alike(FALSE, h, g) /\ g.nread = h.nread /\ g.stop = FALSE
  BY DEF NewParser, Resume, Alike
<1>5. Place(TRUE, g, y, 0)
  BY <1>1, NothingDone
<1>6. Place(FALSE, g, y, 0)
  <2>1. Place(FALSE, h, y, 0)
    BY <1>1, AtTheBegin
  <2> HIDE DEF g, h
  <2> QED BY <1>4, <2>1, PlaceAlike
<1>7. 0 < Len(y.wire)
  <2> DEFINE N == Len(y.wire)
  <2>1. N \in Nat /\ 6 <= N
    BY UpgradeSpot DEF Carries
  <2> HIDE DEF N
  <2>2. 0 < N
    BY <2>1
  <2> QED BY <2>2 DEF N
<1> HIDE DEF h, e
<1>8. Hears(x, e, y, 0)
  BY <1>1, <1>2, <1>3, <1>5, <1>6, <1>7 DEF Hears, g
<1> QED BY <1>8 DEF e

------------------------------------------------------------------------------
(* A client whose response was complete and not the one it waits for: it   *)
(* goes on parsing, and gets nowhere with what is no response.             *)
NoResponse == {"start", "dead", "res_http_end"}

Deaf(e) ==
  /\ AtRest(e.http) /\ e.http.error = FALSE /\ e.http.complete = TRUE
  /\ e.http.type = "response" /\ e.http.state \in NoResponse
  /\ ~validHandleShakeResponse(e.http.message)
  /\ e.buffer \in Seq(Piece) /\ \A i \in 1..Len(e.buffer) : IsText(e.buffer[i])

(* What the turns leave as it was.                                         *)
Stuck(h, g) ==
  /\ IsParser(g) /\ g.type = "response" /\ g.message = h.message /\ g.complete = TRUE
  /\ g.mark = NoMark /\ (g.error = FALSE => g.state \in NoResponse)

LEMMA StuckOn ==
  ASSUME NEW h, NEW g, Stuck(h, g), NEW t, IsText(t)
  PROVE  Stuck(h, Advance(g, t))
<1> DEFINE c == Counted(g)
           a == Turn(c, t)
<1>1. CASE g.error \/ g.stop
  <2>1. Advance(g, t) = g
    BY <1>1 DEF Advance
  <2> QED BY <2>1
<1>2. CASE ~(g.error \/ g.stop)
  <2>1. g.error = FALSE /\ g.stop = FALSE
    BY <1>2 DEF Stuck, IsParser
  <2>2. Stuck(h, c) /\ c.error = FALSE /\ c.state = g.state /\ c.stop = FALSE
    BY <2>1 DEF Stuck, Counted, IsParser, Fields
  <2> HIDE DEF c
  <2>3. CASE Overflow(c) /\ ~Scanning(g)
    <3>1. Advance(g, t) = Fail(c)
      BY <1>2, <2>3 DEF Advance, c
    <3> QED BY <2>2, <3>1 DEF Stuck, Fail, IsParser, Fields
  <2>4. CASE ~(Overflow(c) /\ ~Scanning(g))
    <3>1. Advance(g, t) = [a EXCEPT !.used = @ + 1]
      BY <1>2, <2>4 DEF Advance, c
    <3>2. t # "crlf" /\ t # "sp"
      BY DEF IsText
    <3>3. Stuck(h, a)
      <4>1. CASE c.state = "start"
        <5>1. a = StartRes(c, t)
          BY <2>2, <4>1 DEF Turn, Stuck
        <5>2. \/ t \in Version /\ a = [NewMessage(c) EXCEPT !.version = t, !.state = "res_http_end"]
              \/ a = Fail(NewMessage(c))
          BY <3>2, <5>1 DEF StartRes
        <5> DEFINE m == NewMessage(c)
        <5> HIDE DEF a
        <5>3. Stuck(h, m)
          BY <2>2 DEF Stuck, NewMessage, IsParser, Fields
        <5> HIDE DEF m
        <5>4. CASE a = [m EXCEPT !.version = t, !.state = "res_http_end"]
          BY <5>3, <5>4 DEF Stuck, IsParser, Fields, ParserState, NoResponse
        <5>5. CASE a = Fail(m)
          BY <5>3, <5>5 DEF Stuck, Fail, IsParser, Fields
        <5> QED BY <5>2, <5>4, <5>5 DEF m
      <4>2. CASE c.state = "dead"
        <5>1. a = Fail(c)
          BY <2>2, <3>2, <4>2 DEF Turn, Dead
        <5> HIDE DEF a
        <5> QED BY <2>2, <5>1 DEF Stuck, Fail, IsParser, Fields
      <4>3. CASE c.state = "res_http_end"
        <5>1. a = Fail(c)
          BY <2>2, <3>2, <4>3 DEF Turn, ResHttpEnd
        <5> HIDE DEF a
        <5> QED BY <2>2, <5>1 DEF Stuck, Fail, IsParser, Fields
      <4> QED BY <2>2, <4>1, <4>2, <4>3 DEF Stuck, NoResponse
    <3> HIDE DEF a
    <3> QED BY <3>1, <3>3 DEF Stuck, IsParser, Fields
  <2> QED BY <2>3, <2>4
<1> QED BY <1>1, <1>2

LEMMA StuckLoop ==
  ASSUME NEW h, NEW r, Stuck(h, r), NEW bytes \in Seq(Piece),
         \A i \in 1..Len(bytes) : IsText(bytes[i])
  PROVE  Stuck(h, FoldLeft(Advance, r, bytes))
<1> DEFINE n == Len(bytes)
<1>1. n \in Nat
  BY LenProperties
<1>2. PICK run : IsRun(run, r, bytes)
  BY RunExists
<1> DEFINE T == {k \in Nat : k <= n => Stuck(h, run[k])}
<1>3. 0 \in T
  BY <1>2 DEF IsRun
<1>4. ASSUME NEW k \in Nat, k \in T PROVE k + 1 \in T
  <2>1. ASSUME k + 1 <= n PROVE Stuck(h, run[k + 1])
    <3>1. k \in 0..(n - 1) /\ k <= n /\ k + 1 \in 1..n
      BY <1>1, <2>1
    <3>2. run[k + 1] = Advance(run[k], bytes[k + 1])
      BY <1>2, <3>1 DEF IsRun
    <3>3. Stuck(h, run[k]) /\ IsText(bytes[k + 1])
      BY <1>4, <3>1
    <3> QED BY <3>2, <3>3, StuckOn
  <2> QED BY <2>1
<1> HIDE DEF T
<1>5. Nat \subseteq T
  BY <1>3, <1>4, NatSetInduction
<1>6. Stuck(h, run[n])
  BY <1>1, <1>5 DEF T
<1>7. run[n] = FoldLeft(Advance, r, bytes)
  BY <1>2 DEF IsRun
<1> QED BY <1>6, <1>7

LEMMA DeafStays ==
  ASSUME NEW e, IsEndpoint(e), Deaf(e), NEW bytes \in Seq(Piece), bytes # <<>>,
         \A i \in 1..Len(bytes) : IsText(bytes[i])
  PROVE  /\ ~validHandleShakeResponse(Parsed(e, bytes).http.message)
         /\ ~Parsed(e, bytes).closing => Deaf(Parsed(e, bytes))
<1> DEFINE h == e.http
           r == Resume(h)
           f == FoldLeft(Advance, r, bytes)
           g == Execute(h, bytes)
           x == Parsed(e, bytes)
<1>1. /\ AtRest(h) /\ h.error = FALSE /\ h.complete = TRUE /\ h.type = "response"
      /\ h.state \in NoResponse /\ ~validHandleShakeResponse(h.message)
  BY DEF Deaf
<1>2. Stuck(h, r)
  BY <1>1 DEF Stuck, Resume, AtRest, IsParser, Fields, NoMark, NoResponse
<1>3. Stuck(h, f)
  <2> HIDE DEF r, h
  <2> QED BY <1>2, StuckLoop DEF f
<1>4. Stuck(h, g)
  <2>1. g = ExecuteBytes(h, bytes)
    BY <1>1 DEF Execute
  <2>2. \/ g = [f EXCEPT !.mark = NoMark]
        \/ g = Fail([f EXCEPT !.mark = NoMark])
        \/ g = CallbackData(f)
    BY <2>1 DEF ExecuteBytes, f, r
  <2>3. CallbackData(f) = [f EXCEPT !.mark = NoMark]
    BY <1>3 DEF CallbackData, Stuck, NoMark
  <2> DEFINE m == [f EXCEPT !.mark = NoMark]
  <2> HIDE DEF f, g
  <2>4. Stuck(h, m)
    BY <1>3 DEF Stuck, IsParser, Fields
  <2> HIDE DEF m
  <2>5. CASE g = Fail(m)
    BY <2>4, <2>5 DEF Stuck, Fail, IsParser, Fields
  <2> QED BY <2>2, <2>3, <2>4, <2>5 DEF m
<1>5. AtRest(Idle(g)) /\ Idle(g).error = g.error /\ g.used \in Nat
  BY <1>1, AfterBytes
<1> HIDE DEF g, h
<1>6. x.http = Idle(g) /\ x.buffer = LeftOver(g, bytes) /\ x.closing = g.error
  BY DEF Parsed, IsEndpoint, g, h
<1>7. /\ Idle(g).message = h.message /\ Idle(g).complete = TRUE /\ Idle(g).type = "response"
      /\ Idle(g).state = g.state
  BY <1>4 DEF Stuck, Idle, IsParser, Fields
<1>8. ASSUME ~x.closing PROVE Deaf(x)
  <2>1. g.error = FALSE
    BY <1>4, <1>6, <1>8 DEF Stuck, IsParser
  <2> DEFINE n == Len(bytes)
             u == g.used + 1
  <2>2. n \in Nat
    BY LenProperties
  <2>3. x.buffer = SubSeq(bytes, u, n)
    BY <1>6, <2>1 DEF LeftOver
  <2>4. x.buffer \in Seq(Piece) /\ \A i \in 1..Len(x.buffer) : IsText(x.buffer[i])
    <3>1. CASE u <= n
      <4>1. u \in 1..(n + 1) /\ n \in 0..n /\ u <= n
        <5> HIDE DEF n
        <5> QED BY <1>5, <2>2, <3>1
      <4> HIDE DEF u, n
      <4>2. /\ SubSeq(bytes, u, n) \in Seq(Piece) /\ Len(SubSeq(bytes, u, n)) = n - u + 1
            /\ \A i \in 1..(n - u + 1) : SubSeq(bytes, u, n)[i] = bytes[u + i - 1]
        BY <4>1, SubSeqProperties DEF n
      <4>3. \A i \in 1..(n - u + 1) : u + i - 1 \in 1..n
        BY <2>2, <4>1
      <4> QED BY <2>3, <4>2, <4>3 DEF n
    <3>2. CASE ~(u <= n)
      <4>1. x.buffer = <<>>
        <5> HIDE DEF n
        <5>1. n < u /\ u \in Int
          BY <1>5, <2>2, <3>2
        <5> HIDE DEF u
        <5> QED BY <2>2, <2>3, <5>1, SubSeqEmpty
      <4> QED BY <4>1
    <3> QED BY <3>1, <3>2
  <2>5. g.state \in NoResponse
    BY <1>4, <2>1 DEF Stuck
  <2> QED BY <1>1, <1>5, <1>6, <1>7, <2>1, <2>4, <2>5 DEF Deaf
<1>9. ~validHandleShakeResponse(x.http.message)
  BY <1>1, <1>6, <1>7 DEF validHandleShakeResponse, GetHeader
<1> QED BY <1>8, <1>9

------------------------------------------------------------------------------
(* A part of a sequence and the part behind it.                            *)
LEMMA PartsJoin ==
  ASSUME NEW S, NEW w \in Seq(S), NEW a \in Nat, NEW b \in Nat, NEW d \in Nat,
         a <= b, b <= d, d <= Len(w)
  PROVE  /\ SubSeq(w, a + 1, b) \o SubSeq(w, b + 1, d) = SubSeq(w, a + 1, d)
         /\ Len(SubSeq(w, a + 1, d)) = d - a /\ SubSeq(w, a + 1, d) \in Seq(S)
         /\ \A i \in 1..(d - a) : SubSeq(w, a + 1, d)[i] = w[a + i] /\ a + i \in 1..Len(w)
<1> DEFINE n == Len(w)
<1>1. n \in Nat /\ d <= n
  BY LenProperties
<1> HIDE DEF n
<1>2. ASSUME NEW x \in Nat, NEW y \in Nat, x <= y, y <= n
      PROVE  /\ SubSeq(w, x + 1, y) \in Seq(S) /\ Len(SubSeq(w, x + 1, y)) = y - x
             /\ \A i \in 1..(y - x) : SubSeq(w, x + 1, y)[i] = w[x + i] /\ x + i \in 1..n
  <2>1. \A i \in (x + 1)..y : i \in 1..n
    BY <1>1, <1>2
  <2>2. \A i \in (x + 1)..y : w[i] \in S
    BY <2>1, ElementOfSeq DEF n
  <2> DEFINE m == x + 1
  <2>3. m \in Int /\ y \in Int /\ (IF m <= y THEN y - m + 1 ELSE 0) = y - x /\ y - m + 1 = y - x
    BY <1>2
  <2>4. \A i \in 1..(y - x) : m + i - 1 = x + i /\ x + i \in 1..n
    BY <1>1, <1>2
  <2> HIDE DEF m
  <2>5. /\ SubSeq(w, m, y) \in Seq(S)
        /\ Len(SubSeq(w, m, y)) = IF m <= y THEN y - m + 1 ELSE 0
        /\ \A i \in 1..(y - m + 1) : SubSeq(w, m, y)[i] = w[m + i - 1]
    BY <2>2, <2>3, SubSeqProperties DEF m
  <2> QED BY <2>3, <2>4, <2>5 DEF m
<1>3. /\ SubSeq(w, a + 1, d) \in Seq(S) /\ Len(SubSeq(w, a + 1, d)) = d - a
      /\ \A i \in 1..(d - a) : SubSeq(w, a + 1, d)[i] = w[a + i] /\ a + i \in 1..n
  <2>1. a <= d
    OBVIOUS
  <2> QED BY <1>1, <1>2, <2>1
<1>4. SubSeq(w, a + 1, b) \o SubSeq(w, b + 1, d) = SubSeq(w, a + 1, d)
  <2> DEFINE m == a + 1
  <2>1. m \in 1..(n + 1) /\ b \in (m - 1)..n /\ d \in b..n
    BY <1>1
  <2> HIDE DEF m
  <2>2. m \in 1..(Len(w) + 1) /\ b \in (m - 1)..Len(w) /\ d \in b..Len(w)
    BY <2>1 DEF n
  <2>3. SubSeq(w, m, b) \o SubSeq(w, b + 1, d) = SubSeq(w, m, d)
    BY <2>2, ConcatAdjacentSubSeq
  <2> QED BY <2>3 DEF m
<1> QED BY <1>3, <1>4 DEF n

(* The bytes of frames among others, where the frames are behind the       *)
(* others: all that is there.                                              *)
LEMMA FramesBehind ==
  ASSUME NEW u \in Seq(Piece), NEW N \in Nat, NEW r \in Nat, N <= r, r <= Len(u),
         \A i \in 1..N : u[i] \notin Range(Frames),
         \A i \in (N + 1)..Len(u) : u[i] \in Range(Frames)
  PROVE  FramesIn(SubSeq(u, 1, r)) = SubSeq(u, N + 1, r)
<1> DEFINE n == Len(u)
           b == SubSeq(u, 0 + 1, r)
           q == [i \in DOMAIN b |-> IF b[i] \in Range(Frames) THEN <<b[i]>> ELSE <<>>]
<1>1. n \in Nat /\ r <= n
  BY LenProperties
<1>2. b \in Seq(Piece) /\ Len(b) = r /\ DOMAIN b = 1..r /\ \A i \in 1..r : b[i] = u[i]
  <2>1. /\ b \in Seq(Piece) /\ Len(b) = r - 0 /\ \A i \in 1..(r - 0) : b[i] = u[0 + i]
    <3> HIDE DEF b
    <3>1. 0 \in Nat /\ 0 <= 0 /\ 0 <= r
      OBVIOUS
    <3> QED BY ONLY <3>1, r \in Nat, u \in Seq(Piece), r <= Len(u), PartsJoin DEF b
  <2> HIDE DEF b
  <2>2. b \in Seq(Piece) /\ Len(b) = r /\ \A i \in 1..r : b[i] = u[i]
    BY <2>1
  <2> QED BY <2>2, LenProperties
<1> HIDE DEF b
<1>3. q \in Seq(Seq(Piece)) /\ Len(q) = r
  <2>1. \A i \in 1..r : b[i] \in Piece
    BY <1>2, ElementOfSeq
  <2>2. q = [i \in 1..r |-> IF b[i] \in Range(Frames) THEN <<b[i]>> ELSE <<>>]
    BY <1>2
  <2>3. \A i \in 1..r : q[i] \in Seq(Piece)
    BY <2>1, <2>2
  <2> HIDE DEF q
  <2> QED BY <2>2, <2>3, IsASeq
<1>4. \A i \in 1..r : q[i] = IF u[i] \in Range(Frames) THEN <<u[i]>> ELSE <<>>
  BY <1>2
<1> HIDE DEF q
<1> DEFINE P(j) == FlattenSeq(SubSeq(q, 1, j)) = SubSeq(u, N + 1, j)
           T == {j \in Nat : j <= r => P(j)}
<1>5. 0 \in T
  <2>1. SubSeq(q, 1, 0) = <<>>
    <3>1. 0 \in 0..Len(q)
      BY <1>3
    <3> QED BY <1>3, <3>1, FlatIsSeq
  <2>2. FlattenSeq(<<>>) = <<>>
    BY DEF FlattenSeq
  <2>3. SubSeq(u, N + 1, 0) = <<>>
    BY SubSeqEmpty
  <2>4. P(0)
    BY <2>1, <2>2, <2>3
  <2> HIDE DEF P
  <2> QED BY <2>4
<1>6. ASSUME NEW j \in Nat, j \in T PROVE j + 1 \in T
  <2> SUFFICES ASSUME j + 1 <= r PROVE P(j + 1)
    OBVIOUS
  <2>1. j <= r /\ j + 1 \in 1..r /\ j \in 0..(Len(q) - 1)
    BY <1>3
  <2>2. P(j)
    BY <1>6, <2>1
  <2>3. FlattenSeq(SubSeq(q, 1, j + 1)) = FlattenSeq(SubSeq(q, 1, j)) \o q[j + 1]
    BY <1>3, <2>1, FlatStep
  <2>4. FlattenSeq(SubSeq(q, 1, j + 1)) = SubSeq(u, N + 1, j) \o q[j + 1]
    BY <2>2, <2>3
  <2>5. CASE j + 1 <= N
    <3>1. q[j + 1] = <<>>
      <4>1. j + 1 \in 1..N
        BY <2>5
      <4> QED BY <1>4, <2>1, <4>1
    <3>2. SubSeq(u, N + 1, j) = <<>> /\ SubSeq(u, N + 1, j + 1) = <<>>
      BY <2>5, SubSeqEmpty
    <3> QED BY <2>4, <3>1, <3>2
  <2>6. CASE ~(j + 1 <= N)
    <3>1. /\ N <= j /\ j + 1 \in (N + 1)..n /\ N + 1 <= j + 1 /\ j + 1 - 1 = j
          /\ N + 1 \in 1..n /\ j + 1 \in 1..n
      BY <1>1, <2>1, <2>6
    <3>2. q[j + 1] = <<u[j + 1]>>
      BY <1>4, <2>1, <3>1
    <3> DEFINE a == N + 1
               c == j + 1
    <3>3. SubSeq(u, a, c) = SubSeq(u, a, c - 1) \o <<u[c]>>
      <4> HIDE DEF a, c, n
      <4>1. a \in 1..n /\ c \in 1..n /\ a <= c
        BY <3>1 DEF a, c
      <4>2. c \in a..Len(u) /\ a \in 1..Len(u)
        BY <1>1, <4>1 DEF n
      <4> QED BY <4>1, <4>2, SubSeqRecursiveSecond DEF n
    <3> QED BY <2>4, <3>1, <3>2, <3>3
  <2> QED BY <2>5, <2>6
<1> HIDE DEF T, P
<1>7. Nat \subseteq T
  BY <1>5, <1>6, NatSetInduction
<1>8. P(r)
  BY <1>7 DEF T
<1>9. FlattenSeq(q) = FlattenSeq(SubSeq(q, 1, r))
  <2>1. 0 \in 0..Len(q)
    BY <1>3
  <2> QED BY <1>3, <2>1, FlatIsSeq
<1>10. FramesIn(b) = FlattenSeq(q)
  BY DEF FramesIn, q
<1> QED BY <1>8, <1>9, <1>10 DEF P, b

------------------------------------------------------------------------------
(* A stream of which the message of y is the first, with frames behind it; *)
(* its harmful cuts are known.                                             *)
Begun(s, y) ==
  /\ Opening(s, y)
  /\ \A i \in (Len(y.wire) + 1)..Len(s.bytes) : s.bytes[i] \in Range(Frames)
  /\ \A p \in Nat : p \notin s.cuts => Uncut(y, p)

(* An endpoint that is upgraded, and has what came behind the message.     *)
IsOpen(e, s, y) ==
  /\ ~e.closing /\ Len(y.wire) <= s.read
  /\ e.buffer = SubSeq(s.bytes, Len(y.wire) + 1, s.read)

LEMMA HearsLess ==
  ASSUME NEW x, NEW e, NEW y, NEW r, Hears(x, e, y, r), NEW z, z => x
  PROVE  Hears(z, e, y, r)
BY DEF Hears

LEMMA BegunFurther ==
  ASSUME NEW s, IsStream(s), NEW n, NEW y, Begun(s, y)
  PROVE  Begun(Further(s, n), y)
<1>1. Further(s, n).bytes = s.bytes /\ Further(s, n).cuts = s.cuts
  BY DEF Further, IsStream
<1> QED BY <1>1 DEF Begun, Opening

(* The message is sent.                                                    *)
LEMMA BegunFirst ==
  ASSUME NEW y, NEW type, NEW m, NEW parts, Carries(y, type, m, parts),
         NEW s, IsStream(s), s.bytes = <<>>
  PROVE  Begun(Sent(s, parts), y)
<1> DEFINE t == Sent(s, parts)
<1>1. y.wire = Bytes(parts) /\ y.wire \in Seq(Piece)
      /\ \A p \in Nat : p \notin Harmful(parts) => Uncut(y, p)
  BY DEF Carries
<1>2. t.bytes = y.wire
  BY <1>1, FirstSent
<1>3. t.cuts = s.cuts \cup {0 + cut : cut \in Harmful(parts)}
  BY DEF Sent, IsStream
<1> HIDE DEF t
<1>4. ASSUME NEW p \in Nat, p \notin t.cuts PROVE Uncut(y, p)
  <2>1. p \notin Harmful(parts)
    <3>1. p = 0 + p
      OBVIOUS
    <3> QED BY <1>3, <1>4, <3>1
  <2> QED BY <1>1, <2>1
<1>5. Opening(t, y)
  <2> DEFINE N == Len(y.wire)
  <2>1. N \in Nat
    BY <1>1, LenProperties
  <2>2. N <= N
    BY <2>1
  <2> QED BY <1>2, <2>2 DEF Opening
<1>6. \A i \in (Len(y.wire) + 1)..Len(t.bytes) : FALSE
  <2> DEFINE N == Len(y.wire)
  <2>1. N \in Nat /\ Len(t.bytes) = N
    BY <1>1, <1>2, LenProperties
  <2> HIDE DEF N
  <2>2. \A i \in (N + 1)..N : FALSE
    BY <2>1
  <2> QED BY <2>1, <2>2 DEF N
<1>7. Begun(t, y)
  BY <1>4, <1>5, <1>6 DEF Begun
<1> QED BY <1>7 DEF t

(* A frame is sent.                                                        *)
LEMMA FrameSent ==
  ASSUME NEW s, IsStream(s), NEW i \in DOMAIN Frames
  PROVE  LET t == Sent(s, <<Plain(<<Frames[i]>>)>>)
         IN  /\ IsStream(t) /\ t.bytes = Append(s.bytes, Frames[i])
             /\ t.read = s.read /\ s.cuts \subseteq t.cuts /\ Frames[i] \in Range(Frames)
<1> DEFINE f == <<Frames[i]>>
           p == <<Plain(f)>>
           t == Sent(s, p)
<1>1. Frames[i] \in Piece
  <2>1. Frames \in Seq(STRING)
    BY FramesAreOpaque
  <2>2. Frames[i] \in STRING
    BY <2>1, ElementOfSeq, LenProperties
  <2> QED BY <2>2 DEF Piece
<1>2. Bytes(p) = f /\ Bytes(p) \in Seq(Piece)
  <2>1. f \in Seq(Piece)
    BY <1>1
  <2> HIDE DEF f
  <2>2. Bytes(<<Plain(f)>>) = f
    BY <2>1, BytesPlain
  <2> QED BY <2>1, <2>2
<1>3. IsStream(t) /\ t.bytes = s.bytes \o Bytes(p) /\ t.read = s.read
  BY <1>2, SentIsStream
<1>4. s.bytes \o f = Append(s.bytes, Frames[i])
  <2>1. s.bytes \in Seq(Piece)
    BY DEF IsStream
  <2> QED BY <1>1, <2>1, AppendIsConcat
<1>5. s.cuts \subseteq t.cuts
  BY DEF Sent, IsStream
<1>6. Frames[i] \in Range(Frames)
  BY DEF Range
<1> QED BY <1>2, <1>3, <1>4, <1>5, <1>6

LEMMA BegunSent ==
  ASSUME NEW s, IsStream(s), NEW y, Len(y.wire) \in Nat, Begun(s, y), NEW i \in DOMAIN Frames
  PROVE  Begun(Sent(s, <<Plain(<<Frames[i]>>)>>), y)
<1> DEFINE t == Sent(s, <<Plain(<<Frames[i]>>)>>)
           N == Len(y.wire)
           n == Len(s.bytes)
<1>1. /\ IsStream(t) /\ t.bytes = Append(s.bytes, Frames[i]) /\ s.cuts \subseteq t.cuts
      /\ Frames[i] \in Range(Frames)
  BY FrameSent
<1>2. s.bytes \in Seq(Piece) /\ n \in Nat /\ N \in Nat
  BY LenProperties DEF IsStream
<1> HIDE DEF t
<1>3. Len(t.bytes) = n + 1 /\ (\A j \in 1..n : t.bytes[j] = s.bytes[j]) /\ t.bytes[n + 1] = Frames[i]
  <2>1. Frames[i] \in Piece
    <3>1. Frames \in Seq(STRING)
      BY FramesAreOpaque
    <3>2. Frames[i] \in STRING
      BY <3>1, ElementOfSeq, LenProperties
    <3> QED BY <3>2 DEF Piece
  <2> QED BY <1>1, <1>2, <2>1, AppendProperties
<1>4. /\ N <= n /\ (\A j \in 1..N : s.bytes[j] = y.wire[j])
      /\ (\A j \in (N + 1)..n : s.bytes[j] \in Range(Frames))
      /\ \A p \in Nat : p \notin s.cuts => Uncut(y, p)
  BY DEF Begun, Opening
<1> HIDE DEF N, n
<1>5. N <= n + 1 /\ \A j \in 1..N : t.bytes[j] = y.wire[j]
  <2>1. \A j \in 1..N : j \in 1..n
    BY <1>2, <1>4
  <2> QED BY <1>2, <1>3, <1>4, <2>1
<1>6. ASSUME NEW j \in (N + 1)..(n + 1) PROVE t.bytes[j] \in Range(Frames)
  <2>1. j = n + 1 \/ (j \in (N + 1)..n /\ j \in 1..n)
    BY <1>2
  <2> QED BY <1>1, <1>3, <1>4, <2>1
<1>7. \A p \in Nat : p \notin t.cuts => Uncut(y, p)
  BY <1>1, <1>4
<1>8. Begun(t, y)
  BY <1>3, <1>5, <1>6, <1>7 DEF Begun, Opening, N
<1> QED BY <1>8 DEF t

LEMMA OpenSent ==
  ASSUME NEW s, IsStream(s), NEW y, Len(y.wire) \in Nat, NEW e, IsOpen(e, s, y), NEW i \in DOMAIN Frames
  PROVE  IsOpen(e, Sent(s, <<Plain(<<Frames[i]>>)>>), y)
<1> DEFINE t == Sent(s, <<Plain(<<Frames[i]>>)>>)
           N == Len(y.wire)
           n == Len(s.bytes)
           r == s.read
           b == <<Frames[i]>>
<1>1. IsStream(t) /\ t.bytes = Append(s.bytes, Frames[i]) /\ t.read = r
  BY FrameSent
<1>2. s.bytes \in Seq(Piece) /\ n \in Nat /\ N \in Nat /\ r \in 0..n
  BY LenProperties DEF IsStream
<1>3. Frames[i] \in Piece
  <2>1. Frames \in Seq(STRING)
    BY FramesAreOpaque
  <2>2. Frames[i] \in STRING
    BY <2>1, ElementOfSeq, LenProperties
  <2> QED BY <2>2 DEF Piece
<1> HIDE DEF t
<1>4. /\ Len(t.bytes) = n + 1 /\ t.bytes \in Seq(Piece)
      /\ \A j \in 1..n : t.bytes[j] = s.bytes[j]
  BY <1>1, <1>2, <1>3, AppendProperties
<1>5. ~e.closing /\ N <= r /\ e.buffer = SubSeq(s.bytes, N + 1, r)
  BY DEF IsOpen
<1>6. SubSeq(t.bytes, N + 1, r) = SubSeq(s.bytes, N + 1, r)
  <2> DEFINE u == SubSeq(t.bytes, N + 1, r)
             v == SubSeq(s.bytes, N + 1, r)
  <2> HIDE DEF n, N, r
  <2>1. r \in Nat /\ N <= r /\ r <= n /\ r <= n + 1
    BY <1>2, <1>5
  <2>2. /\ v \in Seq(Piece) /\ Len(v) = r - N
        /\ \A j \in 1..(r - N) : v[j] = s.bytes[N + j] /\ N + j \in 1..n
    <3>1. r <= Len(s.bytes)
      BY <2>1 DEF n
    <3> HIDE DEF v
    <3> QED BY ONLY <1>2, <2>1, <3>1, PartsJoin DEF v, n
  <2>3. /\ u \in Seq(Piece) /\ Len(u) = r - N
        /\ \A j \in 1..(r - N) : u[j] = t.bytes[N + j]
    <3>1. r <= Len(t.bytes)
      BY <1>4, <2>1
    <3> HIDE DEF u
    <3> QED BY ONLY <1>2, <1>4, <2>1, <3>1, PartsJoin DEF u
  <2> HIDE DEF u, v
  <2>4. \A j \in 1..(r - N) : u[j] = v[j]
    BY <1>4, <2>2, <2>3
  <2>5. u = v
    BY <2>2, <2>3, <2>4, SeqEqual
  <2> QED BY <2>5 DEF u, v
<1>7. IsOpen(e, t, y)
  BY <1>1, <1>5, <1>6 DEF IsOpen
<1> QED BY <1>7 DEF t

(* It reads on.                                                            *)
LEMMA OpenFurther ==
  ASSUME NEW s, IsStream(s), NEW y, Len(y.wire) \in Nat, NEW e, IsEndpoint(e), IsOpen(e, s, y),
         NEW n \in Nat, n <= Len(s.bytes) - s.read
  PROVE  IsOpen([e EXCEPT !.buffer = @ \o Arriving(s, n)], Further(s, n), y)
<1> DEFINE f == [e EXCEPT !.buffer = @ \o Arriving(s, n)]
           t == Further(s, n)
           N == Len(y.wire)
           r == s.read
           d == s.read + n
<1>1. t.bytes = s.bytes /\ t.read = d
  BY FurtherIsStream
<1>2. f.closing = e.closing /\ f.buffer = e.buffer \o SubSeq(s.bytes, r + 1, d)
  BY DEF IsEndpoint, Arriving
<1>3. ~e.closing /\ N <= r /\ e.buffer = SubSeq(s.bytes, N + 1, r)
  BY DEF IsOpen
<1>4. s.bytes \in Seq(Piece) /\ N \in Nat /\ r \in Nat /\ d \in Nat /\ r <= d /\ d <= Len(s.bytes)
  <2> DEFINE k == Len(s.bytes)
  <2>1. s.bytes \in Seq(Piece) /\ k \in Nat /\ r \in 0..k /\ n <= k - r
    BY LenProperties DEF IsStream
  <2> HIDE DEF k
  <2>2. r \in Nat /\ d \in Nat /\ r <= d /\ d <= k
    BY <2>1
  <2> QED BY <2>1, <2>2 DEF k
<1> HIDE DEF f, t, N, r, d
<1>5. SubSeq(s.bytes, N + 1, r) \o SubSeq(s.bytes, r + 1, d) = SubSeq(s.bytes, N + 1, d)
  BY ONLY <1>3, <1>4, PartsJoin
<1>6. N <= d
  BY <1>3, <1>4
<1>7. IsOpen(f, t, y)
  BY <1>1, <1>2, <1>3, <1>5, <1>6 DEF IsOpen, N
<1> QED BY <1>7 DEF f, t

(* What it has are the frames among what has arrived.                      *)
LEMMA OpenFrames ==
  ASSUME NEW y, NEW type, NEW m, NEW parts, Carries(y, type, m, parts),
         Range(Frames) \cap Range(Bytes(parts)) = {},
         NEW s, IsStream(s), Begun(s, y), NEW e, IsOpen(e, s, y)
  PROVE  e.buffer = FramesArrived(s)
<1> DEFINE N == Len(y.wire)
           r == s.read
<1>1. y.wire = Bytes(parts) /\ y.wire \in Seq(Piece) /\ N \in Nat
  BY LenProperties DEF Carries
<1>2. s.bytes \in Seq(Piece) /\ r \in Nat /\ r <= Len(s.bytes)
  <2> DEFINE k == Len(s.bytes)
  <2>1. s.bytes \in Seq(Piece) /\ k \in Nat /\ r \in 0..k
    BY LenProperties DEF IsStream
  <2> HIDE DEF k
  <2>2. r \in Nat /\ r <= k
    BY <2>1
  <2> QED BY <2>1, <2>2 DEF k
<1>3. N <= r /\ e.buffer = SubSeq(s.bytes, N + 1, r)
  BY DEF IsOpen
<1>4. \A i \in (N + 1)..Len(s.bytes) : s.bytes[i] \in Range(Frames)
  BY DEF Begun
<1>5. ASSUME NEW i \in 1..N PROVE s.bytes[i] \notin Range(Frames)
  <2>1. s.bytes[i] = y.wire[i]
    BY DEF Begun, Opening
  <2>2. i \in DOMAIN y.wire
    BY <1>1, LenProperties
  <2>3. y.wire[i] \in Range(y.wire)
    BY <2>2 DEF Range
  <2> QED BY <1>1, <2>1, <2>3
<1> HIDE DEF N, r
<1>6. FramesIn(SubSeq(s.bytes, 1, r)) = SubSeq(s.bytes, N + 1, r)
  BY ONLY <1>1, <1>2, <1>3, <1>4, <1>5, FramesBehind
<1> QED BY <1>3, <1>6 DEF FramesArrived, r

------------------------------------------------------------------------------
(* The inductive invariant of what the two sides read.                     *)

(* The server hears the request, or has what came behind it.               *)
ServerReadsWell ==
  /\ Begun(toServer, RequestStream)
  /\ ~server.handshaked /\ ~server.closing => Hears(whole, server, RequestStream, toServer.read)
  /\ server.handshaked => IsOpen(server, toServer, RequestStream)

(* The client has heard nothing; then it hears the answer, or has missed   *)
(* what it waits for, or has what came behind it.                          *)
ClientReadsWell ==
  /\ ~server.handshaked /\ ~server.closing => client = Endpoint("response")
  /\ Accepted =>
       LET y == AnswerStream(answered)
       IN  /\ Begun(toClient, y)
           /\ ~client.handshaked /\ ~client.closing =>
                \/ Hears(whole, client, y, toClient.read)
                \/ Deaf(client) /\ Len(y.wire) <= toClient.read /\ ~whole
           /\ client.handshaked => IsOpen(client, toClient, y)

(* Without a cut the server answers for the key, and if the limit has room *)
(* for the messages neither side fails.                                    *)
Undisturbed ==
  whole => /\ Accepted => answered = key_
           /\ HandshakeFits => ~server.closing /\ ~client.closing

ReadInv == IInv /\ ServerReadsWell /\ ClientReadsWell /\ Undisturbed

------------------------------------------------------------------------------
(* A key the server can have answered for.                                 *)
LEMMA AnsweredKey ==
  ASSUME NEW key, Begins(key, key_)
  PROVE  /\ key \in Seq(STRING) /\ \A i \in 1..Len(key) : IsText(key[i])
         /\ Carries(AnswerStream(key), "response", TheAnswer(key), responseHandShake(key))
<1>1. key_ \in Seq(STRING) /\ \A i \in 1..Len(key_) : IsText(key_[i])
  BY KeyIsText, LenProperties
<1>2. /\ key \in Seq(Piece) /\ Len(key) <= Len(key_) /\ Len(key) \in Nat /\ Len(key_) \in Nat
      /\ \A i \in 1..Len(key) : key[i] = key_[i]
  BY <1>1, LenProperties DEF Begins
<1>3. \A i \in 1..Len(key) : i \in 1..Len(key_)
  <2> DEFINE a == Len(key)
             b == Len(key_)
  <2>1. a \in Nat /\ b \in Nat /\ a <= b
    BY <1>2
  <2> HIDE DEF a, b
  <2>2. \A i \in 1..a : i \in 1..b
    BY <2>1
  <2> QED BY <2>2 DEF a, b
<1>4. \A i \in 1..Len(key) : key[i] \in STRING /\ IsText(key[i])
  BY <1>1, <1>2, <1>3, ElementOfSeq
<1>5. key \in Seq(STRING)
  <2>1. key = [i \in 1..Len(key) |-> key[i]]
    BY <1>2, LenProperties
  <2> DEFINE n == Len(key)
  <2>2. n \in Nat /\ \A i \in 1..n : key[i] \in STRING
    BY <1>2, <1>4
  <2>3. [i \in 1..n |-> key[i]] \in Seq(STRING)
    BY <2>2, IsASeq
  <2> QED BY <2>1, <2>3
<1> QED BY <1>4, <1>5, AnswerCarried

(* Where the messages end, and that the limit has room for them.           *)
LEMMA RequestEnd ==
  /\ Carries(RequestStream, "request", TheRequest, HandshakeRequest)
  /\ OneUpgrade(RequestStream) /\ RequestStream.msgs[1].body = <<>> /\ RequestStream.type = "request"
  /\ Len(RequestStream.wire) \in Nat /\ 0 < Len(RequestStream.wire)
  /\ Len(RequestStream.wire) = Len(Bytes(HandshakeRequest))
  /\ HandshakeFits => Room(RequestStream)
<1>1. Carries(RequestStream, "request", TheRequest, HandshakeRequest)
  BY RequestCarried
<1> DEFINE N == Len(RequestStream.wire)
<1>2. N \in Nat /\ 6 <= N
  BY <1>1, UpgradeSpot DEF Carries
<1>3. N = Len(Bytes(HandshakeRequest))
  BY <1>1 DEF Carries
<1> HIDE DEF N
<1>4. 0 < N
  BY <1>2
<1>5. HandshakeFits => Room(RequestStream)
  BY <1>3 DEF HandshakeFits, Room, N
<1> QED BY <1>1, <1>2, <1>3, <1>4, <1>5 DEF N, Carries

LEMMA AnswerEnd ==
  ASSUME NEW key, Begins(key, key_), NEW y, y = AnswerStream(key)
  PROVE  /\ Carries(y, "response", TheAnswer(key), responseHandShake(key))
         /\ OneUpgrade(y) /\ y.msgs[1].body = <<>> /\ y.type = "response"
         /\ Len(y.wire) \in Nat /\ 0 < Len(y.wire)
         /\ Len(y.wire) = Len(Bytes(responseHandShake(key)))
         /\ HandshakeFits /\ key = key_ => Room(y)
<1>1. Carries(y, "response", TheAnswer(key), responseHandShake(key))
  BY AnsweredKey
<1> DEFINE N == Len(y.wire)
<1>2. N \in Nat /\ 6 <= N
  BY <1>1, UpgradeSpot DEF Carries
<1>3. N = Len(Bytes(responseHandShake(key)))
  BY <1>1 DEF Carries
<1> HIDE DEF N
<1>4. 0 < N
  BY <1>2
<1>5. HandshakeFits /\ key = key_ => Room(y)
  BY <1>3 DEF HandshakeFits, Room, N
<1> QED BY <1>1, <1>2, <1>3, <1>4, <1>5 DEF N, Carries

LEMMA ReadStart ==
  ASSUME Init
  PROVE  ReadInv
<1>1. IInv
  BY HandshakeStart
<1>2. /\ client = Endpoint("response") /\ server = Endpoint("request")
      /\ toServer = Sent(Quiet, HandshakeRequest) /\ whole = TRUE
  BY DEF Init
<1>3. Begun(toServer, RequestStream)
  <2>1. IsStream(Quiet) /\ Quiet.bytes = <<>>
    <3>1. <<>> \in Seq(Piece) /\ Len(<<>>) = 0
      BY EmptySeq
    <3> QED BY <3>1 DEF Quiet, IsStream
  <2> QED BY <1>2, <2>1, RequestEnd, BegunFirst
<1>4. toServer.read = 0
  BY <1>2 DEF Sent, Quiet
<1>5. Hears(whole, server, RequestStream, toServer.read)
  BY <1>2, <1>4, RequestEnd, HearsNothing
<1>6. server.handshaked = FALSE /\ server.closing = FALSE /\ client.closing = FALSE
  BY <1>2 DEF Endpoint
<1> QED BY <1>1, <1>2, <1>3, <1>5, <1>6 DEF ReadInv, ServerReadsWell, ClientReadsWell, Undisturbed, Accepted

------------------------------------------------------------------------------
(* What the server has become that has read on in the request.             *)
LEMMA ServerHeard ==
  ASSUME ReadInv, NEW n \in Nat, n # 0, ServerOnMessage(n)
  PROVE  LET x == Parsed(server, server.buffer \o Arriving(toServer, n))
         IN  /\ Heard(whole', x, RequestStream, toServer.bytes, toServer.read + n)
             /\ IsEndpoint(x) /\ x.handshaked = FALSE
<1> DEFINE x == Parsed(server, server.buffer \o Arriving(toServer, n))
           y == RequestStream
<1>1. /\ IsStream(toServer) /\ IsEndpoint(server) /\ Listening(server, toServer)
  BY DEF ReadInv, IInv
<1>2. ~server.closing /\ ~server.handshaked /\ n <= Len(toServer.bytes) - toServer.read
      /\ whole' = (whole /\ toServer.read + n \notin toServer.cuts)
  BY DEF ServerOnMessage, Arrive
<1>3. Hears(whole, server, y, toServer.read) /\ Begun(toServer, y)
  BY <1>2 DEF ReadInv, ServerReadsWell
<1>4. OneUpgrade(y) /\ y.msgs[1].body = <<>>
  BY RequestEnd
<1>5. whole' => whole /\ toServer.read + n \notin toServer.cuts
  BY <1>2
<1>6. whole' => Uncut(y, toServer.read + n)
  <2>1. toServer.read + n \in Nat
    <3>1. toServer.read \in Nat
      BY <1>3 DEF Hears
    <3> QED BY <3>1
  <2> QED BY <1>3, <1>5, <2>1 DEF Begun
<1> HIDE DEF y
<1>7. Opening(toServer, y)
  BY <1>3 DEF Begun
<1>8. Heard(whole', x, y, toServer.bytes, toServer.read + n)
  BY <1>1, <1>2, <1>3, <1>4, <1>5, <1>6, <1>7, HearsFurther
<1>9. IsEndpoint(x) /\ x.handshaked = FALSE
  BY <1>1, <1>2, ParsedListens
<1> HIDE DEF x
<1> QED BY <1>8, <1>9 DEF x, y

(* The server reads before its handshake.                                  *)
LEMMA ServerOnMessageReads ==
  ASSUME ReadInv, NEW n \in Nat, n # 0, ServerOnMessage(n)
  PROVE  ReadInv'
<1> DEFINE x == Parsed(server, server.buffer \o Arriving(toServer, n))
           y == RequestStream
           d == toServer.read + n
           N == Len(y.wire)
<1>1. IInv /\ IInv'
  BY ServerOnMessageStep DEF ReadInv
<1>2. Heard(whole', x, y, toServer.bytes, d) /\ IsEndpoint(x) /\ x.handshaked = FALSE
  BY ServerHeard
<1>3. ~server.closing /\ ~server.handshaked /\ client' = client
      /\ whole' = (whole /\ d \notin toServer.cuts)
      /\ (ServerAwaits(x) \/ ServerRejects(x) \/ ServerAccepts(x))
  BY DEF ServerOnMessage, Arrive
<1>4. client = Endpoint("response") /\ toClient.bytes = <<>>
  BY <1>1, <1>3 DEF ReadInv, ClientReadsWell, IInv, Answers
<1>5. /\ toServer' = Further(toServer, n) /\ toServer'.bytes = toServer.bytes /\ toServer'.read = d
      /\ Begun(toServer', y)
  <2>1. IsStream(toServer) /\ n <= Len(toServer.bytes) - toServer.read /\ Begun(toServer, y)
    BY DEF ReadInv, IInv, ServerOnMessage, Arrive, ServerReadsWell
  <2>2. toServer' = Further(toServer, n)
    BY DEF ServerOnMessage, Further
  <2> QED BY <2>1, <2>2, FurtherIsStream, BegunFurther
<1>6. N \in Nat /\ d \in Nat /\ (d < N \/ N <= d) /\ y.type = "request"
      /\ Carries(y, "request", TheRequest, HandshakeRequest) /\ (HandshakeFits => Room(y))
  <2>1. N \in Nat /\ y.type = "request" /\ (HandshakeFits => Room(y))
        /\ Carries(y, "request", TheRequest, HandshakeRequest)
    BY RequestEnd
  <2>2. toServer.read \in Nat
    <3>1. Hears(whole, server, y, toServer.read)
      BY <1>3 DEF ReadInv, ServerReadsWell
    <3> QED BY <3>1 DEF Hears
  <2> HIDE DEF N, y
  <2> QED BY <2>1, <2>2
<1> HIDE DEF x, y, d
<1>7. client'.closing = FALSE /\ client'.handshaked = FALSE
  BY <1>3, <1>4 DEF Endpoint
<1>8. /\ x.closing \in BOOLEAN
      /\ x.closing => x.http.complete = FALSE /\ ~Room(y)
      /\ ~x.closing /\ d < N => Hears(whole', x, y, d) /\ x.http.complete = FALSE
      /\ ~x.closing /\ N <= d => /\ x.http.complete = TRUE
                                 /\ x.buffer = SubSeq(toServer.bytes, N + 1, d)
                                 /\ whole' => x.http.message = RequestOf(TheRequest)
  <2>1. MessageOf(y.type, y.msgs[1]) = RequestOf(TheRequest)
    BY <1>6 DEF MessageOf, Carries
  <2> QED BY <1>2, <2>1 DEF Heard, Hears, IsEndpoint
<1> HIDE DEF N
<1>9. CASE ServerAwaits(x)
  <2>1. server' = x /\ ~x.http.complete /\ server'.handshaked = FALSE
    BY <1>2, <1>9 DEF ServerAwaits
  <2>2. ~x.closing => Hears(whole', x, y, d)
    BY <1>6, <1>8, <2>1
  <2>3. ServerReadsWell'
    BY <1>5, <2>1, <2>2 DEF ServerReadsWell, y
  <2>4. ~Accepted'
    BY <2>1 DEF Accepted
  <2>5. ClientReadsWell'
    BY <1>3, <1>4, <2>4 DEF ClientReadsWell
  <2>6. HandshakeFits => ~x.closing
    BY <1>6, <1>8
  <2>7. Undisturbed'
    BY <1>7, <2>1, <2>4, <2>6 DEF Undisturbed
  <2> QED BY <1>1, <2>3, <2>5, <2>7 DEF ReadInv
<1>10. CASE ServerRejects(x)
  <2>1. server' = [x EXCEPT !.closing = TRUE] /\ x.http.complete
        /\ ~isHandShakeRequest(x.http.message)
    BY <1>10 DEF ServerRejects
  <2>2. server'.closing = TRUE /\ server'.handshaked = FALSE
    BY <1>2, <2>1 DEF IsEndpoint
  <2>3. ServerReadsWell'
    BY <1>5, <2>2 DEF ServerReadsWell, y
  <2>4. ~Accepted' /\ ClientReadsWell'
    BY <2>2 DEF Accepted, ClientReadsWell
  <2>5. ~whole'
    <3>1. ~x.closing /\ N <= d
      BY <1>6, <1>8, <2>1
    <3>2. whole' => x.http.message = RequestOf(TheRequest)
      BY <1>8, <3>1
    <3> QED BY <2>1, <3>2, RequestIs
  <2>6. Undisturbed'
    BY <2>5 DEF Undisturbed
  <2> QED BY <1>1, <2>3, <2>4, <2>6 DEF ReadInv
<1>11. CASE ServerAccepts(x)
  <2> DEFINE key == GetHeader(x.http.message, SecKey)
  <2>1. /\ x.http.complete /\ server' = [x EXCEPT !.handshaked = TRUE] /\ answered' = key
        /\ toClient' = Sent(toClient, IF x.closing THEN BadRequest ELSE responseHandShake(key))
    BY <1>11 DEF ServerAccepts
  <2> HIDE DEF key
  <2>2. ~x.closing /\ N <= d
    BY <1>6, <1>8, <2>1
  <2>3. /\ server'.handshaked = TRUE /\ ~server'.closing
        /\ server'.buffer = SubSeq(toServer.bytes, N + 1, d)
    BY <1>2, <1>8, <2>1, <2>2 DEF IsEndpoint
  <2>4. IsOpen(server', toServer', y)
    BY <1>5, <2>2, <2>3 DEF IsOpen, N
  <2>5. ServerReadsWell'
    BY <1>5, <2>3, <2>4 DEF ServerReadsWell, y
  <2>6. Accepted' /\ Begins(answered', key_)
    BY <1>1, <2>3 DEF Accepted, IInv, Answers
  <2> DEFINE z == AnswerStream(key)
  <2>7. Carries(z, "response", TheAnswer(key), responseHandShake(key))
    BY <2>1, <2>6, AnsweredKey
  <2> HIDE DEF z
  <2>8. IsStream(toClient)
    BY <1>1 DEF IInv
  <2>9. toClient' = Sent(toClient, responseHandShake(key))
    BY <2>1, <2>2
  <2>10. Begun(toClient', z)
    BY <1>4, <2>7, <2>8, <2>9, BegunFirst
  <2>11. toClient'.read = 0
    <3>1. Len(<<>>) = 0
      BY EmptySeq
    <3>2. toClient.read \in 0..0
      BY <1>4, <2>8, <3>1 DEF IsStream
    <3>3. toClient.read = 0
      BY <3>2
    <3>4. Sent(toClient, responseHandShake(key)).read = toClient.read
      BY <2>8 DEF Sent, IsStream
    <3> QED BY <2>9, <3>3, <3>4
  <2>12. Hears(whole', client', z, toClient'.read)
    BY <1>3, <1>4, <2>7, <2>11, HearsNothing
  <2>13. AnswerStream(answered') = z
    BY <2>1 DEF z
  <2>14. ClientReadsWell'
    <3>1. AnswerStream(answered)' = z
      BY <2>13 DEF AnswerStream, StreamOf, TheAnswer, getSecWebsocketAccept
    <3> QED BY <1>7, <2>3, <2>10, <2>12, <3>1 DEF ClientReadsWell
  <2>15. whole' => answered' = key_
    <3>1. whole' => x.http.message = RequestOf(TheRequest)
      BY <1>8, <2>2
    <3> QED BY <2>1, <3>1, RequestIs DEF key
  <2>16. Undisturbed'
    BY <1>7, <2>3, <2>15 DEF Undisturbed
  <2> QED BY <1>1, <2>5, <2>14, <2>16 DEF ReadInv
<1> QED BY <1>3, <1>9, <1>10, <1>11

------------------------------------------------------------------------------
(* The bytes behind the answer are text.                                   *)
LEMMA FramesAreText ==
  ASSUME NEW s, IsStream(s), NEW y, Len(y.wire) \in Nat, Begun(s, y),
         NEW c \in Nat, Len(y.wire) <= c, NEW d \in Nat, c <= d, d <= Len(s.bytes)
  PROVE  LET q == SubSeq(s.bytes, c + 1, d)
         IN  q \in Seq(Piece) /\ Len(q) = d - c /\ \A i \in 1..Len(q) : IsText(q[i])
<1> DEFINE q == SubSeq(s.bytes, c + 1, d)
           n == Len(s.bytes)
           N == Len(y.wire)
<1>1. s.bytes \in Seq(Piece) /\ n \in Nat /\ \A i \in (N + 1)..n : s.bytes[i] \in Range(Frames)
  BY LenProperties DEF IsStream, Begun
<1>2. /\ q \in Seq(Piece) /\ Len(q) = d - c
      /\ \A i \in 1..(d - c) : q[i] = s.bytes[c + i] /\ c + i \in 1..n
  <2> HIDE DEF q
  <2> QED BY ONLY <1>1, c \in Nat, d \in Nat, c <= d, d <= Len(s.bytes), PartsJoin DEF q, n
<1>3. \A f \in Range(Frames) : IsText(f)
  BY FramesAreOpaque DEF Range
<1> HIDE DEF q, n, N
<1>4. N \in Nat /\ N <= c
  BY DEF N
<1>5. \A i \in 1..(d - c) : c + i \in (N + 1)..n
  BY <1>1, <1>2, <1>4
<1>6. \A i \in 1..(d - c) : IsText(q[i])
  BY <1>1, <1>2, <1>3, <1>5
<1> QED BY <1>2, <1>6 DEF q

(* The client reads on in the answer.                                      *)
LEMMA ClientHears ==
  ASSUME ReadInv, NEW n \in Nat, n # 0, ClientOnMessage(n), Accepted,
         NEW y, y = AnswerStream(answered), Hears(whole, client, y, toClient.read)
  PROVE  LET x == Parsed(client, client.buffer \o Arriving(toClient, n))
         IN  Heard(whole', x, y, toClient.bytes, toClient.read + n)
<1>1. /\ IsStream(toClient) /\ IsEndpoint(client) /\ Begins(answered, key_)
  BY DEF ReadInv, IInv, Answers
<1>2. /\ n <= Len(toClient.bytes) - toClient.read
      /\ whole' = (whole /\ toClient.read + n \notin toClient.cuts)
  BY DEF ClientOnMessage, Arrive
<1>3. Begun(toClient, y)
  BY DEF ReadInv, ClientReadsWell
<1>4. OneUpgrade(y) /\ y.msgs[1].body = <<>>
  BY <1>1, AnswerEnd
<1>5. whole' => whole /\ toClient.read + n \notin toClient.cuts
  BY <1>2
<1>6. whole' => Uncut(y, toClient.read + n)
  <2>1. toClient.read + n \in Nat
    <3>1. toClient.read \in Nat
      BY DEF Hears
    <3> QED BY <3>1
  <2> QED BY <1>3, <1>5, <2>1 DEF Begun
<1>7. Opening(toClient, y)
  BY <1>3 DEF Begun
<1> QED BY <1>1, <1>2, <1>4, <1>5, <1>6, <1>7, HearsFurther

(* One that has missed what it waits for.                                  *)
LEMMA ClientIsDeaf ==
  ASSUME ReadInv, NEW n \in Nat, n # 0, ClientOnMessage(n), Accepted,
         NEW y, y = AnswerStream(answered), Deaf(client), Len(y.wire) <= toClient.read
  PROVE  LET x == Parsed(client, client.buffer \o Arriving(toClient, n))
         IN  ~validHandleShakeResponse(x.http.message) /\ (~x.closing => Deaf(x))
<1> DEFINE c == toClient.read
           d == toClient.read + n
           q == SubSeq(toClient.bytes, c + 1, d)
           b == client.buffer \o q
<1>1. /\ IsStream(toClient) /\ IsEndpoint(client) /\ Begins(answered, key_)
  BY DEF ReadInv, IInv, Answers
<1>2. Begun(toClient, y)
  BY DEF ReadInv, ClientReadsWell
<1>3. Len(y.wire) \in Nat
  BY <1>1, AnswerEnd
<1>4. c \in Nat /\ d \in Nat /\ c <= d /\ d <= Len(toClient.bytes) /\ d - c = n
  <2> DEFINE k == Len(toClient.bytes)
  <2>1. n <= k - c /\ k \in Nat /\ c \in 0..k
    BY <1>1, LenProperties DEF ClientOnMessage, Arrive, IsStream
  <2> HIDE DEF k, c
  <2>2. c \in Nat /\ c + n \in Nat /\ c <= c + n /\ c + n <= k /\ (c + n) - c = n
    BY <2>1
  <2> QED BY <2>2 DEF k, c
<1> HIDE DEF c, d
<1>5. q \in Seq(Piece) /\ Len(q) = n /\ \A i \in 1..Len(q) : IsText(q[i])
  <2>1. Len(y.wire) <= c
    BY DEF c
  <2> QED BY ONLY <1>1, <1>2, <1>3, <1>4, <2>1, FramesAreText
<1> HIDE DEF q
<1>6. client.buffer \in Seq(Piece) /\ \A i \in 1..Len(client.buffer) : IsText(client.buffer[i])
  BY DEF Deaf
<1>7. /\ b \in Seq(Piece) /\ Len(b) = Len(client.buffer) + Len(q)
      /\ \A i \in 1..(Len(client.buffer) + Len(q)) :
           b[i] = IF i <= Len(client.buffer) THEN client.buffer[i] ELSE q[i - Len(client.buffer)]
  BY <1>5, <1>6, ConcatProperties
<1> HIDE DEF b
<1>8. b # <<>> /\ \A i \in 1..Len(b) : IsText(b[i])
  <2> DEFINE m == Len(client.buffer)
  <2>1. m \in Nat
    BY <1>6, LenProperties
  <2>2. Len(b) = m + n /\ m + n # 0 /\ b # <<>>
    <3>1. Len(b) = m + n
      BY <1>5, <1>7
    <3> HIDE DEF m
    <3>2. m + n # 0
      BY <2>1
    <3> QED BY <3>1, <3>2, EmptySeq
  <2>3. ASSUME NEW i \in 1..(m + n) PROVE IsText(b[i])
    <3>1. b[i] = IF i <= m THEN client.buffer[i] ELSE q[i - m]
      BY <1>5, <1>7
    <3>2. (i <= m /\ i \in 1..m) \/ (~(i <= m) /\ i - m \in 1..n)
      <4> HIDE DEF m
      <4> QED BY <2>1
    <3> QED BY <1>5, <1>6, <3>1, <3>2
  <2> QED BY <2>2, <2>3
<1>9. Arriving(toClient, n) = q
  BY DEF Arriving, q, c, d
<1> QED BY <1>1, <1>7, <1>8, <1>9, DeafStays DEF b

(* The client reads before its handshake.                                  *)
LEMMA ClientOnMessageReads ==
  ASSUME ReadInv, NEW n \in Nat, n # 0, ClientOnMessage(n)
  PROVE  ReadInv'
<1> DEFINE x == Parsed(client, client.buffer \o Arriving(toClient, n))
           y == AnswerStream(answered)
           d == toClient.read + n
           N == Len(y.wire)
           valid == x.http.complete /\ validHandleShakeResponse(x.http.message)
<1>1. IInv /\ IInv'
  BY ClientOnMessageStep DEF ReadInv
<1>2. /\ ~client.closing /\ ~client.handshaked /\ n <= Len(toClient.bytes) - toClient.read
      /\ whole' = (whole /\ d \notin toClient.cuts)
      /\ client' = [x EXCEPT !.handshaked = valid]
      /\ server' = server /\ toServer' = toServer /\ answered' = answered
      /\ toClient' = Further(toClient, n)
  BY DEF ClientOnMessage, Arrive, Further
<1>3. /\ IsStream(toClient) /\ IsEndpoint(client) /\ Listening(client, toClient)
      /\ Answers /\ toClient.read \in Nat
  <2>1. IsStream(toClient)
    BY <1>1 DEF IInv
  <2> QED BY <1>1, <2>1 DEF IInv, IsStream
<1>4. toClient'.bytes = toClient.bytes /\ toClient'.read = d /\ d \in Nat
  BY <1>2, <1>3, FurtherIsStream
<1>5. toClient.bytes # <<>>
  <2> SUFFICES ASSUME toClient.bytes = <<>> PROVE FALSE
    OBVIOUS
  <2>1. Len(toClient.bytes) = 0
    BY EmptySeq
  <2> QED BY <1>2, <1>3, <2>1
<1>6. IsEndpoint(x)
  BY <1>2, <1>3, ParsedListens
<1> HIDE DEF x
<1>7. /\ client'.http = x.http /\ client'.buffer = x.buffer /\ client'.closing = x.closing
      /\ client'.handshaked = valid /\ valid \in BOOLEAN /\ x.closing \in BOOLEAN
  BY <1>2, <1>6 DEF IsEndpoint
<1> HIDE DEF valid, d
<1>8. ~(~server.handshaked /\ ~server.closing)
  BY <1>3, <1>5 DEF Answers
<1>9. ServerReadsWell'
  <2>1. ~server.handshaked /\ ~server.closing => Hears(whole', server, RequestStream, toServer.read)
    BY <1>8
  <2>2. Begun(toServer, RequestStream)
        /\ (server.handshaked => IsOpen(server, toServer, RequestStream))
    BY DEF ReadInv, ServerReadsWell
  <2> QED BY <1>2, <2>1, <2>2 DEF ServerReadsWell
<1>10. CASE ~Accepted
  <2>1. ~Accepted'
    BY <1>2, <1>10 DEF Accepted
  <2>2. ClientReadsWell'
    BY <1>2, <1>8, <2>1 DEF ClientReadsWell
  <2>3. whole' => ~HandshakeFits
    BY <1>2, <1>8, <1>10 DEF ReadInv, Undisturbed, Accepted
  <2>4. Undisturbed'
    BY <2>1, <2>3 DEF Undisturbed
  <2> QED BY <1>1, <1>9, <2>2, <2>4 DEF ReadInv
<1>11. CASE Accepted
  <2>1. Accepted'
    BY <1>2, <1>11 DEF Accepted
  <2>2. /\ Begins(answered, key_)
        /\ Begun(toClient, y)
        /\ \/ Hears(whole, client, y, toClient.read)
           \/ Deaf(client) /\ Len(y.wire) <= toClient.read /\ ~whole
    BY <1>2, <1>3, <1>11 DEF ReadInv, ClientReadsWell, Answers
  <2>3. AnswerStream(answered)' = y
    BY <1>2 DEF AnswerStream, StreamOf, TheAnswer, getSecWebsocketAccept
  <2>4. /\ N \in Nat /\ y.type = "response" /\ (HandshakeFits /\ answered = key_ => Room(y))
        /\ Carries(y, "response", TheAnswer(answered), responseHandShake(answered))
    BY <2>2, AnswerEnd
  <2>5. Begun(toClient', y)
    BY <1>2, <1>3, <2>2, BegunFurther
  <2>6. whole' => answered = key_ /\ (HandshakeFits => ~server.closing)
    BY <1>2, <1>11 DEF ReadInv, Undisturbed
  <2>7. (d < N \/ N <= d) /\ (N <= toClient.read => N <= d)
    <3> HIDE DEF N
    <3> QED BY <1>3, <1>4, <2>4 DEF d
  <2>8. d = toClient.read + n
    BY DEF d
  <2> HIDE DEF y
  <2>9. CASE Hears(whole, client, y, toClient.read)
    <3>1. Heard(whole', x, y, toClient.bytes, d)
      BY <1>11, <2>9, ClientHears DEF x, y, d
    <3>2. MessageOf(y.type, y.msgs[1]) = ResponseOf(TheAnswer(answered))
      BY <2>4 DEF MessageOf, Carries
    <3>3. CASE x.closing
      <4>1. x.http.complete = FALSE /\ ~Room(y)
        BY <3>1, <3>3 DEF Heard
      <4>2. client'.handshaked = FALSE /\ client'.closing = TRUE
        BY <1>7, <3>3, <4>1 DEF valid
      <4>3. ClientReadsWell'
        BY <1>2, <1>8, <2>3, <2>5, <4>2 DEF ClientReadsWell
      <4>4. Undisturbed'
        BY <1>2, <2>4, <2>6, <4>1 DEF Undisturbed
      <4> QED BY <1>1, <1>9, <4>3, <4>4 DEF ReadInv
    <3>4. ASSUME ~x.closing, ClientReadsWell' PROVE ReadInv'
      <4>1. Undisturbed'
        BY <1>2, <1>7, <2>6, <3>4 DEF Undisturbed
      <4> QED BY <1>1, <1>9, <3>4, <4>1 DEF ReadInv
    <3>5. CASE ~x.closing /\ d < N
      <4>1. Hears(whole', x, y, d)
        BY <3>1, <3>5 DEF Heard, N
      <4>2. client'.handshaked = FALSE
        BY <1>7, <4>1 DEF Hears, valid
      <4>3. Hears(whole', client', y, d)
        BY <1>7, <4>1 DEF Hears
      <4>4. ClientReadsWell'
        BY <1>2, <1>4, <1>8, <2>3, <2>5, <4>2, <4>3 DEF ClientReadsWell
      <4> QED BY <3>4, <3>5, <4>4
    <3>6. CASE ~x.closing /\ N <= d
      <4>1. /\ x.http.complete = TRUE /\ x.http.type = "response" /\ x.http.state \in {"start", "dead"}
            /\ AtRest(x.http) /\ x.http.error = FALSE
            /\ x.buffer = SubSeq(toClient.bytes, N + 1, d)
            /\ whole' => x.http.message = ResponseOf(TheAnswer(answered))
        BY <2>4, <3>1, <3>2, <3>6 DEF Heard, N
      <4>2. CASE valid
        <5>1. client'.handshaked = TRUE
          BY <1>7, <4>2
        <5>2. IsOpen(client', toClient', y)
          BY <1>4, <1>7, <3>6, <4>1 DEF IsOpen, N
        <5>3. ClientReadsWell'
          BY <1>2, <1>8, <2>3, <2>5, <5>1, <5>2 DEF ClientReadsWell
        <5> QED BY <3>4, <3>6, <5>3
      <4>3. CASE ~valid
        <5>1. client'.handshaked = FALSE /\ ~validHandleShakeResponse(x.http.message)
          BY <1>7, <4>1, <4>3 DEF valid
        <5>2. ~whole'
          <6>1. whole' => validHandleShakeResponse(ResponseOf(TheAnswer(answered)))
            <7>1. answered \in Seq(STRING) /\ \A i \in 1..Len(answered) : IsText(answered[i])
              BY <2>2, AnsweredKey
            <7> QED BY <2>6, <7>1, AnswerIs
          <6> QED BY <4>1, <5>1, <6>1
        <5>3. x.buffer \in Seq(Piece) /\ \A i \in 1..Len(x.buffer) : IsText(x.buffer[i])
          <6>1. d <= Len(toClient.bytes)
            <7> DEFINE k == Len(toClient.bytes)
            <7>1. n <= k - toClient.read /\ k \in Nat
              BY <1>2, <1>3, LenProperties DEF IsStream
            <7> HIDE DEF k
            <7>2. d <= k
              BY <1>3, <2>8, <7>1
            <7> QED BY <7>2 DEF k
          <6>2. N <= N
            BY <2>4
          <6>3. LET q == SubSeq(toClient.bytes, N + 1, d)
                IN  q \in Seq(Piece) /\ Len(q) = d - N /\ \A i \in 1..Len(q) : IsText(q[i])
            BY ONLY <1>3, <1>4, <2>2, <2>4, <3>6, <6>1, <6>2, FramesAreText DEF N
          <6> QED BY <4>1, <6>3
        <5>4. Deaf(client')
          BY <1>7, <4>1, <5>1, <5>3 DEF Deaf, NoResponse
        <5>5. ClientReadsWell'
          BY <1>2, <1>4, <1>8, <2>3, <2>5, <3>6, <5>1, <5>2, <5>4 DEF ClientReadsWell, N
        <5> QED BY <3>4, <3>6, <5>5
      <4> QED BY <4>2, <4>3
    <3> QED BY <2>7, <3>3, <3>5, <3>6
  <2>10. CASE Deaf(client) /\ Len(y.wire) <= toClient.read /\ ~whole
    <3>1. ~validHandleShakeResponse(x.http.message) /\ (~x.closing => Deaf(x))
      BY <1>11, <2>10, ClientIsDeaf DEF x, y
    <3>2. client'.handshaked = FALSE
      BY <1>7, <3>1 DEF valid
    <3>3. ~whole'
      BY <1>2, <2>10
    <3>4. ~client'.closing => Deaf(client')
      BY <1>7, <3>1 DEF Deaf
    <3>5. N <= d
      BY <2>7, <2>10 DEF N
    <3>6. ClientReadsWell'
      BY <1>2, <1>4, <1>8, <2>3, <2>5, <3>2, <3>3, <3>4, <3>5 DEF ClientReadsWell, N
    <3>7. Undisturbed'
      BY <3>3 DEF Undisturbed
    <3> QED BY <1>1, <1>9, <3>6, <3>7 DEF ReadInv
  <2> QED BY <2>2, <2>9, <2>10
<1> QED BY <1>10, <1>11

------------------------------------------------------------------------------
(* Both sides go on with what is in `whole': a cut makes it less.          *)
LEMMA ServerReadsOn ==
  ASSUME ReadInv, UNCHANGED <<server, toServer>>, whole' => whole
  PROVE  ServerReadsWell'
<1>1. ~server.handshaked /\ ~server.closing => Hears(whole', server, RequestStream, toServer.read)
  BY HearsLess DEF ReadInv, ServerReadsWell
<1> QED BY <1>1 DEF ReadInv, ServerReadsWell

LEMMA ClientReadsOn ==
  ASSUME ReadInv, UNCHANGED <<client, toClient, answered>>, whole' => whole,
         server'.handshaked = server.handshaked, server'.closing = server.closing
  PROVE  ClientReadsWell'
<1>1. AnswerStream(answered)' = AnswerStream(answered)
  BY DEF AnswerStream, StreamOf, TheAnswer, getSecWebsocketAccept
<1>2. Accepted' = Accepted
  BY DEF Accepted
<1>3. Accepted /\ ~client.handshaked /\ ~client.closing =>
        \/ Hears(whole', client, AnswerStream(answered), toClient.read)
        \/ Deaf(client) /\ Len(AnswerStream(answered).wire) <= toClient.read /\ ~whole'
  BY HearsLess DEF ReadInv, ClientReadsWell
<1> QED BY <1>1, <1>2, <1>3 DEF ReadInv, ClientReadsWell

LEMMA ServerOnFramesReads ==
  ASSUME ReadInv, NEW n \in Nat, ServerOnFrames(n)
  PROVE  ReadInv'
<1>1. /\ ~server.closing /\ server.handshaked /\ n <= Len(toServer.bytes) - toServer.read
      /\ whole' => whole
      /\ server' = [server EXCEPT !.buffer = @ \o Arriving(toServer, n)]
      /\ toServer' = Further(toServer, n)
      /\ UNCHANGED <<client, toClient, answered>>
  BY DEF ServerOnFrames, Arrive, Further
<1>2. IInv /\ IInv' /\ IsStream(toServer) /\ IsEndpoint(server)
  BY ServerOnFramesStep DEF ReadInv, IInv
<1>3. server'.handshaked = server.handshaked /\ server'.closing = server.closing
  BY <1>1, <1>2 DEF IsEndpoint
<1>4. Begun(toServer, RequestStream) /\ IsOpen(server, toServer, RequestStream)
      /\ Len(RequestStream.wire) \in Nat
  BY <1>1, RequestEnd DEF ReadInv, ServerReadsWell
<1>5. Begun(toServer', RequestStream) /\ IsOpen(server', toServer', RequestStream)
  BY <1>1, <1>2, <1>4, BegunFurther, OpenFurther
<1>6. ServerReadsWell'
  BY <1>1, <1>3, <1>5 DEF ServerReadsWell
<1>7. ClientReadsWell'
  BY <1>1, <1>3, ClientReadsOn
<1>8. Undisturbed'
  BY <1>1, <1>3 DEF ReadInv, Undisturbed, Accepted
<1> QED BY <1>2, <1>6, <1>7, <1>8 DEF ReadInv

LEMMA ClientOnFramesReads ==
  ASSUME ReadInv, NEW n \in Nat, ClientOnFrames(n)
  PROVE  ReadInv'
<1> DEFINE y == AnswerStream(answered)
<1>1. /\ ~client.closing /\ client.handshaked /\ n <= Len(toClient.bytes) - toClient.read
      /\ whole' => whole
      /\ client' = [client EXCEPT !.buffer = @ \o Arriving(toClient, n)]
      /\ toClient' = Further(toClient, n)
      /\ UNCHANGED <<server, toServer, answered>>
  BY DEF ClientOnFrames, Arrive, Further
<1>2. IInv /\ IInv' /\ IsStream(toClient) /\ IsEndpoint(client)
  BY ClientOnFramesStep DEF ReadInv, IInv
<1>3. client'.handshaked = client.handshaked /\ client'.closing = client.closing
  BY <1>1, <1>2 DEF IsEndpoint
<1>4. Accepted /\ Accepted' /\ Begins(answered, key_)
  BY <1>1, <1>2 DEF IInv, Agreement, Accepted, Answers
<1>5. Begun(toClient, y) /\ IsOpen(client, toClient, y) /\ Len(y.wire) \in Nat
  BY <1>1, <1>4, AnswerEnd DEF ReadInv, ClientReadsWell
<1>6. AnswerStream(answered)' = y
  BY <1>1 DEF AnswerStream, StreamOf, TheAnswer, getSecWebsocketAccept
<1> HIDE DEF y
<1>7. Begun(toClient', y) /\ IsOpen(client', toClient', y)
  BY <1>1, <1>2, <1>5, BegunFurther, OpenFurther
<1>8. ClientReadsWell'
  BY <1>1, <1>3, <1>4, <1>6, <1>7 DEF ClientReadsWell, Accepted
<1>9. ServerReadsWell'
  BY <1>1, ServerReadsOn
<1>10. Undisturbed'
  BY <1>1, <1>3 DEF ReadInv, Undisturbed, Accepted
<1> QED BY <1>2, <1>8, <1>9, <1>10 DEF ReadInv

LEMMA ServerSendsReads ==
  ASSUME ReadInv, ServerSends
  PROVE  ReadInv'
<1> DEFINE y == AnswerStream(answered)
<1>1. /\ server.handshaked /\ ~server.closing
      /\ UNCHANGED <<client, server, toServer, answered, whole>>
  BY DEF ServerSends
<1>2. PICK i \in DOMAIN Frames : toClient' = Sent(toClient, <<Plain(<<Frames[i]>>)>>)
  BY DEF ServerSends, SendFrame
<1>3. IInv /\ IInv' /\ IsStream(toClient)
  BY ServerSendsStep DEF ReadInv, IInv
<1>4. Accepted /\ Accepted' /\ Begins(answered, key_)
  BY <1>1, <1>3 DEF IInv, Accepted, Answers
<1>5. /\ Begun(toClient, y) /\ Len(y.wire) \in Nat
      /\ ~client.handshaked /\ ~client.closing =>
           \/ Hears(whole, client, y, toClient.read)
           \/ Deaf(client) /\ Len(y.wire) <= toClient.read /\ ~whole
      /\ client.handshaked => IsOpen(client, toClient, y)
  BY <1>4, AnswerEnd DEF ReadInv, ClientReadsWell
<1>6. AnswerStream(answered)' = y
  BY <1>1 DEF AnswerStream, StreamOf, TheAnswer, getSecWebsocketAccept
<1> HIDE DEF y
<1>7. toClient'.read = toClient.read
  BY <1>2, <1>3, FrameSent
<1>8. Begun(toClient', y) /\ (client.handshaked => IsOpen(client, toClient', y))
  BY <1>2, <1>3, <1>5, BegunSent, OpenSent
<1>9. ClientReadsWell'
  BY <1>1, <1>5, <1>6, <1>7, <1>8 DEF ClientReadsWell
<1>10. ServerReadsWell'
  BY <1>1, ServerReadsOn
<1>11. Undisturbed'
  BY <1>1 DEF ReadInv, Undisturbed, Accepted
<1> QED BY <1>3, <1>9, <1>10, <1>11 DEF ReadInv

LEMMA ClientSendsReads ==
  ASSUME ReadInv, ClientSends
  PROVE  ReadInv'
<1>1. /\ UNCHANGED <<client, server, toClient, answered, whole>>
      /\ server.handshaked /\ ~server.closing
  BY DEF ClientSends, ReadInv, IInv, Agreement
<1>2. PICK i \in DOMAIN Frames : toServer' = Sent(toServer, <<Plain(<<Frames[i]>>)>>)
  BY DEF ClientSends, SendFrame
<1>3. IInv /\ IInv' /\ IsStream(toServer)
  BY ClientSendsStep DEF ReadInv, IInv
<1>4. Begun(toServer, RequestStream) /\ IsOpen(server, toServer, RequestStream)
      /\ Len(RequestStream.wire) \in Nat
  BY <1>1, RequestEnd DEF ReadInv, ServerReadsWell
<1>5. Begun(toServer', RequestStream) /\ IsOpen(server, toServer', RequestStream)
  BY <1>2, <1>3, <1>4, BegunSent, OpenSent
<1>6. ServerReadsWell'
  BY <1>1, <1>5 DEF ServerReadsWell
<1>7. ClientReadsWell'
  BY <1>1, ClientReadsOn
<1>8. Undisturbed'
  BY <1>1 DEF ReadInv, Undisturbed, Accepted
<1> QED BY <1>3, <1>6, <1>7, <1>8 DEF ReadInv

(* Every step keeps the invariant.                                         *)
LEMMA ReadStep == ReadInv /\ [Next]_vars => ReadInv'
<1> SUFFICES ASSUME ReadInv, [Next]_vars PROVE ReadInv'
  OBVIOUS
<1>1. CASE ServerReads
  <2>1. PICK n \in 1..(Len(toServer.bytes) - toServer.read) :
          ServerOnMessage(n) \/ ServerOnFrames(n)
    BY <1>1 DEF ServerReads
  <2>2. n \in Nat /\ n # 0
    <3>1. Len(toServer.bytes) - toServer.read \in Int
      BY LenProperties DEF ReadInv, IInv, IsStream
    <3> QED BY <3>1
  <2> QED BY <2>1, <2>2, ServerOnMessageReads, ServerOnFramesReads
<1>2. CASE ClientReads
  <2>1. PICK n \in 1..(Len(toClient.bytes) - toClient.read) :
          ClientOnMessage(n) \/ ClientOnFrames(n)
    BY <1>2 DEF ClientReads
  <2>2. n \in Nat /\ n # 0
    <3>1. Len(toClient.bytes) - toClient.read \in Int
      BY LenProperties DEF ReadInv, IInv, IsStream
    <3> QED BY <3>1
  <2> QED BY <2>1, <2>2, ClientOnMessageReads, ClientOnFramesReads
<1>3. CASE ServerSends
  BY <1>3, ServerSendsReads
<1>4. CASE ClientSends
  BY <1>4, ClientSendsReads
<1>5. CASE UNCHANGED vars
  <2>1. /\ UNCHANGED <<client, server, toServer, toClient, answered, whole>>
    BY <1>5 DEF vars
  <2>2. IInv'
    BY <1>5, HandshakeStep DEF ReadInv
  <2>3. ServerReadsWell' /\ ClientReadsWell'
    BY <2>1, ServerReadsOn, ClientReadsOn
  <2>4. Undisturbed'
    BY <2>1 DEF ReadInv, Undisturbed, Accepted
  <2> QED BY <2>2, <2>3, <2>4 DEF ReadInv
<1> QED BY <1>1, <1>2, <1>3, <1>4, <1>5 DEF Next

LEMMA ReadingInductive == Spec => []ReadInv
BY ReadStart, ReadStep, PTL DEF Spec

------------------------------------------------------------------------------
(* What decode is given on each side are the frames of the other, none     *)
(* lost to the HTTP parser and no byte of a message among them.            *)
LEMMA KeptSafe ==
  ASSUME ReadInv
  PROVE  FramesKept
<1>1. IsStream(toServer) /\ IsStream(toClient) /\ Agreement /\ Answers
  BY DEF ReadInv, IInv
<1>2. /\ Range(Frames) \cap Range(Bytes(HandshakeRequest)) = {}
      /\ Range(Frames) \cap Range(Bytes(responseHandShake(key_))) = {}
  BY FramesAreNoText
<1>3. server.handshaked => server.buffer = FramesArrived(toServer)
  <2> SUFFICES ASSUME server.handshaked PROVE server.buffer = FramesArrived(toServer)
    OBVIOUS
  <2>1. Begun(toServer, RequestStream) /\ IsOpen(server, toServer, RequestStream)
    BY DEF ReadInv, ServerReadsWell
  <2>2. Carries(RequestStream, "request", TheRequest, HandshakeRequest)
    BY RequestEnd
  <2> QED BY ONLY <1>1, <1>2, <2>1, <2>2, OpenFrames
<1>4. client.handshaked => client.buffer = FramesArrived(toClient)
  <2> SUFFICES ASSUME client.handshaked PROVE client.buffer = FramesArrived(toClient)
    OBVIOUS
  <2>1. Accepted /\ answered = key_ /\ Begins(answered, key_)
    BY <1>1 DEF Agreement, Answers, Accepted
  <2> DEFINE y == AnswerStream(answered)
  <2>2. Begun(toClient, y) /\ IsOpen(client, toClient, y)
    BY <2>1 DEF ReadInv, ClientReadsWell
  <2>3. Carries(y, "response", TheAnswer(answered), responseHandShake(answered))
    BY <2>1, AnswerEnd
  <2>4. Range(Frames) \cap Range(Bytes(responseHandShake(answered))) = {}
    BY <1>2, <2>1
  <2> HIDE DEF y
  <2> QED BY ONLY <1>1, <2>2, <2>3, <2>4, OpenFrames
<1> QED BY <1>3, <1>4 DEF FramesKept

LEMMA EstablishedSafe ==
  ASSUME ReadInv
  PROVE  Established
<1> SUFFICES ASSUME HandshakeFits, whole
             PROVE  /\ ~client.closing
                    /\ toServer.read >= Len(Bytes(HandshakeRequest)) <=> server.handshaked
                    /\ toClient.read >= Len(Bytes(responseHandShake(key_))) <=> client.handshaked
  BY DEF Established
<1> DEFINE y == AnswerStream(key_)
           N == Len(RequestStream.wire)
           M == Len(y.wire)
           r == toServer.read
           q == toClient.read
<1>1. /\ ~server.closing /\ ~client.closing /\ (Accepted => answered = key_)
      /\ Accepted <=> server.handshaked
  BY DEF ReadInv, Undisturbed, Accepted
<1>2. N = Len(Bytes(HandshakeRequest)) /\ N \in Nat
  BY RequestEnd
<1>3. M = Len(Bytes(responseHandShake(key_))) /\ M \in Nat /\ 0 < M
  <2>1. Begins(key_, key_)
    <3>1. key_ \in Seq(Piece)
      BY KeyPieces
    <3>2. Len(key_) \in Nat
      BY <3>1, LenProperties
    <3> QED BY <3>1, <3>2 DEF Begins
  <2> QED BY <2>1, AnswerEnd
<1>4. IsStream(toServer) /\ IsStream(toClient) /\ r \in Nat /\ q \in Nat
  BY DEF ReadInv, IInv, IsStream
<1>5. (~server.handshaked => r < N) /\ (server.handshaked => N <= r)
  BY <1>1 DEF ReadInv, ServerReadsWell, Hears, IsOpen
<1>6. (~client.handshaked => q < M) /\ (client.handshaked => M <= q)
  <2>1. CASE Accepted
    BY <1>1, <2>1 DEF ReadInv, ClientReadsWell, Hears, IsOpen
  <2>2. CASE ~Accepted
    <3>1. client = Endpoint("response") /\ toClient.bytes = <<>>
      BY <1>1, <2>2 DEF ReadInv, ClientReadsWell, IInv, Answers
    <3>2. client.handshaked = FALSE
      BY <3>1 DEF Endpoint
    <3>3. q \in 0..0
      BY <1>4, <3>1, EmptySeq DEF IsStream
    <3>4. q = 0
      BY <3>3
    <3> HIDE DEF q, M
    <3> QED BY <1>3, <3>2, <3>4
  <2> QED BY <2>1, <2>2
<1> HIDE DEF N, M, r, q
<1>7. (r >= N <=> server.handshaked) /\ (q >= M <=> client.handshaked)
  BY <1>2, <1>3, <1>4, <1>5, <1>6
<1> QED BY <1>1, <1>2, <1>3, <1>7 DEF r, q

(* For every key, every sequence of frames that no handshake contains, and *)
(* reads that end anywhere: decode is given the frames of the other side,  *)
(* none lost to the HTTP parser and no byte of a message among them.       *)
THEOREM HandshakeFramesKept == Spec => []FramesKept
<1>1. ReadInv => FramesKept
  BY KeptSafe
<1> QED BY <1>1, ReadingInductive, PTL

(* If the limit on headers has room for the two messages and no read ends  *)
(* inside a string, the client's parser does not fail and each side is     *)
(* upgraded by the read that brings the end of the other's message, by no  *)
(* earlier and by no later one.                                            *)
THEOREM HandshakeEstablished == Spec => []Established
<1>1. ReadInv => Established
  BY EstablishedSafe
<1> QED BY <1>1, ReadingInductive, PTL
==============================================================================
