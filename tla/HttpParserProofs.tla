--------------------------- MODULE HttpParserProofs ---------------------------
(***************************************************************************)
(* What http_parser_execute keeps, for every sequence of bytes and every   *)
(* limit on the size of the headers: shown for each state's handler, for   *)
(* one turn of the loop, and by induction over the bytes for the loop.     *)
(***************************************************************************)
EXTENDS HttpStream, SequenceTheorems, WellFoundedInduction, TLAPS

(* The members of a parser, its states, and the types the proofs use.      *)
Fields == {"type", "state", "method", "version", "status", "name", "value", "length",
           "flags", "upgrade", "error", "mark", "used", "stop", "nread",
           "headFieldTemp", "complete", "message"}

ParserState == {"start", "dead", "method", "before_url", "url", "http", "line_end",
                "res_http_end", "status", "status_end", "reason", "field_start", "field",
                "value_ws", "value", "value_lws", "empty_value", "body", "body_eof",
                "chunk_start", "chunk_size", "chunk_data", "chunk_end"}

IsParser(h) ==
  /\ DOMAIN h = Fields
  /\ h.type \in {"request", "response"}
  /\ h.state \in ParserState
  /\ {h.error, h.stop, h.complete, h.upgrade} \subseteq BOOLEAN
  /\ h.nread \in Nat /\ h.used \in Nat

(* In a turn: a name is pending only from its end until its value has been *)
(* delivered, the mark of a name is gone when the name ends, and a value   *)
(* that is being read is marked.                                           *)
Pending(h) ==
  /\ h.headFieldTemp # <<>> => h.state \in {"field", "value_ws", "value", "empty_value"}
  /\ h.mark.kind = "field" => h.state = "field"
  /\ h.state = "value" => h.mark.kind = "value"

(* What a turn may make of h: the count goes on or starts again, chunks    *)
(* start with a new one, the loop is left only for an upgrade and at the   *)
(* end of a message, and a count that is too large is tolerated in a       *)
(* string, whose loop looks at it when it ends.                            *)
Turned(h, g) ==
  /\ IsParser(g) /\ g.type = h.type /\ g.used = h.used
  /\ g.stop => g.upgrade /\ g.complete
  /\ g.nread \in {h.nread, 0}
  /\ g.error = FALSE =>
       /\ Pending(g)
       /\ g.state = "chunk_start" => g.nread = 0
       /\ g.stop => g.state \in {"start", "dead"}
       /\ g.complete => h.complete \/ g.state \in {"start", "dead"}
       /\ h.state \in {"field", "value"} /\ Overflow(h) =>
            g.state \in {"field", "value"} /\ g.stop = FALSE
  /\ h.complete => g.complete

------------------------------------------------------------------------------
(* The operators the handlers share.                                       *)

LEMMA Completed ==
  ASSUME NEW h, IsParser(h)
  PROVE  LET g == Complete(h)
         IN  /\ IsParser(g) /\ g.type = h.type /\ g.used = h.used /\ g.nread = h.nread
             /\ g.error = h.error /\ g.stop = h.stop /\ g.upgrade = h.upgrade
             /\ g.mark = h.mark /\ g.headFieldTemp = h.headFieldTemp
             /\ g.complete = TRUE /\ g.state \in {"start", "dead"}
BY DEF Complete, OnMessageComplete, Go, IsParser, Fields, ParserState

LEMMA Finished ==
  ASSUME NEW h, IsParser(h)
  PROVE  LET g == MessageDone(h)
         IN  /\ IsParser(g) /\ g.type = h.type /\ g.used = h.used /\ g.nread = h.nread
             /\ g.error = h.error /\ g.stop = h.upgrade /\ g.upgrade = h.upgrade
             /\ g.mark = h.mark /\ g.headFieldTemp = h.headFieldTemp
             /\ g.complete = TRUE /\ g.state \in {"start", "dead"}
<1> DEFINE c == Complete(h)
<1>1. /\ IsParser(c) /\ c.type = h.type /\ c.used = h.used /\ c.nread = h.nread
             /\ c.error = h.error /\ c.stop = h.stop /\ c.upgrade = h.upgrade
             /\ c.mark = h.mark /\ c.headFieldTemp = h.headFieldTemp
             /\ c.complete = TRUE /\ c.state \in {"start", "dead"}
  BY Completed
<1>2. MessageDone(h) = [c EXCEPT !.stop = h.upgrade]
  BY DEF MessageDone
<1> HIDE DEF c
<1> QED BY <1>1, <1>2 DEF IsParser, Fields

LEMMA CallbackTurned ==
  ASSUME NEW h, IsParser(h)
  PROVE  LET g == CallbackData(h)
         IN  /\ IsParser(g) /\ g.type = h.type /\ g.used = h.used /\ g.nread = h.nread
             /\ g.error = h.error /\ g.stop = h.stop /\ g.upgrade = h.upgrade
             /\ g.mark = NoMark /\ g.complete = h.complete /\ g.state = h.state
             /\ h.mark.kind = "value" => g.headFieldTemp = <<>>
             /\ h.mark.kind # "field" /\ h.headFieldTemp = <<>> => g.headFieldTemp = <<>>
BY DEF CallbackData, OnUrl, OnHeaderField, OnHeaderValue, OnBody, IsParser, Fields, NoMark

------------------------------------------------------------------------------
(* The handlers of the states, one by one.                                 *)

LEMMA HeadersDoneTurned ==
  ASSUME NEW h, IsParser(h), h.error = FALSE, h.stop = FALSE,
         h.headFieldTemp = <<>>, h.mark.kind # "field", h.state = "field_start"
  PROVE  Turned(h, HeadersDone(h))
<1> DEFINE g == CountAgain(h)
<1>1. /\ IsParser(g) /\ g.type = h.type /\ g.used = h.used /\ g.nread = 0
      /\ g.error = FALSE /\ g.stop = FALSE /\ g.upgrade = h.upgrade
      /\ g.mark = h.mark /\ g.headFieldTemp = <<>> /\ g.complete = h.complete
      /\ g.state = "field_start"
  BY DEF CountAgain, IsParser, Fields
<1>2. Turned(h, MessageDone(g))
  BY <1>1, Finished, ZenonT(40) DEF Turned, Pending, IsParser
<1>3. Turned(h, Complete(g))
  BY <1>1, Completed, ZenonT(40) DEF Turned, Pending, IsParser
<1>4. \A s \in {"chunk_start", "body", "body_eof"} : Turned(h, Go(g, s))
  BY <1>1 DEF Turned, Pending, IsParser, Go, Fields, ParserState
<1>5. Turned(h, Fail(g))
  BY <1>1 DEF Turned, Pending, IsParser, Fail, Fields, ParserState
<1>6. HeadersDone(h) \in {MessageDone(g), Complete(g), Fail(g)}
                         \cup {Go(g, s) : s \in {"chunk_start", "body", "body_eof"}}
  BY DEF HeadersDone
<1> HIDE DEF g
<1> QED BY <1>2, <1>3, <1>4, <1>5, <1>6

LEMMA HeadersAlmostDoneTurned ==
  ASSUME NEW h, IsParser(h), h.error = FALSE, h.stop = FALSE,
         h.headFieldTemp = <<>>, h.mark.kind # "field", h.state = "field_start"
  PROVE  Turned(h, HeadersAlmostDone(h))
<1>1. Turned(h, MessageDone(h))
  BY Finished DEF Turned, Pending, IsParser
<1>2. Turned(h, Fail(h))
  BY DEF Turned, Pending, IsParser, Fail, Fields, ParserState
<1>3. ASSUME NEW u \in BOOLEAN
      PROVE  Turned(h, HeadersDone([h EXCEPT !.upgrade = u]))
  <2> DEFINE g == [h EXCEPT !.upgrade = u]
  <2>1. /\ IsParser(g) /\ g.type = h.type /\ g.used = h.used /\ g.nread = h.nread
        /\ g.error = FALSE /\ g.stop = FALSE 
        /\ g.mark = h.mark /\ g.headFieldTemp = <<>> /\ g.complete = h.complete
        /\ g.state = "field_start"
    BY DEF IsParser, Fields
  <2> HIDE DEF g
  <2>2. Turned(g, HeadersDone(g))
    BY <2>1, HeadersDoneTurned
  <2>3. Turned(h, HeadersDone(g))
    BY <2>1, <2>2 DEF Turned
  <2> QED BY <2>3 DEF g
<1>4. \E u \in BOOLEAN : HeadersAlmostDone(h) \in
         {MessageDone(h), Fail(h), HeadersDone([h EXCEPT !.upgrade = u])}
  BY DEF HeadersAlmostDone
<1> QED BY <1>1, <1>2, <1>3, <1>4

LEMMA HeaderFieldStartTurned ==
  ASSUME NEW h, NEW t, IsParser(h), h.error = FALSE, h.stop = FALSE,
         h.headFieldTemp = <<>>, h.mark.kind # "field", h.state = "field_start"
  PROVE  Turned(h, HeaderFieldStart(h, t))
<1>1. CASE t = "crlf"
  BY <1>1, HeadersAlmostDoneTurned DEF HeaderFieldStart, IsText
<1>2. CASE t # "crlf" /\ IsText(t)
  BY <1>2 DEF HeaderFieldStart, Turned, Pending, IsParser, Fields, ParserState, Marked
<1>3. CASE t # "crlf" /\ ~IsText(t)
  BY <1>3 DEF HeaderFieldStart, Turned, Pending, IsParser, Fields, ParserState, Fail
<1> QED BY <1>1, <1>2, <1>3

LEMMA HeaderFieldTurned ==
  ASSUME NEW h, NEW t, IsParser(h), Pending(h), h.error = FALSE, h.stop = FALSE,
         h.state = "field"
  PROVE  Turned(h, HeaderField(h, t))
<1>1. CASE IsText(t)
  BY <1>1 DEF HeaderField, IsText, Turned, Pending, IsParser, Fields, ParserState, Marked
<1>2. CASE ~IsText(t) /\ t = ":" /\ ~Overflow(h)
  <2> DEFINE fl == h.flags \cup IF h.name = TransferEncoding THEN {"te"} ELSE {}
             g == [h EXCEPT !.state = "value_ws", !.flags = fl]
  <2>1. HeaderField(h, t) = CallbackData(g)
    BY <1>2, Zenon DEF HeaderField
  <2>2. /\ IsParser(g) /\ g.type = h.type /\ g.used = h.used /\ g.nread = h.nread
        /\ g.error = FALSE /\ g.stop = FALSE /\ g.state = "value_ws"
        /\ g.complete = h.complete
    BY DEF IsParser, Fields, ParserState
  <2> HIDE DEF g
  <2> QED BY <1>2, <2>1, <2>2, CallbackTurned DEF Turned, Pending, NoMark
<1>3. CASE ~IsText(t) /\ ~(t = ":" /\ ~Overflow(h))
  BY <1>3 DEF HeaderField, Turned, Pending, IsParser, Fields, ParserState, Fail
<1> QED BY <1>1, <1>2, <1>3

LEMMA ValuePieceTurned ==
  ASSUME NEW h, NEW t, IsParser(h), Pending(h), h.error = FALSE, h.stop = FALSE,
         h.state \in {"value_ws", "value"}
  PROVE  Turned(h, ValuePiece(h, t))
<1> DEFINE g == CASE h.name = ContentLength -> LengthPiece(h, t)
                  [] h.name = Upgrade       -> [h EXCEPT !.flags = @ \cup {"upgrade"}]
                  [] OTHER                  -> h
           Kept(e) == /\ IsParser(e) /\ e.type = h.type /\ e.used = h.used /\ e.nread = h.nread
                      /\ e.stop = FALSE /\ e.complete = h.complete
<1>1. Kept(LengthPiece(h, t))
  BY DEF LengthPiece, Fail, IsParser, Fields
<1>2. Kept([h EXCEPT !.flags = @ \cup {"upgrade"}])
  BY DEF IsParser, Fields
<1>3. Kept(h)
  OBVIOUS
<1> HIDE DEF Kept
<1>4. Kept(g)
  BY <1>1, <1>2, <1>3
<1>5. ValuePiece(h, t) =
        [Marked(g, "value", t) EXCEPT !.value = Append(@, t), !.state = "value"]
  BY DEF ValuePiece
<1> HIDE DEF g
<1> QED BY <1>4, <1>5 DEF Kept, Turned, Pending, IsParser, Fields, ParserState, Marked

LEMMA HeaderValueStartTurned ==
  ASSUME NEW h, NEW t, IsParser(h), Pending(h), h.error = FALSE, h.stop = FALSE,
         h.state = "value_ws"
  PROVE  Turned(h, HeaderValueStart(h, t))
<1>1. CASE t \in {"sp", "crlf"}
  BY <1>1 DEF HeaderValueStart, Turned, Pending, IsParser, Fields, ParserState, Go
<1>2. CASE t \notin {"sp", "crlf"}
  BY <1>2, ValuePieceTurned DEF HeaderValueStart
<1> QED BY <1>1, <1>2

LEMMA HeaderValueTurned ==
  ASSUME NEW h, NEW t, IsParser(h), Pending(h), h.error = FALSE, h.stop = FALSE,
         h.state = "value"
  PROVE  Turned(h, HeaderValue(h, t))
<1> DEFINE g == Go(h, "value_lws")
           c == CallbackData(g)
<1>1. CASE t # "crlf"
  BY <1>1, ValuePieceTurned DEF HeaderValue
<1>2. CASE t = "crlf"
  <2>1. /\ IsParser(g) /\ g.type = h.type /\ g.used = h.used /\ g.nread = h.nread
        /\ g.error = FALSE /\ g.stop = FALSE /\ g.state = "value_lws"
        /\ g.complete = h.complete /\ g.mark = h.mark
    BY DEF IsParser, Fields, ParserState, Go
  <2> HIDE DEF g
  <2>2. /\ IsParser(c) /\ c.type = h.type /\ c.used = h.used /\ c.nread = h.nread
        /\ c.error = FALSE /\ c.stop = FALSE /\ c.state = "value_lws"
        /\ c.complete = h.complete /\ c.mark = NoMark /\ c.headFieldTemp = <<>>
    BY <2>1, CallbackTurned DEF Pending
  <2> HIDE DEF c
  <2>3. ~Overflow(h) => Turned(h, c)
    BY <2>2 DEF Turned, Pending, NoMark
  <2>4. Turned(h, Fail(c))
    BY <2>2 DEF Turned, Fail, IsParser, Fields
  <2>5. HeaderValue(h, t) = IF Overflow(h) THEN Fail(c) ELSE c
    BY <1>2 DEF HeaderValue, c, g
  <2> QED BY <2>3, <2>4, <2>5
<1> QED BY <1>1, <1>2

LEMMA HeaderValueLwsTurned ==
  ASSUME NEW h, NEW t, IsParser(h), Pending(h), h.error = FALSE, h.stop = FALSE,
         h.state = "value_lws"
  PROVE  Turned(h, HeaderValueLws(h, t))
<1> DEFINE fl == h.flags \cup HeaderFlags(h)
           g == [h EXCEPT !.flags = fl, !.state = "field_start"]
<1>1. HeaderValueLws(h, t) = HeaderFieldStart(g, t)
  BY DEF HeaderValueLws
<1>2. /\ IsParser(g) /\ g.type = h.type /\ g.used = h.used /\ g.nread = h.nread
      /\ g.error = FALSE /\ g.stop = FALSE /\ g.state = "field_start"
      /\ g.complete = h.complete /\ g.mark = h.mark /\ g.headFieldTemp = <<>>
      /\ g.mark.kind # "field"
  BY DEF IsParser, Fields, ParserState, Pending
<1> HIDE DEF g
<1>3. Turned(g, HeaderFieldStart(g, t))
  BY <1>2, HeaderFieldStartTurned
<1> QED BY <1>1, <1>2, <1>3 DEF Turned

LEMMA HeaderValueDiscardLwsTurned ==
  ASSUME NEW h, NEW t, IsParser(h), Pending(h), h.error = FALSE, h.stop = FALSE,
         h.state = "empty_value"
  PROVE  Turned(h, HeaderValueDiscardLws(h, t))
<1> DEFINE g == Go(OnHeaderValue(h, <<>>), "field_start")
<1>1. CASE t = "sp"
  BY <1>1 DEF HeaderValueDiscardLws, Turned, Pending, IsParser, Fields, ParserState, Go
<1>2. CASE t # "sp" /\ h.name = ContentLength
  BY <1>2 DEF HeaderValueDiscardLws, Turned, Pending, IsParser, Fields, ParserState, Fail
<1>3. CASE t # "sp" /\ h.name # ContentLength
  <2>1. HeaderValueDiscardLws(h, t) = HeaderFieldStart(g, t)
    BY <1>3 DEF HeaderValueDiscardLws
  <2>2. /\ IsParser(g) /\ g.type = h.type /\ g.used = h.used /\ g.nread = h.nread
        /\ g.error = FALSE /\ g.stop = FALSE /\ g.state = "field_start"
        /\ g.complete = h.complete /\ g.mark = h.mark /\ g.headFieldTemp = <<>>
        /\ g.mark.kind # "field"
    BY DEF IsParser, Fields, ParserState, Pending, Go, OnHeaderValue
  <2> HIDE DEF g
  <2>3. Turned(g, HeaderFieldStart(g, t))
    BY <2>2, HeaderFieldStartTurned
  <2> QED BY <2>1, <2>2, <2>3 DEF Turned
<1> QED BY <1>1, <1>2, <1>3

LEMMA BodyIdentityTurned ==
  ASSUME NEW h, NEW t, IsParser(h), Pending(h), h.error = FALSE, h.stop = FALSE,
         h.state = "body"
  PROVE  Turned(h, BodyIdentity(h, t))
<1> DEFINE g == [Marked(h, "body", t) EXCEPT !.length = @ - 1]
           c == CallbackData(g)
<1>1. /\ IsParser(g) /\ g.type = h.type /\ g.used = h.used /\ g.nread = h.nread
      /\ g.error = FALSE /\ g.stop = FALSE /\ g.state = "body"
      /\ g.complete = h.complete /\ g.mark.kind = "body" /\ g.headFieldTemp = <<>>
  BY DEF IsParser, Fields, ParserState, Pending, Marked
<1>2. BodyIdentity(h, t) = IF g.length = 0 THEN MessageDone(c) ELSE g
  BY DEF BodyIdentity
<1> HIDE DEF g
<1>3. /\ IsParser(c) /\ c.type = h.type /\ c.used = h.used /\ c.nread = h.nread
      /\ c.error = FALSE /\ c.stop = FALSE /\ c.state = "body"
      /\ c.complete = h.complete /\ c.mark = NoMark /\ c.headFieldTemp = <<>>
  BY <1>1, CallbackTurned
<1> HIDE DEF c
<1>4. Turned(h, MessageDone(c))
  <2> DEFINE m == MessageDone(c)
  <2>1. /\ IsParser(m) /\ m.type = h.type /\ m.used = h.used /\ m.nread = h.nread
        /\ m.error = FALSE /\ m.stop = m.upgrade /\ m.complete = TRUE
        /\ m.mark = NoMark /\ m.headFieldTemp = <<>> /\ m.state \in {"start", "dead"}
    BY <1>3, Finished, ZenonT(40)
  <2> HIDE DEF m
  <2>2. Turned(h, m)
    BY <2>1 DEF Turned, Pending, NoMark
  <2> QED BY <2>2 DEF m
<1>5. Turned(h, g)
  BY <1>1 DEF Turned, Pending
<1> QED BY <1>2, <1>4, <1>5

LEMMA StartReqTurned ==
  ASSUME NEW h, NEW t, IsParser(h), Pending(h), h.error = FALSE, h.stop = FALSE,
         h.state = "start", h.type = "request"
  PROVE  Turned(h, StartReq(h, t))
BY DEF StartReq, Turned, Pending, IsParser, Fields, ParserState, Overflow,
       NewMessage, Fail

LEMMA StartResTurned ==
  ASSUME NEW h, NEW t, IsParser(h), Pending(h), h.error = FALSE, h.stop = FALSE,
         h.state = "start", h.type = "response"
  PROVE  Turned(h, StartRes(h, t))
BY DEF StartRes, Turned, Pending, IsParser, Fields, ParserState, Overflow,
       NewMessage, Fail

LEMMA DeadTurned ==
  ASSUME NEW h, NEW t, IsParser(h), Pending(h), h.error = FALSE, h.stop = FALSE,
         h.state = "dead"
  PROVE  Turned(h, Dead(h, t))
BY DEF Dead, Turned, Pending, IsParser, Fields, ParserState, Overflow, Fail

LEMMA ReqMethodTurned ==
  ASSUME NEW h, NEW t, IsParser(h), Pending(h), h.error = FALSE, h.stop = FALSE,
         h.state = "method"
  PROVE  Turned(h, ReqMethod(h, t))
BY DEF ReqMethod, Turned, Pending, IsParser, Fields, ParserState, Overflow, Go,
       Fail

LEMMA ReqSpacesBeforeUrlTurned ==
  ASSUME NEW h, NEW t, IsParser(h), Pending(h), h.error = FALSE, h.stop = FALSE,
         h.state = "before_url"
  PROVE  Turned(h, ReqSpacesBeforeUrl(h, t))
BY DEF ReqSpacesBeforeUrl, Turned, Pending, IsParser, Fields, ParserState,
       Overflow, Go, Fail, Marked

LEMMA ReqUrlTurned ==
  ASSUME NEW h, NEW t, IsParser(h), Pending(h), h.error = FALSE, h.stop = FALSE,
         h.state = "url"
  PROVE  Turned(h, ReqUrl(h, t))
BY DEF ReqUrl, Turned, Pending, IsParser, Fields, ParserState, Overflow, Go,
       CallbackData, OnUrl, OnHeaderField, OnHeaderValue, OnBody, NoMark,
       Marked

LEMMA ReqHttpTurned ==
  ASSUME NEW h, NEW t, IsParser(h), Pending(h), h.error = FALSE, h.stop = FALSE,
         h.state = "http"
  PROVE  Turned(h, ReqHttp(h, t))
BY DEF ReqHttp, Turned, Pending, IsParser, Fields, ParserState, Overflow, Fail

LEMMA ReqLineEndTurned ==
  ASSUME NEW h, NEW t, IsParser(h), Pending(h), h.error = FALSE, h.stop = FALSE,
         h.state = "line_end"
  PROVE  Turned(h, ReqLineEnd(h, t))
BY DEF ReqLineEnd, Turned, Pending, IsParser, Fields, ParserState, Overflow,
       Go, Fail

LEMMA ResHttpEndTurned ==
  ASSUME NEW h, NEW t, IsParser(h), Pending(h), h.error = FALSE, h.stop = FALSE,
         h.state = "res_http_end"
  PROVE  Turned(h, ResHttpEnd(h, t))
BY DEF ResHttpEnd, Turned, Pending, IsParser, Fields, ParserState, Overflow,
       Go, Fail

LEMMA ResStatusTurned ==
  ASSUME NEW h, NEW t, IsParser(h), Pending(h), h.error = FALSE, h.stop = FALSE,
         h.state = "status"
  PROVE  Turned(h, ResStatus(h, t))
BY DEF ResStatus, Turned, Pending, IsParser, Fields, ParserState, Overflow,
       Fail

LEMMA ResStatusEndTurned ==
  ASSUME NEW h, NEW t, IsParser(h), Pending(h), h.error = FALSE, h.stop = FALSE,
         h.state = "status_end"
  PROVE  Turned(h, ResStatusEnd(h, t))
BY DEF ResStatusEnd, Turned, Pending, IsParser, Fields, ParserState, Overflow,
       Go, Fail

LEMMA ResReasonTurned ==
  ASSUME NEW h, NEW t, IsParser(h), Pending(h), h.error = FALSE, h.stop = FALSE,
         h.state = "reason"
  PROVE  Turned(h, ResReason(h, t))
BY DEF ResReason, Turned, Pending, IsParser, Fields, ParserState, Overflow, Go

LEMMA BodyIdentityEofTurned ==
  ASSUME NEW h, NEW t, IsParser(h), Pending(h), h.error = FALSE, h.stop = FALSE,
         h.state = "body_eof"
  PROVE  Turned(h, BodyIdentityEof(h, t))
BY DEF BodyIdentityEof, Turned, Pending, IsParser, Fields, ParserState,
       Overflow, Marked

LEMMA ChunkSizeStartTurned ==
  ASSUME NEW h, NEW t, IsParser(h), Pending(h), h.error = FALSE, h.stop = FALSE,
         h.state = "chunk_start"
  PROVE  Turned(h, ChunkSizeStart(h, t))
BY DEF ChunkSizeStart, Turned, Pending, IsParser, Fields, ParserState,
       Overflow, Fail

LEMMA ChunkSizeTurned ==
  ASSUME NEW h, NEW t, IsParser(h), Pending(h), h.error = FALSE, h.stop = FALSE,
         h.state = "chunk_size"
  PROVE  Turned(h, ChunkSize(h, t))
BY ZenonT(40) DEF ChunkSize, Turned, Pending, IsParser, Fields, ParserState, Overflow,
       CountAgain, Go, Fail

LEMMA ChunkDataTurned ==
  ASSUME NEW h, NEW t, IsParser(h), Pending(h), h.error = FALSE, h.stop = FALSE,
         h.state = "chunk_data"
  PROVE  Turned(h, ChunkData(h, t))
BY DEF ChunkData, Turned, Pending, IsParser, Fields, ParserState, Overflow,
       Marked

LEMMA ChunkDataAlmostDoneTurned ==
  ASSUME NEW h, NEW t, IsParser(h), Pending(h), h.error = FALSE, h.stop = FALSE,
         h.state = "chunk_end"
  PROVE  Turned(h, ChunkDataAlmostDone(h, t))
BY ZenonT(40) DEF ChunkDataAlmostDone, Turned, Pending, IsParser, Fields, ParserState,
       Overflow, CallbackData, OnUrl, OnHeaderField, OnHeaderValue, OnBody,
       NoMark, CountAgain, Go, Fail

(* Whatever the state and the byte.                                        *)
LEMMA TurnTurned ==
  ASSUME NEW h, NEW t, IsParser(h), Pending(h), h.error = FALSE, h.stop = FALSE
  PROVE  Turned(h, Turn(h, t))
<1>1. h.state \in ParserState /\ h.type \in {"request", "response"}
  BY DEF IsParser
<1>2. CASE h.state = "start" /\ h.type = "request"
  BY <1>2, StartReqTurned DEF Turn
<1>3. CASE h.state = "start" /\ h.type = "response"
  BY <1>3, StartResTurned DEF Turn
<1>4. CASE h.state = "dead"
  BY <1>4, DeadTurned DEF Turn
<1>5. CASE h.state = "method"
  BY <1>5, ReqMethodTurned DEF Turn
<1>6. CASE h.state = "before_url"
  BY <1>6, ReqSpacesBeforeUrlTurned DEF Turn
<1>7. CASE h.state = "url"
  BY <1>7, ReqUrlTurned DEF Turn
<1>8. CASE h.state = "http"
  BY <1>8, ReqHttpTurned DEF Turn
<1>9. CASE h.state = "line_end"
  BY <1>9, ReqLineEndTurned DEF Turn
<1>10. CASE h.state = "res_http_end"
  BY <1>10, ResHttpEndTurned DEF Turn
<1>11. CASE h.state = "status"
  BY <1>11, ResStatusTurned DEF Turn
<1>12. CASE h.state = "status_end"
  BY <1>12, ResStatusEndTurned DEF Turn
<1>13. CASE h.state = "reason"
  BY <1>13, ResReasonTurned DEF Turn
<1>14. CASE h.state = "field_start"
  BY <1>14, HeaderFieldStartTurned DEF Turn, Pending
<1>15. CASE h.state = "field"
  BY <1>15, HeaderFieldTurned DEF Turn
<1>16. CASE h.state = "value_ws"
  BY <1>16, HeaderValueStartTurned DEF Turn
<1>17. CASE h.state = "value"
  BY <1>17, HeaderValueTurned DEF Turn
<1>18. CASE h.state = "value_lws"
  BY <1>18, HeaderValueLwsTurned DEF Turn
<1>19. CASE h.state = "empty_value"
  BY <1>19, HeaderValueDiscardLwsTurned DEF Turn
<1>20. CASE h.state = "body"
  BY <1>20, BodyIdentityTurned DEF Turn
<1>21. CASE h.state = "body_eof"
  BY <1>21, BodyIdentityEofTurned DEF Turn
<1>22. CASE h.state = "chunk_start"
  BY <1>22, ChunkSizeStartTurned DEF Turn
<1>23. CASE h.state = "chunk_size"
  BY <1>23, ChunkSizeTurned DEF Turn
<1>24. CASE h.state = "chunk_data"
  BY <1>24, ChunkDataTurned DEF Turn
<1>25. CASE h.state = "chunk_end"
  BY <1>25, ChunkDataAlmostDoneTurned DEF Turn
<1> QED BY <1>1, <1>2, <1>3, <1>4, <1>5, <1>6, <1>7, <1>8, <1>9, <1>10, <1>11,
           <1>12, <1>13, <1>14, <1>15, <1>16, <1>17, <1>18, <1>19, <1>20,
           <1>21, <1>22, <1>23, <1>24, <1>25 DEF ParserState

------------------------------------------------------------------------------
(* The loop: what holds before and after each byte.  Without an error the  *)
(* count of the header bytes is within the limit, or a string is being     *)
(* read whose loop has yet to compare it.                                  *)
InLoop(h) ==
  /\ IsParser(h)
  /\ h.stop => h.upgrade /\ h.complete
  /\ h.error = FALSE =>
       /\ Pending(h)
       /\ h.state = "chunk_start" => h.nread = 0
       /\ h.stop => h.state \in {"start", "dead"}
       /\ \/ h.nread <= HTTP_MAX_HEADER_SIZE
          \/ h.state \in {"field", "value"} /\ h.stop = FALSE

(* A byte is taken, unless the loop has been left or the parser has failed.*)
LEMMA AdvanceLoop ==
  ASSUME NEW h, NEW t, InLoop(h)
  PROVE  LET g == Advance(h, t)
         IN  /\ InLoop(g) /\ g.type = h.type
             /\ g.error \/ g.stop \/ g.used = h.used + 1
             /\ h.error \/ h.stop => g = h
             /\ h.complete => g.complete
             /\ g.complete => h.complete \/ g.error \/ g.state \in {"start", "dead"}
<1> DEFINE c == Counted(h)
           u == Turn(c, t)
           g == Advance(h, t)
<1>1. CASE h.error \/ h.stop
  BY <1>1 DEF Advance
<1>2. CASE ~(h.error \/ h.stop)
  <2>1. h.error = FALSE /\ h.stop = FALSE
    BY <1>2 DEF InLoop, IsParser
  <2>2. /\ IsParser(c) /\ Pending(c) /\ c.error = FALSE /\ c.stop = FALSE /\ c.type = h.type
        /\ c.used = h.used /\ c.state = h.state /\ c.complete = h.complete
        /\ h.state \in {"field", "value"} \/ h.nread <= HTTP_MAX_HEADER_SIZE
    BY <2>1 DEF InLoop, Counted, IsParser, Pending, Fields
  <2> HIDE DEF c
  <2>3. Turned(c, u)
    BY <2>2, TurnTurned
  <2> HIDE DEF u
  <2>4. CASE Overflow(c) /\ ~Scanning(h)
    <3>1. g = Fail(c)
      BY <1>2, <2>4 DEF Advance, c
    <3> HIDE DEF g
    <3>2. /\ g.error = TRUE /\ g.stop = FALSE /\ IsParser(g) /\ g.type = h.type
          /\ g.complete = h.complete
      BY <2>2, <3>1 DEF Fail, IsParser, Fields
    <3> QED BY <1>2, <3>2 DEF InLoop, g
  <2>5. CASE ~(Overflow(c) /\ ~Scanning(h))
    <3>1. g = [u EXCEPT !.used = @ + 1]
      BY <1>2, <2>5 DEF Advance, c, u
    <3> HIDE DEF g
    <3>2. /\ IsParser(g) /\ g.type = h.type /\ g.used = h.used + 1 /\ (g.stop => g.upgrade /\ g.complete)
          /\ g.nread = u.nread /\ g.error = u.error /\ g.state = u.state /\ g.stop = u.stop
          /\ (u.error = FALSE => Pending(g)) /\ (h.complete => g.complete)
      BY <2>2, <2>3, <3>1 DEF Turned, IsParser, Fields, Pending
    <3>3. ASSUME u.error = FALSE
          PROVE  \/ u.nread <= HTTP_MAX_HEADER_SIZE
                 \/ u.state \in {"field", "value"} /\ u.stop = FALSE
      <4>1. CASE Overflow(c)
        <5>1. h.state \in {"field", "value"}
          BY <2>5, <4>1 DEF Scanning
        <5> QED BY <2>2, <2>3, <3>3, <4>1, <5>1 DEF Turned
      <4>2. CASE ~Overflow(c)
        <5>1. u.nread \in {c.nread, 0} /\ c.nread \in Nat
          BY <2>2, <2>3 DEF Turned, IsParser
        <5> QED BY <4>2, <5>1, HeaderSizeIsPositive DEF Overflow
      <4> QED BY <4>1, <4>2
    <3>4. InLoop(g)
      BY <2>3, <3>2, <3>3 DEF InLoop, Turned
    <3>5. g.complete => h.complete \/ g.error \/ g.state \in {"start", "dead"}
      <4>1. g.complete = u.complete
        BY <2>3, <3>1 DEF Turned, IsParser, Fields
      <4>2. u.error = FALSE => (u.complete => c.complete \/ u.state \in {"start", "dead"})
        BY <2>3 DEF Turned
      <4>3. u.error \in BOOLEAN
        BY <2>3 DEF Turned, IsParser
      <4> QED BY <2>2, <3>2, <4>1, <4>2, <4>3
    <3> QED BY <1>2, <3>2, <3>4, <3>5 DEF g
  <2> QED BY <2>4, <2>5
<1> QED BY <1>1, <1>2

------------------------------------------------------------------------------
(* A set with 0 and every successor has all naturals: the least that were  *)
(* not in it could be neither.                                             *)
LEMMA NatSetInduction ==
  ASSUME NEW S, 0 \in S, \A n \in Nat : n \in S => n + 1 \in S
  PROVE  Nat \subseteq S
<1> DEFINE R == {ss \in Nat \X Nat : ss[1] < ss[2]}
           T == {n \in Nat : n \notin S}
<1>1. IsWellFoundedOn(R, Nat)
  BY NatLessThanWellFounded DEF OpToRel
<1>2. SUFFICES ASSUME T # {} PROVE FALSE
  OBVIOUS
<1>3. T \subseteq Nat
  OBVIOUS
<1>4. PICK m \in T : \A y \in T : ~(<<y, m>> \in R)
  <2> HIDE DEF R, T
  <2> QED BY <1>1, <1>2, <1>3, WFMin
<1>5. m # 0 /\ m \in Nat
  OBVIOUS
<1>6. m - 1 \in Nat /\ m - 1 < m
  BY <1>5
<1>7. <<m - 1, m>> \in R
  BY <1>5, <1>6
<1>8. m - 1 \in S
  BY <1>4, <1>5, <1>6, <1>7
<1>9. m \in S
  BY <1>5, <1>6, <1>8
<1> QED BY <1>9

(* Max of a finite set of naturals, which is what the fold takes next.     *)
LEMMA MaxOf ==
  ASSUME NEW n \in Nat, NEW s \in SUBSET (1..n), s # {}
  PROVE  Max(s) \in s /\ \A y \in s : Max(s) >= y
<1> DEFINE S == {k \in Nat : \A r \in SUBSET (1..k) :
                   r # {} => \E x \in r : \A y \in r : x >= y}
<1>1. 0 \in S
  <2>1. 1..0 = {}
    OBVIOUS
  <2> QED BY <2>1
<1>2. ASSUME NEW k \in Nat, k \in S PROVE k + 1 \in S
  <2>1. ASSUME NEW r \in SUBSET (1..(k + 1)), r # {}
        PROVE  \E x \in r : \A y \in r : x >= y
    <3>1. CASE k + 1 \in r
      BY <3>1
    <3>2. CASE k + 1 \notin r
      <4>1. r \in SUBSET (1..k)
        BY <3>2
      <4> QED BY <1>2, <2>1, <4>1
    <3> QED BY <3>1, <3>2
  <2> QED BY <2>1
<1> HIDE DEF S
<1>3. Nat \subseteq S
  BY <1>1, <1>2, NatSetInduction
<1>4. \E x \in s : \A y \in s : x >= y
  BY <1>3 DEF S
<1> QED BY <1>4 DEF Max

(* The function FoldLeft is defined by: f[s] is the loop over the bytes    *)
(* whose places are in s.                                                  *)
IsFold(f, h, bytes, D) ==
  f = [s \in SUBSET D |-> IF s = {} THEN h
                          ELSE Advance(f[s \ {Max(s)}], bytes[Max(s)])]

(* FoldLeft takes it by CHOOSE, so there has to be one.                    *)
LEMMA FoldExists ==
  ASSUME NEW h, NEW bytes, NEW n \in Nat
  PROVE  \E f : IsFold(f, h, bytes, 1..n)
<1> DEFINE S == {k \in Nat : \E f : IsFold(f, h, bytes, 1..k)}
<1>1. 0 \in S
  <2>1. IsFold([s \in SUBSET (1..0) |-> h], h, bytes, 1..0)
    BY DEF IsFold
  <2> QED BY <2>1
<1>2. ASSUME NEW k \in Nat, k \in S PROVE k + 1 \in S
  <2>1. PICK f : IsFold(f, h, bytes, 1..k)
    BY <1>2
  <2> DEFINE g == [s \in SUBSET (1..(k + 1)) |->
                     IF k + 1 \in s THEN Advance(f[s \ {k + 1}], bytes[k + 1])
                     ELSE f[s]]
  <2>2. ASSUME NEW s \in SUBSET (1..k) PROVE g[s] = f[s]
    <3>1. s \in SUBSET (1..(k + 1)) /\ k + 1 \notin s
      OBVIOUS
    <3> QED BY <3>1
  <2>3. ASSUME NEW s \in SUBSET (1..k)
        PROVE  f[s] = IF s = {} THEN h
                      ELSE Advance(f[s \ {Max(s)}], bytes[Max(s)])
    BY <2>1, Zenon DEF IsFold
  <2>4. ASSUME NEW s \in SUBSET (1..(k + 1))
        PROVE  g[s] = IF s = {} THEN h
                      ELSE Advance(g[s \ {Max(s)}], bytes[Max(s)])
    <3>1. CASE k + 1 \in s
      <4>1. Max(s) \in s /\ \A y \in s : Max(s) >= y
        BY <3>1, MaxOf, k + 1 \in Nat
      <4>2. Max(s) = k + 1
        <5> DEFINE m == Max(s)
        <5>1. m \in 1..(k + 1) /\ m >= k + 1
          BY <3>1, <4>1
        <5> HIDE DEF m
        <5>2. m = k + 1
          BY <5>1
        <5> QED BY <5>2 DEF m
      <4>3. s \ {k + 1} \in SUBSET (1..k)
        OBVIOUS
      <4>4. g[s \ {k + 1}] = f[s \ {k + 1}]
        BY <2>2, <4>3
      <4>5. g[s] = Advance(f[s \ {k + 1}], bytes[k + 1])
        BY <3>1
      <4> HIDE DEF g
      <4> QED BY <3>1, <4>2, <4>4, <4>5
    <3>2. CASE k + 1 \notin s
      <4>0. ASSUME NEW x \in s PROVE x \in 1..k
        <5>1. x \in 1..(k + 1) /\ x # k + 1
          BY <3>2
        <5> QED BY <5>1
      <4>1. s \in SUBSET (1..k) /\ s \ {Max(s)} \in SUBSET (1..k)
        BY <4>0
      <4> HIDE DEF g
      <4> QED BY <2>2, <2>3, <4>1
    <3> QED BY <3>1, <3>2
  <2>5. g = [s \in SUBSET (1..(k + 1)) |-> g[s]]
    OBVIOUS
  <2> HIDE DEF g
  <2>6. IsFold(g, h, bytes, 1..(k + 1))
    BY <2>4, <2>5, Zenon DEF IsFold
  <2> QED BY <2>6
<1> HIDE DEF S
<1>3. Nat \subseteq S
  BY <1>1, <1>2, NatSetInduction
<1> QED BY <1>3 DEF S

LEMMA FoldUnfold ==
  ASSUME NEW h, NEW bytes
  PROVE  LET f == CHOOSE f : IsFold(f, h, bytes, DOMAIN bytes)
         IN  FoldLeft(Advance, h, bytes) = f[DOMAIN bytes]
BY DEF FoldLeft, MapThenFoldSet, IsFold

(* The loop as a sequence of turns: run[k] is the parser after k bytes.    *)
IsRun(run, h, bytes) ==
  /\ run[0] = h
  /\ \A k \in 0..(Len(bytes) - 1) : run[k + 1] = Advance(run[k], bytes[k + 1])
  /\ run[Len(bytes)] = FoldLeft(Advance, h, bytes)

LEMMA RunExists ==
  ASSUME NEW h, NEW S, NEW bytes \in Seq(S)
  PROVE  \E run : IsRun(run, h, bytes)
<1> DEFINE n == Len(bytes)
           f == CHOOSE f : IsFold(f, h, bytes, 1..n)
           run == [k \in 0..n |-> f[1..k]]
<1>1. n \in Nat /\ DOMAIN bytes = 1..n
  BY LenProperties
<1>2. IsFold(f, h, bytes, 1..n)
  <2> HIDE DEF n
  <2> QED BY <1>1, FoldExists
<1>3. FoldLeft(Advance, h, bytes) = f[1..n]
  BY <1>1, FoldUnfold
<1> HIDE DEF f, n
<1>4. ASSUME NEW s \in SUBSET (1..n)
      PROVE  f[s] = IF s = {} THEN h ELSE Advance(f[s \ {Max(s)}], bytes[Max(s)])
  BY <1>2, Zenon DEF IsFold
<1>5. run[0] = h
  <2>1. 1..0 = {} /\ {} \in SUBSET (1..n) /\ 0 \in 0..n
    BY <1>1
  <2> QED BY <1>4, <2>1
<1>6. ASSUME NEW k \in 0..(n - 1)
      PROVE  run[k + 1] = Advance(run[k], bytes[k + 1])
  <2> DEFINE s == 1..(k + 1)
  <2>1. k \in Nat /\ k \in 0..n /\ k + 1 \in 0..n /\ k + 1 \in Nat
    BY <1>1
  <2>2. s \in SUBSET (1..n) /\ s # {} /\ s \ {k + 1} = 1..k
    <3>1. \A i \in s : i \in 1..n
      BY <1>1, <2>1
    <3>2. k + 1 \in s
      BY <2>1
    <3>3. s \ {k + 1} = 1..k
      BY <2>1
    <3> HIDE DEF s
    <3> QED BY <3>1, <3>2, <3>3
  <2>3. Max(s) = k + 1
    <3>1. Max(s) \in s /\ \A y \in s : Max(s) >= y
      BY <2>1, <2>2, MaxOf
    <3> DEFINE m == Max(s)
    <3>2. m \in 1..(k + 1) /\ m >= k + 1
      BY <2>1, <3>1
    <3> HIDE DEF m
    <3>3. m = k + 1
      BY <2>1, <3>2
    <3> QED BY <3>3 DEF m
  <2>4. run[k + 1] = f[s] /\ run[k] = f[1..k]
    BY <2>1
  <2> HIDE DEF s, run
  <2>5. f[s] = Advance(f[1..k], bytes[k + 1])
    BY <1>4, <2>2, <2>3
  <2> QED BY <2>4, <2>5
<1>7. run[n] = f[1..n]
  BY <1>1
<1> HIDE DEF run
<1>8. IsRun(run, h, bytes)
  BY <1>3, <1>5, <1>6, <1>7, Zenon DEF IsRun, n
<1> QED BY <1>8

(* By induction over the bytes: the loop keeps what a turn keeps, and all  *)
(* bytes are used unless it was left.                                      *)
LEMMA LoopResult ==
  ASSUME NEW h, InLoop(h), h.used = 0, NEW S, NEW bytes \in Seq(S)
  PROVE  LET g == FoldLeft(Advance, h, bytes)
         IN  /\ InLoop(g) /\ g.type = h.type
             /\ g.error \/ g.stop \/ g.used = Len(bytes)
             /\ h.complete => g.complete
<1> DEFINE n == Len(bytes)
<1>1. n \in Nat
  BY LenProperties
<1>2. PICK run : IsRun(run, h, bytes)
  BY RunExists
<1> DEFINE Good(k) == /\ InLoop(run[k]) /\ run[k].type = h.type
                      /\ run[k].error \/ run[k].stop \/ run[k].used = k
                      /\ h.complete => run[k].complete
           T == {k \in Nat : k <= n => Good(k)}
<1>3. 0 \in T
  <2>1. run[0] = h
    BY <1>2 DEF IsRun
  <2> QED BY <2>1
<1>4. ASSUME NEW k \in Nat, k \in T PROVE k + 1 \in T
  <2>1. ASSUME k + 1 <= n PROVE Good(k + 1)
    <3>1. k \in 0..(n - 1) /\ k <= n
      BY <1>1, <2>1
    <3>2. run[k + 1] = Advance(run[k], bytes[k + 1])
      BY <1>2, <3>1 DEF IsRun
    <3>3. Good(k)
      BY <1>4, <3>1
    <3>4. /\ InLoop(run[k + 1]) /\ run[k + 1].type = run[k].type
          /\ run[k + 1].error \/ run[k + 1].stop \/ run[k + 1].used = run[k].used + 1
          /\ run[k].error \/ run[k].stop => run[k + 1] = run[k]
          /\ run[k].complete => run[k + 1].complete
      BY <3>2, <3>3, AdvanceLoop
    <3> QED BY <3>3, <3>4
  <2> HIDE DEF Good
  <2> QED BY <2>1
<1> HIDE DEF T, Good
<1>5. Nat \subseteq T
  BY <1>3, <1>4, NatSetInduction
<1>6. Good(n)
  BY <1>1, <1>5 DEF T
<1>7. run[n] = FoldLeft(Advance, h, bytes)
  BY <1>2 DEF IsRun
<1> QED BY <1>6, <1>7 DEF Good

------------------------------------------------------------------------------
(* Calls of http_parser_execute.                                           *)

(* Between two of them: no string is marked, a pending name waits for its  *)
(* value, the count is within the limit and fresh before a chunk.          *)
AtRest(h) ==
  /\ IsParser(h)
  /\ h.stop = FALSE
  /\ h.mark = NoMark
  /\ h.error = FALSE =>
       /\ h.headFieldTemp # <<>> => h.state \in {"field", "value_ws", "empty_value"}
       /\ h.state = "chunk_start" => h.nread = 0
       /\ h.nread <= HTTP_MAX_HEADER_SIZE

LEMMA NewAtRest ==
  ASSUME NEW type \in {"request", "response"}
  PROVE  /\ AtRest(NewParser(type)) /\ NewParser(type).complete = FALSE
         /\ NewParser(type).error = FALSE
BY HeaderSizeIsPositive DEF AtRest, IsParser, NewParser, Fields, ParserState, NoMark

(* Bytes that are left over are those behind an error or an upgrade.       *)
LEMMA AfterBytes ==
  ASSUME NEW h, AtRest(h), NEW S, NEW bytes \in Seq(S), bytes # <<>>
  PROVE  LET g == Execute(h, bytes)
         IN  /\ AtRest(Idle(g)) /\ Idle(g).error = g.error /\ g.type = h.type
             /\ Idle(g).upgrade = g.upgrade /\ Idle(g).complete = g.complete
             /\ IsParser(g) /\ g.used \in Nat
             /\ LeftOver(g, bytes) # <<>> => g.error \/ (g.upgrade /\ g.complete)
             /\ h.complete => g.complete
<1> DEFINE r == Resume(h)
           f == FoldLeft(Advance, r, bytes)
           g == Execute(h, bytes)
<1>1. CASE h.error
  <2>1. g = h
    BY <1>1 DEF Execute
  <2> QED BY <1>1, <2>1 DEF AtRest, Idle, IsParser, Fields
<1>2. CASE ~h.error
  <2>1. h.error = FALSE
    BY <1>2 DEF AtRest, IsParser
  <2>2. InLoop(r) /\ r.used = 0 /\ r.type = h.type /\ r.complete = h.complete
    BY <2>1 DEF Resume, AtRest, InLoop, IsParser, Fields, Pending, NoMark
  <2> HIDE DEF r
  <2>3. /\ InLoop(f) /\ f.type = h.type
        /\ f.error \/ f.stop \/ f.used = Len(bytes)
        /\ h.complete => f.complete
    BY <2>2, LoopResult
  <2>4. g = ExecuteBytes(h, bytes)
    BY <1>2 DEF Execute
  <2> HIDE DEF f
  <2> HIDE DEF g
  <2>5. CASE f.error \/ f.stop
    <3>1. g = [f EXCEPT !.mark = NoMark]
      BY <2>4, <2>5 DEF ExecuteBytes, f, r
    <3>2. /\ IsParser(g) /\ g.mark = NoMark /\ g.type = h.type /\ g.error = f.error
          /\ g.upgrade = f.upgrade /\ g.complete = f.complete /\ (h.complete => g.complete)
          /\ g.state = f.state /\ g.nread = f.nread /\ g.headFieldTemp = f.headFieldTemp
      BY <2>3, <3>1 DEF InLoop, IsParser, Fields
    <3>3. g.error \/ (g.upgrade /\ g.complete)
      BY <2>3, <2>5, <3>2 DEF InLoop
    <3>4. g.error = FALSE => /\ g.headFieldTemp = <<>> /\ g.state \in {"start", "dead"}
                            /\ g.nread <= HTTP_MAX_HEADER_SIZE
      BY <2>3, <2>5, <3>2 DEF InLoop, Pending
    <3>5. AtRest(Idle(g)) /\ Idle(g).error = g.error /\ Idle(g).upgrade = g.upgrade
          /\ Idle(g).complete = g.complete /\ g.used \in Nat
      BY <3>2, <3>4 DEF AtRest, Idle, IsParser, Fields
    <3> QED BY <3>2, <3>3, <3>5 DEF g
  <2>6. CASE ~(f.error \/ f.stop) /\ Overflow(f)
    <3>1. g = Fail([f EXCEPT !.mark = NoMark])
      BY <2>4, <2>6 DEF ExecuteBytes, f, r
    <3>2. /\ IsParser(g) /\ g.mark = NoMark /\ g.type = h.type /\ g.error = TRUE
          /\ (h.complete => g.complete)
      BY <2>3, <3>1 DEF InLoop, IsParser, Fields, Fail
    <3>3. AtRest(Idle(g)) /\ Idle(g).error = g.error /\ Idle(g).upgrade = g.upgrade
          /\ Idle(g).complete = g.complete /\ g.used \in Nat
      BY <3>2 DEF AtRest, Idle, IsParser, Fields
    <3> QED BY <3>2, <3>3 DEF g
  <2>7. CASE ~(f.error \/ f.stop) /\ ~Overflow(f)
    <3>1. g = CallbackData(f)
      BY <2>4, <2>7 DEF ExecuteBytes, f, r
    <3>2. f.error = FALSE /\ f.stop = FALSE /\ f.nread <= HTTP_MAX_HEADER_SIZE
      BY <2>3, <2>7, HeaderSizeIsPositive DEF InLoop, IsParser, Overflow
    <3>3. /\ IsParser(g) /\ g.mark = NoMark /\ g.type = h.type /\ g.error = FALSE
          /\ (h.complete => g.complete) /\ g.used = Len(bytes)
          /\ g.state = f.state /\ g.nread = f.nread
          /\ f.mark.kind = "value" => g.headFieldTemp = <<>>
          /\ f.mark.kind # "field" /\ f.headFieldTemp = <<>> => g.headFieldTemp = <<>>
      BY <2>3, <2>7, <3>1, <3>2, CallbackTurned DEF InLoop
    <3>4. g.headFieldTemp # <<>> => g.state \in {"field", "value_ws", "empty_value"}
      BY <2>3, <3>2, <3>3 DEF InLoop, Pending
    <3>5. AtRest(Idle(g)) /\ Idle(g).error = g.error /\ Idle(g).upgrade = g.upgrade
          /\ Idle(g).complete = g.complete /\ g.used \in Nat
      BY <2>3, <3>2, <3>3, <3>4 DEF AtRest, Idle, IsParser, Fields, InLoop
    <3>6. LeftOver(g, bytes) = <<>>
      <4>1. Len(bytes) \in Nat
        BY LenProperties
      <4>2. SubSeq(bytes, Len(bytes) + 1, Len(bytes)) = <<>>
        BY <4>1, SubSeqEmpty
      <4> QED BY <3>3, <4>2 DEF LeftOver
    <3> QED BY <3>3, <3>5, <3>6 DEF g
  <2> QED BY <2>5, <2>6, <2>7
<1> QED BY <1>1, <1>2

LEMMA AfterReset ==
  ASSUME NEW h, AtRest(h)
  PROVE  LET g == ResetMessage(h)
         IN  /\ AtRest(g) /\ g.complete = FALSE /\ g.error = h.error
             /\ g.upgrade = h.upgrade /\ g.type = h.type /\ g.state = h.state
BY DEF ResetMessage, AtRest, IsParser, Fields

------------------------------------------------------------------------------
(* The pieces of a stream.                                                 *)

(* The pieces of a stream are strings.  Those of HTTP and of the opening   *)
(* handshake are named, for the provers know of no literal that it is in   *)
(* STRING.                                                                 *)
Piece == STRING \cup {"GET", "/", "HTTP/1.1", "sp", "crlf", ":", "Connection", "Up", "grade",
                      "web", "socket", "Sec-WebSocket-Version", "13", "Sec-WebSocket-Key",
                      "101", "400", "reason", "Sec-WebSocket-Accept", "digest"}
               \cup Method \cup Version \cup Status \cup Digit
               \cup {"Content-Length", "Transfer-Encoding", "chunked"}

MessageFields == {"method", "url", "version", "status", "headers", "body"}

------------------------------------------------------------------------------
(* FlattenSeq, and the bytes of messages.                                  *)

IsFlat(f, seqs, n) ==
  f = [i \in 1..n |-> IF i = 1 THEN seqs[i] ELSE f[i - 1] \o seqs[i]]

(* The recursive function that FlattenSeq defines exists: by induction.    *)
LEMMA FlatExists ==
  ASSUME NEW seqs, NEW n \in Nat
  PROVE  \E f : IsFlat(f, seqs, n)
<1> DEFINE S == {k \in Nat : \E f : IsFlat(f, seqs, k)}
<1>1. 0 \in S
  <2>1. IsFlat([i \in 1..0 |-> <<>>], seqs, 0)
    BY DEF IsFlat
  <2> QED BY <2>1
<1>2. ASSUME NEW k \in Nat, k \in S PROVE k + 1 \in S
  <2>1. PICK f : IsFlat(f, seqs, k)
    BY <1>2
  <2> DEFINE g == [i \in 1..(k + 1) |-> IF i = 1 THEN seqs[i] ELSE f[i - 1] \o seqs[i]]
  <2>2. ASSUME NEW i \in 1..k PROVE g[i] = f[i]
    <3>1. f[i] = IF i = 1 THEN seqs[i] ELSE f[i - 1] \o seqs[i]
      BY <2>1 DEF IsFlat
    <3> QED BY <3>1
  <2>3. ASSUME NEW i \in 1..(k + 1), i # 1 PROVE g[i - 1] = f[i - 1]
    <3>1. i - 1 \in 1..k
      BY <2>3
    <3> QED BY <2>2, <3>1
  <2>4. IsFlat(g, seqs, k + 1)
    BY <2>3 DEF IsFlat
  <2> HIDE DEF g
  <2> QED BY <2>4
<1> HIDE DEF S
<1>3. Nat \subseteq S
  BY <1>1, <1>2, NatSetInduction
<1> QED BY <1>3 DEF S

(* The same, place by place.                                               *)
Joins(f, seqs, n) ==
  /\ f[1] = seqs[1]
  /\ \A i \in 1..(n - 1) : f[i + 1] = f[i] \o seqs[i + 1]

(* FlattenSeq is its last value, and each value extends the one before.    *)
LEMMA FlatUnfold ==
  ASSUME NEW seqs, NEW n \in Nat, n = Len(seqs), n # 0
  PROVE  \E f : FlattenSeq(seqs) = f[n] /\ Joins(f, seqs, n)
<1> DEFINE f == CHOOSE f : IsFlat(f, seqs, n)
<1>1. IsFlat(f, seqs, n)
  BY FlatExists
<1>2. FlattenSeq(seqs) = f[n]
  BY DEF FlattenSeq, IsFlat
<1> HIDE DEF f
<1>3. \A i \in 1..n : f[i] = IF i = 1 THEN seqs[i] ELSE f[i - 1] \o seqs[i]
  BY <1>1, Zenon DEF IsFlat
<1>4. f[1] = seqs[1]
  BY <1>3
<1>5. ASSUME NEW i \in 1..(n - 1) PROVE f[i + 1] = f[i] \o seqs[i + 1]
  <2>1. i + 1 \in 1..n /\ i + 1 # 1 /\ (i + 1) - 1 = i
    OBVIOUS
  <2> QED BY <1>3, <2>1
<1> QED BY <1>2, <1>4, <1>5 DEF Joins

(* FlattenSeq of one sequence, of four and of three.                       *)
LEMMA FlattenOne ==
  ASSUME NEW a
  PROVE  FlattenSeq(<<a>>) = a
<1>1. Len(<<a>>) = 1 /\ 1 \in Nat /\ 1 # 0
  OBVIOUS
<1>2. PICK f : FlattenSeq(<<a>>) = f[1] /\ Joins(f, <<a>>, 1)
  BY <1>1, FlatUnfold
<1> QED BY <1>2 DEF Joins

LEMMA FlattenFour ==
  ASSUME NEW s, Len(s) = 4
  PROVE  FlattenSeq(s) = ((s[1] \o s[2]) \o s[3]) \o s[4]
<1>1. 4 \in Nat /\ 4 # 0
  OBVIOUS
<1>2. PICK f : FlattenSeq(s) = f[4] /\ Joins(f, s, 4)
  BY <1>1, FlatUnfold
<1>3. f[2] = f[1] \o s[2]
  <2>1. 1 \in 1..(4 - 1) /\ 1 + 1 = 2
    OBVIOUS
  <2> QED BY <1>2, <2>1 DEF Joins
<1>4. f[3] = f[2] \o s[3]
  <2>1. 2 \in 1..(4 - 1) /\ 2 + 1 = 3
    OBVIOUS
  <2> QED BY <1>2, <2>1 DEF Joins
<1>5. f[4] = f[3] \o s[4]
  <2>1. 3 \in 1..(4 - 1) /\ 3 + 1 = 4
    OBVIOUS
  <2> QED BY <1>2, <2>1 DEF Joins
<1> QED BY <1>2, <1>3, <1>4, <1>5 DEF Joins

LEMMA FlattenThree ==
  ASSUME NEW s, Len(s) = 3
  PROVE  FlattenSeq(s) = (s[1] \o s[2]) \o s[3]
<1>1. 3 \in Nat /\ 3 # 0
  OBVIOUS
<1>2. PICK f : FlattenSeq(s) = f[3] /\ Joins(f, s, 3)
  BY <1>1, FlatUnfold
<1>3. f[2] = f[1] \o s[2]
  <2>1. 1 \in 1..(3 - 1) /\ 1 + 1 = 2
    OBVIOUS
  <2> QED BY <1>2, <2>1 DEF Joins
<1>4. f[3] = f[2] \o s[3]
  <2>1. 2 \in 1..(3 - 1) /\ 2 + 1 = 3
    OBVIOUS
  <2> QED BY <1>2, <2>1 DEF Joins
<1> QED BY <1>2, <1>3, <1>4 DEF Joins

(* All at once and one behind the other.                                   *)
LEMMA FlattenConcat ==
  ASSUME NEW S, NEW a \in Seq(Seq(S)), NEW b \in Seq(Seq(S)), Len(a) # 0, Len(b) # 0
  PROVE  /\ FlattenSeq(a) \in Seq(S)
         /\ FlattenSeq(a \o b) = FlattenSeq(a) \o FlattenSeq(b)
<1> DEFINE m == Len(a)
           n == Len(b)
           s == a \o b
<1>1. m \in Nat /\ n \in Nat /\ Len(s) = m + n
  BY LenProperties, ConcatProperties
<1>2. /\ \A i \in 1..m : s[i] = a[i] /\ a[i] \in Seq(S)
      /\ \A i \in 1..n : s[m + i] = b[i] /\ b[i] \in Seq(S)
  <2>1. \A i \in 1..(m + n) : s[i] = IF i <= m THEN a[i] ELSE b[i - m]
    BY ConcatProperties
  <2>2. \A i \in 1..n : m + i \in 1..(m + n) /\ ~(m + i <= m) /\ (m + i) - m = i
    BY <1>1
  <2>3. \A i \in 1..m : i \in 1..(m + n) /\ i <= m
    BY <1>1
  <2> QED BY <2>1, <2>2, <2>3, ElementOfSeq
<1> HIDE DEF s
<1> DEFINE e == m + n
<1>0. e \in Nat /\ e = Len(s) /\ e # 0
  BY <1>1
<1> HIDE DEF e
<1>3. PICK f : FlattenSeq(s) = f[e] /\ Joins(f, s, e)
  BY <1>0, FlatUnfold
<1>4. PICK g : FlattenSeq(a) = g[m] /\ Joins(g, a, m)
  BY <1>1, FlatUnfold
<1>5. PICK k : FlattenSeq(b) = k[n] /\ Joins(k, b, n)
  BY <1>1, FlatUnfold
<1> HIDE DEF m, n
<1> DEFINE A == {j \in Nat : j + 1 <= m => f[j + 1] = g[j + 1] /\ g[j + 1] \in Seq(S)}
           B == {j \in Nat : j + 1 <= n => /\ f[m + (j + 1)] = g[m] \o k[j + 1]
                                           /\ k[j + 1] \in Seq(S)}
<1>6. m \in Nat /\ n \in Nat /\ m # 0 /\ n # 0
  BY <1>1 DEF m, n
<1>7. 0 \in A
  BY <1>2, <1>3, <1>4, <1>6 DEF Joins
<1>8. ASSUME NEW j \in Nat, j \in A PROVE j + 1 \in A
  <2> DEFINE i == j + 1
             l == i + 1
  <2> SUFFICES ASSUME l <= m PROVE f[l] = g[l] /\ g[l] \in Seq(S)
    OBVIOUS
  <2>1. i \in 1..(m - 1) /\ i \in 1..(e - 1) /\ l \in 1..m /\ i <= m /\ l = i + 1
    BY <1>6 DEF e
  <2>2. f[i] = g[i] /\ g[i] \in Seq(S)
    BY <1>8, <2>1
  <2> HIDE DEF i, l
  <2>3. f[l] = f[i] \o s[l] /\ g[l] = g[i] \o a[l]
    BY <1>3, <1>4, <2>1 DEF Joins
  <2>4. s[l] = a[l] /\ a[l] \in Seq(S)
    BY <1>2, <2>1
  <2> QED BY ONLY <2>2, <2>3, <2>4, ConcatProperties
<1> HIDE DEF A
<1>9. m - 1 \in A
  <2>1. Nat \subseteq A
    BY <1>7, <1>8, NatSetInduction
  <2> QED BY <1>6, <2>1
<1>10. f[m] = g[m] /\ g[m] \in Seq(S)
  <2>1. (m - 1) + 1 = m /\ m <= m
    BY <1>6
  <2> QED BY <1>9, <2>1 DEF A
<1>11. 0 \in B
  <2> DEFINE l == m + 1
  <2>1. m \in 1..(e - 1) /\ 1 \in 1..n /\ 0 + 1 = 1 /\ l = m + 1
    BY <1>6 DEF e
  <2>2. s[l] = b[1] /\ b[1] \in Seq(S)
    BY <1>2, <2>1
  <2> HIDE DEF l
  <2>3. f[l] = f[m] \o s[l]
    BY <1>3, <2>1 DEF Joins
  <2>4. f[l] = g[m] \o k[1] /\ k[1] \in Seq(S)
    BY <1>5, <1>10, <2>2, <2>3 DEF Joins
  <2> QED BY <2>1, <2>4
<1>12. ASSUME NEW j \in Nat, j \in B PROVE j + 1 \in B
  <2> DEFINE i == j + 1
             l == i + 1
             p == m + i
             q == m + l
  <2> SUFFICES ASSUME l <= n PROVE f[q] = g[m] \o k[l] /\ k[l] \in Seq(S)
    <3>1. i \in Nat /\ l = i + 1 /\ q = m + (i + 1)
      OBVIOUS
    <3> HIDE DEF i, l, q
    <3> QED BY <3>1 DEF i
  <2>1. /\ i \in 1..(n - 1) /\ p \in 1..(e - 1) /\ l \in 1..n /\ i <= n
        /\ q = p + 1 /\ l = i + 1 /\ q = m + l /\ p = m + i
    BY <1>6 DEF e
  <2>2. f[p] = g[m] \o k[i] /\ k[i] \in Seq(S)
    BY <1>12, <2>1
  <2> HIDE DEF i, l, p, q
  <2>3. f[q] = f[p] \o s[q]
    BY <1>3, <2>1 DEF Joins
  <2>4. k[l] = k[i] \o b[l]
    BY <1>5, <2>1 DEF Joins
  <2>5. s[q] = b[l] /\ b[l] \in Seq(S)
    BY <1>2, <2>1
  <2> DEFINE x == g[m]
             y == k[i]
             z == b[l]
  <2>6. x \in Seq(S) /\ y \in Seq(S) /\ z \in Seq(S)
    BY <1>10, <2>2, <2>5
  <2>7. f[q] = (x \o y) \o z /\ k[l] = y \o z
    BY <2>2, <2>3, <2>4, <2>5
  <2> HIDE DEF x, y, z
  <2>8. (x \o y) \o z = x \o (y \o z) /\ y \o z \in Seq(S)
    <3>1. \A u, v, w \in Seq(S) : (u \o v) \o w = u \o (v \o w)
      BY ONLY ConcatAssociative, SMTT(30)
    <3>2. y \o z \in Seq(S)
      BY ONLY <2>6, ConcatProperties
    <3> QED BY ONLY <2>6, <3>1, <3>2, ZenonT(40)
  <2> QED BY <2>7, <2>8 DEF x
<1> HIDE DEF B
<1>13. n - 1 \in B
  <2>1. Nat \subseteq B
    BY <1>11, <1>12, NatSetInduction
  <2> QED BY <1>6, <2>1
<1>14. f[m + n] = g[m] \o k[n]
  <2>1. (n - 1) + 1 = n /\ n <= n
    BY <1>6
  <2> QED BY <1>13, <2>1 DEF B
<1> QED BY <1>3, <1>4, <1>5, <1>10, <1>14 DEF s, e

------------------------------------------------------------------------------
(* The bytes of parts.                                                     *)
Part == [kind : {"plain", "name", "whole"}, text : Seq(Piece)]

Texts(parts) == [i \in DOMAIN parts |-> parts[i].text]

(* Bytes flattens the texts of the parts.                                  *)
LEMMA TextsOf ==
  ASSUME NEW parts \in Seq(Part)
  PROVE  /\ Texts(parts) \in Seq(Seq(Piece)) /\ Len(Texts(parts)) = Len(parts)
         /\ Bytes(parts) = FlattenSeq(Texts(parts))
<1>1. Len(parts) \in Nat /\ DOMAIN parts = 1..Len(parts)
  BY LenProperties
<1>2. ASSUME NEW i \in 1..Len(parts) PROVE parts[i].text \in Seq(Piece)
  <2>1. parts[i] \in Part
    BY ElementOfSeq
  <2> QED BY <2>1 DEF Part
<1>3. Texts(parts) = [i \in 1..Len(parts) |-> parts[i].text]
  BY <1>1 DEF Texts
<1>4. Texts(parts) \in [1..Len(parts) -> Seq(Piece)]
  BY <1>2, <1>3
<1> QED BY <1>1, <1>3, <1>4 DEF Bytes, Texts

(* The bytes of parts behind parts are those of both.                      *)
LEMMA BytesConcat ==
  ASSUME NEW a \in Seq(Part), NEW b \in Seq(Part), Len(a) # 0, Len(b) # 0
  PROVE  Bytes(a \o b) = Bytes(a) \o Bytes(b) /\ Bytes(a) \in Seq(Piece)
<1> DEFINE s == a \o b
           x == Texts(a)
           y == Texts(b)
<1>1. /\ s \in Seq(Part) /\ Len(s) = Len(a) + Len(b) /\ Len(a) \in Nat /\ Len(b) \in Nat
      /\ \A i \in 1..(Len(a) + Len(b)) : s[i] = IF i <= Len(a) THEN a[i] ELSE b[i - Len(a)]
  BY ConcatProperties, LenProperties
<1> HIDE DEF s
<1>2. /\ x \in Seq(Seq(Piece)) /\ y \in Seq(Seq(Piece)) /\ Texts(s) \in Seq(Seq(Piece))
      /\ Len(x) = Len(a) /\ Len(y) = Len(b) /\ Len(Texts(s)) = Len(s)
      /\ Bytes(s) = FlattenSeq(Texts(s)) /\ Bytes(a) = FlattenSeq(x) /\ Bytes(b) = FlattenSeq(y)
  BY <1>1, TextsOf
<1>3. /\ DOMAIN a = 1..Len(a) /\ DOMAIN b = 1..Len(b) /\ DOMAIN s = 1..Len(s)
  BY <1>1, LenProperties
<1>4. /\ \A i \in 1..Len(a) : x[i] = a[i].text
      /\ \A i \in 1..Len(b) : y[i] = b[i].text
      /\ \A i \in 1..Len(s) : Texts(s)[i] = s[i].text
  BY <1>3 DEF Texts
<1> HIDE DEF x, y
<1> DEFINE z == x \o y
<1>5. /\ z \in Seq(Seq(Piece)) /\ Len(z) = Len(s)
      /\ \A i \in 1..Len(s) : z[i] = IF i <= Len(a) THEN x[i] ELSE y[i - Len(a)]
  <2>1. /\ z \in Seq(Seq(Piece)) /\ Len(z) = Len(x) + Len(y)
        /\ \A i \in 1..(Len(x) + Len(y)) : z[i] = IF i <= Len(x) THEN x[i] ELSE y[i - Len(x)]
    BY ONLY <1>2, ConcatProperties
  <2> HIDE DEF z
  <2> QED BY <1>1, <1>2, <2>1
<1> HIDE DEF z
<1>6. \A i \in 1..Len(s) : i <= Len(a) \/ i - Len(a) \in 1..Len(b)
  BY <1>1
<1>7. ASSUME NEW i \in 1..Len(s) PROVE Texts(s)[i] = z[i]
  <2>1. CASE i <= Len(a)
    <3>1. s[i] = a[i] /\ z[i] = x[i] /\ i \in 1..Len(a)
      BY <1>1, <1>5, <2>1
    <3> QED BY <1>4, <3>1
  <2>2. CASE ~(i <= Len(a))
    <3>1. s[i] = b[i - Len(a)] /\ z[i] = y[i - Len(a)] /\ i - Len(a) \in 1..Len(b)
      BY <1>1, <1>5, <1>6, <2>2
    <3> QED BY <1>4, <3>1
  <2> QED BY <2>1, <2>2
<1>8. Texts(s) = z
  BY <1>2, <1>5, <1>7, SeqEqual
<1>9. FlattenSeq(z) = FlattenSeq(x) \o FlattenSeq(y) /\ FlattenSeq(x) \in Seq(Piece)
  BY <1>1, <1>2, FlattenConcat DEF z
<1> QED BY <1>2, <1>8, <1>9 DEF s

(* The bytes of a single plain part are its text.                          *)
LEMMA BytesPlain ==
  ASSUME NEW text \in Seq(Piece)
  PROVE  Bytes(<<Plain(text)>>) = text /\ <<Plain(text)>> \in Seq(Part)
<1>1. <<Plain(text)>> \in Seq(Part) /\ DOMAIN <<Plain(text)>> = {1}
  <2>1. Plain(text) \in Part
    BY DEF Plain, Part
  <2> QED BY <2>1
<1>2. [i \in DOMAIN <<Plain(text)>> |-> <<Plain(text)>>[i].text] = <<text>>
  BY DEF Plain
<1> QED BY <1>1, <1>2, FlattenOne DEF Bytes

(* The bytes of a header line: name, separator, value, end of line.        *)
LEMMA BytesOfHeader ==
  ASSUME NEW header, header[1] \in Seq(Piece), header[2] \in Seq(Piece)
  PROVE  /\ HeaderParts(header) \in Seq(Part) /\ Len(HeaderParts(header)) = 4
         /\ Bytes(HeaderParts(header)) =
              ((header[1] \o <<":", "sp">>) \o header[2]) \o <<"crlf">>
<1> DEFINE p == HeaderParts(header)
<1>1. p \in Seq(Part) /\ Len(p) = 4
  <2>1. /\ Name(header[1]) \in Part /\ Whole(header[2]) \in Part
        /\ Plain(<<":", "sp">>) \in Part /\ Plain(<<"crlf">>) \in Part
    <3>1. <<":", "sp">> \in Seq(Piece) /\ <<"crlf">> \in Seq(Piece)
      BY DEF Piece
    <3> QED BY <3>1 DEF Name, Plain, Whole, Part
  <2> QED BY <2>1 DEF HeaderParts
<1>2. /\ p[1].text = header[1] /\ p[2].text = <<":", "sp">>
      /\ p[3].text = header[2] /\ p[4].text = <<"crlf">>
  BY DEF HeaderParts, Name, Plain, Whole
<1> HIDE DEF p
<1>3. /\ Len(Texts(p)) = 4 /\ Bytes(p) = FlattenSeq(Texts(p))
      /\ DOMAIN p = 1..4
  BY <1>1, TextsOf, LenProperties
<1>4. \A i \in 1..4 : Texts(p)[i] = p[i].text
  BY <1>3 DEF Texts
<1>5. Bytes(p) = ((Texts(p)[1] \o Texts(p)[2]) \o Texts(p)[3]) \o Texts(p)[4]
  BY <1>3, FlattenFour
<1>6. /\ Texts(p)[1] = p[1].text /\ Texts(p)[2] = p[2].text
      /\ Texts(p)[3] = p[3].text /\ Texts(p)[4] = p[4].text
  BY <1>4
<1> QED BY <1>1, <1>2, <1>5, <1>6 DEF p

------------------------------------------------------------------------------
(* The sequence x stands in w behind the first n.                          *)
At(w, n, x) ==
  /\ n + Len(x) <= Len(w)
  /\ \A i \in 1..Len(x) : w[n + i] = x[i]

(* Where x and y stand behind one another, each stands by itself.          *)
LEMMA SplitAt ==
  ASSUME NEW w \in Seq(Piece), NEW n \in Nat, NEW x \in Seq(Piece), NEW y \in Seq(Piece),
         At(w, n, x \o y)
  PROVE  At(w, n, x) /\ At(w, n + Len(x), y)
<1> DEFINE z == x \o y
<1>1. /\ Len(x) \in Nat /\ Len(y) \in Nat /\ Len(w) \in Nat /\ Len(z) = Len(x) + Len(y)
      /\ \A i \in 1..(Len(x) + Len(y)) : z[i] = IF i <= Len(x) THEN x[i] ELSE y[i - Len(x)]
  BY ConcatProperties, LenProperties
<1>2. At(w, n, z)
  OBVIOUS
<1> HIDE DEF z
<1>3. At(w, n, x)
  <2>1. ASSUME NEW i \in 1..Len(x) PROVE w[n + i] = x[i]
    <3>1. i \in 1..Len(z) /\ i <= Len(x)
      BY <1>1
    <3>2. w[n + i] = z[i] /\ z[i] = x[i]
      BY <1>1, <1>2, <3>1 DEF At
    <3> QED BY <3>2
  <2>2. n + Len(x) <= Len(w)
    BY <1>1, <1>2 DEF At
  <2> QED BY <2>1, <2>2 DEF At
<1>4. ASSUME NEW i \in 1..Len(y) PROVE w[(n + Len(x)) + i] = y[i]
  <2> DEFINE j == Len(x) + i
  <2>1. j \in 1..Len(z) /\ ~(j <= Len(x)) /\ j - Len(x) = i /\ n + j = (n + Len(x)) + i
    BY <1>1
  <2> HIDE DEF j
  <2>2. w[n + j] = z[j] /\ z[j] = y[j - Len(x)]
    BY <1>1, <1>2, <2>1 DEF At
  <2> QED BY <2>1, <2>2
<1>5. (n + Len(x)) + Len(y) <= Len(w)
  BY <1>1, <1>2 DEF At
<1> QED BY <1>3, <1>4, <1>5 DEF At

(* A header line does, and it is as long as its l.                         *)
LineIn(w, n, l, name, value) ==
  /\ l \in Seq(Piece) /\ Len(l) = Len(name) + Len(value) + 3
  /\ At(w, n, name)
  /\ w[n + Len(name) + 1] = ":" /\ w[n + Len(name) + 2] = "sp"
  /\ At(w, n + Len(name) + 2, value)
  /\ w[n + Len(name) + Len(value) + 3] = "crlf"

(* Where a header line stands, its pieces do.                              *)
LEMMA LineAt ==
  ASSUME NEW w \in Seq(Piece), NEW n \in Nat, NEW header, NEW name, NEW value,
         header[1] = name, header[2] = value, name \in Seq(Piece), value \in Seq(Piece),
         At(w, n, Bytes(HeaderParts(header)))
  PROVE  LineIn(w, n, Bytes(HeaderParts(header)), name, value)
<1> DEFINE a == <<":", "sp">>
           b == <<"crlf">>
           x == name \o a
           y == x \o value
           z == y \o b
           m == Len(name)
           k == Len(value)
<1>1. Bytes(HeaderParts(header)) = z
  BY BytesOfHeader
<1>2. /\ a \in Seq(Piece) /\ b \in Seq(Piece) /\ Len(a) = 2 /\ Len(b) = 1
      /\ a[1] = ":" /\ a[2] = "sp" /\ b[1] = "crlf" /\ m \in Nat /\ k \in Nat
  BY LenProperties DEF Piece
<1> HIDE DEF a, b
<1>3. x \in Seq(Piece) /\ Len(x) = m + 2
  <2>1. x \in Seq(Piece) /\ Len(x) = m + Len(a)
    BY ONLY <1>2, name \in Seq(Piece), ConcatProperties
  <2> QED BY <1>2, <2>1
<1> HIDE DEF x
<1>4. y \in Seq(Piece) /\ Len(y) = (m + 2) + k
  <2>1. y \in Seq(Piece) /\ Len(y) = Len(x) + k
    BY ONLY <1>2, <1>3, value \in Seq(Piece), ConcatProperties
  <2> HIDE DEF y
  <2> QED BY <1>3, <2>1
<1> HIDE DEF y
<1>5. z \in Seq(Piece) /\ Len(z) = m + k + 3
  <2>1. z \in Seq(Piece) /\ Len(z) = Len(y) + Len(b)
    BY ONLY <1>2, <1>4, ConcatProperties
  <2> HIDE DEF z
  <2> QED BY <1>2, <1>4, <2>1
<1>6. At(w, n, y) /\ At(w, n + Len(y), b)
  BY <1>1, <1>2, <1>4, SplitAt
<1>7. At(w, n, x) /\ At(w, n + Len(x), value)
  BY <1>3, <1>6, SplitAt DEF y
<1>8. At(w, n, name) /\ At(w, n + m, a)
  BY <1>2, <1>7, SplitAt DEF x
<1>9. w[n + m + 1] = ":" /\ w[n + m + 2] = "sp"
  BY <1>2, <1>8 DEF At
<1>10. w[n + m + k + 3] = "crlf"
  <2>1. w[(n + Len(y)) + 1] = "crlf" /\ (n + Len(y)) + 1 = n + m + k + 3
    BY <1>2, <1>4, <1>6 DEF At
  <2> QED BY <2>1
<1>11. At(w, n + m + 2, value)
  <2>1. n + Len(x) = n + m + 2
    BY <1>2, <1>3
  <2> QED BY <1>7, <2>1
<1> HIDE DEF z
<1> QED BY <1>1, <1>5, <1>8, <1>9, <1>10, <1>11 DEF LineIn

------------------------------------------------------------------------------
(* Nothing in front, nothing behind.                                       *)
LEMMA FlattenNone == FlattenSeq(<<>>) = <<>>
BY DEF FlattenSeq

(* One sequence more.                                                      *)
LEMMA FlatStep ==
  ASSUME NEW S, NEW q \in Seq(Seq(S)), NEW j \in 0..(Len(q) - 1)
  PROVE  /\ FlattenSeq(SubSeq(q, 1, j)) \in Seq(S) /\ q[j + 1] \in Seq(S)
         /\ FlattenSeq(SubSeq(q, 1, j + 1)) = FlattenSeq(SubSeq(q, 1, j)) \o q[j + 1]
<1> DEFINE a == SubSeq(q, 1, j)
           b == <<q[j + 1]>>
           c == SubSeq(q, 1, j + 1)
<1>1. Len(q) \in Nat /\ j \in Nat /\ j + 1 \in 1..Len(q) /\ q[j + 1] \in Seq(S) /\ 1 \in 1..Len(q)
  BY LenProperties, ElementOfSeq
<1>2. a \in Seq(Seq(S)) /\ Len(a) = j
  <2>1. 1 \in Int /\ j \in Int /\ \A i \in 1..j : i \in 1..Len(q) /\ q[i] \in Seq(S)
    BY <1>1, ElementOfSeq
  <2>2. a \in Seq(Seq(S)) /\ Len(a) = (IF 1 <= j THEN j - 1 + 1 ELSE 0)
    BY ONLY <2>1, SubSeqProperties
  <2> HIDE DEF a
  <2> QED BY <1>1, <2>2
<1>4. b \in Seq(Seq(S)) /\ Len(b) = 1
  BY <1>1
<1>5. c = a \o b
  <2>1. j + 1 \in 1..Len(q) /\ (j + 1) - 1 = j
    BY <1>1
  <2> QED BY <1>1, <2>1, SubSeqRecursiveSecond
<1>6. FlattenSeq(b) = q[j + 1]
  BY FlattenOne
<1>7. CASE j = 0
  <2> HIDE DEF a, b, c
  <2>1. a = <<>>
    BY <1>2, <1>7, EmptySeq
  <2>2. c = b
    BY ONLY <1>4, <1>5, <2>1, ConcatEmptySeq
  <2>3. <<>> \in Seq(S) /\ <<>> \o q[j + 1] = q[j + 1]
    BY <1>1, ConcatEmptySeq
  <2> QED BY <1>1, <1>6, <2>1, <2>2, <2>3, FlattenNone DEF a, c
<1>8. CASE j # 0
  <2> HIDE DEF a, b, c
  <2>0. Len(a) # 0 /\ Len(b) # 0
    BY <1>2, <1>4, <1>8
  <2>1. FlattenSeq(a) \in Seq(S) /\ FlattenSeq(a \o b) = FlattenSeq(a) \o FlattenSeq(b)
    BY ONLY <1>2, <1>4, <2>0, FlattenConcat
  <2> QED BY <1>1, <1>5, <1>6, <2>1 DEF a, c
<1> QED BY <1>7, <1>8

LEMMA FlatIsSeq ==
  ASSUME NEW S, NEW q \in Seq(Seq(S)), NEW j \in 0..Len(q)
  PROVE  /\ FlattenSeq(SubSeq(q, 1, j)) \in Seq(S) /\ SubSeq(q, 1, 0) = <<>>
         /\ FlattenSeq(q) = FlattenSeq(SubSeq(q, 1, Len(q))) /\ FlattenSeq(q) \in Seq(S)
<1>1. Len(q) \in Nat /\ SubSeq(q, 1, Len(q)) = q
  BY LenProperties, SubSeqFull
<1>2. SubSeq(q, 1, 0) = <<>> /\ <<>> \in Seq(S)
  BY SubSeqEmpty
<1>3. ASSUME NEW i \in 0..Len(q) PROVE FlattenSeq(SubSeq(q, 1, i)) \in Seq(S)
  <2>1. CASE i = 0
    BY <1>2, <2>1, FlattenNone
  <2>2. CASE i # 0
    <3> DEFINE k == i - 1
    <3>1. k \in 0..(Len(q) - 1) /\ k + 1 = i
      BY <1>1, <2>2
    <3> HIDE DEF k
    <3>2. FlattenSeq(SubSeq(q, 1, k)) \in Seq(S) /\ q[k + 1] \in Seq(S)
         /\ FlattenSeq(SubSeq(q, 1, k + 1)) = FlattenSeq(SubSeq(q, 1, k)) \o q[k + 1]
      BY <3>1, FlatStep
    <3> QED BY ONLY <3>1, <3>2, ConcatProperties
  <2> QED BY <2>1, <2>2
<1>4. Len(q) \in 0..Len(q)
  BY <1>1
<1> QED BY <1>1, <1>2, <1>3, <1>4

(* Where the sequences stand in what FlattenSeq makes of them.             *)
LEMMA FlatPlaces ==
  ASSUME NEW q \in Seq(Seq(Piece)), NEW w \in Seq(Piece), NEW n \in Nat,
         At(w, n, FlattenSeq(q)), NEW j \in 0..(Len(q) - 1)
  PROVE  LET a == FlattenSeq(SubSeq(q, 1, j))
         IN  /\ Len(a) \in Nat /\ Len(q[j + 1]) \in Nat
             /\ Len(FlattenSeq(SubSeq(q, 1, j + 1))) = Len(a) + Len(q[j + 1])
             /\ Len(a) + Len(q[j + 1]) <= Len(FlattenSeq(q))
             /\ At(w, n + Len(a), q[j + 1])
<1> DEFINE P(i) == FlattenSeq(SubSeq(q, 1, i))
           Ahead(i) == At(w, n, P(i)) /\ Len(P(i)) <= Len(FlattenSeq(q))
           T == {k \in Nat : k <= Len(q) => Ahead(Len(q) - k)}
<1>1. Len(q) \in Nat /\ FlattenSeq(q) = P(Len(q)) /\ Len(P(Len(q))) \in Nat
  <2>1. Len(q) \in Nat /\ FlattenSeq(q) \in Seq(Piece) /\ FlattenSeq(q) = P(Len(q))
    <3>1. Len(q) \in Nat
      BY LenProperties
    <3>2. Len(q) \in 0..Len(q)
      BY <3>1
    <3> QED BY <3>1, <3>2, FlatIsSeq
  <2> QED BY <2>1, LenProperties
<1>2. ASSUME NEW i \in 0..(Len(q) - 1)
      PROVE P(i) \in Seq(Piece) /\ q[i + 1] \in Seq(Piece) /\ P(i + 1) = P(i) \o q[i + 1]
  BY FlatStep
<1> HIDE DEF P
<1>3. 0 \in T
  BY <1>1
<1>4. ASSUME NEW k \in Nat, k \in T PROVE k + 1 \in T
  <2> SUFFICES ASSUME k + 1 <= Len(q) PROVE Ahead(Len(q) - (k + 1))
    OBVIOUS
  <2> DEFINE i == Len(q) - (k + 1)
  <2>1. i \in 0..(Len(q) - 1) /\ i + 1 = Len(q) - k /\ k <= Len(q)
    BY <1>1
  <2> HIDE DEF i
  <2>2. At(w, n, P(i + 1)) /\ Len(P(i + 1)) <= Len(FlattenSeq(q))
    BY <1>4, <2>1
  <2>3. P(i) \in Seq(Piece) /\ q[i + 1] \in Seq(Piece) /\ P(i + 1) = P(i) \o q[i + 1]
    BY <1>2, <2>1
  <2>4. At(w, n, P(i) \o q[i + 1])
    BY <2>2, <2>3
  <2>5. At(w, n, P(i))
    BY <2>3, <2>4, SplitAt
  <2>6. Len(P(i)) <= Len(P(i + 1)) /\ Len(P(i)) \in Nat
    <3>1. Len(P(i) \o q[i + 1]) = Len(P(i)) + Len(q[i + 1]) /\ Len(P(i)) \in Nat /\ Len(q[i + 1]) \in Nat
      BY ONLY <2>3, ConcatProperties, LenProperties
    <3> QED BY <2>3, <3>1, SMTT(30)
  <2>7. Len(FlattenSeq(q)) \in Nat
    BY <1>1
  <2> QED BY <2>2, <2>5, <2>6, <2>7 DEF i
<1> HIDE DEF T
<1>5. Nat \subseteq T
  BY <1>3, <1>4, NatSetInduction
<1>6. At(w, n, P(j + 1)) /\ Len(P(j + 1)) <= Len(FlattenSeq(q))
  <2> DEFINE k == Len(q) - (j + 1)
  <2>1. k \in Nat /\ k <= Len(q) /\ Len(q) - k = j + 1
    BY <1>1
  <2> HIDE DEF k
  <2> QED BY <1>5, <2>1 DEF T
<1>7. P(j) \in Seq(Piece) /\ q[j + 1] \in Seq(Piece) /\ P(j + 1) = P(j) \o q[j + 1]
  BY <1>2
<1>8. At(w, n + Len(P(j)), q[j + 1])
  <2>1. At(w, n, P(j) \o q[j + 1])
    BY <1>6, <1>7
  <2> QED BY <1>7, <2>1, SplitAt
<1>9. Len(P(j)) \in Nat /\ Len(q[j + 1]) \in Nat /\ Len(P(j + 1)) = Len(P(j)) + Len(q[j + 1])
  BY ONLY <1>7, ConcatProperties, LenProperties
<1> QED BY <1>6, <1>8, <1>9 DEF P

(* Also of no parts.                                                       *)
LEMMA BytesBehind ==
  ASSUME NEW a \in Seq(Part), NEW b \in Seq(Part)
  PROVE  /\ Bytes(a \o b) = Bytes(a) \o Bytes(b)
         /\ Bytes(a) \in Seq(Piece) /\ Bytes(b) \in Seq(Piece)
<1>1. \A c \in Seq(Part) : Len(c) = 0 => c = <<>>
  BY EmptySeq
<1>2. Bytes(<<>>) = <<>>
  <2>1. [i \in DOMAIN <<>> |-> <<>>[i].text] = <<>>
    OBVIOUS
  <2> QED BY <2>1, FlattenNone DEF Bytes
<1>3. ASSUME NEW c \in Seq(Part) PROVE Bytes(c) \in Seq(Piece)
  <2>1. CASE Len(c) = 0
    <3>1. <<>> \in Seq(Piece)
      OBVIOUS
    <3> QED BY <1>1, <1>2, <2>1, <3>1
  <2>2. CASE Len(c) # 0
    BY <2>2, BytesConcat
  <2> QED BY <2>1, <2>2
<1>4. CASE Len(a) = 0
  <2>1. a = <<>> /\ a \o b = b /\ Bytes(b) \in Seq(Piece)
    BY <1>1, <1>3, <1>4, ConcatEmptySeq
  <2>2. <<>> \o Bytes(b) = Bytes(b)
    BY <2>1, ConcatEmptySeq
  <2> QED BY <1>2, <1>3, <2>1, <2>2
<1>5. CASE Len(b) = 0
  <2>1. b = <<>> /\ a \o b = a /\ Bytes(a) \in Seq(Piece)
    BY <1>1, <1>3, <1>5, ConcatEmptySeq
  <2>2. Bytes(a) \o <<>> = Bytes(a)
    BY <2>1, ConcatEmptySeq
  <2> QED BY <1>2, <1>3, <2>1, <2>2
<1>6. CASE Len(a) # 0 /\ Len(b) # 0
  BY <1>3, <1>6, BytesConcat
<1> QED BY <1>4, <1>5, <1>6

(* The bytes of parts that were joined are the bytes of each, joined.      *)
LEMMA BytesFlat ==
  ASSUME NEW pp \in Seq(Seq(Part)), NEW j \in 0..Len(pp)
  PROVE  LET q == [i \in 1..Len(pp) |-> Bytes(pp[i])]
         IN  /\ q \in Seq(Seq(Piece)) /\ Len(q) = Len(pp)
             /\ Bytes(FlattenSeq(SubSeq(pp, 1, j))) = FlattenSeq(SubSeq(q, 1, j))
<1> DEFINE q == [i \in 1..Len(pp) |-> Bytes(pp[i])]
           P(k) == FlattenSeq(SubSeq(pp, 1, k))
           Q(k) == FlattenSeq(SubSeq(q, 1, k))
           T == {k \in Nat : k <= Len(pp) => Bytes(P(k)) = Q(k)}
<1>1. Len(pp) \in Nat /\ \A i \in 1..Len(pp) : pp[i] \in Seq(Part) /\ Bytes(pp[i]) \in Seq(Piece)
  BY LenProperties, ElementOfSeq, BytesBehind
<1>2. q \in Seq(Seq(Piece)) /\ Len(q) = Len(pp) /\ \A i \in 1..Len(pp) : q[i] = Bytes(pp[i])
  BY <1>1
<1> HIDE DEF q
<1>3. 0 \in T
  <2>1. P(0) = <<>> /\ Q(0) = <<>>
    <3>1. 1 \in Int /\ 0 \in Int /\ 0 < 1
      OBVIOUS
    <3>2. SubSeq(pp, 1, 0) = <<>> /\ SubSeq(q, 1, 0) = <<>>
      BY ONLY <3>1, SubSeqEmpty
    <3> QED BY <3>2, FlattenNone
  <2>2. Bytes(<<>>) = <<>>
    <3>1. [i \in DOMAIN <<>> |-> <<>>[i].text] = <<>>
      OBVIOUS
    <3> QED BY <3>1, FlattenNone DEF Bytes
  <2> QED BY <2>1, <2>2
<1>4. ASSUME NEW k \in Nat, k \in T PROVE k + 1 \in T
  <2> SUFFICES ASSUME k + 1 <= Len(pp) PROVE Bytes(P(k + 1)) = Q(k + 1)
    OBVIOUS
  <2>1. k \in 0..(Len(pp) - 1) /\ k \in 0..(Len(q) - 1) /\ k <= Len(pp) /\ k + 1 \in 1..Len(pp)
    BY <1>1, <1>2
  <2>2. P(k) \in Seq(Part) /\ pp[k + 1] \in Seq(Part) /\ P(k + 1) = P(k) \o pp[k + 1]
    BY <2>1, FlatStep
  <2>3. Q(k + 1) = Q(k) \o q[k + 1]
    BY <1>2, <2>1, FlatStep
  <2>4. Bytes(P(k)) = Q(k)
    BY <1>4, <2>1
  <2> HIDE DEF P, Q
  <2>5. Bytes(P(k) \o pp[k + 1]) = Bytes(P(k)) \o Bytes(pp[k + 1])
    BY <2>2, BytesBehind
  <2> QED BY <1>2, <2>1, <2>2, <2>3, <2>4, <2>5
<1> HIDE DEF T
<1>5. Nat \subseteq T
  BY <1>3, <1>4, NatSetInduction
<1>6. Bytes(P(j)) = Q(j)
  BY <1>1, <1>5 DEF T
<1> QED BY <1>2, <1>6 DEF q

------------------------------------------------------------------------------
(* Where the bytes of each part of what FlattenSeq joins stand.            *)
LEMMA PartsPlaces ==
  ASSUME NEW pp \in Seq(Seq(Part)), NEW w \in Seq(Piece), NEW n \in Nat,
         At(w, n, Bytes(FlattenSeq(pp))), NEW off,
         \A i \in 0..Len(pp) : off[i + 1] = n + Len(Bytes(FlattenSeq(SubSeq(pp, 1, i))))
  PROVE  /\ off[1] = n /\ off[Len(pp) + 1] = n + Len(Bytes(FlattenSeq(pp)))
         /\ \A j \in 1..Len(pp) :
              /\ off[j] \in Nat
              /\ off[j + 1] = off[j] + Len(Bytes(pp[j]))
              /\ off[j + 1] <= off[Len(pp) + 1]
              /\ At(w, off[j], Bytes(pp[j]))
<1> DEFINE q == [i \in 1..Len(pp) |-> Bytes(pp[i])]
           P(i) == FlattenSeq(SubSeq(q, 1, i))
<1>1. Len(pp) \in Nat /\ FlattenSeq(pp) = FlattenSeq(SubSeq(pp, 1, Len(pp)))
  BY LenProperties, SubSeqFull
<1>2. /\ q \in Seq(Seq(Piece)) /\ Len(q) = Len(pp)
      /\ \A i \in 0..Len(pp) : Bytes(FlattenSeq(SubSeq(pp, 1, i))) = P(i)
  <2>1. 0 \in 0..Len(pp)
    BY <1>1
  <2> QED BY <2>1, BytesFlat
<1>3. \A i \in 1..Len(pp) : q[i] = Bytes(pp[i])
  OBVIOUS
<1> HIDE DEF q
<1>4. FlattenSeq(q) = P(Len(pp)) /\ P(0) = <<>> /\ Bytes(FlattenSeq(pp)) = P(Len(pp))
  <2>1. 0 \in 0..Len(q) /\ Len(pp) \in 0..Len(pp)
    BY <1>1, <1>2
  <2>2. FlattenSeq(q) = P(Len(pp)) /\ SubSeq(q, 1, 0) = <<>>
    BY <1>2, <2>1, FlatIsSeq
  <2> QED BY <1>1, <1>2, <2>1, <2>2, FlattenNone
<1>5. At(w, n, FlattenSeq(q))
  BY <1>4
<1>6. ASSUME NEW i \in 0..(Len(pp) - 1)
      PROVE  /\ Len(P(i)) \in Nat /\ Len(q[i + 1]) \in Nat /\ Len(P(i + 1)) = Len(P(i)) + Len(q[i + 1])
             /\ Len(P(i)) + Len(q[i + 1]) <= Len(FlattenSeq(q))
             /\ At(w, n + Len(P(i)), q[i + 1])
  BY <1>2, <1>5, FlatPlaces
<1>7. \A i \in 0..Len(pp) : off[i + 1] = n + Len(P(i))
  BY <1>2
<1> HIDE DEF P
<1>8. off[1] = n /\ off[Len(pp) + 1] = n + Len(Bytes(FlattenSeq(pp)))
  <2>1. 0 \in 0..Len(pp) /\ Len(pp) \in 0..Len(pp) /\ 0 + 1 = 1 /\ Len(<<>>) = 0
    BY <1>1
  <2>2. off[0 + 1] = n + 0
    BY <1>4, <1>7, <2>1
  <2> QED BY <1>4, <1>7, <2>1, <2>2
<1>9. ASSUME NEW j \in 1..Len(pp)
      PROVE  /\ off[j] \in Nat
             /\ off[j + 1] = off[j] + Len(Bytes(pp[j]))
             /\ off[j + 1] <= off[Len(pp) + 1]
             /\ At(w, off[j], Bytes(pp[j]))
  <2> DEFINE i == j - 1
  <2>1. i \in 0..(Len(pp) - 1) /\ i + 1 = j /\ i \in 0..Len(pp) /\ j \in 0..Len(pp)
    BY <1>1
  <2> HIDE DEF i
  <2>2. off[j] = n + Len(P(i)) /\ off[j + 1] = n + Len(P(j))
    BY <1>7, <2>1
  <2>3. /\ Len(P(i)) \in Nat /\ Len(q[j]) \in Nat /\ Len(P(j)) = Len(P(i)) + Len(q[j])
        /\ Len(P(i)) + Len(q[j]) <= Len(FlattenSeq(q)) /\ At(w, n + Len(P(i)), q[j])
    BY <1>6, <2>1
  <2>4. q[j] = Bytes(pp[j])
    BY <1>3
  <2>5. off[Len(pp) + 1] = n + Len(FlattenSeq(q))
    BY <1>4, <1>8
  <2>6. off[j] \in Nat /\ off[j + 1] = off[j] + Len(q[j])
    <3>1. n \in Nat
      OBVIOUS
    <3> DEFINE a == Len(P(i))
               c == Len(q[j])
               d == Len(P(j))
               u == off[j]
               v == off[j + 1]
    <3>2. n \in Nat /\ a \in Nat /\ c \in Nat /\ d = a + c /\ u = n + a /\ v = n + d
      BY <2>2, <2>3
    <3> HIDE DEF a, c, d, u, v
    <3>3. u \in Nat /\ v = u + c
      BY ONLY <3>2
    <3> QED BY <3>3 DEF u, v, c
  <2>7. off[j + 1] <= off[Len(pp) + 1]
    <3>1. Len(FlattenSeq(q)) \in Nat
      <4>1. 0 \in 0..Len(q)
        BY <1>1, <1>2
      <4>2. FlattenSeq(q) \in Seq(Piece)
        BY <1>2, <4>1, FlatIsSeq
      <4> QED BY <4>2, LenProperties
    <3> QED BY <2>2, <2>3, <2>5, <3>1
  <2> QED BY <2>2, <2>3, <2>4, <2>6, <2>7
<1> QED BY <1>8, <1>9

------------------------------------------------------------------------------
(* A message in a sequence of bytes.                                       *)

NL(m) == Len(HeaderLinesOf(m))
TheLine(m, j) == HeaderLinesOf(m)[j]

LineOk(line) ==
  /\ line[1] \in Seq(Piece) /\ line[1] # <<>> /\ \A i \in 1..Len(line[1]) : IsText(line[1][i])
  /\ line[2] \in Seq(Piece) /\ \A i \in 1..Len(line[2]) : line[2][i] # "crlf"
  /\ line[2] # <<>> => line[2][1] # "sp"

(* What matters of IsRequest and IsResponse, said of all header lines.     *)
GoodLines(m) ==
  /\ NL(m) \in Nat /\ DOMAIN HeaderLinesOf(m) = 1..NL(m)
  /\ \A j \in 1..NL(m) :
       /\ LineOk(TheLine(m, j))
       /\ TheLine(m, j)[1] = TransferEncoding <=> m.coding = "chunked" /\ j = NL(m)
       /\ TheLine(m, j)[1] = ContentLength <=> m.coding = "length" /\ j = NL(m)
  /\ m.coding = "chunked" => NL(m) >= 1 /\ TheLine(m, NL(m))[2] = Chunked
  /\ m.coding = "length" => NL(m) >= 1 /\ TheLine(m, NL(m))[2] = <<ToString(Len(m.body[1]))>>

GoodBody(m) ==
  /\ m.body \in Seq(Seq(Piece)) /\ Len(m.body) \in Nat
  /\ m.coding = "none"    => m.body = <<>>
  /\ m.coding = "length"  => Len(m.body) = 1 /\ Len(m.body[1]) \in 0..9
  /\ m.coding = "chunked" => \A i \in 1..Len(m.body) : Len(m.body[i]) \in 1..9

GoodFirst(type, m) ==
  /\ m.version \in Version
  /\ type = "request" =>
       /\ m.coding \in {"none", "length", "chunked"} /\ m.method \in Method
       /\ m.url \in Seq(Piece) /\ m.url # <<>> /\ Len(m.url) \in Nat \ {0} /\ IsText(m.url[1])
       /\ \A i \in 1..Len(m.url) : m.url[i] \notin {"sp", "crlf"}
  /\ type = "response" =>
       /\ m.coding \in {"none", "eof", "length", "chunked"} /\ m.status \in Status
       /\ m.coding = "none" <=> m.status \in {"100", "101"}

Good(type, m) ==
  type \in {"request", "response"} /\ GoodLines(m) /\ GoodBody(m) /\ GoodFirst(type, m)

(* The header lines of a message are those it has and at most one more.    *)
LEMMA MessageLines ==
  ASSUME NEW m, IsMessage(m), m.coding \in {"none", "eof", "length", "chunked"}
  PROVE  GoodLines(m) /\ GoodBody(m)
<1> DEFINE hs == m.headers
           L == HeaderLinesOf(m)
           k == Len(hs)
<1>1. /\ hs \in Seq(Range(hs)) /\ k \in Nat /\ DOMAIN hs = 1..k
      /\ \A i \in 1..k : IsLine(hs[i])
  <2>1. hs \in Seq(Range(hs)) /\ \A i \in DOMAIN hs : IsLine(hs[i])
    BY DEF IsMessage
  <2> QED BY <2>1, LenProperties
<1>2. \A S : \A s \in Seq(STRING) : s \in Seq(Piece)
  <2>1. STRING \subseteq Piece
    BY DEF Piece
  <2> QED BY <2>1, SeqMonotonic
<1>3. ASSUME NEW i \in 1..k
      PROVE  LineOk(hs[i]) /\ hs[i][1] # TransferEncoding /\ hs[i][1] # ContentLength
  <2>1. IsLine(hs[i])
    BY <1>1
  <2>2. /\ hs[i][1] \in Seq(STRING) /\ hs[i][2] \in Seq(STRING)
        /\ DOMAIN hs[i][1] = 1..Len(hs[i][1]) /\ DOMAIN hs[i][2] = 1..Len(hs[i][2])
    BY <2>1, LenProperties DEF IsLine
  <2> QED BY <1>2, <2>1, <2>2 DEF IsLine, LineOk
<1>4. GoodBody(m)
  <2>1. m.body \in Seq(Seq(STRING))
    BY DEF IsMessage
  <2>2. m.body \in Seq(Seq(Piece))
    <3>1. Seq(STRING) \subseteq Seq(Piece)
      BY <1>2
    <3> QED BY <2>1, <3>1, SeqMonotonic
  <2>3. Len(m.body) \in Nat /\ DOMAIN m.body = 1..Len(m.body)
    BY <2>1, LenProperties
  <2>4. \A i \in 1..Len(m.body) : Len(m.body[i]) \in Nat
    <3>1. \A i \in 1..Len(m.body) : m.body[i] \in Seq(STRING)
      BY <2>1, ElementOfSeq
    <3> QED BY <3>1, LenProperties
  <2>5. m.coding = "length" => Len(m.body[1]) \in 0..9
    <3> SUFFICES ASSUME m.coding = "length" PROVE Len(m.body[1]) \in 0..9
      OBVIOUS
    <3>1. Len(m.body) = 1 /\ Len(m.body[1]) <= 9
      BY DEF IsMessage
    <3>2. 1 \in 1..Len(m.body)
      BY <3>1
    <3>3. Len(m.body[1]) \in Nat
      BY <2>4, <3>2
    <3> DEFINE z == Len(m.body[1])
    <3>4. z \in Nat /\ z <= 9
      BY <3>1, <3>3
    <3> HIDE DEF z
    <3>5. z \in 0..9
      BY ONLY <3>4
    <3> QED BY <3>5 DEF z
  <2> QED BY <2>2, <2>3, <2>5 DEF IsMessage, GoodBody
<1>5. CASE m.coding \in {"none", "eof"}
  <2>1. L = hs
    <3>1. L = hs \o <<>>
      BY <1>5 DEF HeaderLinesOf
    <3> QED BY <1>1, <3>1, ConcatEmptySeq
  <2> QED BY <1>1, <1>3, <1>4, <1>5, <2>1 DEF GoodLines, NL, TheLine
<1>6. CASE m.coding \in {"length", "chunked"}
  <2> DEFINE extra == IF m.coding = "length" THEN <<ContentLength, <<ToString(Len(m.body[1]))>>>>
                      ELSE <<TransferEncoding, Chunked>>
             S == Range(hs) \cup {extra}
  <2>1. L = hs \o <<extra>>
    BY <1>6 DEF HeaderLinesOf
  <2>2. hs \in Seq(S) /\ <<extra>> \in Seq(S) /\ Len(<<extra>>) = 1 /\ <<extra>>[1] = extra
    <3>1. Range(hs) \subseteq S
      OBVIOUS
    <3> HIDE DEF extra
    <3> QED BY <1>1, <3>1, SeqMonotonic
  <2> DEFINE e == <<extra>>
  <2>22. e \in Seq(S) /\ Len(e) = 1 /\ e[1] = extra
    BY <2>2
  <2> HIDE DEF e, S
  <2>3. /\ L \in Seq(S) /\ Len(L) = k + 1
        /\ \A j \in 1..(k + 1) : L[j] = IF j <= k THEN hs[j] ELSE e[j - k]
    <3>1. /\ hs \o e \in Seq(S) /\ Len(hs \o e) = k + 1
          /\ \A j \in 1..(k + 1) : (hs \o e)[j] = IF j <= k THEN hs[j] ELSE e[j - k]
      <4>1. /\ hs \o e \in Seq(S) /\ Len(hs \o e) = Len(hs) + Len(e)
            /\ \A j \in 1..(Len(hs) + Len(e)) : (hs \o e)[j] = IF j <= Len(hs) THEN hs[j] ELSE e[j - Len(hs)]
        BY ONLY <2>2, <2>22, ConcatProperties
      <4>2. Len(e) = 1
        BY <2>22
      <4> QED BY <4>1, <4>2
    <3> QED BY <2>1, <3>1 DEF e
  <2> HIDE DEF L
  <2>4. L[k + 1] = extra /\ \A j \in 1..k : L[j] = hs[j]
    <3>1. k + 1 \in 1..(k + 1) /\ ~(k + 1 <= k) /\ (k + 1) - k = 1
      BY <1>1
    <3>2. \A j \in 1..k : j \in 1..(k + 1) /\ j <= k
      BY <1>1
    <3> QED BY <2>22, <2>3, <3>1, <3>2
  <2>5. TransferEncoding # ContentLength
    BY DEF TransferEncoding, ContentLength
  <2>6. LineOk(extra)
    <3>1. CASE m.coding = "length"
      <4>1. ToString(Len(m.body[1])) \in Digit
        BY <1>4, <3>1, DigitsAreSpelled DEF GoodBody
      <4> DEFINE d == ToString(Len(m.body[1]))
      <4>2. d \in Piece /\ d # "crlf" /\ d # "sp"
        BY <4>1 DEF Piece, Digit
      <4> HIDE DEF d
      <4>3. extra[1] = <<"Content-Length">> /\ extra[2] = <<d>>
        BY <3>1 DEF d, ContentLength
      <4>4. <<"Content-Length">> \in Seq(Piece) /\ <<d>> \in Seq(Piece)
        BY <4>2 DEF Piece
      <4> DEFINE n1 == <<"Content-Length">>
                 v1 == <<d>>
      <4>5. /\ n1 \in Seq(Piece) /\ n1 # <<>> /\ Len(n1) = 1 /\ n1[1] = "Content-Length"
            /\ v1 \in Seq(Piece) /\ v1 # <<>> /\ Len(v1) = 1 /\ v1[1] = d
            /\ extra[1] = n1 /\ extra[2] = v1
        BY <4>3, <4>4
      <4> HIDE DEF n1, v1
      <4>6. \A i \in 1..1 : IsText(n1[i]) /\ v1[i] # "crlf"
        BY <4>2, <4>5 DEF IsText
      <4> QED BY <4>2, <4>5, <4>6 DEF LineOk
    <3>2. CASE m.coding = "chunked"
      <4>3. extra[1] = <<"Transfer-Encoding">> /\ extra[2] = <<"chunked">>
        BY <3>2 DEF TransferEncoding, Chunked
      <4>4. <<"Transfer-Encoding">> \in Seq(Piece) /\ <<"chunked">> \in Seq(Piece)
        BY DEF Piece
      <4> DEFINE n1 == <<"Transfer-Encoding">>
                 v1 == <<"chunked">>
      <4>5. /\ n1 \in Seq(Piece) /\ n1 # <<>> /\ Len(n1) = 1 /\ n1[1] = "Transfer-Encoding"
            /\ v1 \in Seq(Piece) /\ v1 # <<>> /\ Len(v1) = 1 /\ v1[1] = "chunked"
            /\ extra[1] = n1 /\ extra[2] = v1
        BY <4>3, <4>4
      <4> HIDE DEF n1, v1
      <4>6. \A i \in 1..1 : IsText(n1[i]) /\ v1[i] # "crlf"
        BY <4>5 DEF IsText
      <4> QED BY <4>5, <4>6 DEF LineOk
    <3> QED BY <1>6, <3>1, <3>2
  <2>7. extra[1] = (IF m.coding = "length" THEN ContentLength ELSE TransferEncoding)
        /\ extra[2] = (IF m.coding = "length" THEN <<ToString(Len(m.body[1]))>> ELSE Chunked)
    OBVIOUS
  <2>8. NL(m) = k + 1 /\ DOMAIN L = 1..(k + 1)
    BY <2>3, LenProperties DEF NL, L
  <2> HIDE DEF extra
  <2>9. \A j \in 1..(k + 1) : TheLine(m, j) = L[j]
    BY DEF TheLine, L
  <2>10. ASSUME NEW j \in 1..(k + 1)
         PROVE  /\ LineOk(L[j])
                /\ L[j][1] = TransferEncoding <=> m.coding = "chunked" /\ j = k + 1
                /\ L[j][1] = ContentLength <=> m.coding = "length" /\ j = k + 1
    <3>1. CASE j \in 1..k
      BY <1>1, <1>3, <2>4, <3>1
    <3>2. CASE j = k + 1
      BY <1>6, <2>4, <2>5, <2>6, <2>7, <3>2
    <3> QED BY <1>1, <3>1, <3>2
  <2>11. /\ m.coding = "chunked" => L[k + 1][2] = Chunked
         /\ m.coding = "length" => L[k + 1][2] = <<ToString(Len(m.body[1]))>>
    BY <2>4, <2>7
  <2>12. k + 1 \in 1..(k + 1) /\ k + 1 >= 1 /\ k + 1 \in Nat
    BY <1>1
  <2>13. GoodLines(m)
    BY <2>8, <2>9, <2>10, <2>11, <2>12 DEF GoodLines, L
  <2> QED BY <1>4, <2>13
<1> QED BY <1>5, <1>6

LEMMA ResponsesAreGood ==
  ASSUME NEW m, IsResponse(m)
  PROVE  Good("response", m)
<1>1. GoodLines(m) /\ GoodBody(m)
  BY MessageLines DEF IsResponse
<1>4. GoodFirst("response", m)
  BY DEF GoodFirst, IsResponse, IsMessage
<1> QED BY <1>1, <1>4 DEF Good

------------------------------------------------------------------------------
FirstSize(type, m) == IF type = "request" THEN Len(m.url) + 5 ELSE 6

FirstLaid(x, type, m, b) ==
  /\ type = "request" =>
       /\ x[b + 1] = m.method /\ x[b + 2] = "sp"
       /\ \A k \in 1..Len(m.url) : x[(b + 2) + k] = m.url[k]
       /\ x[b + Len(m.url) + 3] = "sp" /\ x[b + Len(m.url) + 4] = m.version
       /\ x[b + Len(m.url) + 5] = "crlf"
  /\ type = "response" =>
       /\ x[b + 1] = m.version /\ x[b + 2] = "sp" /\ x[b + 3] = m.status
       /\ x[b + 4] = "sp" /\ x[b + 5] = "reason" /\ x[b + 6] = "crlf"

LineLaid(x, a, line) ==
  /\ \A k \in 1..Len(line[1]) : x[a + k] = line[1][k]
  /\ x[a + Len(line[1]) + 1] = ":" /\ x[a + Len(line[1]) + 2] = "sp"
  /\ \A k \in 1..Len(line[2]) : x[(a + Len(line[1]) + 2) + k] = line[2][k]
  /\ x[a + Len(line[1]) + Len(line[2]) + 3] = "crlf"

(* The header lines of m stand in x behind the first a bytes, line j       *)
(* behind line[j], and then the empty line.                                *)
LinesLaid(x, m, a, line) ==
  /\ line[1] = a /\ \A j \in 1..(NL(m) + 1) : line[j] \in Nat
  /\ \A j \in 1..NL(m) :
       /\ LineLaid(x, line[j], TheLine(m, j))
       /\ line[j + 1] = line[j] + Len(TheLine(m, j)[1]) + Len(TheLine(m, j)[2]) + 3
       /\ line[j + 1] <= line[NL(m) + 1]
  /\ x[line[NL(m) + 1] + 1] = "crlf"

ChunkLaid(x, a, chunk) ==
  /\ x[a + 1] = ToString(Len(chunk)) /\ x[a + 2] = "crlf"
  /\ \A k \in 1..Len(chunk) : x[(a + 2) + k] = chunk[k]
  /\ x[a + Len(chunk) + 3] = "crlf"

(* The body of m behind the first c bytes, chunk j behind chunk[j].        *)
BodyLaid(x, m, c, chunk, end) ==
  /\ m.coding = "none" => end = c
  /\ m.coding = "length" =>
       end = c + Len(m.body[1]) /\ \A k \in 1..Len(m.body[1]) : x[c + k] = m.body[1][k]
  /\ m.coding = "eof" =>
       /\ end = c + Len(FlattenSeq(m.body))
       /\ \A k \in 1..Len(FlattenSeq(m.body)) : x[c + k] = FlattenSeq(m.body)[k]
  /\ m.coding = "chunked" =>
       /\ chunk[1] = c /\ \A j \in 1..(Len(m.body) + 1) : chunk[j] \in Nat
       /\ \A j \in 1..Len(m.body) :
            /\ ChunkLaid(x, chunk[j], m.body[j])
            /\ chunk[j + 1] = chunk[j] + Len(m.body[j]) + 3
       /\ LET z == chunk[Len(m.body) + 1]
          IN  x[z + 1] = "0" /\ x[z + 2] = "crlf" /\ x[z + 3] = "crlf" /\ end = z + 3

(* Where the head of a message ends.                                       *)
BodyAt(m, l) == l.line[NL(m) + 1] + 1

Laid(x, type, m, l) ==
  /\ l.begin \in Nat /\ l.end \in Nat /\ BodyAt(m, l) \in Nat /\ BodyAt(m, l) <= l.end
  /\ FirstLaid(x, type, m, l.begin)
  /\ LinesLaid(x, m, l.begin + FirstSize(type, m), l.line)
  /\ BodyLaid(x, m, BodyAt(m, l), l.chunk, l.end)

------------------------------------------------------------------------------
(* Where a sequence stands, its elements do.                               *)
LEMMA LineFound ==
  ASSUME NEW w \in Seq(Piece), NEW n \in Nat, NEW line, LineOk(line),
         At(w, n, Bytes(HeaderParts(line)))
  PROVE  LineLaid(w, n, line) /\ Len(Bytes(HeaderParts(line))) = Len(line[1]) + Len(line[2]) + 3
         /\ Len(line[1]) \in Nat /\ Len(line[2]) \in Nat
<1> DEFINE N == line[1]
           V == line[2]
<1>1. N \in Seq(Piece) /\ V \in Seq(Piece) /\ Len(N) \in Nat /\ Len(V) \in Nat
  BY LenProperties DEF LineOk
<1>2. LineIn(w, n, Bytes(HeaderParts(line)), N, V)
  BY <1>1, LineAt
<1> HIDE DEF N, V
<1>3. LineLaid(w, n, line)
  BY <1>1, <1>2 DEF LineIn, LineLaid, At, N, V
<1> QED BY <1>1, <1>2, <1>3 DEF LineIn, N, V

LEMMA LinesFound ==
  ASSUME NEW w \in Seq(Piece), NEW a \in Nat, NEW m, GoodLines(m), At(w, a, Bytes(HeadEnd(m)))
  PROVE  \E line : /\ LinesLaid(w, m, a, line)
                   /\ line[NL(m) + 1] + 1 = a + Len(Bytes(HeadEnd(m)))
<1> DEFINE L == HeaderLinesOf(m)
           n == NL(m)
           pp == [i \in 1..n |-> HeaderParts(L[i])]
           all == FlattenSeq(pp)
           crlf == <<Plain(<<"crlf">>)>>
           off == [i \in 1..(n + 1) |-> a + Len(Bytes(FlattenSeq(SubSeq(pp, 1, i - 1))))]
<1>1. /\ n \in Nat /\ \A j \in 1..n : LineOk(L[j]) /\ DOMAIN L = 1..n
      /\ \A j \in 1..n : TheLine(m, j) = L[j]
  BY DEF GoodLines, TheLine
<1>2. pp \in Seq(Seq(Part)) /\ Len(pp) = n
  <2>1. ASSUME NEW j \in 1..n PROVE HeaderParts(L[j]) \in Seq(Part)
    BY <1>1, BytesOfHeader DEF LineOk
  <2> QED BY <1>1, <2>1
<1>3. all \in Seq(Part)
  <2>1. 0 \in 0..Len(pp)
    BY <1>1, <1>2
  <2> QED BY <1>2, <2>1, FlatIsSeq
<1>4. <<"crlf">> \in Seq(Piece) /\ Len(<<"crlf">>) = 1 /\ <<"crlf">>[1] = "crlf"
  BY DEF Piece
<1>5. Bytes(crlf) = <<"crlf">> /\ crlf \in Seq(Part)
  BY <1>4, BytesPlain
<1>6. HeadEnd(m) = all \o crlf
  <2>1. DOMAIN L = 1..n
    BY DEF GoodLines, NL
  <2> QED BY <2>1 DEF HeadEnd, AllParts
<1>7. \A j \in 1..n : pp[j] = HeaderParts(L[j])
  OBVIOUS
<1>8. \A i \in 0..n : off[i + 1] = a + Len(Bytes(FlattenSeq(SubSeq(pp, 1, i))))
  <2>1. \A i \in 0..n : i + 1 \in 1..(n + 1) /\ (i + 1) - 1 = i
    BY <1>1
  <2> QED BY <2>1
<1> HIDE DEF pp, crlf, off, all
<1>9. Bytes(all \o crlf) = Bytes(all) \o <<"crlf">> /\ Bytes(all) \in Seq(Piece)
  BY <1>3, <1>5, BytesBehind
<1>10. At(w, a, Bytes(all) \o <<"crlf">>)
  BY <1>6, <1>9
<1>11. At(w, a, Bytes(all)) /\ At(w, a + Len(Bytes(all)), <<"crlf">>)
  BY <1>4, <1>9, <1>10, SplitAt
<1>12. /\ off[1] = a /\ off[n + 1] = a + Len(Bytes(all))
       /\ \A j \in 1..n :
            /\ off[j] \in Nat
            /\ off[j + 1] = off[j] + Len(Bytes(pp[j]))
            /\ off[j + 1] <= off[n + 1]
            /\ At(w, off[j], Bytes(pp[j]))
  <2>1. At(w, a, Bytes(FlattenSeq(pp)))
    BY <1>11 DEF all
  <2>2. \A i \in 0..Len(pp) : off[i + 1] = a + Len(Bytes(FlattenSeq(SubSeq(pp, 1, i))))
    BY <1>2, <1>8
  <2>3. /\ off[1] = a /\ off[Len(pp) + 1] = a + Len(Bytes(FlattenSeq(pp)))
       /\ \A j \in 1..Len(pp) :
            /\ off[j] \in Nat
            /\ off[j + 1] = off[j] + Len(Bytes(pp[j]))
            /\ off[j + 1] <= off[Len(pp) + 1]
            /\ At(w, off[j], Bytes(pp[j]))
    BY <1>2, <2>1, <2>2, PartsPlaces, ZenonT(40)
  <2> QED BY <1>2, <2>3 DEF all
<1>13. Len(Bytes(all)) \in Nat /\ Len(Bytes(HeadEnd(m))) = Len(Bytes(all)) + 1
  <2>1. Len(Bytes(all) \o <<"crlf">>) = Len(Bytes(all)) + Len(<<"crlf">>)
    BY ONLY <1>4, <1>9, ConcatProperties
  <2> QED BY <1>4, <1>6, <1>9, <2>1, LenProperties
<1>14. ASSUME NEW j \in 1..n
       PROVE  /\ LineLaid(w, off[j], TheLine(m, j))
              /\ off[j + 1] = off[j] + Len(TheLine(m, j)[1]) + Len(TheLine(m, j)[2]) + 3
              /\ off[j + 1] <= off[n + 1]
  <2>1. At(w, off[j], Bytes(HeaderParts(L[j]))) /\ off[j] \in Nat /\ LineOk(L[j])
    BY <1>1, <1>7, <1>12
  <2>2. LineLaid(w, off[j], L[j]) /\ Len(Bytes(HeaderParts(L[j]))) = Len(L[j][1]) + Len(L[j][2]) + 3
        /\ Len(L[j][1]) \in Nat /\ Len(L[j][2]) \in Nat
    BY <2>1, LineFound
  <2>3. off[j + 1] = off[j] + (Len(L[j][1]) + Len(L[j][2]) + 3) /\ off[j + 1] <= off[n + 1]
    BY <1>7, <1>12, <2>2
  <2>4. TheLine(m, j) = L[j]
    BY <1>1
  <2> DEFINE N == Len(L[j][1])
             V == Len(L[j][2])
             u == off[j]
             v == off[j + 1]
  <2>5. u \in Nat /\ N \in Nat /\ V \in Nat /\ v = u + (N + V + 3)
    BY <2>1, <2>2, <2>3
  <2> HIDE DEF N, V, u, v
  <2>6. v = u + N + V + 3
    BY ONLY <2>5
  <2> QED BY <2>2, <2>3, <2>4, <2>6 DEF N, V, u, v
<1>15. w[off[n + 1] + 1] = "crlf"
  BY <1>4, <1>11, <1>12 DEF At
<1>16. \A j \in 1..(n + 1) : off[j] \in Nat
  <2>1. \A j \in 1..(n + 1) : j \in 1..n \/ j = n + 1
    BY <1>1
  <2> QED BY <1>12, <1>13, <2>1
<1>17. LinesLaid(w, m, a, off)
  BY <1>12, <1>14, <1>15, <1>16 DEF LinesLaid
<1>18. off[n + 1] + 1 = a + Len(Bytes(HeadEnd(m)))
  BY <1>12, <1>13
<1> QED BY <1>17, <1>18

LEMMA ChunkFound ==
  ASSUME NEW w \in Seq(Piece), NEW n \in Nat, NEW chunk \in Seq(Piece), Len(chunk) \in 1..9
  PROVE  /\ ChunkParts(chunk) \in Seq(Part)
         /\ Len(Bytes(ChunkParts(chunk))) = Len(chunk) + 3
         /\ At(w, n, Bytes(ChunkParts(chunk))) => ChunkLaid(w, n, chunk)
<1> DEFINE d == ToString(Len(chunk))
           size == <<d, "crlf">>
           end == <<"crlf">>
           p == ChunkParts(chunk)
<1>1. d \in Digit
  <2>1. Len(chunk) \in 0..9
    OBVIOUS
  <2> QED BY <2>1, DigitsAreSpelled
<1> HIDE DEF d
<1>2. /\ size \in Seq(Piece) /\ Len(size) = 2 /\ size[1] = d /\ size[2] = "crlf"
      /\ end \in Seq(Piece) /\ Len(end) = 1 /\ end[1] = "crlf" /\ Len(chunk) \in Nat
  BY <1>1 DEF Piece
<1>3. p = <<Plain(size), Whole(chunk), Plain(end)>>
  BY DEF ChunkParts, d
<1> HIDE DEF size, end
<1>4. p \in Seq(Part) /\ Len(p) = 3 /\ p[1].text = size /\ p[2].text = chunk /\ p[3].text = end
  <2>1. Plain(size) \in Part /\ Whole(chunk) \in Part /\ Plain(end) \in Part
    BY <1>2 DEF Plain, Whole, Part
  <2> QED BY <1>3, <2>1 DEF Plain, Whole
<1> HIDE DEF p
<1>5. Bytes(p) = (size \o chunk) \o end
  <2>1. Len(Texts(p)) = 3 /\ Bytes(p) = FlattenSeq(Texts(p)) /\ DOMAIN p = 1..3
    BY <1>4, TextsOf, LenProperties
  <2>2. Texts(p)[1] = p[1].text /\ Texts(p)[2] = p[2].text /\ Texts(p)[3] = p[3].text
    BY <2>1 DEF Texts
  <2> QED BY <1>4, <2>1, <2>2, FlattenThree
<1> DEFINE y == size \o chunk
<1>6. y \in Seq(Piece) /\ Len(y) = 2 + Len(chunk)
  <2>1. y \in Seq(Piece) /\ Len(y) = Len(size) + Len(chunk)
    BY ONLY <1>2, chunk \in Seq(Piece), ConcatProperties
  <2> QED BY <1>2, <2>1
<1> HIDE DEF y
<1>7. Len(y \o end) = Len(chunk) + 3
  <2>1. Len(y \o end) = Len(y) + Len(end)
    BY ONLY <1>2, <1>6, ConcatProperties
  <2> QED BY <1>2, <1>6, <2>1
<1>8. ASSUME At(w, n, y \o end) PROVE ChunkLaid(w, n, chunk)
  <2>1. At(w, n, y) /\ At(w, n + Len(y), end)
    BY <1>2, <1>6, <1>8, SplitAt
  <2>2. At(w, n, size) /\ At(w, n + Len(size), chunk)
    BY <1>2, <2>1, SplitAt DEF y
  <2>3. w[n + 1] = d /\ w[n + 2] = "crlf"
    BY <1>2, <2>2 DEF At
  <2>4. \A k \in 1..Len(chunk) : w[(n + 2) + k] = chunk[k]
    BY <1>2, <2>2 DEF At
  <2>5. w[n + Len(chunk) + 3] = "crlf"
    <3>1. w[(n + Len(y)) + 1] = "crlf" /\ (n + Len(y)) + 1 = n + Len(chunk) + 3
      BY <1>2, <1>6, <2>1 DEF At
    <3> QED BY <3>1
  <2> QED BY <2>3, <2>4, <2>5 DEF ChunkLaid, d
<1> QED BY <1>4, <1>5, <1>7, <1>8 DEF y, p

LEMMA BodyFound ==
  ASSUME NEW w \in Seq(Piece), NEW c \in Nat, NEW m, GoodBody(m),
         m.coding \in {"none", "eof", "length", "chunked"},
         At(w, c, Bytes(BodyParts(m)))
  PROVE  /\ Len(Bytes(BodyParts(m))) \in Nat
         /\ \E chunk : BodyLaid(w, m, c, chunk, c + Len(Bytes(BodyParts(m))))
<1>1. CASE m.coding = "none"
  <2>1. Bytes(BodyParts(m)) = <<>>
    <3>1. BodyParts(m) = <<>>
      BY <1>1 DEF BodyParts
    <3>2. [i \in DOMAIN <<>> |-> <<>>[i].text] = <<>>
      OBVIOUS
    <3> QED BY <3>1, <3>2, FlattenNone DEF Bytes
  <2>2. Len(<<>>) = 0
    OBVIOUS
  <2> QED BY <1>1, <2>1, <2>2 DEF BodyLaid
<1>2. ASSUME NEW t \in Seq(Piece)
      PROVE  Bytes(<<Whole(t)>>) = t /\ Len(t) \in Nat
  <2>1. [i \in DOMAIN <<Whole(t)>> |-> <<Whole(t)>>[i].text] = <<t>>
    BY DEF Whole
  <2> QED BY <2>1, FlattenOne, LenProperties DEF Bytes
<1>3. CASE m.coding = "length"
  <2>1. m.body[1] \in Seq(Piece)
    <3>1. 1 \in 1..Len(m.body)
      BY <1>3 DEF GoodBody
    <3> QED BY <3>1, ElementOfSeq DEF GoodBody
  <2>2. Bytes(BodyParts(m)) = m.body[1] /\ Len(m.body[1]) \in Nat
    BY <1>2, <1>3, <2>1 DEF BodyParts
  <2> QED BY <1>3, <2>2 DEF BodyLaid, At
<1>4. CASE m.coding = "eof"
  <2> DEFINE t == FlattenSeq(m.body)
  <2>1. t \in Seq(Piece)
    <3>1. 0 \in 0..Len(m.body)
      BY DEF GoodBody
    <3> QED BY <3>1, FlatIsSeq DEF GoodBody
  <2>2. Bytes(BodyParts(m)) = t /\ Len(t) \in Nat
    BY <1>2, <1>4, <2>1 DEF BodyParts
  <2> QED BY <1>4, <2>2 DEF BodyLaid, At
<1>5. CASE m.coding = "chunked"
  <2> DEFINE n == Len(m.body)
             pp == [i \in 1..n |-> ChunkParts(m.body[i])]
             all == FlattenSeq(pp)
             text == <<"0", "crlf", "crlf">>
             last == <<Plain(text)>>
             off == [i \in 1..(n + 1) |-> c + Len(Bytes(FlattenSeq(SubSeq(pp, 1, i - 1))))]
  <2>1. /\ n \in Nat /\ DOMAIN m.body = 1..n
        /\ \A i \in 1..n : m.body[i] \in Seq(Piece) /\ Len(m.body[i]) \in 1..9
    BY <1>5, LenProperties, ElementOfSeq DEF GoodBody
  <2>2. pp \in Seq(Seq(Part)) /\ Len(pp) = n
    <3>1. \A i \in 1..n : ChunkParts(m.body[i]) \in Seq(Part)
      BY <2>1, ChunkFound
    <3> QED BY <2>1, <3>1
  <2>3. all \in Seq(Part)
    <3>1. 0 \in 0..Len(pp)
      BY <2>1, <2>2
    <3> QED BY <2>2, <3>1, FlatIsSeq
  <2>4. text \in Seq(Piece) /\ Len(text) = 3 /\ text[1] = "0" /\ text[2] = "crlf" /\ text[3] = "crlf"
    BY DEF Piece, Digit
  <2>5. BodyParts(m) = all \o last
    BY <1>5, <2>1 DEF BodyParts, AllParts
  <2>7. \A j \in 1..n : pp[j] = ChunkParts(m.body[j])
    OBVIOUS
  <2>8. \A i \in 0..n : off[i + 1] = c + Len(Bytes(FlattenSeq(SubSeq(pp, 1, i))))
    <3>1. \A i \in 0..n : i + 1 \in 1..(n + 1) /\ (i + 1) - 1 = i
      BY <2>1
    <3> QED BY <3>1
  <2> HIDE DEF text, pp, off, all
  <2>6. Bytes(last) = text /\ last \in Seq(Part)
    BY <2>4, BytesPlain
  <2> HIDE DEF last
  <2>9. Bytes(all \o last) = Bytes(all) \o text /\ Bytes(all) \in Seq(Piece)
    BY <2>3, <2>6, BytesBehind
  <2>10. At(w, c, Bytes(all) \o text)
    BY <2>5, <2>9
  <2>11. At(w, c, Bytes(all)) /\ At(w, c + Len(Bytes(all)), text)
    BY <2>4, <2>9, <2>10, SplitAt
  <2>12. /\ off[1] = c /\ off[n + 1] = c + Len(Bytes(all))
         /\ \A j \in 1..n :
              /\ off[j] \in Nat
              /\ off[j + 1] = off[j] + Len(Bytes(pp[j]))
              /\ off[j + 1] <= off[n + 1]
              /\ At(w, off[j], Bytes(pp[j]))
    <3>1. At(w, c, Bytes(FlattenSeq(pp)))
      BY <2>11 DEF all
    <3>2. \A i \in 0..Len(pp) : off[i + 1] = c + Len(Bytes(FlattenSeq(SubSeq(pp, 1, i))))
      BY <2>2, <2>8
    <3>3. /\ off[1] = c /\ off[Len(pp) + 1] = c + Len(Bytes(FlattenSeq(pp)))
         /\ \A j \in 1..Len(pp) :
              /\ off[j] \in Nat
              /\ off[j + 1] = off[j] + Len(Bytes(pp[j]))
              /\ off[j + 1] <= off[Len(pp) + 1]
              /\ At(w, off[j], Bytes(pp[j]))
      BY <2>2, <3>1, <3>2, PartsPlaces
    <3> QED BY <2>2, <3>3 DEF all
  <2>13. Len(Bytes(all)) \in Nat /\ Len(Bytes(BodyParts(m))) = Len(Bytes(all)) + 3
    <3>1. Len(Bytes(all) \o text) = Len(Bytes(all)) + Len(text)
      BY ONLY <2>4, <2>9, ConcatProperties
    <3> QED BY <2>4, <2>5, <2>9, <3>1, LenProperties
  <2>14. ASSUME NEW j \in 1..n
         PROVE  ChunkLaid(w, off[j], m.body[j]) /\ off[j + 1] = off[j] + Len(m.body[j]) + 3
    <3>1. /\ off[j] \in Nat /\ m.body[j] \in Seq(Piece) /\ Len(m.body[j]) \in 1..9
          /\ At(w, off[j], Bytes(ChunkParts(m.body[j])))
      BY <2>1, <2>7, <2>12
    <3>2. ChunkLaid(w, off[j], m.body[j]) /\ Len(Bytes(ChunkParts(m.body[j]))) = Len(m.body[j]) + 3
      BY <3>1, ChunkFound
    <3>3. off[j + 1] = off[j] + (Len(m.body[j]) + 3)
      BY <2>7, <2>12, <3>2
    <3> QED BY <3>1, <3>2, <3>3, SMTT(30)
  <2>15. \A j \in 1..(n + 1) : off[j] \in Nat
    <3>0. n \in Nat
      BY <2>1
    <3> HIDE DEF n
    <3>1. \A j \in 1..(n + 1) : j \in 1..n \/ j = n + 1
      BY <3>0
    <3> QED BY <2>12, <2>13, <3>1
  <2> DEFINE z == off[n + 1]
             e == c + Len(Bytes(BodyParts(m)))
  <2>16. w[z + 1] = "0" /\ w[z + 2] = "crlf" /\ w[z + 3] = "crlf" /\ e = z + 3
    <3>1. At(w, z, text)
      BY <2>11, <2>12
    <3> QED BY <2>4, <2>12, <2>13, <3>1 DEF At
  <2> HIDE DEF e
  <2>17. BodyLaid(w, m, c, off, e)
    BY <1>5, <2>12, <2>14, <2>15, <2>16 DEF BodyLaid
  <2> QED BY <2>13, <2>17 DEF e
<1> QED BY <1>1, <1>3, <1>4, <1>5

------------------------------------------------------------------------------
LEMMA HeadEndParts ==
  ASSUME NEW m, GoodLines(m)
  PROVE  HeadEnd(m) \in Seq(Part)
<1> DEFINE L == HeaderLinesOf(m)
           n == NL(m)
           pp == [i \in 1..n |-> HeaderParts(L[i])]
<1>1. n \in Nat /\ DOMAIN L = 1..n /\ \A j \in 1..n : LineOk(L[j])
  BY DEF GoodLines, TheLine
<1>2. pp \in Seq(Seq(Part))
  <2>1. ASSUME NEW j \in 1..n PROVE HeaderParts(L[j]) \in Seq(Part)
    BY <1>1, BytesOfHeader DEF LineOk
  <2> QED BY <1>1, <2>1
<1>3. HeadEnd(m) = FlattenSeq(pp) \o <<Plain(<<"crlf">>)>>
  BY <1>1 DEF HeadEnd, AllParts
<1> HIDE DEF pp
<1>4. FlattenSeq(pp) \in Seq(Part)
  <2>1. 0 \in 0..Len(pp)
    BY <1>2, LenProperties
  <2> QED BY <1>2, <2>1, FlatIsSeq
<1>5. <<Plain(<<"crlf">>)>> \in Seq(Part)
  <2>1. <<"crlf">> \in Seq(Piece)
    BY DEF Piece
  <2> QED BY <2>1, BytesPlain
<1> QED BY <1>3, <1>4, <1>5, ConcatProperties

LEMMA BodyPartsParts ==
  ASSUME NEW m, GoodBody(m), m.coding \in {"none", "eof", "length", "chunked"}
  PROVE  BodyParts(m) \in Seq(Part)
<1>1. ASSUME NEW t \in Seq(Piece) PROVE <<Whole(t)>> \in Seq(Part)
  <2>1. Whole(t) \in Part
    BY DEF Whole, Part
  <2> QED BY <2>1
<1>2. m.body \in Seq(Seq(Piece)) /\ Len(m.body) \in Nat
  BY DEF GoodBody
<1>3. CASE m.coding = "none"
  BY <1>3 DEF BodyParts
<1>4. CASE m.coding = "eof"
  <2>1. FlattenSeq(m.body) \in Seq(Piece)
    <3>1. 0 \in 0..Len(m.body)
      BY <1>2
    <3> QED BY <1>2, <3>1, FlatIsSeq
  <2> QED BY <1>1, <1>4, <2>1 DEF BodyParts
<1>5. CASE m.coding = "length"
  <2>1. 1 \in 1..Len(m.body)
    BY <1>5 DEF GoodBody
  <2>2. m.body[1] \in Seq(Piece)
    BY <1>2, <2>1, ElementOfSeq
  <2> QED BY <1>1, <1>5, <2>2 DEF BodyParts
<1>6. CASE m.coding = "chunked"
  <2> DEFINE n == Len(m.body)
             pp == [i \in 1..n |-> ChunkParts(m.body[i])]
             last == <<Plain(<<"0", "crlf", "crlf">>)>>
  <2>1. n \in Nat /\ DOMAIN m.body = 1..n
        /\ \A i \in 1..n : m.body[i] \in Seq(Piece) /\ Len(m.body[i]) \in 1..9
    BY <1>6, LenProperties, ElementOfSeq DEF GoodBody
  <2>2. pp \in Seq(Seq(Part))
    <3>1. \A i \in 1..n : ChunkParts(m.body[i]) \in Seq(Part)
      BY <2>1, ChunkFound
    <3> QED BY <2>1, <3>1
  <2>3. BodyParts(m) = FlattenSeq(pp) \o last
    BY <1>6, <2>1 DEF BodyParts, AllParts
  <2> HIDE DEF pp
  <2>4. FlattenSeq(pp) \in Seq(Part)
    <3>1. 0 \in 0..Len(pp)
      BY <2>2, LenProperties
    <3> QED BY <2>2, <3>1, FlatIsSeq
  <2>5. last \in Seq(Part)
    <3>1. <<"0", "crlf", "crlf">> \in Seq(Piece)
      BY DEF Piece, Digit
    <3> QED BY <3>1, BytesPlain
  <2> HIDE DEF last
  <2> QED BY <2>3, <2>4, <2>5, ConcatProperties
<1> QED BY <1>3, <1>4, <1>5, <1>6

(* The parts of a message: a first line, the header lines, the body.       *)
LEMMA MessageFound ==
  ASSUME NEW w \in Seq(Piece), NEW b \in Nat, NEW m, NEW type, Good(type, m),
         NEW first \in Seq(Part), Len(Bytes(first)) = FirstSize(type, m),
         At(w, b, Bytes(first)) => FirstLaid(w, type, m, b),
         At(w, b, Bytes((first \o HeadEnd(m)) \o BodyParts(m)))
  PROVE  /\ Len(Bytes((first \o HeadEnd(m)) \o BodyParts(m))) \in Nat
         /\ (first \o HeadEnd(m)) \o BodyParts(m) \in Seq(Part)
         /\ \E l : /\ l.begin = b /\ l.end = b + Len(Bytes((first \o HeadEnd(m)) \o BodyParts(m)))
                   /\ BodyAt(m, l) = b + Len(Bytes(first \o HeadEnd(m)))
                   /\ Laid(w, type, m, l)
<1> DEFINE h == HeadEnd(m)
           d == BodyParts(m)
           f == Bytes(first)
           head == first \o h
           a == b + FirstSize(type, m)
<1>1. h \in Seq(Part) /\ d \in Seq(Part)
  BY HeadEndParts, BodyPartsParts DEF Good, GoodFirst
<1> HIDE DEF h, d
<1>2. head \in Seq(Part) /\ Bytes(head) = f \o Bytes(h) /\ Bytes(h) \in Seq(Piece) /\ f \in Seq(Piece)
  BY <1>1, BytesBehind, ConcatProperties
<1>3. /\ Bytes(head \o d) = Bytes(head) \o Bytes(d) /\ Bytes(head) \in Seq(Piece) /\ Bytes(d) \in Seq(Piece)
      /\ head \o d \in Seq(Part)
  BY <1>1, <1>2, BytesBehind, ConcatProperties
<1>4. At(w, b, Bytes(head) \o Bytes(d))
  BY <1>3 DEF h, d
<1>5. At(w, b, Bytes(head)) /\ At(w, b + Len(Bytes(head)), Bytes(d))
  BY <1>3, <1>4, SplitAt
<1>6. At(w, b, f) /\ At(w, b + Len(f), Bytes(h))
  <2>1. At(w, b, f \o Bytes(h))
    BY <1>2, <1>5
  <2> HIDE DEF f
  <2> QED BY <1>2, <2>1, SplitAt
<1>7. Len(f) \in Nat /\ Len(Bytes(h)) \in Nat /\ Len(Bytes(d)) \in Nat
      /\ Len(Bytes(head)) = Len(f) + Len(Bytes(h))
      /\ Len(Bytes(head \o d)) = Len(Bytes(head)) + Len(Bytes(d))
  <2> HIDE DEF head, f
  <2>1. Len(f \o Bytes(h)) = Len(f) + Len(Bytes(h)) /\ Len(Bytes(head) \o Bytes(d)) = Len(Bytes(head)) + Len(Bytes(d))
    BY ONLY <1>2, <1>3, ConcatProperties
  <2> QED BY <1>2, <1>3, <2>1, LenProperties
<1>8. a \in Nat /\ a = b + Len(f)
  BY <1>7
<1>9. PICK line : LinesLaid(w, m, a, line) /\ line[NL(m) + 1] + 1 = a + Len(Bytes(h))
  <2>1. At(w, a, Bytes(HeadEnd(m))) /\ GoodLines(m)
    BY <1>6, <1>8 DEF h, Good
  <2> HIDE DEF a
  <2> QED BY <1>8, <2>1, LinesFound DEF h
<1> DEFINE c == b + Len(Bytes(head))
<1>10. c \in Nat /\ c = a + Len(Bytes(h))
  BY <1>7, <1>8, SMTT(30)
<1>11. PICK chunk : BodyLaid(w, m, c, chunk, c + Len(Bytes(d)))
  <2>1. At(w, c, Bytes(BodyParts(m))) /\ GoodBody(m) /\ m.coding \in {"none", "eof", "length", "chunked"}
    BY <1>5 DEF d, Good, GoodFirst
  <2> HIDE DEF c
  <2> QED BY <1>10, <2>1, BodyFound DEF d
<1> DEFINE l == [begin |-> b, line |-> line, chunk |-> chunk, end |-> c + Len(Bytes(d))]
<1>12. /\ l.begin = b /\ l.line = line /\ l.chunk = chunk /\ l.end = c + Len(Bytes(d))
  OBVIOUS
<1> HIDE DEF l
<1>13. BodyAt(m, l) = c
  BY <1>9, <1>10, <1>12 DEF BodyAt
<1>14. l.end \in Nat /\ c <= l.end /\ l.end = b + Len(Bytes(head \o d)) /\ Len(Bytes(head \o d)) \in Nat
  <2> DEFINE f0 == Len(f)
             h0 == Len(Bytes(h))
             d0 == Len(Bytes(d))
             k0 == Len(Bytes(head))
             a0 == Len(Bytes(head \o d))
             e0 == l.end
  <2>1. /\ b \in Nat /\ f0 \in Nat /\ h0 \in Nat /\ d0 \in Nat /\ k0 = f0 + h0 /\ a0 = k0 + d0
        /\ e0 = (b + k0) + d0
    BY <1>7, <1>12
  <2> HIDE DEF f0, h0, d0, k0, a0, e0
  <2>2. e0 \in Nat /\ b + k0 <= e0 /\ e0 = b + a0 /\ a0 \in Nat
    BY ONLY <2>1
  <2> QED BY <2>2 DEF e0, k0, a0
<1>15. FirstLaid(w, type, m, b)
  BY <1>6
<1>16. Laid(w, type, m, l)
  BY <1>9, <1>10, <1>11, <1>12, <1>13, <1>14, <1>15 DEF Laid
<1> QED BY <1>3, <1>12, <1>13, <1>14, <1>16 DEF h, d

LEMMA RequestFound ==
  ASSUME NEW w \in Seq(Piece), NEW b \in Nat, NEW m, Good("request", m),
         At(w, b, Bytes(RequestParts(m)))
  PROVE  /\ Len(Bytes(RequestParts(m))) \in Nat
         /\ RequestParts(m) \in Seq(Part)
         /\ \E l : /\ l.begin = b /\ l.end = b + Len(Bytes(RequestParts(m)))
                   /\ BodyAt(m, l) = b + Len(Bytes(RequestHead(m)))
                   /\ Laid(w, "request", m, l)
<1> DEFINE t1 == <<m.method, "sp">>
           t3 == <<"sp", m.version, "crlf">>
           u == m.url
           first == <<Plain(t1), Name(u), Plain(t3)>>
<1>1. /\ u \in Seq(Piece) /\ Len(u) \in Nat /\ m.method \in Method /\ m.version \in Version
  BY DEF Good, GoodFirst
<1>2. /\ t1 \in Seq(Piece) /\ Len(t1) = 2 /\ t1[1] = m.method /\ t1[2] = "sp"
      /\ t3 \in Seq(Piece) /\ Len(t3) = 3 /\ t3[1] = "sp" /\ t3[2] = m.version /\ t3[3] = "crlf"
  BY <1>1 DEF Piece
<1>3. RequestParts(m) = (first \o HeadEnd(m)) \o BodyParts(m) /\ RequestHead(m) = first \o HeadEnd(m)
  BY DEF RequestParts, RequestHead
<1> HIDE DEF t1, t3
<1>4. first \in Seq(Part) /\ Len(first) = 3 /\ first[1].text = t1 /\ first[2].text = u /\ first[3].text = t3
  <2>1. Plain(t1) \in Part /\ Name(u) \in Part /\ Plain(t3) \in Part
    BY <1>1, <1>2 DEF Plain, Name, Part
  <2> QED BY <2>1 DEF Plain, Name
<1> HIDE DEF first
<1>5. Bytes(first) = (t1 \o u) \o t3
  <2>1. Len(Texts(first)) = 3 /\ Bytes(first) = FlattenSeq(Texts(first)) /\ DOMAIN first = 1..3
    BY <1>4, TextsOf, LenProperties
  <2>2. Texts(first)[1] = first[1].text /\ Texts(first)[2] = first[2].text /\ Texts(first)[3] = first[3].text
    BY <2>1 DEF Texts
  <2> QED BY <1>4, <2>1, <2>2, FlattenThree
<1> HIDE DEF u
<1> DEFINE y == t1 \o u
<1>6. y \in Seq(Piece) /\ Len(y) = 2 + Len(u)
  <2>1. y \in Seq(Piece) /\ Len(y) = Len(t1) + Len(u)
    BY ONLY <1>1, <1>2, ConcatProperties
  <2> QED BY <1>2, <2>1
<1> HIDE DEF y
<1>7. Len(y \o t3) = Len(u) + 5
  <2>1. Len(y \o t3) = Len(y) + Len(t3)
    BY ONLY <1>2, <1>6, ConcatProperties
  <2> QED BY <1>1, <1>2, <1>6, <2>1
<1>8. ASSUME At(w, b, y \o t3) PROVE FirstLaid(w, "request", m, b)
  <2>1. At(w, b, y) /\ At(w, b + Len(y), t3)
    BY <1>2, <1>6, <1>8, SplitAt
  <2>2. At(w, b, t1) /\ At(w, b + Len(t1), u)
    BY <1>1, <1>2, <2>1, SplitAt DEF y
  <2>3. w[b + 1] = m.method /\ w[b + 2] = "sp"
    BY <1>2, <2>2 DEF At
  <2>4. \A k \in 1..Len(u) : w[(b + 2) + k] = u[k]
    BY <1>2, <2>2 DEF At
  <2>5. w[b + Len(u) + 3] = "sp" /\ w[b + Len(u) + 4] = m.version /\ w[b + Len(u) + 5] = "crlf"
    <3>1. /\ w[(b + Len(y)) + 1] = "sp" /\ w[(b + Len(y)) + 2] = m.version
          /\ w[(b + Len(y)) + 3] = "crlf"
      BY <1>2, <2>1 DEF At
    <3>2. /\ (b + Len(y)) + 1 = b + Len(u) + 3 /\ (b + Len(y)) + 2 = b + Len(u) + 4
          /\ (b + Len(y)) + 3 = b + Len(u) + 5
      BY <1>1, <1>6
    <3> QED BY <3>1, <3>2
  <2> QED BY <2>3, <2>4, <2>5 DEF FirstLaid, u
<1>9. Len(Bytes(first)) = FirstSize("request", m) /\ (At(w, b, Bytes(first)) => FirstLaid(w, "request", m, b))
  BY <1>5, <1>7, <1>8 DEF FirstSize, y, u
<1>10. At(w, b, Bytes((first \o HeadEnd(m)) \o BodyParts(m)))
  BY <1>3
<1> HIDE DEF y
<1> QED BY <1>3, <1>4, <1>9, <1>10, MessageFound

LEMMA ResponseFound ==
  ASSUME NEW w \in Seq(Piece), NEW b \in Nat, NEW m, Good("response", m),
         At(w, b, Bytes(ResponseParts(m)))
  PROVE  /\ Len(Bytes(ResponseParts(m))) \in Nat
         /\ ResponseParts(m) \in Seq(Part)
         /\ \E l : /\ l.begin = b /\ l.end = b + Len(Bytes(ResponseParts(m)))
                   /\ BodyAt(m, l) = b + Len(Bytes(ResponseHead(m)))
                   /\ Laid(w, "response", m, l)
<1> DEFINE t == <<m.version, "sp", m.status, "sp", "reason", "crlf">>
           first == <<Plain(t)>>
<1>1. m.status \in Status /\ m.version \in Version
  BY DEF Good, GoodFirst
<1>2. /\ t \in Seq(Piece) /\ Len(t) = 6 /\ t[1] = m.version /\ t[2] = "sp" /\ t[3] = m.status
      /\ t[4] = "sp" /\ t[5] = "reason" /\ t[6] = "crlf"
  BY <1>1 DEF Piece
<1>3. ResponseParts(m) = (first \o HeadEnd(m)) \o BodyParts(m) /\ ResponseHead(m) = first \o HeadEnd(m)
  BY DEF ResponseParts, ResponseHead
<1> HIDE DEF t
<1>4. first \in Seq(Part) /\ Bytes(first) = t
  BY <1>2, BytesPlain
<1> HIDE DEF first
<1>9. Len(Bytes(first)) = FirstSize("response", m) /\ (At(w, b, Bytes(first)) => FirstLaid(w, "response", m, b))
  <2>1. Len(Bytes(first)) = FirstSize("response", m)
    BY <1>2, <1>4 DEF FirstSize
  <2>2. ASSUME At(w, b, Bytes(first)) PROVE FirstLaid(w, "response", m, b)
    <3>1. At(w, b, t)
      BY <1>4, <2>2
    <3>2. \A k \in 1..6 : w[b + k] = t[k]
      BY <1>2, <3>1 DEF At
    <3>3. w[b + 1] = t[1] /\ w[b + 2] = t[2] /\ w[b + 3] = t[3] /\ w[b + 4] = t[4] /\ w[b + 5] = t[5] /\ w[b + 6] = t[6]
      BY <3>2
    <3> QED BY <1>2, <3>3 DEF FirstLaid
  <2> QED BY <2>1, <2>2
<1>10. At(w, b, Bytes((first \o HeadEnd(m)) \o BodyParts(m)))
  BY <1>3
<1> QED BY <1>3, <1>4, <1>9, <1>10, MessageFound

------------------------------------------------------------------------------
(* What the lines of a head leave in the flags: the name of a line, the    *)
(* first piece of its value, and the value.                                *)
NameFlags(line)  == IF line[1] = TransferEncoding THEN {"te"} ELSE {}
ValueFlags(line) == (IF line[1] = ContentLength THEN {"length"} ELSE {})
                      \cup (IF line[1] = Upgrade THEN {"upgrade"} ELSE {})
LineFlags(line)  == HeaderFlags([name |-> line[1], value |-> line[2]])

FlagsOf(line) ==
  NameFlags(line) \cup IF line[2] = <<>> THEN {} ELSE ValueFlags(line) \cup LineFlags(line)

FlagsUpTo(m, j) == UNION {FlagsOf(TheLine(m, i)) : i \in 1..j}

AllFlags(m) == FlagsUpTo(m, NL(m))

LengthUpTo(m, j) ==
  IF m.coding = "length" /\ j = NL(m) THEN Len(m.body[1]) ELSE ULLONG_MAX

(* Line by line.                                                           *)
LEMMA FlagsStep ==
  ASSUME NEW m, NEW j \in Nat, j > 0
  PROVE  FlagsUpTo(m, j) = FlagsUpTo(m, j - 1) \cup FlagsOf(TheLine(m, j))
<1>1. \A i : i \in 1..j <=> i \in 1..(j - 1) \/ i = j
  OBVIOUS
<1> DEFINE F(i) == FlagsOf(TheLine(m, i))
<1>2. FlagsUpTo(m, j) = UNION {F(i) : i \in 1..j} /\ FlagsUpTo(m, j - 1) = UNION {F(i) : i \in 1..(j - 1)}
  BY DEF FlagsUpTo
<1> HIDE DEF F
<1>3. UNION {F(i) : i \in 1..j} = (UNION {F(i) : i \in 1..(j - 1)}) \cup F(j)
  BY ONLY <1>1
<1> QED BY <1>2, <1>3 DEF F

LEMMA FlagsNone == ASSUME NEW m PROVE FlagsUpTo(m, 0) = {}
BY DEF FlagsUpTo

(* What the scan of a list makes of no piece, and of one.                  *)
Unscanned == [at |-> "first", token |-> <<>>, found |-> {}]

IsScan(f, value, tokens, next) ==
  f = [s \in SUBSET (DOMAIN value) |->
         IF s = {} THEN Unscanned
         ELSE ListPiece(f[s \ {Max(s)}], value[Max(s)], tokens, next)]

LEMMA ScanUnfold ==
  ASSUME NEW value, NEW tokens, NEW next
  PROVE  LET f == CHOOSE f : IsScan(f, value, tokens, next)
         IN  ListScan(value, tokens, next) = f[DOMAIN value]
BY DEF ListScan, FoldLeft, MapThenFoldSet, IsScan, Unscanned

(* The scan of no piece, and of one.                                       *)
LEMMA ScanShort ==
  ASSUME NEW x, NEW tokens, NEW next
  PROVE  /\ ListScan(<<>>, tokens, next) = Unscanned
         /\ ListScan(<<x>>, tokens, next) = ListPiece(Unscanned, x, tokens, next)
<1>1. ASSUME NEW v, v = <<>> \/ v = <<x>>
      PROVE  ListScan(v, tokens, next) =
               IF v = <<>> THEN Unscanned ELSE ListPiece(Unscanned, x, tokens, next)
  <2> DEFINE g == [s \in SUBSET (DOMAIN v) |->
                     IF s = {} THEN Unscanned ELSE ListPiece(Unscanned, x, tokens, next)]
             f == CHOOSE f : IsScan(f, v, tokens, next)
  <2>1. (DOMAIN v = {} /\ v = <<>>) \/ (DOMAIN v = {1} /\ v # <<>> /\ v[1] = x)
    <3>1. CASE v = <<>>
      BY <3>1
    <3>2. CASE v = <<x>>
      <4>1. DOMAIN <<x>> = {1} /\ <<x>> # <<>> /\ <<x>>[1] = x
        OBVIOUS
      <4> QED BY <3>2, <4>1
    <3> QED BY <1>1, <3>1, <3>2
  <2>2. ASSUME NEW s \in SUBSET (DOMAIN v)
        PROVE  s = {} \/ (s = {1} /\ v # <<>> /\ v[1] = x)
    BY <2>1
  <2>3. Max({1}) = 1
    BY DEF Max
  <2>4. IsScan(g, v, tokens, next)
    <3>1. ASSUME NEW s \in SUBSET (DOMAIN v), s # {}
          PROVE  g[s \ {Max(s)}] = Unscanned /\ v[Max(s)] = x
      <4>1. s = {1} /\ v[1] = x /\ s \ {Max(s)} = {}
        BY <2>2, <2>3, <3>1
      <4>2. g[{}] = Unscanned
        OBVIOUS
      <4> QED BY <2>3, <4>1, <4>2
    <3>2. \A s \in SUBSET (DOMAIN v) :
            (IF s = {} THEN Unscanned ELSE ListPiece(Unscanned, x, tokens, next)) =
            (IF s = {} THEN Unscanned ELSE ListPiece(g[s \ {Max(s)}], v[Max(s)], tokens, next))
      <4> HIDE DEF g
      <4> QED BY <3>1
    <3> QED BY <3>2, Zenon DEF IsScan
  <2>5. IsScan(f, v, tokens, next)
    <3> HIDE DEF g
    <3> QED BY <2>4
  <2>6. f[DOMAIN v] = IF v = <<>> THEN Unscanned ELSE ListPiece(f[{}], x, tokens, next)
    <3> HIDE DEF f
    <3>1. \A s \in SUBSET (DOMAIN v) :
            f[s] = IF s = {} THEN Unscanned
                   ELSE ListPiece(f[s \ {Max(s)}], v[Max(s)], tokens, next)
      BY <2>5, Zenon DEF IsScan
    <3>2. CASE DOMAIN v = {} /\ v = <<>>
      BY <3>1, <3>2
    <3>3. CASE DOMAIN v = {1} /\ v # <<>> /\ v[1] = x
      <4>1. {1} \ {1} = {} /\ {1} # {}
        OBVIOUS
      <4> QED BY <2>3, <3>1, <3>3, <4>1
    <3> QED BY <2>1, <3>2, <3>3
  <2>7. f[{}] = Unscanned
    <3> HIDE DEF f
    <3>1. {} \in SUBSET (DOMAIN v)
      OBVIOUS
    <3> QED BY <2>5, <3>1, Zenon DEF IsScan
  <2> QED BY <2>6, <2>7, ScanUnfold
<1> QED BY <1>1

LEMMA NothingListed == ASSUME NEW token PROVE ~Lists(<<>>, token)
<1> DEFINE T == {<<"close">>, <<"keep-alive">>, Upgrade}
<1>1. ListScan(<<>>, T, "start") = Unscanned
  <2> HIDE DEF T
  <2> QED BY ScanShort
<1>2. Unscanned.found = {} /\ Unscanned.at # "token"
  BY DEF Unscanned
<1>3. Lists(<<>>, token) <=> token \in {} \cup {}
  <2> HIDE DEF T
  <2> QED BY <1>1, <1>2 DEF Lists, T
<1> QED BY <1>3

LEMMA ChunkedIsLast == EndsChunked(Chunked)
<1>1. ListScan(Chunked, {Chunked}, "other") = ListPiece(Unscanned, "chunked", {Chunked}, "other")
  BY ScanShort DEF Chunked
<1>2. Append(<<>>, "chunked") = Chunked /\ IsPrefix(Chunked, Chunked)
  <2>1. Append(<<>>, "chunked") = Chunked
    BY DEF Chunked
  <2>2. IsPrefix(Chunked, Chunked)
    BY DEF IsPrefix, Chunked
  <2> QED BY <2>1, <2>2
<1>3. ListPiece(Unscanned, "chunked", {Chunked}, "other").at = "token"
  BY <1>2, "chunked" \in {"chunked"} DEF ListPiece, Unscanned
<1> QED BY <1>1, <1>3 DEF EndsChunked

(* Which of the flags a line can set.                                      *)
LEMMA FlagsOfLine ==
  ASSUME NEW line
  PROVE  /\ "te" \in FlagsOf(line) <=> line[1] = TransferEncoding
         /\ "length" \in FlagsOf(line) <=> line[1] = ContentLength /\ line[2] # <<>>
         /\ "chunked" \in FlagsOf(line) => line[1] = TransferEncoding
         /\ line[1] = TransferEncoding /\ line[2] = Chunked => "chunked" \in FlagsOf(line)
         /\ "trailing" \notin FlagsOf(line)
<1>1. LineFlags(line) = CASE line[1] = Connection ->
         {f \in {"close", "keep-alive"} :
            Lists([i \in DOMAIN line[2] |-> Lower(line[2][i])], <<f>>)} \cup
         (IF Lists(line[2], Upgrade) THEN {"connection_upgrade"} ELSE {})
    [] line[1] = TransferEncoding ->
         IF EndsChunked(line[2]) THEN {"chunked"} ELSE {}
    [] OTHER -> {}
  BY DEF LineFlags, HeaderFlags
<1>2. /\ LineFlags(line) \subseteq {"close", "keep-alive", "connection_upgrade", "chunked"}
      /\ "chunked" \in LineFlags(line) => line[1] = TransferEncoding
  <2>1. Connection # TransferEncoding
    BY DEF Connection, TransferEncoding
  <2>2. CASE line[1] = Connection
    <3>1. LineFlags(line) = {f \in {"close", "keep-alive"} :
            Lists([i \in DOMAIN line[2] |-> Lower(line[2][i])], <<f>>)} \cup
         (IF Lists(line[2], Upgrade) THEN {"connection_upgrade"} ELSE {})
      BY <1>1, <2>1, <2>2
    <3> QED BY <3>1
  <2>3. CASE line[1] = TransferEncoding
    <3>1. LineFlags(line) = IF EndsChunked(line[2]) THEN {"chunked"} ELSE {}
      BY <1>1, <2>1, <2>3
    <3> QED BY <2>3, <3>1
  <2>4. CASE line[1] # Connection /\ line[1] # TransferEncoding
    BY <1>1, <2>4
  <2> QED BY <2>2, <2>3, <2>4
<1>3. line[1] = TransferEncoding /\ line[2] = Chunked => "chunked" \in LineFlags(line) /\ line[2] # <<>>
  <2>1. TransferEncoding # Connection /\ Chunked # <<>>
    BY DEF Connection, TransferEncoding, Chunked
  <2> QED BY <1>1, <2>1, ChunkedIsLast
<1> HIDE <1>1
<1> QED BY <1>2, <1>3 DEF FlagsOf, NameFlags, ValueFlags

(* The flags of a head say how the body is coded.                          *)
LEMMA FlagsOfHead ==
  ASSUME NEW m, GoodLines(m)
  PROVE  /\ "te" \in AllFlags(m) <=> m.coding = "chunked"
         /\ "chunked" \in AllFlags(m) <=> m.coding = "chunked"
         /\ "length" \in AllFlags(m) <=> m.coding = "length"
         /\ "trailing" \notin AllFlags(m)
         /\ \A j \in 1..NL(m) : "length" \notin FlagsUpTo(m, j - 1)
<1> DEFINE n == NL(m)
<1>1. /\ n \in Nat
      /\ \A j \in 1..n :
           /\ TheLine(m, j)[1] = TransferEncoding <=> m.coding = "chunked" /\ j = n
           /\ TheLine(m, j)[1] = ContentLength <=> m.coding = "length" /\ j = n
      /\ m.coding = "chunked" => n >= 1 /\ TheLine(m, n)[2] = Chunked
      /\ m.coding = "length" => n >= 1 /\ TheLine(m, n)[2] # <<>>
  <2>1. \A d : <<d>> # <<>>
    OBVIOUS
  <2> HIDE DEF n
  <2>2. GoodLines(m)
    OBVIOUS
  <2>3. NL(m) = n
    BY DEF n
  <2> QED BY <2>1, <2>2, <2>3 DEF GoodLines
<1>2. \A f, j : f \in FlagsUpTo(m, j) <=> \E i \in 1..j : f \in FlagsOf(TheLine(m, i))
  BY DEF FlagsUpTo
<1>3. \A f : f \in AllFlags(m) <=> \E i \in 1..n : f \in FlagsOf(TheLine(m, i))
  BY <1>2 DEF AllFlags
<1> HIDE DEF n
<1>4. "te" \in AllFlags(m) <=> m.coding = "chunked"
  <2>1. m.coding = "chunked" => n \in 1..n
    BY <1>1
  <2> QED BY <1>1, <1>3, <2>1, FlagsOfLine
<1>5. "chunked" \in AllFlags(m) <=> m.coding = "chunked"
  <2>1. m.coding = "chunked" => n \in 1..n
    BY <1>1
  <2> QED BY <1>1, <1>3, <2>1, FlagsOfLine
<1>6. "length" \in AllFlags(m) <=> m.coding = "length"
  <2>1. m.coding = "length" => n \in 1..n
    BY <1>1
  <2> QED BY <1>1, <1>3, <2>1, FlagsOfLine
<1>7. "trailing" \notin AllFlags(m)
  BY <1>3, FlagsOfLine
<1>8. ASSUME NEW j \in 1..n PROVE "length" \notin FlagsUpTo(m, j - 1)
  <2>1. \A i \in 1..(j - 1) : i \in 1..n /\ i # n
    BY <1>1
  <2> QED BY <1>1, <1>2, <2>1, FlagsOfLine
<1> QED BY <1>4, <1>5, <1>6, <1>7, <1>8 DEF n

------------------------------------------------------------------------------
(* What the handlers of the head do, byte by byte.                         *)

Steady(h, g) ==
  /\ g.type = h.type /\ g.method = h.method /\ g.version = h.version /\ g.status = h.status
  /\ g.upgrade = h.upgrade /\ g.error = h.error /\ g.stop = h.stop /\ g.nread = h.nread
  /\ g.complete = h.complete

SameLine(h, g) ==
  g.name = h.name /\ g.value = h.value /\ g.length = h.length /\ g.flags = h.flags

SameData(h, g) ==
  g.mark = h.mark /\ g.headFieldTemp = h.headFieldTemp /\ g.message = h.message

Text(h, kind) == IF h.mark.kind = kind THEN h.mark.text ELSE <<>>

Going(h, kind, t) == [kind |-> kind, text |-> Append(Text(h, kind), t)]

LEMMA StartEffect ==
  ASSUME NEW h, NEW t, IsParser(h), h.state = "start"
  PROVE  LET g == Turn(h, t)
         IN  /\ h.type = "request" /\ t \in Method =>
                  /\ g.state = "method" /\ g.method = t /\ g.version = h.version /\ g.status = h.status
                  /\ g.flags = {} /\ g.length = ULLONG_MAX /\ SameData(h, g)
                  /\ g.type = h.type /\ g.error = h.error /\ g.stop = h.stop /\ g.nread = h.nread
                  /\ g.complete = h.complete /\ g.upgrade = h.upgrade
             /\ h.type = "response" /\ t \in Version =>
                  /\ g.state = "res_http_end" /\ g.method = h.method /\ g.version = t /\ g.status = h.status
                  /\ g.flags = {} /\ g.length = ULLONG_MAX /\ SameData(h, g)
                  /\ g.type = h.type /\ g.error = h.error /\ g.stop = h.stop /\ g.nread = h.nread
                  /\ g.complete = h.complete /\ g.upgrade = h.upgrade
<1>1. "crlf" \notin Method /\ "crlf" \notin Version
  BY DEF Method, Version
<1>2. CASE h.type = "request"
  <2>1. Turn(h, t) = StartReq(h, t)
    BY <1>2 DEF Turn
  <2> QED BY <1>1, <1>2, <2>1 DEF StartReq, NewMessage, IsParser, Fields, SameData
<1>3. CASE h.type = "response"
  <2>1. Turn(h, t) = StartRes(h, t)
    BY <1>3 DEF Turn
  <2> QED BY <1>1, <1>3, <2>1 DEF StartRes, NewMessage, IsParser, Fields, SameData
<1> QED BY <1>2, <1>3 DEF IsParser

LEMMA DeadEffect ==
  ASSUME NEW h, NEW t, IsParser(h), h.state = "dead", t # "crlf"
  PROVE  Turn(h, t).error = TRUE
BY SMTT(30) DEF Turn, Dead, Fail, IsParser, Fields

LEMMA FirstEffect ==
  ASSUME NEW h, NEW t, IsParser(h)
  PROVE  LET g == Turn(h, t)
         IN  /\ h.state = "method" /\ t = "sp" =>
                  g.state = "before_url" /\ Steady(h, g) /\ SameLine(h, g) /\ SameData(h, g)
             /\ h.state \in {"before_url", "url"} /\ IsText(t) =>
                  /\ g.state = "url" /\ Steady(h, g) /\ SameLine(h, g)
                  /\ g.mark = Going(h, "url", t)
                  /\ g.headFieldTemp = h.headFieldTemp /\ g.message = h.message
             /\ h.state = "url" /\ t \notin {"sp", "crlf"} =>
                  /\ g.state = "url" /\ Steady(h, g) /\ SameLine(h, g)
                  /\ g.mark = Going(h, "url", t)
                  /\ g.headFieldTemp = h.headFieldTemp /\ g.message = h.message
             /\ h.state = "http" /\ t \in Version =>
                  /\ g.state = "line_end" /\ SameLine(h, g) /\ SameData(h, g)
                  /\ g.version = t /\ g.type = h.type /\ g.method = h.method /\ g.status = h.status
                  /\ g.upgrade = h.upgrade /\ g.error = h.error /\ g.stop = h.stop
                  /\ g.nread = h.nread /\ g.complete = h.complete
             /\ h.state = "line_end" /\ t = "crlf" =>
                  g.state = "field_start" /\ Steady(h, g) /\ SameLine(h, g) /\ SameData(h, g)
             /\ h.state = "res_http_end" /\ t = "sp" =>
                  g.state = "status" /\ Steady(h, g) /\ SameLine(h, g) /\ SameData(h, g)
             /\ h.state = "status" /\ t \in Status =>
                  /\ g.state = "status_end" /\ SameLine(h, g) /\ SameData(h, g)
                  /\ g.status = t /\ g.type = h.type /\ g.method = h.method /\ g.version = h.version
                  /\ g.upgrade = h.upgrade /\ g.error = h.error /\ g.stop = h.stop
                  /\ g.nread = h.nread /\ g.complete = h.complete
             /\ h.state = "status_end" /\ t = "sp" =>
                  g.state = "reason" /\ Steady(h, g) /\ SameLine(h, g) /\ SameData(h, g)
             /\ h.state = "reason" =>
                  /\ g.state = IF t = "crlf" THEN "field_start" ELSE "reason"
                  /\ Steady(h, g) /\ SameLine(h, g) /\ SameData(h, g)
<1>1. "sp" \notin Version /\ "sp" \notin Status
  BY SMTT(30) DEF Version, Status
<1>2. CASE h.state = "method"
  BY <1>2, SMTT(30) DEF Turn, ReqMethod, Go, IsParser, Fields, SameData, SameLine, Steady
<1>3. CASE h.state = "before_url"
  BY <1>3, ZenonT(40) DEF Turn, ReqSpacesBeforeUrl, Marked, IsText, Go, IsParser, Fields, SameLine, Steady, Going, Text
<1>4. CASE h.state = "url"
  BY <1>4 DEF Turn, ReqUrl, Marked, IsText, IsParser, Fields, SameLine, Steady, Going, Text
<1>5. CASE h.state = "http"
  BY <1>1, <1>5, SMTT(30) DEF Turn, ReqHttp, IsParser, Fields, SameData, SameLine
<1>6. CASE h.state = "line_end"
  BY <1>6, ZenonT(40) DEF Turn, ReqLineEnd, Go, IsParser, Fields, SameData, SameLine, Steady
<1>7. CASE h.state = "res_http_end"
  BY <1>7 DEF Turn, ResHttpEnd, Go, IsParser, Fields, SameData, SameLine, Steady
<1>8. CASE h.state = "status"
  BY <1>1, <1>8, SMTT(30) DEF Turn, ResStatus, IsParser, Fields, SameData, SameLine
<1>9. CASE h.state = "status_end"
  BY <1>9, ZenonT(40) DEF Turn, ResStatusEnd, Go, IsParser, Fields, SameData, SameLine, Steady
<1>10. CASE h.state = "reason"
  BY <1>10 DEF Turn, ResReason, Go, IsParser, Fields, SameData, SameLine, Steady
<1> QED BY <1>2, <1>3, <1>4, <1>5, <1>6, <1>7, <1>8, <1>9, <1>10

LEMMA UrlEffect ==
  ASSUME NEW h, IsParser(h), h.state = "url"
  PROVE  LET g == Turn(h, "sp")
         IN  /\ g.state = "http" /\ Steady(h, g) /\ SameLine(h, g) /\ g.mark = NoMark
             /\ h.mark.kind = "url" =>
                  /\ g.headFieldTemp = h.headFieldTemp
                  /\ g.message = [h.message EXCEPT !.url = h.mark.text]
<1> DEFINE a == Go(h, "http")
<1>1. Turn(h, "sp") = CallbackData(a)
  BY DEF Turn, ReqUrl
<1>2. /\ IsParser(a) /\ a.state = "http" /\ Steady(h, a) /\ SameLine(h, a) /\ SameData(h, a)
  BY DEF Go, IsParser, Fields, ParserState, SameData, SameLine, Steady
<1> HIDE DEF a
<1>3. LET g == CallbackData(a)
      IN  /\ g.state = "http" /\ Steady(a, g) /\ SameLine(a, g) /\ g.mark = NoMark
          /\ a.mark.kind = "url" =>
               /\ g.headFieldTemp = a.headFieldTemp
               /\ g.message = [a.message EXCEPT !.url = a.mark.text]
  BY <1>2 DEF CallbackData, OnUrl, OnHeaderField, OnHeaderValue, OnBody, IsParser, Fields,
              SameLine, Steady
<1> QED BY <1>1, <1>2, <1>3 DEF SameData, SameLine, Steady

------------------------------------------------------------------------------
(* A line begins: behind the first line, behind a value, behind none.      *)
LEMMA FieldStartEffect ==
  ASSUME NEW h, NEW t, IsParser(h), h.state = "field_start", IsText(t)
  PROVE  LET g == HeaderFieldStart(h, t)
         IN  /\ g.state = "field" /\ Steady(h, g) /\ g.flags = h.flags /\ g.length = h.length
             /\ g.name = <<t>> /\ g.value = <<>>
             /\ g.mark = Going(h, "field", t)
             /\ g.headFieldTemp = h.headFieldTemp /\ g.message = h.message
BY DEF HeaderFieldStart, Marked, IsText, IsParser, Fields, Steady, Going, Text

LEMMA FieldEffect ==
  ASSUME NEW h, NEW t, IsParser(h), h.state = "field", IsText(t)
  PROVE  LET g == Turn(h, t)
         IN  /\ g.state = "field" /\ Steady(h, g) /\ g.flags = h.flags /\ g.length = h.length
             /\ g.name = Append(h.name, t) /\ g.value = h.value
             /\ g.mark = Going(h, "field", t)
             /\ g.headFieldTemp = h.headFieldTemp /\ g.message = h.message
<1>1. Turn(h, t) = [Marked(h, "field", t) EXCEPT !.name = Append(@, t)]
  BY DEF Turn, HeaderField, IsText
<1> QED BY <1>1 DEF Marked, IsParser, Fields, Steady, Going, Text

LEMMA FieldEndEffect ==
  ASSUME NEW h, IsParser(h), h.state = "field"
  PROVE  LET g == Turn(h, ":")
         IN  /\ Overflow(h) => g.error = TRUE
             /\ ~Overflow(h) =>
                  /\ g.state = "value_ws" /\ Steady(h, g) /\ g.length = h.length
                  /\ g.flags = h.flags \cup (IF h.name = TransferEncoding THEN {"te"} ELSE {})
                  /\ g.name = h.name /\ g.value = h.value /\ g.mark = NoMark
                  /\ h.mark.kind = "field" =>
                       g.headFieldTemp = <<h.mark.text>> /\ g.message = h.message
<1>1. ~IsText(":")
  BY DEF IsText
<1>2. CASE Overflow(h)
  <2>1. Turn(h, ":") = Fail(h)
    BY <1>1, <1>2 DEF Turn, HeaderField
  <2> QED BY <1>2, <2>1 DEF Fail, IsParser, Fields
<1>3. CASE ~Overflow(h)
  <2> DEFINE x == h.flags \cup IF h.name = TransferEncoding THEN {"te"} ELSE {}
             a == [h EXCEPT !.state = "value_ws", !.flags = x]
  <2>1. Turn(h, ":") = CallbackData(a)
    BY <1>1, <1>3 DEF Turn, HeaderField
  <2>2. /\ IsParser(a) /\ a.state = "value_ws" /\ Steady(h, a) /\ SameData(h, a) /\ a.flags = x
        /\ a.name = h.name /\ a.value = h.value /\ a.length = h.length
    <3> HIDE DEF x
    <3> QED BY DEF IsParser, Fields, ParserState, Steady, SameData
  <2> HIDE DEF a
  <2>3. LET g == CallbackData(a)
        IN  /\ g.state = a.state /\ Steady(a, g) /\ SameLine(a, g) /\ g.mark = NoMark
            /\ a.mark.kind = "field" => g.headFieldTemp = <<a.mark.text>> /\ g.message = a.message
    BY <2>2 DEF CallbackData, OnUrl, OnHeaderField, OnHeaderValue, OnBody, IsParser, Fields,
                SameLine, Steady
  <2> QED BY <1>3, <2>1, <2>2, <2>3 DEF SameData, SameLine, Steady
<1> QED BY <1>2, <1>3

LEMMA ValueWsEffect ==
  ASSUME NEW h, NEW t, IsParser(h), h.state = "value_ws"
  PROVE  /\ t = "sp" => Turn(h, t) = h
         /\ t = "crlf" => Turn(h, t) = Go(h, "empty_value")
         /\ t \notin {"sp", "crlf"} => Turn(h, t) = ValuePiece(h, t)
BY DEF Turn, HeaderValueStart

LEMMA EmptyValueGo ==
  ASSUME NEW h, IsParser(h)
  PROVE  LET g == Go(h, "empty_value")
         IN  g.state = "empty_value" /\ Steady(h, g) /\ SameLine(h, g) /\ SameData(h, g)
BY DEF Go, IsParser, Fields, Steady, SameLine, SameData

(* A piece of a value, but for the length.                                 *)
LEMMA ValuePieceEffect ==
  ASSUME NEW h, NEW t, IsParser(h), h.name # ContentLength
  PROVE  LET g == ValuePiece(h, t)
         IN  /\ g.state = "value" /\ Steady(h, g) /\ g.length = h.length
             /\ g.flags = h.flags \cup (IF h.name = Upgrade THEN {"upgrade"} ELSE {})
             /\ g.name = h.name /\ g.value = Append(h.value, t)
             /\ g.mark = Going(h, "value", t)
             /\ g.headFieldTemp = h.headFieldTemp /\ g.message = h.message
<1>1. CASE h.name = Upgrade
  <2> DEFINE a == [h EXCEPT !.flags = @ \cup {"upgrade"}]
  <2>1. /\ IsParser(a) /\ Steady(h, a) /\ SameData(h, a) /\ a.flags = h.flags \cup {"upgrade"}
        /\ a.name = h.name /\ a.value = h.value /\ a.length = h.length
    BY DEF IsParser, Fields, Steady, SameData
  <2>2. ValuePiece(h, t) = [Marked(a, "value", t) EXCEPT !.value = Append(@, t), !.state = "value"]
    BY <1>1 DEF ValuePiece
  <2> HIDE DEF a
  <2>3. LET g == [Marked(a, "value", t) EXCEPT !.value = Append(@, t), !.state = "value"]
        IN /\ g.state = "value" /\ Steady(a, g) /\ g.length = a.length /\ g.flags = a.flags
             /\ g.name = a.name /\ g.value = Append(a.value, t)
             /\ g.mark = Going(a, "value", t)
             /\ g.headFieldTemp = a.headFieldTemp /\ g.message = a.message
    BY <2>1 DEF Marked, IsParser, Fields, Steady, Going, Text
  <2> QED BY <1>1, <2>1, <2>2, <2>3 DEF Steady, SameData, Going, Text
<1>2. CASE h.name # Upgrade
  <2>1. ValuePiece(h, t) = [Marked(h, "value", t) EXCEPT !.value = Append(@, t), !.state = "value"]
    BY <1>2 DEF ValuePiece
  <2> QED BY <1>2, <2>1 DEF Marked, IsParser, Fields, Steady, Going, Text
<1> QED BY <1>1, <1>2

(* The digit of a length.                                                  *)
LEMMA LengthEffect ==
  ASSUME NEW h, NEW n \in 0..9, IsParser(h), h.name = ContentLength, h.value = <<>>,
         "length" \notin h.flags
  PROVE  LET g == ValuePiece(h, ToString(n))
         IN  /\ g.state = "value" /\ Steady(h, g) /\ g.length = n
             /\ g.flags = h.flags \cup {"length"}
             /\ g.name = h.name /\ g.value = Append(h.value, ToString(n))
             /\ g.mark = Going(h, "value", ToString(n))
             /\ g.headFieldTemp = h.headFieldTemp /\ g.message = h.message
<1> DEFINE t == ToString(n)
           a == [h EXCEPT !.length = n, !.flags = @ \cup {"length"}]
<1>1. t \in Digit /\ DigitValue(t) = n
  BY DigitsAreSpelled
<1>2. LengthPiece(h, t) = a
  BY <1>1 DEF LengthPiece
<1>3. /\ IsParser(a) /\ Steady(h, a) /\ SameData(h, a) /\ a.flags = h.flags \cup {"length"}
      /\ a.name = h.name /\ a.value = h.value /\ a.length = n
  BY DEF IsParser, Fields, Steady, SameData
<1> HIDE DEF t
<1>4. ValuePiece(h, t) = [Marked(a, "value", t) EXCEPT !.value = Append(@, t), !.state = "value"]
  <2>1. ContentLength # Upgrade
    BY DEF ContentLength, Upgrade
  <2> HIDE DEF a
  <2> QED BY <1>2, <2>1 DEF ValuePiece
<1> HIDE DEF a
<1>5. LET g == [Marked(a, "value", t) EXCEPT !.value = Append(@, t), !.state = "value"]
        IN /\ g.state = "value" /\ Steady(a, g) /\ g.length = a.length /\ g.flags = a.flags
             /\ g.name = a.name /\ g.value = Append(a.value, t)
             /\ g.mark = Going(a, "value", t)
             /\ g.headFieldTemp = a.headFieldTemp /\ g.message = a.message
  BY <1>3 DEF Marked, IsParser, Fields, Steady, Going, Text
<1> QED BY <1>3, <1>4, <1>5, ZenonT(40) DEF Steady, SameData, Going, Text, t

(* The rest of the callbacks' effect on the message is left to OnHeaderValue. *)
WithValue(h) ==
  IF h.headFieldTemp = <<>> THEN h.message
  ELSE [h.message EXCEPT !.headers = WithHeader(@, h.headFieldTemp[1], h.mark.text)]

LEMMA ValueEndEffect ==
  ASSUME NEW h, IsParser(h), h.state = "value"
  PROVE  LET g == Turn(h, "crlf")
         IN  /\ Overflow(h) => g.error = TRUE
             /\ ~Overflow(h) =>
                  /\ g.state = "value_lws" /\ Steady(h, g) /\ SameLine(h, g) /\ g.mark = NoMark
                  /\ h.mark.kind = "value" => g.headFieldTemp = <<>> /\ g.message = WithValue(h)
<1> DEFINE a == Go(h, "value_lws")
           c == CallbackData(a)
<1>1. /\ IsParser(a) /\ a.state = "value_lws" /\ Steady(h, a) /\ SameLine(h, a) /\ SameData(h, a)
  BY DEF Go, IsParser, Fields, ParserState, SameData, SameLine, Steady
<1> HIDE DEF a
<1>2. IsParser(c)
  BY <1>1, CallbackTurned
<1>3. CASE Overflow(h)
  <2>1. Turn(h, "crlf") = Fail(c)
    BY <1>3 DEF Turn, HeaderValue, a
  <2> HIDE DEF c
  <2> QED BY <1>2, <1>3, <2>1 DEF Fail, IsParser, Fields
<1>4. CASE ~Overflow(h)
  <2>1. Turn(h, "crlf") = c
    BY <1>4 DEF Turn, HeaderValue, a
  <2>2. /\ c.state = "value_lws" /\ Steady(a, c) /\ SameLine(a, c) /\ c.mark = NoMark
        /\ a.mark.kind = "value" => c.headFieldTemp = <<>> /\ c.message = WithValue(a)
    BY <1>1 DEF CallbackData, OnUrl, OnHeaderField, OnHeaderValue, OnBody, IsParser, Fields,
                SameLine, Steady, WithValue
  <2> HIDE DEF c
  <2> QED BY <1>1, <1>4, <2>1, <2>2 DEF SameData, SameLine, Steady, WithValue
<1> QED BY <1>3, <1>4

(* The handlers that turn to a new line, or to the end of the head.        *)
LEMMA ValueLwsEffect ==
  ASSUME NEW h, NEW t, IsParser(h), h.state = "value_lws"
  PROVE  \E a : /\ Turn(h, t) = HeaderFieldStart(a, t)
                /\ IsParser(a) /\ a.state = "field_start" /\ Steady(h, a) /\ SameData(h, a)
                /\ a.flags = h.flags \cup LineFlags(<<h.name, h.value>>)
                /\ a.length = h.length /\ a.name = h.name /\ a.value = h.value
<1> DEFINE x == h.flags \cup HeaderFlags(h)
           a == [h EXCEPT !.flags = x, !.state = "field_start"]
<1>1. Turn(h, t) = HeaderFieldStart(a, t)
  BY DEF Turn, HeaderValueLws
<1>2. HeaderFlags(h) = LineFlags(<<h.name, h.value>>)
  BY DEF HeaderFlags, LineFlags
<1> HIDE DEF x
<1>3. /\ IsParser(a) /\ a.state = "field_start" /\ Steady(h, a) /\ SameData(h, a)
      /\ a.flags = x
      /\ a.length = h.length /\ a.name = h.name /\ a.value = h.value
  BY DEF IsParser, Fields, ParserState, SameData, Steady
<1> HIDE DEF a
<1> QED BY <1>1, <1>2, <1>3 DEF x

LEMMA EmptyValueEffect ==
  ASSUME NEW h, NEW t, IsParser(h), h.state = "empty_value", t # "sp", h.name # ContentLength
  PROVE  \E a : /\ Turn(h, t) = HeaderFieldStart(a, t)
                /\ IsParser(a) /\ a.state = "field_start" /\ Steady(h, a) /\ SameLine(h, a)
                /\ a.mark = h.mark /\ a.headFieldTemp = <<>>
                /\ a.message = IF h.headFieldTemp = <<>> THEN h.message
                               ELSE [h.message EXCEPT !.headers = WithHeader(@, h.headFieldTemp[1], <<>>)]
<1> DEFINE o == OnHeaderValue(h, <<>>)
           a == Go(o, "field_start")
<1>1. Turn(h, t) = HeaderFieldStart(a, t)
  BY DEF Turn, HeaderValueDiscardLws
<1>2. /\ IsParser(o) /\ Steady(h, o) /\ SameLine(h, o) /\ o.mark = h.mark /\ o.headFieldTemp = <<>>
      /\ o.message = IF h.headFieldTemp = <<>> THEN h.message
                     ELSE [h.message EXCEPT !.headers = WithHeader(@, h.headFieldTemp[1], <<>>)]
  BY DEF OnHeaderValue, IsParser, Fields, SameLine, Steady
<1> HIDE DEF o
<1>3. IsParser(a) /\ a.state = "field_start" /\ Steady(o, a) /\ SameLine(o, a) /\ SameData(o, a)
  BY <1>2 DEF Go, IsParser, Fields, ParserState, SameData, SameLine, Steady
<1> HIDE DEF a
<1> QED BY <1>1, <1>2, <1>3 DEF SameData, SameLine, Steady

------------------------------------------------------------------------------
KeepsOpen(m) ==
  IF m.version = "HTTP/1.1" THEN "close" \notin AllFlags(m) ELSE "keep-alive" \in AllFlags(m)

UpgradesTo(type, m) ==
  /\ {"upgrade", "connection_upgrade"} \subseteq AllFlags(m)
  /\ type = "request" \/ m.status = "101"

Told(h, type, m) ==
  /\ h.type = type /\ h.version = m.version
  /\ type = "request" => h.method = m.method
  /\ type = "response" => h.status = m.status

(* The message as OnMessageComplete leaves it.                             *)
Final(h) == OnMessageComplete(h).message

(* h has had the last byte of m, and is g then.                            *)
Ended(h, g, type, m) ==
  /\ IsParser(g) /\ g.type = type /\ g.error = FALSE /\ g.complete = TRUE
  /\ g.state = (IF KeepsOpen(m) THEN "start" ELSE "dead")
  /\ g.stop = UpgradesTo(type, m)
  /\ g.mark = h.mark /\ g.headFieldTemp = h.headFieldTemp /\ g.message = Final(h)

LEMMA CompleteEffect ==
  ASSUME NEW h, IsParser(h)
  PROVE  LET g == Complete(h)
         IN  /\ IsParser(g) /\ g.type = h.type /\ g.error = h.error /\ g.complete = TRUE /\ g.stop = h.stop
             /\ g.state = (IF ShouldKeepAlive(h) THEN "start" ELSE "dead") /\ g.nread = h.nread
             /\ g.upgrade = h.upgrade
             /\ g.mark = h.mark /\ g.headFieldTemp = h.headFieldTemp /\ g.message = Final(h)
<1> DEFINE s == IF ShouldKeepAlive(h) THEN "start" ELSE "dead"
           a == Go(h, s)
<1>1. s \in ParserState /\ Complete(h) = OnMessageComplete(a)
  BY DEF Complete, ParserState
<1> HIDE DEF s
<1>2. IsParser(a) /\ a.state = s /\ Steady(h, a) /\ SameLine(h, a) /\ SameData(h, a)
  BY <1>1 DEF Go, IsParser, Fields, Steady, SameLine, SameData
<1> HIDE DEF a
<1>3. LET g == OnMessageComplete(a)
      IN  /\ IsParser(g) /\ g.type = a.type /\ g.error = a.error /\ g.complete = TRUE /\ g.stop = a.stop
             /\ g.state = a.state /\ g.nread = a.nread /\ g.upgrade = a.upgrade
             /\ g.mark = a.mark /\ g.headFieldTemp = a.headFieldTemp
  BY <1>2 DEF OnMessageComplete, IsParser, Fields
<1>4. OnMessageComplete(a).message = Final(h)
  <2>1. OnMessageComplete(h).message = [h.message EXCEPT !.version = h.version,
            !.method = IF h.type = "request" THEN h.method ELSE @,
            !.status = IF h.type = "response" THEN h.status ELSE @]
    BY DEF OnMessageComplete, IsParser, Fields
  <2>2. OnMessageComplete(a).message = [a.message EXCEPT !.version = a.version,
            !.method = IF a.type = "request" THEN a.method ELSE @,
            !.status = IF a.type = "response" THEN a.status ELSE @]
    BY <1>2 DEF OnMessageComplete, IsParser, Fields
  <2> QED BY <1>2, <2>1, <2>2 DEF Final, SameData, Steady
<1> QED BY <1>1, <1>2, <1>3, <1>4 DEF Steady, SameData, s

LEMMA DoneEffect ==
  ASSUME NEW h, IsParser(h)
  PROVE  LET g == MessageDone(h)
         IN  /\ IsParser(g) /\ g.type = h.type /\ g.error = h.error /\ g.complete = TRUE /\ g.stop = h.upgrade
             /\ g.state = (IF ShouldKeepAlive(h) THEN "start" ELSE "dead") /\ g.nread = h.nread
             /\ g.upgrade = h.upgrade
             /\ g.mark = h.mark /\ g.headFieldTemp = h.headFieldTemp /\ g.message = Final(h)
<1> DEFINE a == Complete(h)
<1>1. MessageDone(h) = [a EXCEPT !.stop = h.upgrade] /\ h.upgrade \in BOOLEAN
  BY DEF MessageDone, IsParser
<1>2. /\ IsParser(a) /\ a.type = h.type /\ a.error = h.error /\ a.complete = TRUE /\ a.stop = h.stop
      /\ a.state = (IF ShouldKeepAlive(h) THEN "start" ELSE "dead") /\ a.nread = h.nread
      /\ a.upgrade = h.upgrade
      /\ a.mark = h.mark /\ a.headFieldTemp = h.headFieldTemp /\ a.message = Final(h)
  BY CompleteEffect
<1> HIDE DEF a
<1> QED BY <1>1, <1>2 DEF IsParser, Fields

(* A response with a length or in chunks, and every request, ends itself.  *)
LEMMA EndsItself ==
  ASSUME NEW h, NEW m, NEW type, Told(h, type, m), GoodFirst(type, m), m.coding # "eof",
         m.coding = "length" => h.length # ULLONG_MAX /\ "te" \notin h.flags,
         m.coding = "chunked" => "chunked" \in h.flags,
         \A f \in {"close", "keep-alive"} : f \in h.flags <=> f \in AllFlags(m)
  PROVE  ~NeedsEof(h) /\ (ShouldKeepAlive(h) <=> KeepsOpen(m))
<1>1. ~NeedsEof(h)
  BY DEF NeedsEof, Told, GoodFirst
<1> QED BY <1>1 DEF ShouldKeepAlive, KeepsOpen, Told

------------------------------------------------------------------------------
(* The end of a head: what HeadersAlmostDone makes of the flags.           *)

(* The parser behind the headers of m.                                     *)
HeadOver(h, type, m) ==
  /\ Told(h, type, m) /\ h.flags = AllFlags(m) /\ h.length = LengthUpTo(m, NL(m))

HasNoBody(m) == m.coding = "none" \/ (m.coding = "length" /\ Len(m.body[1]) = 0)

BodyState(m) ==
  CASE m.coding = "length"  -> "body"
    [] m.coding = "chunked" -> "chunk_start"
    [] m.coding = "eof"     -> "body_eof"

LEMMA HeadEnds ==
  ASSUME NEW h, NEW m, NEW type, Good(type, m), IsParser(h), HeadOver(h, type, m),
         h.error = FALSE, h.stop = FALSE, h.state = "field_start"
  PROVE  LET g == HeadersAlmostDone(h)
         IN  /\ g.nread = 0
             /\ HasNoBody(m) => Ended(h, g, type, m)
             /\ ~HasNoBody(m) =>
                  /\ IsParser(g) /\ HeadOver(g, type, m) /\ SameData(h, g)
                  /\ g.error = FALSE /\ g.stop = FALSE /\ g.complete = h.complete
                  /\ g.upgrade = UpgradesTo(type, m) /\ g.state = BodyState(m)
<1>1. /\ "te" \in h.flags <=> m.coding = "chunked"
      /\ "chunked" \in h.flags <=> m.coding = "chunked"
      /\ "length" \in h.flags <=> m.coding = "length"
      /\ "trailing" \notin h.flags
  BY FlagsOfHead DEF HeadOver, Good
<1> DEFINE u == UpgradesTo(type, m)
           v == [h EXCEPT !.upgrade = u]
           w == CountAgain(v)
<1>2. HeadersAlmostDone(h) = HeadersDone(v)
  <2>1. HeadersAlmostDone(h) = HeadersDone([h EXCEPT !.upgrade =
         /\ {"upgrade", "connection_upgrade"} \subseteq h.flags
         /\ h.type = "request" \/ h.status = "101"])
    BY <1>1 DEF HeadersAlmostDone
  <2>2. u = (/\ {"upgrade", "connection_upgrade"} \subseteq h.flags
             /\ h.type = "request" \/ h.status = "101")
    BY DEF UpgradesTo, HeadOver, Told, IsParser
  <2> QED BY <2>1, <2>2
<1>3. u \in BOOLEAN
  BY DEF UpgradesTo
<1> HIDE DEF u
<1>4. /\ IsParser(v) /\ v.upgrade = u /\ v.type = h.type /\ v.version = h.version /\ v.status = h.status
      /\ v.method = h.method /\ v.error = FALSE /\ v.stop = FALSE /\ v.complete = h.complete
      /\ v.flags = h.flags /\ v.length = h.length /\ SameData(h, v) /\ v.state = h.state
  BY <1>3 DEF IsParser, Fields, SameData
<1> HIDE DEF v
<1>5. /\ IsParser(w) /\ w.upgrade = u /\ w.type = h.type /\ w.version = h.version /\ w.status = h.status
      /\ w.method = h.method /\ w.error = FALSE /\ w.stop = FALSE /\ w.complete = h.complete
      /\ w.flags = h.flags /\ w.length = h.length /\ SameData(h, w) /\ w.nread = 0
  BY <1>4 DEF CountAgain, IsParser, Fields, SameData
<1>6. HeadersDone(v) = IF w.upgrade /\ ~HasBody(w)       THEN MessageDone(w)
      ELSE IF "chunked" \in w.flags     THEN Go(w, "chunk_start")
      ELSE IF "te" \in w.flags          THEN IF w.type = "request" THEN Fail(w)
                                             ELSE Go(w, "body_eof")
      ELSE IF w.length > 0              THEN Go(w, "body")
      ELSE IF w.length = 0 \/ ~NeedsEof(w) THEN Complete(w)
      ELSE Go(w, "body_eof")
  BY DEF HeadersDone
<1> HIDE DEF w
<1>7. Told(w, type, m) /\ HeadOver(w, type, m) /\ GoodFirst(type, m) /\ GoodBody(m)
  BY <1>5 DEF HeadOver, Told, Good
<1>8. Final(w) = Final(h)
  <2>1. Final(h) = [h.message EXCEPT !.version = h.version,
            !.method = IF h.type = "request" THEN h.method ELSE @,
            !.status = IF h.type = "response" THEN h.status ELSE @]
    BY DEF Final, OnMessageComplete, IsParser, Fields
  <2>2. Final(w) = [w.message EXCEPT !.version = w.version,
            !.method = IF w.type = "request" THEN w.method ELSE @,
            !.status = IF w.type = "response" THEN w.status ELSE @]
    BY <1>5 DEF Final, OnMessageComplete, IsParser, Fields
  <2> QED BY <1>5, <2>1, <2>2 DEF SameData
<1>9. ASSUME NEW s \in {"body", "body_eof", "chunk_start"}
      PROVE  /\ IsParser(Go(w, s)) /\ HeadOver(Go(w, s), type, m) /\ SameData(h, Go(w, s))
             /\ Go(w, s).error = FALSE /\ Go(w, s).stop = FALSE /\ Go(w, s).complete = h.complete
             /\ Go(w, s).upgrade = u /\ Go(w, s).state = s /\ Go(w, s).nread = 0
  BY <1>5, <1>7 DEF Go, IsParser, Fields, ParserState, SameData, HeadOver, Told
<1>10. w.length = LengthUpTo(m, NL(m)) /\ (m.coding # "length" => w.length = -1)
       /\ (m.coding = "length" => w.length = Len(m.body[1]) /\ w.length \in 0..9)
  BY <1>5 DEF HeadOver, LengthUpTo, ULLONG_MAX, GoodBody, Good
<1>11. m.coding \in {"none", "length", "chunked", "eof"}
  BY <1>7 DEF GoodFirst, Good
<1>12. ASSUME m.coding # "eof" PROVE ~NeedsEof(w) /\ (ShouldKeepAlive(w) <=> KeepsOpen(m))
  <2>1. m.coding = "length" => w.length # ULLONG_MAX /\ "te" \notin w.flags
    BY <1>1, <1>5, <1>10 DEF ULLONG_MAX
  <2>2. m.coding = "chunked" => "chunked" \in w.flags
    BY <1>1, <1>5
  <2>3. w.flags = AllFlags(m)
    BY <1>7 DEF HeadOver
  <2> QED BY <1>7, <1>12, <2>1, <2>2, <2>3, EndsItself
<1>13. ASSUME HasNoBody(m)
       PROVE  LET g == HeadersDone(v) IN g.nread = 0 /\ Ended(h, g, type, m)
  <2>1. m.coding # "eof" /\ "chunked" \notin w.flags /\ "te" \notin w.flags /\ ~(w.length > 0) /\ ~HasBody(w)
    BY <1>1, <1>5, <1>10, <1>13 DEF HasNoBody, HasBody
  <2>2. HeadersDone(v) = IF w.upgrade THEN MessageDone(w) ELSE Complete(w)
    BY <1>6, <1>12, <2>1
  <2>3. CASE w.upgrade
    BY <1>5, <1>8, <1>12, <2>1, <2>2, <2>3, DoneEffect, ZenonT(40) DEF Ended, SameData, HeadOver, Told, u
  <2>4. CASE ~w.upgrade
    <3>1. w.stop = u
      BY <1>3, <1>5, <2>4
    <3> DEFINE g == Complete(w)
    <3>2. /\ IsParser(g) /\ g.type = w.type /\ g.error = w.error /\ g.complete = TRUE /\ g.stop = w.stop
          /\ g.state = (IF ShouldKeepAlive(w) THEN "start" ELSE "dead") /\ g.nread = w.nread
          /\ g.mark = w.mark /\ g.headFieldTemp = w.headFieldTemp /\ g.message = Final(w)
      BY <1>5, CompleteEffect
    <3>3. HeadersDone(v) = g
      BY <2>2, <2>4
    <3> HIDE DEF g
    <3>4. g.stop = UpgradesTo(type, m)
      BY <3>1, <3>2 DEF u
    <3>5. g.state = (IF KeepsOpen(m) THEN "start" ELSE "dead")
      BY <1>12, <2>1, <3>2
    <3> QED BY <1>5, <1>7, <1>8, <3>2, <3>3, <3>4, <3>5 DEF Ended, SameData, Told
  <2> QED BY <2>3, <2>4
<1>14. ASSUME ~HasNoBody(m)
       PROVE  HeadersDone(v) = Go(w, BodyState(m)) /\ BodyState(m) \in {"body", "body_eof", "chunk_start"}
  <2>1. CASE m.coding = "length"
    <3>1. w.length > 0 /\ HasBody(w) /\ "chunked" \notin w.flags /\ "te" \notin w.flags
      BY <1>1, <1>5, <1>10, <1>14, <2>1 DEF HasNoBody, HasBody
    <3> QED BY <1>6, <2>1, <3>1 DEF BodyState
  <2>2. CASE m.coding = "chunked"
    <3>1. HasBody(w) /\ "chunked" \in w.flags
      BY <1>1, <1>5, <2>2 DEF HasBody
    <3> QED BY <1>6, <2>2, <3>1 DEF BodyState
  <2>3. CASE m.coding = "eof"
    <3>1. type = "response" /\ m.status \notin {"100", "101"}
      BY <1>7, <2>3 DEF GoodFirst, Told, Good
    <3>2. u = FALSE
      BY <3>1 DEF u, UpgradesTo
    <3>3. "chunked" \notin w.flags /\ "te" \notin w.flags /\ ~(w.length > 0) /\ w.length # 0 /\ NeedsEof(w)
      BY <1>1, <1>5, <1>7, <1>10, <2>3, <3>1 DEF NeedsEof, Told, ULLONG_MAX
    <3> QED BY <1>5, <1>6, <2>3, <3>2, <3>3 DEF BodyState
  <2> QED BY <1>11, <1>14, <2>1, <2>2, <2>3 DEF HasNoBody
<1> QED BY <1>2, <1>9, <1>13, <1>14 DEF u

------------------------------------------------------------------------------
(* Where the parser is in a message m that is laid out as l says, when p   *)
(* bytes of the stream have been read.  With e, what it holds of m is      *)
(* exact: no read has cut a string of m, and no other message came along.  *)

Unended(h, type) ==
  /\ h.complete = FALSE
  /\ DOMAIN h.message = MessageFields
  /\ type = "request" => h.message.status = "unset"
  /\ type = "response" => h.message.method = "unset" /\ h.message.url = <<>>

(* Between two messages, nothing is kept of the last.                      *)
Ready(h, type) ==
  /\ Unended(h, type)
  /\ h.mark = NoMark /\ h.headFieldTemp = <<>>
  /\ h.message.headers = NoHeaders /\ h.message.body = <<>>

(* The headers of the first j lines.                                       *)
HeadExact(h, type, m, j) ==
  /\ Unended(h, type) /\ h.message.body = <<>>
  /\ h.message.headers = HeadersUpTo(m, j)
  /\ type = "request" => h.message.url = m.url

Unmarked(h) == h.mark = NoMark /\ h.headFieldTemp = <<>>

Said(kind, s, k) == [kind |-> kind, text |-> SubSeq(s, 1, k)]

Live(h, type) == h.type = type /\ h.error = FALSE /\ h.stop = FALSE

RequestPlace(e, h, m, b, p) ==
  LET u == Len(m.url)
  IN  /\ h.method = m.method
      /\ e => Unended(h, "request") /\ h.headFieldTemp = <<>>
              /\ h.message.headers = NoHeaders /\ h.message.body = <<>>
      /\ \/ h.state = "method" /\ p = b + 1 /\ (e => h.mark = NoMark)
         \/ h.state = "before_url" /\ p = b + 2 /\ (e => h.mark = NoMark)
         \/ h.state = "url" /\ p - (b + 2) \in 1..u /\ (e => h.mark = Said("url", m.url, p - (b + 2)))
         \/ h.state = "http" /\ p = b + u + 3 /\ (e => h.mark = NoMark /\ h.message.url = m.url)
         \/ /\ h.state = "line_end" /\ p = b + u + 4 /\ h.version = m.version
            /\ e => h.mark = NoMark /\ h.message.url = m.url

ResponsePlace(e, h, m, b, p) ==
  /\ h.version = m.version
  /\ e => Ready(h, "response")
  /\ \/ h.state = "res_http_end" /\ p = b + 1
     \/ h.state = "status" /\ p = b + 2
     \/ h.state = "status_end" /\ p = b + 3 /\ h.status = m.status
     \/ h.state = "reason" /\ p \in {b + 4, b + 5} /\ h.status = m.status

FirstPlace(e, h, type, m, l, p) ==
  /\ Live(h, type) /\ h.flags = {} /\ h.length = ULLONG_MAX
  /\ IF type = "request" THEN RequestPlace(e, h, m, l.begin, p)
                         ELSE ResponsePlace(e, h, m, l.begin, p)

(* Behind the first line.                                                  *)
StartPlace(e, h, type, m, l, p) ==
  /\ Live(h, type) /\ h.flags = {} /\ h.length = ULLONG_MAX /\ Told(h, type, m)
  /\ h.state = "field_start" /\ p = l.line[1]
  /\ e => HeadExact(h, type, m, 0) /\ Unmarked(h)

NamePlace(e, h, type, m, l, p, j) ==
  LET N == TheLine(m, j)[1]
      k == p - l.line[j]
  IN  /\ h.state = "field" /\ k \in 1..Len(N)
      /\ h.name = SubSeq(N, 1, k) /\ h.value = <<>>
      /\ h.flags = FlagsUpTo(m, j - 1) /\ h.length = ULLONG_MAX
      /\ e => HeadExact(h, type, m, j - 1) /\ h.mark = Said("field", N, k)

ColonPlace(e, h, type, m, l, p, j) ==
  LET N == TheLine(m, j)[1]
  IN  /\ h.state = "value_ws" /\ p - (l.line[j] + Len(N)) \in {1, 2}
      /\ h.name = N /\ h.value = <<>>
      /\ h.flags = FlagsUpTo(m, j - 1) \cup NameFlags(TheLine(m, j)) /\ h.length = ULLONG_MAX
      /\ e => HeadExact(h, type, m, j - 1) /\ h.mark = NoMark /\ h.headFieldTemp = <<N>>

(* The flags when a value is being read.                                   *)
FlagsIn(m, j) ==
  FlagsUpTo(m, j - 1) \cup NameFlags(TheLine(m, j)) \cup ValueFlags(TheLine(m, j))

ValuePlace(e, h, type, m, l, p, j) ==
  LET N == TheLine(m, j)[1]
      V == TheLine(m, j)[2]
      k == p - (l.line[j] + Len(N) + 2)
  IN  /\ h.state = "value" /\ k \in 1..Len(V)
      /\ h.name = N /\ h.value = SubSeq(V, 1, k)
      /\ h.flags = FlagsIn(m, j) /\ h.length = LengthUpTo(m, j)
      /\ e => h.mark.kind = "value" /\
              \/ /\ HeadExact(h, type, m, j - 1) /\ h.headFieldTemp = <<N>>
                 /\ h.mark.text = SubSeq(V, 1, k)
              \/ k = Len(V) /\ HeadExact(h, type, m, j) /\ h.headFieldTemp = <<>>

ValueEndPlace(e, h, type, m, l, p, j) ==
  /\ h.state = "value_lws" /\ p = l.line[j + 1] /\ TheLine(m, j)[2] # <<>>
  /\ h.name = TheLine(m, j)[1] /\ h.value = TheLine(m, j)[2]
  /\ h.flags = FlagsIn(m, j) /\ h.length = LengthUpTo(m, j)
  /\ e => HeadExact(h, type, m, j) /\ Unmarked(h)

NoValuePlace(e, h, type, m, l, p, j) ==
  /\ h.state = "empty_value" /\ p = l.line[j + 1] /\ TheLine(m, j)[2] = <<>>
  /\ h.name = TheLine(m, j)[1]
  /\ h.flags = FlagsUpTo(m, j) /\ h.length = ULLONG_MAX
  /\ e => HeadExact(h, type, m, j - 1) /\ h.mark = NoMark /\ h.headFieldTemp = <<TheLine(m, j)[1]>>

LinePlace(e, h, type, m, l, p, j) ==
  /\ Live(h, type) /\ Told(h, type, m)
  /\ \/ NamePlace(e, h, type, m, l, p, j)
     \/ ColonPlace(e, h, type, m, l, p, j)
     \/ ValuePlace(e, h, type, m, l, p, j)
     \/ ValueEndPlace(e, h, type, m, l, p, j)
     \/ NoValuePlace(e, h, type, m, l, p, j)

HeadPlace(e, h, type, m, l, p) ==
  \/ FirstPlace(e, h, type, m, l, p)
  \/ StartPlace(e, h, type, m, l, p)
  \/ \E j \in 1..NL(m) : LinePlace(e, h, type, m, l, p, j)

(* In the body.                                                            *)
BodyExact(h, type, m) ==
  /\ Unended(h, type) /\ h.headFieldTemp = <<>> /\ Len(m.body) <= 1
  /\ h.message.headers = HeadersOf(m)
  /\ type = "request" => h.message.url = m.url

(* The first k pieces of a body are marked.                                *)
Taken(h, t, k) ==
  h.message.body = <<>> /\ h.mark = IF k = 0 THEN NoMark ELSE Said("body", t, k)

LengthPlace(e, h, type, m, l, p) ==
  LET t == m.body[1]
      k == p - BodyAt(m, l)
  IN  /\ m.coding = "length" /\ h.state = "body" /\ k \in 0..(Len(t) - 1)
      /\ h.flags = AllFlags(m) /\ h.length = Len(t) - k
      /\ e => Taken(h, t, k)

EofPlace(e, h, type, m, l, p) ==
  LET t == FlattenSeq(m.body)
      k == p - BodyAt(m, l)
  IN  /\ m.coding = "eof" /\ h.state = "body_eof" /\ k \in 0..Len(t)
      /\ h.flags = AllFlags(m)
      /\ e => Taken(h, t, k) \/ (k = Len(t) /\ h.message.body = t /\ h.mark = NoMark)

ChunkPlace(e, h, type, m, l, p, j) ==
  LET c == l.chunk[j]
      t == m.body[j]
  IN  /\ m.coding = "chunked"
      /\ \/ /\ h.state = "chunk_start" /\ p = c /\ h.flags = AllFlags(m)
            /\ e => h.mark = NoMark /\ h.message.body = IF j = 1 THEN <<>> ELSE FlattenSeq(m.body)
         \/ /\ h.state = "chunk_size" /\ p = c + 1 /\ h.flags = AllFlags(m)
            /\ h.length = IF j <= Len(m.body) THEN Len(t) ELSE 0
            /\ e => h.mark = NoMark /\ h.message.body = IF j = 1 THEN <<>> ELSE FlattenSeq(m.body)
         \/ /\ j <= Len(m.body) /\ h.flags = AllFlags(m)
            /\ h.state = "chunk_data" /\ p - (c + 2) \in 0..(Len(t) - 1)
            /\ h.length = Len(t) - (p - (c + 2))
            /\ e => Taken(h, t, p - (c + 2))
         \/ /\ j <= Len(m.body) /\ h.flags = AllFlags(m)
            /\ h.state = "chunk_end" /\ p = c + 2 + Len(t)
            /\ e => Taken(h, t, Len(t)) \/ (h.message.body = t /\ h.mark = NoMark)
         \/ /\ j = Len(m.body) + 1 /\ h.flags = AllFlags(m) \cup {"trailing"}
            /\ h.state = "field_start" /\ p = c + 2
            /\ e => h.mark = NoMark /\ h.message.body = FlattenSeq(m.body)

BodyPlace(e, h, type, m, l, p) ==
  /\ Live(h, type) /\ Told(h, type, m) /\ h.upgrade = UpgradesTo(type, m)
  /\ e => BodyExact(h, type, m)
  /\ \/ LengthPlace(e, h, type, m, l, p)
     \/ EofPlace(e, h, type, m, l, p)
     \/ \E j \in 1..(Len(m.body) + 1) : ChunkPlace(e, h, type, m, l, p, j)

MessageOf(type, m) == IF type = "request" THEN RequestOf(m) ELSE ResponseOf(m)

(* Behind the last byte.                                                   *)
OverPlace(e, h, type, m, l, p) ==
  /\ p = l.end /\ m.coding # "eof"
  /\ h.type = type /\ h.error = FALSE /\ h.complete = TRUE
  /\ h.state = (IF KeepsOpen(m) THEN "start" ELSE "dead")
  /\ h.stop = UpgradesTo(type, m)
  /\ e => h.mark = NoMark /\ h.headFieldTemp = <<>> /\ h.message = MessageOf(type, m)

(* What a turn in a head comes to: g is what the parser h, with the byte   *)
(* counted, is behind it.                                                  *)
HeadTurned(e, h, g, type, m, l, p) ==
  \/ g.error = TRUE /\ Overflow(h)
  \/ HeadPlace(e, g, type, m, l, p) /\ g.nread = h.nread
  \/ /\ p = BodyAt(m, l) /\ g.nread = 0
     /\ BodyPlace(e, g, type, m, l, p) \/ (HasNoBody(m) /\ OverPlace(e, g, type, m, l, p))

------------------------------------------------------------------------------
(* The first line, byte by byte.                                           *)

LEMMA MoreSaid ==
  ASSUME NEW s \in Seq(Piece), NEW k \in 1..Len(s)
  PROVE  SubSeq(s, 1, k) = Append(SubSeq(s, 1, k - 1), s[k]) /\ SubSeq(s, 1, 0) = <<>>
         /\ SubSeq(s, 1, Len(s)) = s
<1>1. Len(s) \in Nat
  BY LenProperties
<1>2. SubSeq(s, 1, Len(s)) = s
  BY SubSeqFull
<1>3. SubSeq(s, 1, 0) = <<>>
  BY SubSeqEmpty
<1>4. SubSeq(s, 1, k) = Append(SubSeq(s, 1, k - 1), s[k])
  BY <1>1
<1> QED BY <1>2, <1>3, <1>4

------------------------------------------------------------------------------
(* No line, no header; a line adds its header to those before it.          *)
LEMMA NoLines == ASSUME NEW m PROVE HeadersUpTo(m, 0) = NoHeaders
<1> DEFINE lines == HeaderLinesOf(m)
<1>1. {lines[i][1] : i \in 1..0} = {}
  OBVIOUS
<1>2. HeadersUpTo(m, 0) = [name \in {lines[i][1] : i \in 1..0} |-> lines[Max({i \in 1..0 : lines[i][1] = name})][2]]
  BY DEF HeadersUpTo
<1> DEFINE D == {lines[i][1] : i \in 1..0}
           a == [name \in D |-> lines[Max({i \in 1..0 : lines[i][1] = name})][2]]
<1>3. HeadersUpTo(m, 0) = a /\ D = {}
  BY <1>1, <1>2
<1> HIDE DEF D
<1>4. a = [name \in {} |-> <<>>]
  BY <1>3
<1> QED BY <1>3, <1>4 DEF NoHeaders

LEMMA OneMoreLine ==
  ASSUME NEW m, NEW j \in Nat, j > 0
  PROVE  HeadersUpTo(m, j)
           = WithHeader(HeadersUpTo(m, j - 1), TheLine(m, j)[1], TheLine(m, j)[2])
<1> DEFINE L == HeaderLinesOf(m)
           D(n) == {L[i][1] : i \in 1..n}
           S(n, name) == {i \in 1..n : L[i][1] = name}
           v(n, name) == L[Max(S(n, name))][2]
<1>1. \A n : HeadersUpTo(m, n) = [name \in D(n) |-> v(n, name)]
  BY DEF HeadersUpTo
<1>2. D(j) = D(j - 1) \cup {L[j][1]}
  <2>1. 1..j = 1..(j - 1) \cup {j}
    OBVIOUS
  <2> QED BY <2>1
<1>3. v(j, L[j][1]) = L[j][2]
  <2>1. S(j, L[j][1]) \in SUBSET (1..j) /\ j \in S(j, L[j][1])
    OBVIOUS
  <2> DEFINE z == S(j, L[j][1])
  <2> HIDE DEF z
  <2>2. Max(z) \in z /\ (\A y \in z : Max(z) >= y) /\ z \in SUBSET (1..j) /\ j \in z
    BY <2>1, MaxOf DEF z
  <2>3. Max(z) = j
    <3>1. Max(z) \in 1..j /\ Max(z) >= j
      BY <2>2
    <3> QED BY <3>1
  <2> QED BY <2>3 DEF z
<1>4. ASSUME NEW name, name # L[j][1] PROVE v(j, name) = v(j - 1, name)
  <2>1. 1..j = 1..(j - 1) \cup {j}
    OBVIOUS
  <2>2. S(j, name) = S(j - 1, name)
    BY <1>4, <2>1
  <2> QED BY <2>2
<1> HIDE DEF v
<1>5. WithHeader(HeadersUpTo(m, j - 1), L[j][1], L[j][2])
        = [k \in D(j - 1) \cup {L[j][1]} |-> IF k = L[j][1] THEN L[j][2] ELSE v(j - 1, k)]
  <2>1. HeadersUpTo(m, j - 1) = [name \in D(j - 1) |-> v(j - 1, name)]
    BY <1>1
  <2> HIDE DEF D
  <2> DEFINE hs == HeadersUpTo(m, j - 1)
  <2>2. DOMAIN hs = D(j - 1) /\ \A k \in D(j - 1) : hs[k] = v(j - 1, k)
    BY <2>1
  <2> HIDE DEF hs
  <2>3. WithHeader(hs, L[j][1], L[j][2])
        = [k \in D(j - 1) \cup {L[j][1]} |-> IF k = L[j][1] THEN L[j][2] ELSE v(j - 1, k)]
    BY <2>2 DEF WithHeader
  <2> QED BY <2>3 DEF hs
<1> HIDE DEF D
<1> QED BY <1>1, <1>2, <1>3, <1>4, <1>5 DEF TheLine

LEMMA RequestTurn ==
  ASSUME NEW x, NEW m, NEW l, Good("request", m), Laid(x, "request", m, l), NEW e \in BOOLEAN,
         NEW h, IsParser(h), NEW p \in Nat, FirstPlace(e, h, "request", m, l, p)
  PROVE  LET g == Turn(h, x[p + 1])
         IN  /\ FirstPlace(e, g, "request", m, l, p + 1) \/ StartPlace(e, g, "request", m, l, p + 1)
             /\ g.nread = h.nread
<1> DEFINE g == Turn(h, x[p + 1])
           t == x[p + 1]
           b == l.begin
           u == Len(m.url)
           k == p - (b + 2)
           k1 == (p + 1) - (b + 2)
<1>1. /\ b \in Nat /\ u \in Nat \ {0} /\ m.url \in Seq(Piece) /\ IsText(m.url[1])
      /\ \A i \in 1..u : m.url[i] \notin {"sp", "crlf"}
      /\ m.method \in Method /\ m.version \in Version
  BY DEF Laid, Good, GoodFirst
<1>2. /\ x[b + 1] = m.method /\ x[b + 2] = "sp"
      /\ \A i \in 1..u : x[(b + 2) + i] = m.url[i]
      /\ x[b + u + 3] = "sp" /\ x[b + u + 4] = m.version
      /\ x[b + u + 5] = "crlf"
  BY DEF Laid, FirstLaid
<1>3. l.line[1] = b + u + 5
  BY DEF Laid, LinesLaid, FirstSize
<1>4. /\ h.type = "request" /\ h.error = FALSE /\ h.stop = FALSE /\ h.flags = {} /\ h.length = ULLONG_MAX
      /\ h.method = m.method
      /\ e => Unended(h, "request") /\ h.headFieldTemp = <<>>
              /\ h.message.headers = NoHeaders /\ h.message.body = <<>>
      /\ \/ h.state = "method" /\ p = b + 1 /\ (e => h.mark = NoMark)
         \/ h.state = "before_url" /\ p = b + 2 /\ (e => h.mark = NoMark)
         \/ h.state = "url" /\ k \in 1..u /\ (e => h.mark = Said("url", m.url, k))
         \/ h.state = "http" /\ p = b + u + 3 /\ (e => h.mark = NoMark /\ h.message.url = m.url)
         \/ /\ h.state = "line_end" /\ p = b + u + 4 /\ h.version = m.version
            /\ e => h.mark = NoMark /\ h.message.url = m.url
  BY DEF FirstPlace, RequestPlace, Live
<1>5. ASSUME /\ g.type = "request" /\ g.error = FALSE /\ g.stop = FALSE /\ g.flags = {} /\ g.length = ULLONG_MAX
             /\ g.method = m.method
             /\ e => Unended(g, "request") /\ g.headFieldTemp = <<>>
              /\ g.message.headers = NoHeaders /\ g.message.body = <<>>
             /\ \/ g.state = "method" /\ p + 1 = b + 1 /\ (e => g.mark = NoMark)
                \/ g.state = "before_url" /\ p + 1 = b + 2 /\ (e => g.mark = NoMark)
                \/ g.state = "url" /\ k1 \in 1..u /\ (e => g.mark = Said("url", m.url, k1))
                \/ g.state = "http" /\ p + 1 = b + u + 3 /\ (e => g.mark = NoMark /\ g.message.url = m.url)
                \/ /\ g.state = "line_end" /\ p + 1 = b + u + 4 /\ g.version = m.version
                   /\ e => g.mark = NoMark /\ g.message.url = m.url
      PROVE  FirstPlace(e, g, "request", m, l, p + 1)
  BY <1>5 DEF FirstPlace, RequestPlace, Live
<1> HIDE DEF k1
<1>6. CASE h.state = "method"
  <2>1. t = "sp" /\ p + 1 = b + 2
    BY <1>1, <1>2, <1>4, <1>6
  <2>2. g.state = "before_url" /\ Steady(h, g) /\ SameLine(h, g) /\ SameData(h, g)
    BY <1>6, <2>1, FirstEffect
  <2> HIDE DEF g
  <2> QED BY <1>4, <1>5, <1>6, <2>1, <2>2 DEF Steady, SameLine, SameData, Unended, g
<1>7. CASE h.state = "before_url"
  <2>1. t = m.url[1] /\ k1 = 1 /\ k1 \in 1..u
    <3>1. x[(b + 2) + 1] = m.url[1]
      BY <1>1, <1>2
    <3> QED BY <1>1, <1>4, <1>7, <3>1 DEF k1
  <2>2. /\ g.state = "url" /\ Steady(h, g) /\ SameLine(h, g)
        /\ g.mark = Going(h, "url", t)
        /\ g.headFieldTemp = h.headFieldTemp /\ g.message = h.message
    BY <1>1, <1>7, <2>1, FirstEffect
  <2>3. e => g.mark = Said("url", m.url, 1)
    <3>1. SubSeq(m.url, 1, 1) = Append(SubSeq(m.url, 1, 0), m.url[1]) /\ SubSeq(m.url, 1, 0) = <<>>
      BY <1>1, MoreSaid
    <3> QED BY <1>4, <1>7, <2>1, <2>2, <3>1 DEF Going, Text, NoMark, Said
  <2> HIDE DEF g
  <2> QED BY <1>1, <1>4, <1>5, <1>7, <2>1, <2>2, <2>3 DEF Steady, SameLine, Unended, g
<1>8. CASE h.state = "url" /\ k < u
  <2>1. /\ t = m.url[k + 1] /\ k1 = k + 1 /\ k + 1 \in 1..u /\ k \in 1..u /\ (k + 1) - 1 = k
        /\ e => h.mark = Said("url", m.url, k)
    <3>1. k \in 1..u /\ p = (b + 2) + k /\ k < u /\ (e => h.mark = Said("url", m.url, k))
      BY <1>1, <1>4, <1>8
    <3>2. k1 = k + 1
      BY <1>1 DEF k1
    <3> HIDE DEF k
    <3>3. k + 1 \in 1..u /\ (b + 2) + (k + 1) = p + 1 /\ (k + 1) - 1 = k
      <4>1. b \in Nat /\ u \in Nat
        BY <1>1
      <4>2. k \in 1..u /\ p = (b + 2) + k /\ k < u
        BY <3>1
      <4> HIDE DEF b, u
      <4> QED BY ONLY <4>1, <4>2, p \in Nat
    <3>4. x[(b + 2) + (k + 1)] = m.url[k + 1]
      BY <1>2, <3>3
    <3> QED BY <3>1, <3>2, <3>3, <3>4
  <2> HIDE DEF k
  <2>2. /\ g.state = "url" /\ Steady(h, g) /\ SameLine(h, g)
        /\ g.mark = Going(h, "url", t)
        /\ g.headFieldTemp = h.headFieldTemp /\ g.message = h.message
    BY <1>1, <1>8, <2>1, FirstEffect
  <2>3. e => g.mark = Said("url", m.url, k + 1)
    <3>1. SubSeq(m.url, 1, k + 1) = Append(SubSeq(m.url, 1, k), m.url[k + 1])
      BY <1>1, <2>1, MoreSaid
    <3>2. ASSUME e PROVE Text(h, "url") = SubSeq(m.url, 1, k)
      BY <2>1, <3>2 DEF Text, Said
    <3>3. ASSUME e PROVE Going(h, "url", t) = [kind |-> "url", text |-> SubSeq(m.url, 1, k + 1)]
      BY <2>1, <3>1, <3>2, <3>3 DEF Going
    <3> QED BY <2>1, <2>2, <3>3 DEF Said
  <2> HIDE DEF g
  <2> QED BY <1>1, <1>4, <1>5, <1>8, <2>1, <2>2, <2>3 DEF Steady, SameLine, Unended, g
<1>9. CASE h.state = "url" /\ ~(k < u)
  <2>1. t = "sp" /\ p + 1 = b + u + 3 /\ k = u
    <3>1. k = u /\ p = (b + 2) + u
      BY <1>1, <1>4, <1>9, SMTT(30)
    <3>2. p + 1 = b + u + 3
      BY <1>1, <3>1
    <3> QED BY <1>2, <3>1, <3>2
  <2>2. /\ g.state = "http" /\ Steady(h, g) /\ SameLine(h, g) /\ g.mark = NoMark
        /\ h.mark.kind = "url" =>
                  /\ g.headFieldTemp = h.headFieldTemp
                  /\ g.message = [h.message EXCEPT !.url = h.mark.text]
    BY <1>9, <2>1, UrlEffect
  <2>3. ASSUME e
        PROVE  /\ g.headFieldTemp = <<>> /\ g.message.url = m.url /\ Unended(g, "request")
               /\ g.message.headers = NoHeaders /\ g.message.body = <<>>
    <3>1. h.mark = Said("url", m.url, u) /\ SubSeq(m.url, 1, u) = m.url
      BY <1>1, <1>4, <1>9, <2>1, <2>3, MoreSaid
    <3>2. h.mark.kind = "url" /\ h.mark.text = m.url
      BY <3>1 DEF Said
    <3>3. DOMAIN h.message = MessageFields
      BY <1>4, <2>3 DEF Unended
    <3>4. g.message = [h.message EXCEPT !.url = m.url] /\ g.headFieldTemp = h.headFieldTemp
      BY <2>2, <3>2
    <3> HIDE DEF g
    <3> QED BY <1>4, <2>2, <2>3, <3>3, <3>4 DEF Unended, MessageFields, Steady
  <2> HIDE DEF g
  <2> QED BY <1>1, <1>4, <1>5, <1>9, <2>1, <2>2, <2>3 DEF Steady, SameLine, g
<1>10. CASE h.state = "http"
  <2>1. t = m.version /\ p + 1 = b + u + 4
    <3>1. p + 1 = b + u + 4
      BY <1>1, <1>4, <1>10
    <3> QED BY <1>2, <3>1
  <2>2. /\ g.state = "line_end" /\ SameLine(h, g) /\ SameData(h, g)
        /\ g.version = t /\ g.type = h.type /\ g.method = h.method /\ g.status = h.status
        /\ g.upgrade = h.upgrade /\ g.error = h.error /\ g.stop = h.stop
        /\ g.nread = h.nread /\ g.complete = h.complete
    BY <1>1, <1>10, <2>1, FirstEffect
  <2> HIDE DEF g
  <2> QED BY <1>4, <1>5, <1>10, <2>1, <2>2 DEF SameLine, SameData, Unended, g
<1>11. CASE h.state = "line_end"
  <2>1. t = "crlf" /\ p + 1 = l.line[1]
    <3>1. p + 1 = b + u + 5
      BY <1>1, <1>4, <1>11
    <3> QED BY <1>2, <1>3, <3>1
  <2>2. g.state = "field_start" /\ Steady(h, g) /\ SameLine(h, g) /\ SameData(h, g)
    BY <1>11, <2>1, FirstEffect
  <2> HIDE DEF g
  <2>3. Live(g, "request") /\ g.flags = {} /\ g.length = ULLONG_MAX /\ Told(g, "request", m)
    BY <1>4, <1>11, <2>2 DEF Live, Told, Steady, SameLine
  <2>4. ASSUME e PROVE HeadExact(g, "request", m, 0) /\ Unmarked(g)
    <3>1. HeadersUpTo(m, 0) = NoHeaders
      BY NoLines
    <3> QED BY <1>4, <1>11, <2>2, <2>4, <3>1 DEF HeadExact, Unmarked, Unended, Steady, SameData
  <2> QED BY <2>1, <2>2, <2>3, <2>4 DEF StartPlace, Steady, g
<1> QED BY <1>4, <1>6, <1>7, <1>8, <1>9, <1>10, <1>11

------------------------------------------------------------------------------
LEMMA ResponseTurn ==
  ASSUME NEW x, NEW m, NEW l, Good("response", m), Laid(x, "response", m, l), NEW e \in BOOLEAN,
         NEW h, IsParser(h), NEW p \in Nat, FirstPlace(e, h, "response", m, l, p)
  PROVE  LET g == Turn(h, x[p + 1])
         IN  /\ FirstPlace(e, g, "response", m, l, p + 1) \/ StartPlace(e, g, "response", m, l, p + 1)
             /\ g.nread = h.nread
<1> DEFINE g == Turn(h, x[p + 1])
           t == x[p + 1]
           b == l.begin
<1>1. /\ b \in Nat /\ m.status \in Status /\ m.version \in Version
  BY DEF Laid, Good, GoodFirst
<1>2. /\ x[b + 1] = m.version /\ x[b + 2] = "sp" /\ x[b + 3] = m.status
      /\ x[b + 4] = "sp" /\ x[b + 5] = "reason" /\ x[b + 6] = "crlf"
  BY DEF Laid, FirstLaid
<1>3. l.line[1] = b + 6
  BY DEF Laid, LinesLaid, FirstSize
<1>4. /\ Live(h, "response") /\ h.flags = {} /\ h.length = ULLONG_MAX
      /\ h.version = m.version
      /\ e => Ready(h, "response")
      /\ \/ h.state = "res_http_end" /\ p = b + 1
         \/ h.state = "status" /\ p = b + 2
         \/ h.state = "status_end" /\ p = b + 3 /\ h.status = m.status
         \/ h.state = "reason" /\ p \in {b + 4, b + 5} /\ h.status = m.status
  BY DEF FirstPlace, ResponsePlace
<1>5. ASSUME SameData(h, g), g.complete = h.complete, e PROVE Ready(g, "response")
  <2> HIDE DEF g
  <2> QED BY <1>4, <1>5 DEF Ready, Unended, SameData
<1>6. CASE h.state = "res_http_end"
  <2>1. t = "sp" /\ p + 1 = b + 2
    BY <1>1, <1>2, <1>4, <1>6
  <2>2. g.state = "status" /\ Steady(h, g) /\ SameLine(h, g) /\ SameData(h, g)
    BY <1>6, <2>1, FirstEffect
  <2> HIDE DEF g
  <2> QED BY <1>4, <1>5, <2>1, <2>2 DEF FirstPlace, ResponsePlace, Live, Steady, SameLine, g
<1>7. CASE h.state = "status"
  <2>1. t = m.status /\ p + 1 = b + 3
    BY <1>1, <1>2, <1>4, <1>7
  <2>2. /\ g.state = "status_end" /\ SameLine(h, g) /\ SameData(h, g)
        /\ g.status = t /\ g.type = h.type /\ g.method = h.method /\ g.version = h.version
        /\ g.upgrade = h.upgrade /\ g.error = h.error /\ g.stop = h.stop
        /\ g.nread = h.nread /\ g.complete = h.complete
    BY <1>1, <1>7, <2>1, FirstEffect
  <2> HIDE DEF g
  <2> QED BY <1>4, <1>5, <2>1, <2>2 DEF FirstPlace, ResponsePlace, Live, SameLine, g
<1>8. CASE h.state = "status_end"
  <2>1. t = "sp" /\ p + 1 = b + 4
    BY <1>1, <1>2, <1>4, <1>8
  <2>2. g.state = "reason" /\ Steady(h, g) /\ SameLine(h, g) /\ SameData(h, g)
    BY <1>8, <2>1, FirstEffect
  <2> HIDE DEF g
  <2> QED BY <1>4, <1>5, <1>8, <2>1, <2>2 DEF FirstPlace, ResponsePlace, Live, Steady, SameLine, g
<1>9. CASE h.state = "reason" /\ p = b + 4
  <2>1. t = "reason" /\ p + 1 = b + 5
    BY <1>1, <1>2, <1>9
  <2>2. g.state = "reason" /\ Steady(h, g) /\ SameLine(h, g) /\ SameData(h, g)
    BY <1>9, <2>1, FirstEffect
  <2> HIDE DEF g
  <2> QED BY <1>4, <1>5, <1>9, <2>1, <2>2 DEF FirstPlace, ResponsePlace, Live, Steady, SameLine, g
<1>10. CASE h.state = "reason" /\ p = b + 5
  <2>1. t = "crlf" /\ p + 1 = l.line[1]
    BY <1>1, <1>2, <1>3, <1>10
  <2>2. g.state = "field_start" /\ Steady(h, g) /\ SameLine(h, g) /\ SameData(h, g)
    BY <1>10, <2>1, FirstEffect
  <2> HIDE DEF g
  <2>3. Live(g, "response") /\ g.flags = {} /\ g.length = ULLONG_MAX /\ Told(g, "response", m)
    BY <1>4, <1>10, <2>2 DEF Live, Told, Steady, SameLine
  <2>4. ASSUME e PROVE HeadExact(g, "response", m, 0) /\ Unmarked(g)
    <3>1. HeadersUpTo(m, 0) = NoHeaders
      BY NoLines
    <3> QED BY <1>5, <2>2, <2>4, <3>1 DEF HeadExact, Unmarked, Ready, Steady, g
  <2> QED BY <2>1, <2>2, <2>3, <2>4 DEF StartPlace, Steady, g
<1> QED BY <1>4, <1>6, <1>7, <1>8, <1>9, <1>10

------------------------------------------------------------------------------
(* What the parser has kept of a message is the message.                   *)
LEMMA FinalIs ==
  ASSUME NEW h, NEW m, NEW type \in {"request", "response"}, IsParser(h), Told(h, type, m),
         Unended(h, type), h.message.headers = HeadersOf(m), h.message.body = FlattenSeq(m.body),
         type = "request" => h.message.url = m.url
  PROVE  Final(h) = MessageOf(type, m)
<1> DEFINE f == FlattenSeq(m.body)
           hs == HeadersOf(m)
           M == h.message
<1>1. Final(h) = [M EXCEPT !.version = h.version,
            !.method = IF h.type = "request" THEN h.method ELSE @,
            !.status = IF h.type = "response" THEN h.status ELSE @]
  BY DEF Final, OnMessageComplete, IsParser, Fields
<1>2. DOMAIN M = MessageFields /\ M.headers = hs /\ M.body = f
  BY DEF Unended
<1> HIDE DEF f, hs
<1>3. CASE type = "request"
  <2>1. /\ M.status = "unset" /\ M.url = m.url /\ h.version = m.version /\ h.method = m.method
        /\ h.type = "request"
    BY <1>3 DEF Unended, Told
  <2>2. Final(h) = [M EXCEPT !.version = m.version, !.method = m.method, !.status = "unset"]
    BY <1>1, <2>1
  <2>3. MessageOf(type, m) = [ method |-> m.method, url |-> m.url, version |-> m.version,
                               status |-> "unset", headers |-> hs, body |-> f ]
    BY <1>3 DEF MessageOf, RequestOf, hs, f
  <2> HIDE DEF M
  <2> QED BY <1>2, <2>1, <2>2, <2>3 DEF MessageFields
<1>4. CASE type = "response"
  <2>1. /\ M.method = "unset" /\ M.url = <<>> /\ h.version = m.version /\ h.status = m.status
        /\ h.type = "response"
    BY <1>4 DEF Unended, Told
  <2>2. Final(h) = [M EXCEPT !.version = m.version, !.method = "unset", !.status = m.status]
    BY <1>1, <2>1
  <2>3. MessageOf(type, m) = [ method |-> "unset", url |-> <<>>, version |-> m.version,
                               status |-> m.status, headers |-> hs, body |-> f ]
    BY <1>4 DEF MessageOf, ResponseOf, hs, f
  <2> HIDE DEF M
  <2> QED BY <1>2, <2>1, <2>2, <2>3 DEF MessageFields
<1> QED BY <1>3, <1>4

(* Behind a line: the next one begins, or the head ends.                   *)
LEMMA NextLine ==
  ASSUME NEW x, NEW type, NEW m, NEW l, Good(type, m), Laid(x, type, m, l), NEW e \in BOOLEAN,
         e => Len(m.body) <= 1,
         NEW h, IsParser(h), NEW p \in Nat, NEW j \in 0..NL(m),
         Live(h, type), Told(h, type, m), h.state = "field_start", p = l.line[j + 1],
         h.flags = FlagsUpTo(m, j), h.length = LengthUpTo(m, j),
         e => HeadExact(h, type, m, j) /\ Unmarked(h)
  PROVE  HeadTurned(e, h, HeaderFieldStart(h, x[p + 1]), type, m, l, p + 1)
<1> DEFINE t == x[p + 1]
           g == HeaderFieldStart(h, t)
           n == NL(m)
<1>1. n \in Nat /\ \A i \in 1..n : LineOk(TheLine(m, i))
  BY DEF Good, GoodLines
<1>2. CASE j < n
  <2> DEFINE i == j + 1
             N == TheLine(m, i)[1]
  <2>1. i \in 1..n /\ i - 1 = j
    BY <1>1, <1>2
  <2>2. N \in Seq(Piece) /\ N # <<>> /\ (\A k \in 1..Len(N) : IsText(N[k])) /\ Len(N) \in Nat \ {0}
    BY <1>1, <2>1, LenProperties, EmptySeq DEF LineOk
  <2>3. LineLaid(x, l.line[i], TheLine(m, i)) /\ p = l.line[i]
    BY <2>1 DEF Laid, LinesLaid
  <2> HIDE DEF N
  <2>4. t = N[1] /\ IsText(t) /\ 1 \in 1..Len(N)
    BY <2>2, <2>3, SMTT(30) DEF LineLaid, N
  <2>5. /\ g.state = "field" /\ Steady(h, g) /\ g.flags = h.flags /\ g.length = h.length
        /\ g.name = <<t>> /\ g.value = <<>>
        /\ g.mark = Going(h, "field", t)
        /\ g.headFieldTemp = h.headFieldTemp /\ g.message = h.message
    BY <2>4, FieldStartEffect
  <2> HIDE DEF g
  <2>6. SubSeq(N, 1, 1) = Append(SubSeq(N, 1, 0), N[1]) /\ SubSeq(N, 1, 0) = <<>>
    BY <2>2, MoreSaid
  <2>7. LengthUpTo(m, j) = ULLONG_MAX
    BY <1>2 DEF LengthUpTo
  <2>8. ASSUME e PROVE HeadExact(g, type, m, i - 1) /\ g.mark = Said("field", N, 1)
    <3>1. Text(h, "field") = <<>>
      BY <2>8 DEF Unmarked, Text, NoMark
    <3> QED BY <2>1, <2>4, <2>5, <2>6, <2>8, <3>1 DEF HeadExact, Unended, Steady, Going, Said
  <2>9. g.name = SubSeq(N, 1, 1)
    BY <2>4, <2>5, <2>6
  <2>10. (p + 1) - l.line[i] = 1
    BY <2>3
  <2> HIDE DEF i
  <2>11. NamePlace(e, g, type, m, l, p + 1, i)
    BY <2>1, <2>4, <2>5, <2>7, <2>8, <2>9, <2>10 DEF NamePlace, N
  <2>12. Live(g, type) /\ Told(g, type, m) /\ g.nread = h.nread
    BY <2>5 DEF Live, Told, Steady
  <2> QED BY <2>1, <2>11, <2>12 DEF HeadTurned, HeadPlace, LinePlace, g
<1>3. CASE j = n
  <2>1. t = "crlf" /\ p + 1 = BodyAt(m, l)
    BY <1>3 DEF Laid, LinesLaid, BodyAt
  <2>2. g = HeadersAlmostDone(h)
    BY <2>1 DEF HeaderFieldStart, IsText
  <2>3. HeadOver(h, type, m)
    BY <1>3 DEF HeadOver, AllFlags
  <2>4. /\ g.nread = 0
        /\ HasNoBody(m) => Ended(h, g, type, m)
        /\ ~HasNoBody(m) =>
                  /\ IsParser(g) /\ HeadOver(g, type, m) /\ SameData(h, g)
                  /\ g.error = FALSE /\ g.stop = FALSE /\ g.complete = h.complete
                  /\ g.upgrade = UpgradesTo(type, m) /\ g.state = BodyState(m)
    <3>1. h.error = FALSE /\ h.stop = FALSE
      BY DEF Live
    <3> DEFINE a == HeadersAlmostDone(h)
    <3>2. /\ a.nread = 0
          /\ HasNoBody(m) => Ended(h, a, type, m)
          /\ ~HasNoBody(m) =>
                  /\ IsParser(a) /\ HeadOver(a, type, m) /\ SameData(h, a)
                  /\ a.error = FALSE /\ a.stop = FALSE /\ a.complete = h.complete
                  /\ a.upgrade = UpgradesTo(type, m) /\ a.state = BodyState(m)
      BY <2>3, <3>1, HeadEnds
    <3>3. g = a
      BY <2>2
    <3> HIDE DEF a, g
    <3> QED BY <3>2, <3>3
  <2> HIDE DEF g
  <2>5. ASSUME e PROVE h.message.headers = HeadersOf(m)
    BY <1>3, <2>5 DEF HeadExact, HeadersOf, NL
  <2>6. GoodBody(m) /\ GoodFirst(type, m) /\ BodyLaid(x, m, BodyAt(m, l), l.chunk, l.end) /\ BodyAt(m, l) \in Nat
        /\ type \in {"request", "response"}
    BY DEF Good, Laid
  <2>7. CASE HasNoBody(m)
    <3>1. FlattenSeq(m.body) = <<>> /\ l.end = p + 1
      <4>1. CASE m.coding = "none"
        <5>1. m.body = <<>> /\ l.end = BodyAt(m, l)
          BY <2>6, <4>1 DEF GoodBody, BodyLaid
        <5> QED BY <2>1, <5>1, FlattenNone
      <4>2. CASE m.coding = "length" /\ Len(m.body[1]) = 0
        <5>1. m.body \in Seq(Seq(Piece)) /\ Len(m.body) = 1 /\ m.body[1] \in Seq(Piece)
          BY <2>6, <4>2, ElementOfSeq DEF GoodBody
        <5>2. m.body[1] = <<>> /\ m.body = <<m.body[1]>>
          BY <4>2, <5>1, EmptySeq
        <5>3. FlattenSeq(<<m.body[1]>>) = m.body[1]
          BY FlattenOne
        <5>4. l.end = p + 1
          BY <2>1, <2>6, <4>2 DEF BodyLaid
        <5> QED BY <5>2, <5>3, <5>4
      <4> QED BY <2>7, <4>1, <4>2 DEF HasNoBody
    <3>2. ASSUME e PROVE Final(h) = MessageOf(type, m)
      BY <2>5, <2>6, <3>1, <3>2, FinalIs DEF HeadExact
    <3>3. OverPlace(e, g, type, m, l, p + 1)
      BY <2>4, <2>7, <3>1, <3>2 DEF OverPlace, Ended, Unmarked, HasNoBody
    <3> QED BY <2>1, <2>4, <2>7, <3>3 DEF HeadTurned, g
  <2>8. CASE ~HasNoBody(m)
    <3> DEFINE q == p + 1
    <3>1. Live(g, type) /\ Told(g, type, m) /\ g.upgrade = UpgradesTo(type, m)
      BY <2>4, <2>8 DEF Live, HeadOver, Told
    <3>2. ASSUME e PROVE BodyExact(g, type, m) /\ g.message.body = <<>> /\ g.mark = NoMark
      BY <2>4, <2>5, <2>8, <3>2 DEF BodyExact, HeadExact, Unended, Unmarked, SameData
    <3>3. q - BodyAt(m, l) = 0
      BY <2>1, <2>6
    <3>4. g.flags = AllFlags(m) /\ g.length = LengthUpTo(m, n) /\ g.state = BodyState(m)
      BY <2>4, <2>8 DEF HeadOver
    <3>5. CASE m.coding = "length"
      <4>1. Len(m.body[1]) \in 0..9 /\ Len(m.body[1]) # 0
        BY <2>6, <2>8, <3>5 DEF GoodBody, HasNoBody
      <4>2. 0 \in 0..(Len(m.body[1]) - 1) /\ Len(m.body[1]) - 0 = Len(m.body[1])
        BY <4>1
      <4>3. g.length = Len(m.body[1]) /\ g.state = "body"
        BY <3>4, <3>5 DEF LengthUpTo, BodyState
      <4>4. LengthPlace(e, g, type, m, l, q)
        BY <3>2, <3>3, <3>4, <3>5, <4>2, <4>3 DEF LengthPlace, Taken
      <4> QED BY <2>1, <2>4, <3>1, <3>2, <4>4 DEF HeadTurned, BodyPlace, g
    <3>6. CASE m.coding = "eof"
      <4>1. FlattenSeq(m.body) \in Seq(Piece)
        BY <2>6, FlatIsSeq DEF GoodBody
      <4>2. 0 \in 0..Len(FlattenSeq(m.body))
        BY <4>1, LenProperties
      <4>3. g.state = "body_eof"
        BY <3>4, <3>6 DEF BodyState
      <4>4. EofPlace(e, g, type, m, l, q)
        BY <3>2, <3>3, <3>4, <3>6, <4>2, <4>3 DEF EofPlace, Taken
      <4> QED BY <2>1, <2>4, <3>1, <3>2, <4>4 DEF HeadTurned, BodyPlace, g
    <3>7. CASE m.coding = "chunked"
      <4>1. g.state = "chunk_start"
        BY <3>4, <3>7 DEF BodyState
      <4>2. l.chunk[1] = q
        BY <2>1, <2>6, <3>7 DEF BodyLaid
      <4>3. 1 \in 1..(Len(m.body) + 1)
        BY <2>6 DEF GoodBody
      <4>4. ChunkPlace(e, g, type, m, l, q, 1)
        BY <3>2, <3>4, <3>7, <4>1, <4>2 DEF ChunkPlace
      <4> QED BY <2>1, <2>4, <3>1, <3>2, <4>3, <4>4 DEF HeadTurned, BodyPlace, g
    <3> QED BY <2>6, <2>8, <3>5, <3>6, <3>7 DEF GoodFirst, HasNoBody
  <2> QED BY <2>7, <2>8
<1> QED BY <1>1, <1>2, <1>3

------------------------------------------------------------------------------
(* All there is to know of line j of a message.                            *)
LineKnown(x, m, l, j, N, V, a) ==
  /\ N = TheLine(m, j)[1] /\ V = TheLine(m, j)[2] /\ a = l.line[j]
  /\ a \in Nat /\ Len(N) \in Nat \ {0} /\ Len(V) \in Nat /\ N \in Seq(Piece) /\ V \in Seq(Piece)
  /\ \A k \in 1..Len(N) : IsText(N[k]) /\ x[a + k] = N[k]
  /\ \A k \in 1..Len(V) : V[k] # "crlf" /\ x[(a + Len(N) + 2) + k] = V[k]
  /\ V # <<>> => V[1] # "sp" /\ Len(V) # 0
  /\ V = <<>> => Len(V) = 0
  /\ x[a + Len(N) + 1] = ":" /\ x[a + Len(N) + 2] = "sp"
  /\ x[a + Len(N) + Len(V) + 3] = "crlf"
  /\ l.line[j + 1] = a + Len(N) + Len(V) + 3
  /\ N = ContentLength =>
       /\ V = <<ToString(Len(m.body[1]))>> /\ Len(V) = 1 /\ Len(m.body[1]) \in 0..9
       /\ LengthUpTo(m, j) = Len(m.body[1])
  /\ N # ContentLength => LengthUpTo(m, j) = ULLONG_MAX
  /\ "length" \notin FlagsUpTo(m, j - 1)

LEMMA KnowLine ==
  ASSUME NEW x, NEW type, NEW m, NEW l, Good(type, m), Laid(x, type, m, l), NEW j \in 1..NL(m)
  PROVE  LineKnown(x, m, l, j, TheLine(m, j)[1], TheLine(m, j)[2], l.line[j])
<1> DEFINE N == TheLine(m, j)[1]
           V == TheLine(m, j)[2]
           a == l.line[j]
           n == NL(m)
<1>1. /\ n \in Nat /\ LineOk(TheLine(m, j))
      /\ N = ContentLength <=> m.coding = "length" /\ j = n
      /\ m.coding = "length" => TheLine(m, n)[2] = <<ToString(Len(m.body[1]))>>
      /\ m.coding = "length" => Len(m.body[1]) \in 0..9
  BY DEF Good, GoodLines, GoodBody
<1>2. /\ LineLaid(x, a, TheLine(m, j)) /\ a \in Nat
      /\ l.line[j + 1] = a + Len(N) + Len(V) + 3
  BY <1>1 DEF Laid, LinesLaid
<1>3. /\ N \in Seq(Piece) /\ V \in Seq(Piece) /\ Len(N) \in Nat \ {0} /\ Len(V) \in Nat
      /\ V # <<>> => Len(V) # 0
      /\ V = <<>> => Len(V) = 0
  BY <1>1, LenProperties, EmptySeq DEF LineOk
<1>4. "length" \notin FlagsUpTo(m, j - 1)
  BY FlagsOfHead DEF Good
<1>5. /\ N = ContentLength => LengthUpTo(m, j) = Len(m.body[1])
      /\ N # ContentLength => LengthUpTo(m, j) = ULLONG_MAX
  BY <1>1 DEF LengthUpTo
<1>6. N = ContentLength => V = <<ToString(Len(m.body[1]))>> /\ Len(V) = 1 /\ Len(m.body[1]) \in 0..9
  <2> SUFFICES ASSUME N = ContentLength
               PROVE V = <<ToString(Len(m.body[1]))>> /\ Len(V) = 1 /\ Len(m.body[1]) \in 0..9
    OBVIOUS
  <2>1. m.coding = "length" /\ j = n
    BY <1>1
  <2>2. V = <<ToString(Len(m.body[1]))>> /\ Len(m.body[1]) \in 0..9
    BY <1>1, <2>1
  <2> HIDE DEF V
  <2> QED BY <2>2
<1>7. /\ \A k \in 1..Len(N) : IsText(N[k]) /\ x[a + k] = N[k]
      /\ \A k \in 1..Len(V) : V[k] # "crlf" /\ x[(a + Len(N) + 2) + k] = V[k]
      /\ V # <<>> => V[1] # "sp"
      /\ x[a + Len(N) + 1] = ":" /\ x[a + Len(N) + 2] = "sp"
      /\ x[a + Len(N) + Len(V) + 3] = "crlf"
  BY <1>1, <1>2 DEF LineOk, LineLaid
<1> HIDE DEF N, V, a
<1> QED BY <1>2, <1>3, <1>4, <1>5, <1>6, <1>7 DEF LineKnown, N, V, a

LEMMA NameTurn ==
  ASSUME NEW x, NEW type, NEW m, NEW l, Good(type, m), Laid(x, type, m, l), NEW e \in BOOLEAN,
         NEW h, IsParser(h), NEW p \in Nat, NEW j \in 1..NL(m),
         Live(h, type), Told(h, type, m), NamePlace(e, h, type, m, l, p, j)
  PROVE  HeadTurned(e, h, Turn(h, x[p + 1]), type, m, l, p + 1)
<1> DEFINE t == x[p + 1]
           g == Turn(h, t)
           N == TheLine(m, j)[1]
           V == TheLine(m, j)[2]
           a == l.line[j]
           k == p - a
           k1 == (p + 1) - a
           fs == FlagsUpTo(m, j - 1)
<1>1. LineKnown(x, m, l, j, N, V, a)
  BY KnowLine
<1>2. /\ h.state = "field" /\ k \in 1..Len(N)
      /\ h.name = SubSeq(N, 1, k) /\ h.value = <<>>
      /\ h.flags = fs /\ h.length = ULLONG_MAX
      /\ e => HeadExact(h, type, m, j - 1) /\ h.mark = Said("field", N, k)
  BY DEF NamePlace
<1> HIDE DEF N, V, a, fs
<1>3. /\ k1 = k + 1 /\ p = a + k /\ p + 1 = a + (k + 1) /\ (k + 1) - 1 = k /\ k \in Nat
      /\ a \in Nat /\ Len(N) \in Nat \ {0} /\ N \in Seq(Piece)
  <2>1. a \in Nat /\ Len(N) \in Nat \ {0} /\ N \in Seq(Piece)
    BY <1>1 DEF LineKnown
  <2> DEFINE z == Len(N)
  <2>2. k \in 1..z /\ z \in Nat
    BY <1>2, <2>1
  <2> HIDE DEF z
  <2>3. k1 = k + 1 /\ p = a + k /\ p + 1 = a + (k + 1) /\ (k + 1) - 1 = k /\ k \in Nat
    BY ONLY <2>1, <2>2, p \in Nat
  <2> QED BY <2>1, <2>3
<1>4. /\ \A i \in 1..Len(N) : IsText(N[i]) /\ x[a + i] = N[i]
      /\ x[a + Len(N) + 1] = ":"
  BY <1>1 DEF LineKnown
<1> HIDE DEF k, k1
<1>5. CASE k < Len(N)
  <2>1. k + 1 \in 1..Len(N) /\ k \in 1..Len(N)
    BY <1>2, <1>3, <1>5
  <2>2. t = N[k + 1] /\ IsText(t)
    BY <1>3, <1>4, <2>1
  <2>3. /\ g.state = "field" /\ Steady(h, g) /\ g.flags = h.flags /\ g.length = h.length
        /\ g.name = Append(h.name, t) /\ g.value = h.value
        /\ g.mark = Going(h, "field", t)
        /\ g.headFieldTemp = h.headFieldTemp /\ g.message = h.message
    BY <1>2, <2>2, FieldEffect
  <2>4. SubSeq(N, 1, k + 1) = Append(SubSeq(N, 1, k), N[k + 1])
    BY <1>3, <2>1, MoreSaid
  <2> HIDE DEF g
  <2>5. g.name = SubSeq(N, 1, k + 1)
    BY <1>2, <2>2, <2>3, <2>4
  <2>6. ASSUME e PROVE HeadExact(g, type, m, j - 1) /\ g.mark = Said("field", N, k + 1)
    <3>1. Text(h, "field") = SubSeq(N, 1, k)
      BY <1>2, <2>6 DEF Text, Said
    <3>2. g.mark = [kind |-> "field", text |-> SubSeq(N, 1, k + 1)]
      BY <2>2, <2>3, <2>4, <3>1 DEF Going
    <3> QED BY <1>2, <2>3, <2>6, <3>2 DEF HeadExact, Unended, Steady, Said
  <2>7. NamePlace(e, g, type, m, l, p + 1, j)
    BY <1>2, <1>3, <2>1, <2>3, <2>5, <2>6 DEF NamePlace, N, a, fs, k1
  <2>8. Live(g, type) /\ Told(g, type, m) /\ g.nread = h.nread
    BY <2>3 DEF Live, Told, Steady
  <2> QED BY <2>7, <2>8 DEF HeadTurned, HeadPlace, LinePlace, g
<1>6. CASE ~(k < Len(N))
  <2>1. k = Len(N)
    BY <1>2, <1>3, <1>6
  <2>2. t = ":" /\ SubSeq(N, 1, k) = N /\ 1 \in 1..Len(N)
    BY <1>3, <1>4, <2>1, SubSeqFull
  <2>3. /\ Overflow(h) => g.error = TRUE
        /\ ~Overflow(h) =>
             /\ g.state = "value_ws" /\ Steady(h, g) /\ g.length = h.length
             /\ g.flags = h.flags \cup (IF h.name = TransferEncoding THEN {"te"} ELSE {})
             /\ g.name = h.name /\ g.value = h.value /\ g.mark = NoMark
             /\ h.mark.kind = "field" =>
                  g.headFieldTemp = <<h.mark.text>> /\ g.message = h.message
    <3> DEFINE f == Turn(h, ":")
    <3>1. /\ Overflow(h) => f.error = TRUE
          /\ ~Overflow(h) =>
             /\ f.state = "value_ws" /\ Steady(h, f) /\ f.length = h.length
             /\ f.flags = h.flags \cup (IF h.name = TransferEncoding THEN {"te"} ELSE {})
             /\ f.name = h.name /\ f.value = h.value /\ f.mark = NoMark
             /\ h.mark.kind = "field" =>
                  f.headFieldTemp = <<h.mark.text>> /\ f.message = h.message
      BY <1>2, FieldEndEffect
    <3>2. g = f
      BY <2>2
    <3> HIDE DEF f, g
    <3> QED BY <3>1, <3>2
  <2> HIDE DEF g
  <2>4. CASE Overflow(h)
    BY <2>3, <2>4 DEF HeadTurned, g
  <2>5. CASE ~Overflow(h)
    <3>1. g.name = N /\ g.flags = fs \cup NameFlags(TheLine(m, j))
      BY <1>2, <2>2, <2>3, <2>5 DEF NameFlags, N
    <3>2. ASSUME e PROVE HeadExact(g, type, m, j - 1) /\ g.headFieldTemp = <<N>>
      <4>1. h.mark.kind = "field" /\ h.mark.text = N
        BY <1>2, <2>2, <3>2 DEF Said
      <4> QED BY <1>2, <2>3, <2>5, <3>2, <4>1 DEF HeadExact, Unended, Steady
    <3>3. (p + 1) - (a + Len(N)) = 1
      BY <1>3, <2>1
    <3>4. ColonPlace(e, g, type, m, l, p + 1, j)
      BY <1>2, <2>3, <2>5, <3>1, <3>2, <3>3 DEF ColonPlace, N, a, fs
    <3>5. Live(g, type) /\ Told(g, type, m) /\ g.nread = h.nread
      BY <2>3, <2>5 DEF Live, Told, Steady
    <3> QED BY <3>4, <3>5 DEF HeadTurned, HeadPlace, LinePlace, g
  <2> QED BY <2>4, <2>5
<1> QED BY <1>5, <1>6

LEMMA ColonTurn ==
  ASSUME NEW x, NEW type, NEW m, NEW l, Good(type, m), Laid(x, type, m, l), NEW e \in BOOLEAN,
         NEW h, IsParser(h), NEW p \in Nat, NEW j \in 1..NL(m),
         Live(h, type), Told(h, type, m), ColonPlace(e, h, type, m, l, p, j)
  PROVE  HeadTurned(e, h, Turn(h, x[p + 1]), type, m, l, p + 1)
<1> DEFINE t == x[p + 1]
           g == Turn(h, t)
           line == TheLine(m, j)
           N == line[1]
           V == line[2]
           a == l.line[j]
           k == p - (a + Len(N))
           fs == FlagsUpTo(m, j - 1)
<1>1. LineKnown(x, m, l, j, N, V, a)
  BY KnowLine
<1>2. /\ h.state = "value_ws" /\ k \in {1, 2}
      /\ h.name = N /\ h.value = <<>>
      /\ h.flags = fs \cup NameFlags(line) /\ h.length = ULLONG_MAX
      /\ e => HeadExact(h, type, m, j - 1) /\ h.mark = NoMark /\ h.headFieldTemp = <<N>>
  BY DEF ColonPlace
<1>0. j \in Nat /\ j > 0
  BY DEF Good, GoodLines
<1>f. FlagsUpTo(m, j) = fs \cup FlagsOf(line)
  BY <1>0, FlagsStep
<1> HIDE DEF N, V, a, fs
<1>3. /\ a \in Nat /\ Len(N) \in Nat \ {0} /\ Len(V) \in Nat
      /\ x[a + Len(N) + 2] = "sp" /\ x[a + Len(N) + Len(V) + 3] = "crlf"
      /\ l.line[j + 1] = a + Len(N) + Len(V) + 3
      /\ \A i \in 1..Len(V) : V[i] # "crlf" /\ x[(a + Len(N) + 2) + i] = V[i]
      /\ V # <<>> => V[1] # "sp" /\ Len(V) # 0
      /\ V = <<>> => Len(V) = 0
      /\ V \in Seq(Piece)
  BY <1>1 DEF LineKnown
<1>4. CASE k = 1
  <2>1. t = "sp" /\ (p + 1) - (a + Len(N)) = 2
    <3>1. p + 1 = a + Len(N) + 2
      BY <1>3, <1>4
    <3> QED BY <1>3, <3>1
  <2>2. g = h
    BY <1>2, <2>1, ValueWsEffect
  <2> HIDE DEF g
  <2>3. ColonPlace(e, g, type, m, l, p + 1, j)
    BY <1>2, <2>1, <2>2 DEF ColonPlace, N, a, fs
  <2> QED BY <2>2, <2>3 DEF HeadTurned, HeadPlace, LinePlace, g
<1>5. CASE k = 2 /\ V = <<>>
  <2>1. t = "crlf" /\ p + 1 = l.line[j + 1]
    <3>1. p + 1 = a + Len(N) + Len(V) + 3
      BY <1>3, <1>5
    <3> QED BY <1>3, <3>1
  <2>2. g = Go(h, "empty_value")
    BY <1>2, <2>1, ValueWsEffect
  <2> HIDE DEF g
  <2>3. g.state = "empty_value" /\ Steady(h, g) /\ SameLine(h, g) /\ SameData(h, g)
    BY <2>2, EmptyValueGo
  <2>4. g.flags = FlagsUpTo(m, j)
    <3>1. FlagsOf(line) = NameFlags(line)
      BY <1>5 DEF FlagsOf, V
    <3> QED BY <1>2, <1>f, <2>3, <3>1 DEF SameLine
  <2>5. e => HeadExact(g, type, m, j - 1) /\ g.mark = NoMark /\ g.headFieldTemp = <<N>>
    BY <1>2, <2>3 DEF HeadExact, Unended, Steady, SameData
  <2>6. NoValuePlace(e, g, type, m, l, p + 1, j)
    BY <1>2, <1>5, <2>1, <2>3, <2>4, <2>5 DEF NoValuePlace, SameLine, N, V
  <2>7. Live(g, type) /\ Told(g, type, m) /\ g.nread = h.nread
    BY <2>3 DEF Live, Told, Steady
  <2> QED BY <2>6, <2>7 DEF HeadTurned, HeadPlace, LinePlace, g
<1>6. CASE k = 2 /\ V # <<>>
  <2>1. t = V[1] /\ (p + 1) - (a + Len(N) + 2) = 1 /\ 1 \in 1..Len(V) /\ t \notin {"sp", "crlf"}
    <3>1. 1 \in 1..Len(V) /\ p + 1 = (a + Len(N) + 2) + 1
      BY <1>3, <1>6
    <3>2. x[(a + Len(N) + 2) + 1] = V[1] /\ V[1] # "crlf"
      BY <1>3, <3>1
    <3>3. (p + 1) - (a + Len(N) + 2) = 1
      BY <1>3, <1>6
    <3> QED BY <1>3, <1>6, <3>1, <3>2, <3>3
  <2>2. g = ValuePiece(h, t)
    BY <1>2, <2>1, ValueWsEffect
  <2> HIDE DEF g
  <2>3. /\ g.state = "value" /\ Steady(h, g) /\ g.length = LengthUpTo(m, j)
        /\ g.flags = FlagsIn(m, j)
        /\ g.name = h.name /\ g.value = Append(h.value, t)
        /\ g.mark = Going(h, "value", t)
        /\ g.headFieldTemp = h.headFieldTemp /\ g.message = h.message
    <3>1. CASE N = ContentLength
      <4> DEFINE n == Len(m.body[1])
      <4>1. t = ToString(n) /\ n \in 0..9 /\ LengthUpTo(m, j) = n
        <5>1. V = <<ToString(n)>> /\ n \in 0..9 /\ LengthUpTo(m, j) = n
          BY <1>1, <3>1 DEF LineKnown
        <5> HIDE DEF n
        <5>2. V[1] = ToString(n)
          BY <5>1
        <5> QED BY <2>1, <5>1, <5>2
      <4>2. "length" \notin h.flags
        BY <1>1, <1>2 DEF LineKnown, NameFlags, fs
      <4> HIDE DEF n
      <4>3. /\ g.state = "value" /\ Steady(h, g) /\ g.length = n
            /\ g.flags = h.flags \cup {"length"}
            /\ g.name = h.name /\ g.value = Append(h.value, ToString(n))
            /\ g.mark = Going(h, "value", ToString(n))
            /\ g.headFieldTemp = h.headFieldTemp /\ g.message = h.message
        <5> DEFINE f == ValuePiece(h, ToString(n))
        <5>1. h.name = ContentLength /\ h.value = <<>>
          BY <1>2, <3>1
        <5>2. /\ f.state = "value" /\ Steady(h, f) /\ f.length = n
              /\ f.flags = h.flags \cup {"length"}
              /\ f.name = h.name /\ f.value = Append(h.value, ToString(n))
              /\ f.mark = Going(h, "value", ToString(n))
              /\ f.headFieldTemp = h.headFieldTemp /\ f.message = h.message
          <6>1. n \in 0..9
            BY <4>1
          <6> QED BY ONLY <4>2, <5>1, <6>1, IsParser(h), LengthEffect
        <5>3. g = f
          BY <2>2, <4>1
        <5> HIDE DEF f
        <5> QED BY <5>2, <5>3
      <4>4. ValueFlags(line) = {"length"}
        BY <3>1 DEF ValueFlags, N, ContentLength, Upgrade
      <4> QED BY <1>2, <4>1, <4>3, <4>4 DEF FlagsIn, fs
    <3>2. CASE N # ContentLength
      <4>1. /\ g.state = "value" /\ Steady(h, g) /\ g.length = h.length
            /\ g.flags = h.flags \cup (IF h.name = Upgrade THEN {"upgrade"} ELSE {})
            /\ g.name = h.name /\ g.value = Append(h.value, t)
            /\ g.mark = Going(h, "value", t)
            /\ g.headFieldTemp = h.headFieldTemp /\ g.message = h.message
        BY <1>2, <2>2, <3>2, ValuePieceEffect
      <4>2. ValueFlags(line) = IF N = Upgrade THEN {"upgrade"} ELSE {}
        BY <3>2 DEF ValueFlags, N
      <4>3. LengthUpTo(m, j) = ULLONG_MAX
        BY <1>1, <3>2 DEF LineKnown
      <4> QED BY <1>2, <4>1, <4>2, <4>3 DEF FlagsIn, fs
    <3> QED BY <3>1, <3>2
  <2>4. SubSeq(V, 1, 1) = Append(SubSeq(V, 1, 0), V[1]) /\ SubSeq(V, 1, 0) = <<>>
    BY <1>3, <2>1, MoreSaid
  <2>5. g.value = SubSeq(V, 1, 1)
    BY <1>2, <2>1, <2>3, <2>4
  <2>6. ASSUME e PROVE /\ HeadExact(g, type, m, j - 1) /\ g.headFieldTemp = <<N>>
                       /\ g.mark.kind = "value" /\ g.mark.text = SubSeq(V, 1, 1)
    <3>1. Text(h, "value") = <<>>
      BY <1>2, <2>6 DEF Text, NoMark
    <3>2. g.mark.kind = "value" /\ g.mark.text = SubSeq(V, 1, 1)
      BY <2>1, <2>3, <2>4, <3>1 DEF Going
    <3> QED BY <1>2, <2>3, <2>6, <3>2 DEF HeadExact, Unended, Steady
  <2>7. ValuePlace(e, g, type, m, l, p + 1, j)
    BY <1>2, <2>1, <2>3, <2>5, <2>6 DEF ValuePlace, N, V, a
  <2>8. Live(g, type) /\ Told(g, type, m) /\ g.nread = h.nread
    BY <2>3 DEF Live, Told, Steady
  <2> QED BY <2>7, <2>8 DEF HeadTurned, HeadPlace, LinePlace, g
<1> QED BY <1>2, <1>4, <1>5, <1>6

------------------------------------------------------------------------------
LEMMA ValueTurn ==
  ASSUME NEW x, NEW type, NEW m, NEW l, Good(type, m), Laid(x, type, m, l), NEW e \in BOOLEAN,
         NEW h, IsParser(h), NEW p \in Nat, NEW j \in 1..NL(m),
         Live(h, type), Told(h, type, m), ValuePlace(e, h, type, m, l, p, j)
  PROVE  HeadTurned(e, h, Turn(h, x[p + 1]), type, m, l, p + 1)
<1> DEFINE t == x[p + 1]
           g == Turn(h, t)
           line == TheLine(m, j)
           N == line[1]
           V == line[2]
           a == l.line[j]
           o == a + Len(N) + 2
           k == p - o
           k1 == (p + 1) - o
           fs == FlagsUpTo(m, j - 1)
<1>1. LineKnown(x, m, l, j, N, V, a)
  BY KnowLine
<1>2. /\ h.state = "value" /\ k \in 1..Len(V)
      /\ h.name = N /\ h.value = SubSeq(V, 1, k)
      /\ h.flags = FlagsIn(m, j) /\ h.length = LengthUpTo(m, j)
      /\ e => h.mark.kind = "value" /\
              \/ /\ HeadExact(h, type, m, j - 1) /\ h.headFieldTemp = <<N>>
                 /\ h.mark.text = SubSeq(V, 1, k)
              \/ k = Len(V) /\ HeadExact(h, type, m, j) /\ h.headFieldTemp = <<>>
  BY DEF ValuePlace
<1>0. j \in Nat /\ j > 0
  BY DEF Good, GoodLines
<1> HIDE DEF N, V, a, fs, o
<1>3. /\ k1 = k + 1 /\ p = o + k /\ p + 1 = o + (k + 1) /\ (k + 1) - 1 = k /\ k \in Nat
      /\ o \in Nat /\ Len(V) \in Nat /\ V \in Seq(Piece)
  <2>1. a \in Nat /\ Len(N) \in Nat /\ Len(V) \in Nat /\ V \in Seq(Piece)
    BY <1>1 DEF LineKnown
  <2> DEFINE z == Len(V)
  <2>2. k \in 1..z /\ z \in Nat /\ o \in Nat
    BY <1>2, <2>1 DEF o
  <2> HIDE DEF z
  <2>3. k1 = k + 1 /\ p = o + k /\ p + 1 = o + (k + 1) /\ (k + 1) - 1 = k /\ k \in Nat
    BY ONLY <2>2, p \in Nat
  <2> QED BY <2>1, <2>2, <2>3
<1>4. /\ \A i \in 1..Len(V) : V[i] # "crlf" /\ x[o + i] = V[i]
      /\ x[o + Len(V) + 1] = "crlf"
      /\ l.line[j + 1] = o + Len(V) + 1
  <2>1. a \in Nat /\ Len(N) \in Nat /\ a + Len(N) + Len(V) + 3 = o + Len(V) + 1
    <3> DEFINE zN == Len(N)
               zV == Len(V)
    <3>1. a \in Nat /\ zN \in Nat /\ zV \in Nat /\ o = a + zN + 2
      BY <1>1 DEF LineKnown, o
    <3> HIDE DEF zN, zV
    <3>2. a + zN + zV + 3 = o + zV + 1
      BY ONLY <3>1
    <3> QED BY <3>1, <3>2 DEF zN, zV
  <2> QED BY <1>1, <2>1 DEF LineKnown, o
<1> HIDE DEF k, k1
<1>5. CASE k < Len(V)
  <2>1. k + 1 \in 1..Len(V) /\ k \in 1..Len(V)
    BY <1>2, <1>3, <1>5
  <2>2. t = V[k + 1] /\ t # "crlf"
    BY <1>3, <1>4, <2>1
  <2>3. g = ValuePiece(h, t)
    BY <1>2, <2>2 DEF Turn, HeaderValue
  <2>4. N # ContentLength
    <3>1. N = ContentLength => Len(V) = 1
      BY <1>1 DEF LineKnown
    <3> QED BY <1>2, <1>3, <1>5, <3>1
  <2> HIDE DEF g
  <2>5. /\ g.state = "value" /\ Steady(h, g) /\ g.length = h.length
        /\ g.flags = h.flags \cup (IF h.name = Upgrade THEN {"upgrade"} ELSE {})
        /\ g.name = h.name /\ g.value = Append(h.value, t)
        /\ g.mark = Going(h, "value", t)
        /\ g.headFieldTemp = h.headFieldTemp /\ g.message = h.message
    BY <1>2, <2>3, <2>4, ValuePieceEffect
  <2>6. g.flags = FlagsIn(m, j)
    <3>1. ValueFlags(line) = IF N = Upgrade THEN {"upgrade"} ELSE {}
      BY <2>4 DEF ValueFlags, N
    <3> QED BY <1>2, <2>5, <3>1 DEF FlagsIn
  <2>7. SubSeq(V, 1, k + 1) = Append(SubSeq(V, 1, k), V[k + 1])
    BY <1>3, <2>1, MoreSaid
  <2>8. g.value = SubSeq(V, 1, k + 1)
    BY <1>2, <2>2, <2>5, <2>7
  <2>9. ASSUME e PROVE /\ g.mark.kind = "value" /\ HeadExact(g, type, m, j - 1) /\ g.headFieldTemp = <<N>>
                       /\ g.mark.text = SubSeq(V, 1, k + 1)
    <3>1. /\ HeadExact(h, type, m, j - 1) /\ h.headFieldTemp = <<N>>
          /\ h.mark.text = SubSeq(V, 1, k) /\ h.mark.kind = "value"
      BY <1>2, <1>3, <1>5, <2>9
    <3>2. Text(h, "value") = SubSeq(V, 1, k)
      BY <3>1 DEF Text
    <3>3. g.mark.kind = "value" /\ g.mark.text = SubSeq(V, 1, k + 1)
      <4>1. Append(SubSeq(V, 1, k), t) = SubSeq(V, 1, k + 1)
        BY <2>2, <2>7
      <4>2. Going(h, "value", t) = [kind |-> "value", text |-> SubSeq(V, 1, k + 1)]
        BY <3>2, <4>1 DEF Going
      <4> QED BY <2>5, <4>2
    <3> QED BY <2>5, <3>1, <3>3 DEF HeadExact, Unended, Steady
  <2>10. ValuePlace(e, g, type, m, l, p + 1, j)
    <3>1. k1 \in 1..Len(V) /\ g.value = SubSeq(V, 1, k1)
          /\ (e => g.mark.kind = "value" /\ HeadExact(g, type, m, j - 1) /\ g.headFieldTemp = <<N>>
                       /\ g.mark.text = SubSeq(V, 1, k1))
      BY <1>3, <2>1, <2>8, <2>9
    <3> QED BY <1>2, <2>5, <2>6, <3>1 DEF ValuePlace, N, V, a, o, k1
  <2>11. Live(g, type) /\ Told(g, type, m) /\ g.nread = h.nread
    BY <2>5 DEF Live, Told, Steady
  <2> QED BY <2>10, <2>11 DEF HeadTurned, HeadPlace, LinePlace, g
<1>6. CASE ~(k < Len(V))
  <2>1. k = Len(V)
    BY <1>2, <1>3, <1>6
  <2>2. t = "crlf" /\ SubSeq(V, 1, k) = V /\ p + 1 = l.line[j + 1]
    <3>1. p + 1 = o + Len(V) + 1
      BY <1>3, <2>1
    <3> QED BY <1>3, <1>4, <2>1, <3>1, SubSeqFull
  <2>3. V # <<>>
    BY <1>2, <1>3, <2>1
  <2> DEFINE f == Turn(h, "crlf")
  <2>4. /\ Overflow(h) => f.error = TRUE
        /\ ~Overflow(h) =>
             /\ f.state = "value_lws" /\ Steady(h, f) /\ SameLine(h, f) /\ f.mark = NoMark
             /\ h.mark.kind = "value" => f.headFieldTemp = <<>> /\ f.message = WithValue(h)
    BY <1>2, ValueEndEffect
  <2>5. g = f
    BY <2>2
  <2> HIDE DEF f, g
  <2>6. CASE Overflow(h)
    BY <2>4, <2>5, <2>6 DEF HeadTurned, g
  <2>7. CASE ~Overflow(h)
    <3>1. ASSUME e PROVE HeadExact(g, type, m, j) /\ Unmarked(g)
      <4>1. g.headFieldTemp = <<>> /\ g.message = WithValue(h) /\ g.mark = NoMark /\ Steady(h, g)
        BY <1>2, <2>4, <2>5, <2>7, <3>1
      <4>2. CASE HeadExact(h, type, m, j - 1) /\ h.headFieldTemp = <<N>> /\ h.mark.text = V
        <5> DEFINE hs == WithHeader(HeadersUpTo(m, j - 1), N, V)
        <5>1. HeadersUpTo(m, j) = hs
          BY <1>0, OneMoreLine DEF N, V
        <5>2. h.headFieldTemp # <<>> /\ h.headFieldTemp[1] = N
          BY <4>2
        <5>3. WithValue(h) = [h.message EXCEPT !.headers = WithHeader(@, N, V)]
          BY <4>2, <5>2 DEF WithValue
        <5>4. h.message.headers = HeadersUpTo(m, j - 1) /\ DOMAIN h.message = MessageFields
          BY <4>2 DEF HeadExact, Unended
        <5>5. g.message = [h.message EXCEPT !.headers = hs]
          BY <4>1, <5>3, <5>4
        <5> HIDE DEF hs
        <5>6. /\ DOMAIN g.message = MessageFields /\ g.message.headers = hs
              /\ \A fl \in MessageFields \ {"headers"} : g.message[fl] = h.message[fl]
          BY <5>4, <5>5 DEF MessageFields
        <5>7. /\ g.message.status = h.message.status /\ g.message.method = h.message.method
              /\ g.message.url = h.message.url /\ g.message.body = h.message.body
          BY <5>6 DEF MessageFields
        <5> QED BY <4>1, <4>2, <5>1, <5>6, <5>7 DEF HeadExact, Unended, Unmarked, Steady
      <4>3. CASE HeadExact(h, type, m, j) /\ h.headFieldTemp = <<>>
        BY <4>1, <4>3 DEF HeadExact, Unended, Unmarked, Steady, WithValue
      <4> QED BY <1>2, <2>2, <3>1, <4>2, <4>3
    <3>2. ValueEndPlace(e, g, type, m, l, p + 1, j)
      BY <1>2, <2>2, <2>3, <2>4, <2>5, <2>7, <3>1 DEF ValueEndPlace, SameLine, N, V
    <3>3. Live(g, type) /\ Told(g, type, m) /\ g.nread = h.nread
      BY <2>4, <2>5, <2>7 DEF Live, Told, Steady
    <3> QED BY <3>2, <3>3 DEF HeadTurned, HeadPlace, LinePlace, g
  <2> QED BY <2>6, <2>7
<1> QED BY <1>5, <1>6

(* What a line turns to does not depend on whether its flags are set yet.  *)
LEMMA TurnedAlike ==
  ASSUME NEW e, NEW h, NEW a, NEW g, NEW type, NEW m, NEW l, NEW p,
         HeadTurned(e, a, g, type, m, l, p), a.nread = h.nread
  PROVE  HeadTurned(e, h, g, type, m, l, p)
BY DEF HeadTurned, Overflow

LEMMA ValueEndTurn ==
  ASSUME NEW x, NEW type, NEW m, NEW l, Good(type, m), Laid(x, type, m, l), NEW e \in BOOLEAN,
         e => Len(m.body) <= 1,
         NEW h, IsParser(h), NEW p \in Nat, NEW j \in 1..NL(m),
         Live(h, type), Told(h, type, m), ValueEndPlace(e, h, type, m, l, p, j)
  PROVE  HeadTurned(e, h, Turn(h, x[p + 1]), type, m, l, p + 1)
<1> DEFINE t == x[p + 1]
           line == TheLine(m, j)
<1>1. /\ h.state = "value_lws" /\ p = l.line[j + 1] /\ line[2] # <<>>
      /\ h.name = line[1] /\ h.value = line[2]
      /\ h.flags = FlagsIn(m, j) /\ h.length = LengthUpTo(m, j)
      /\ e => HeadExact(h, type, m, j) /\ Unmarked(h)
  BY DEF ValueEndPlace
<1>2. PICK a : /\ Turn(h, t) = HeaderFieldStart(a, t)
               /\ IsParser(a) /\ a.state = "field_start" /\ Steady(h, a) /\ SameData(h, a)
               /\ a.flags = h.flags \cup LineFlags(<<h.name, h.value>>)
               /\ a.length = h.length /\ a.name = h.name /\ a.value = h.value
  BY <1>1, ValueLwsEffect
<1>3. a.flags = FlagsUpTo(m, j)
  <2>1. j \in Nat /\ j > 0
    BY DEF Good, GoodLines
  <2>2. FlagsUpTo(m, j) = FlagsUpTo(m, j - 1) \cup FlagsOf(line)
    BY <2>1, FlagsStep
  <2>3. LineFlags(<<h.name, h.value>>) = LineFlags(line)
    <3> DEFINE N == line[1]
               V == line[2]
    <3>1. LineFlags(<<N, V>>) = HeaderFlags([name |-> N, value |-> V])
      <4> HIDE DEF N, V
      <4>1. <<N, V>>[1] = N /\ <<N, V>>[2] = V
        OBVIOUS
      <4> QED BY <4>1 DEF LineFlags
    <3>2. LineFlags(line) = HeaderFlags([name |-> N, value |-> V])
      BY DEF LineFlags
    <3> QED BY <1>1, <3>1, <3>2
  <2>4. FlagsOf(line) = NameFlags(line) \cup (ValueFlags(line) \cup LineFlags(line))
    BY <1>1 DEF FlagsOf
  <2> QED BY <1>1, <1>2, <2>2, <2>3, <2>4 DEF FlagsIn
<1>4. Live(a, type) /\ Told(a, type, m) /\ a.nread = h.nread /\ (e => HeadExact(a, type, m, j) /\ Unmarked(a))
  BY <1>1, <1>2 DEF Live, Told, Steady, HeadExact, Unended, Unmarked, SameData
<1>5. j \in 0..NL(m)
  BY DEF Good, GoodLines
<1>6. HeadTurned(e, a, HeaderFieldStart(a, t), type, m, l, p + 1)
  BY <1>1, <1>2, <1>3, <1>4, <1>5, NextLine
<1> QED BY <1>2, <1>4, <1>6, TurnedAlike

LEMMA NoValueTurn ==
  ASSUME NEW x, NEW type, NEW m, NEW l, Good(type, m), Laid(x, type, m, l), NEW e \in BOOLEAN,
         e => Len(m.body) <= 1,
         NEW h, IsParser(h), NEW p \in Nat, NEW j \in 1..NL(m),
         Live(h, type), Told(h, type, m), NoValuePlace(e, h, type, m, l, p, j)
  PROVE  HeadTurned(e, h, Turn(h, x[p + 1]), type, m, l, p + 1)
<1> DEFINE t == x[p + 1]
           line == TheLine(m, j)
           N == line[1]
<1>1. /\ h.state = "empty_value" /\ p = l.line[j + 1] /\ line[2] = <<>>
      /\ h.name = N
      /\ h.flags = FlagsUpTo(m, j) /\ h.length = ULLONG_MAX
      /\ e => HeadExact(h, type, m, j - 1) /\ h.mark = NoMark /\ h.headFieldTemp = <<N>>
  BY DEF NoValuePlace
<1>2. LineKnown(x, m, l, j, N, line[2], l.line[j])
  BY KnowLine
<1>3. N # ContentLength /\ LengthUpTo(m, j) = ULLONG_MAX
  <2>1. N = ContentLength => Len(line[2]) = 1
    BY <1>2 DEF LineKnown
  <2>2. Len(line[2]) = 0
    BY <1>1, <1>2 DEF LineKnown
  <2> QED BY <1>2, <2>1, <2>2 DEF LineKnown
<1>4. NL(m) \in Nat /\ j \in 0..NL(m) /\ j \in Nat /\ j > 0
  BY DEF Good, GoodLines
<1>5. t # "sp"
  <2>1. CASE j = NL(m)
    <3>1. t = "crlf"
      BY <1>1, <2>1 DEF Laid, LinesLaid
    <3> QED BY <3>1
  <2>2. CASE j # NL(m)
    <3> DEFINE i == j + 1
    <3>1. i \in 1..NL(m) /\ p = l.line[i]
      BY <1>1, <1>4, <2>2
    <3> HIDE DEF i
    <3>2. LineKnown(x, m, l, i, TheLine(m, i)[1], TheLine(m, i)[2], l.line[i])
      BY <3>1, KnowLine
    <3>3. 1 \in 1..Len(TheLine(m, i)[1])
      <4>1. Len(TheLine(m, i)[1]) \in Nat \ {0}
        BY <3>2 DEF LineKnown
      <4> QED BY <4>1
    <3>4. IsText(t)
      BY <3>1, <3>2, <3>3 DEF LineKnown
    <3> QED BY <3>4 DEF IsText
  <2> QED BY <2>1, <2>2
<1> HIDE DEF N
<1>6. PICK a : /\ Turn(h, t) = HeaderFieldStart(a, t)
               /\ IsParser(a) /\ a.state = "field_start" /\ Steady(h, a) /\ SameLine(h, a)
               /\ a.mark = h.mark /\ a.headFieldTemp = <<>>
               /\ a.message = IF h.headFieldTemp = <<>> THEN h.message
                              ELSE [h.message EXCEPT !.headers = WithHeader(@, h.headFieldTemp[1], <<>>)]
  BY <1>1, <1>3, <1>5, EmptyValueEffect
<1>7. ASSUME e PROVE HeadExact(a, type, m, j) /\ Unmarked(a)
  <2> DEFINE hs == WithHeader(HeadersUpTo(m, j - 1), N, <<>>)
  <2>1. HeadersUpTo(m, j) = hs
    BY <1>1, <1>4, OneMoreLine DEF N
  <2>2. h.headFieldTemp # <<>> /\ h.headFieldTemp[1] = N
    <3>1. h.headFieldTemp = <<N>>
      BY <1>1, <1>7
    <3>2. <<N>> # <<>> /\ <<N>>[1] = N
      OBVIOUS
    <3> QED BY <3>1, <3>2
  <2>3. h.message.headers = HeadersUpTo(m, j - 1) /\ DOMAIN h.message = MessageFields
    BY <1>1, <1>7 DEF HeadExact, Unended
  <2>4. a.message = [h.message EXCEPT !.headers = hs]
    BY <1>6, <2>2, <2>3
  <2> HIDE DEF hs
  <2>6. /\ DOMAIN a.message = MessageFields /\ a.message.headers = hs
        /\ a.message.status = h.message.status /\ a.message.method = h.message.method
        /\ a.message.url = h.message.url /\ a.message.body = h.message.body
    BY <2>3, <2>4 DEF MessageFields
  <2> QED BY <1>1, <1>6, <1>7, <2>1, <2>6 DEF HeadExact, Unended, Unmarked, Steady
<1>8. Live(a, type) /\ Told(a, type, m) /\ a.nread = h.nread /\ a.flags = FlagsUpTo(m, j)
      /\ a.length = LengthUpTo(m, j)
  BY <1>1, <1>3, <1>6 DEF Live, Told, Steady, SameLine
<1>9. HeadTurned(e, a, HeaderFieldStart(a, t), type, m, l, p + 1)
  BY <1>1, <1>4, <1>6, <1>7, <1>8, NextLine
<1> QED BY <1>6, <1>8, <1>9, TurnedAlike

(* One turn in a head.                                                     *)
LEMMA HeadTurn ==
  ASSUME NEW x, NEW type, NEW m, NEW l, Good(type, m), Laid(x, type, m, l), NEW e \in BOOLEAN,
         e => Len(m.body) <= 1,
         NEW h, IsParser(h), NEW p \in Nat, HeadPlace(e, h, type, m, l, p)
  PROVE  HeadTurned(e, h, Turn(h, x[p + 1]), type, m, l, p + 1)
<1> DEFINE t == x[p + 1]
           g == Turn(h, t)
<1>1. type \in {"request", "response"} /\ NL(m) \in Nat
  BY DEF Good, GoodLines
<1>2. CASE FirstPlace(e, h, type, m, l, p)
  <2>1. CASE type = "request"
    BY <1>2, <2>1, RequestTurn DEF HeadTurned, HeadPlace
  <2>2. CASE type = "response"
    BY <1>2, <2>2, ResponseTurn DEF HeadTurned, HeadPlace
  <2> QED BY <1>1, <2>1, <2>2
<1>3. CASE StartPlace(e, h, type, m, l, p)
  <2>1. /\ Live(h, type) /\ Told(h, type, m) /\ h.state = "field_start" /\ p = l.line[0 + 1]
        /\ h.flags = {} /\ h.length = ULLONG_MAX
        /\ e => HeadExact(h, type, m, 0) /\ Unmarked(h)
    BY <1>3 DEF StartPlace
  <2>2. h.flags = FlagsUpTo(m, 0)
    BY <2>1, FlagsNone
  <2>3. h.length = LengthUpTo(m, 0)
    BY <2>1 DEF LengthUpTo, Good, GoodLines
  <2>4. g = HeaderFieldStart(h, t)
    BY <2>1 DEF Turn
  <2>5. 0 \in 0..NL(m)
    BY <1>1
  <2>6. HeadTurned(e, h, HeaderFieldStart(h, t), type, m, l, p + 1)
    BY <2>1, <2>2, <2>3, <2>5, NextLine
  <2> QED BY <2>4, <2>6
<1>4. CASE \E j \in 1..NL(m) : LinePlace(e, h, type, m, l, p, j)
  <2>1. PICK j \in 1..NL(m) : LinePlace(e, h, type, m, l, p, j)
    BY <1>4
  <2>2. Live(h, type) /\ Told(h, type, m)
    BY <2>1 DEF LinePlace
  <2>3. CASE NamePlace(e, h, type, m, l, p, j)
    BY <2>2, <2>3, NameTurn
  <2>4. CASE ColonPlace(e, h, type, m, l, p, j)
    BY <2>2, <2>4, ColonTurn
  <2>5. CASE ValuePlace(e, h, type, m, l, p, j)
    BY <2>2, <2>5, ValueTurn
  <2>6. CASE ValueEndPlace(e, h, type, m, l, p, j)
    BY <2>2, <2>6, ValueEndTurn
  <2>7. CASE NoValuePlace(e, h, type, m, l, p, j)
    BY <2>2, <2>7, NoValueTurn
  <2> QED BY <2>1, <2>3, <2>4, <2>5, <2>6, <2>7 DEF LinePlace
<1> QED BY <1>2, <1>3, <1>4 DEF HeadPlace

------------------------------------------------------------------------------
(* What the handlers of the body do, byte by byte.                         *)

(* All but the mark, the length and the count.                             *)
SameBody(h, g) ==
  /\ g.type = h.type /\ g.method = h.method /\ g.version = h.version /\ g.status = h.status
  /\ g.upgrade = h.upgrade /\ g.error = h.error /\ g.stop = h.stop /\ g.complete = h.complete
  /\ g.headFieldTemp = h.headFieldTemp

(* The text of the mark goes to the body.                                  *)
WithBody(h) ==
  IF h.mark.kind = "body" THEN [h.message EXCEPT !.body = h.mark.text] ELSE h.message

LEMMA BodyCallback ==
  ASSUME NEW h, IsParser(h), h.mark.kind \in {"body", "none"}
  PROVE  LET g == CallbackData(h)
         IN  /\ IsParser(g) /\ g.state = h.state /\ SameBody(h, g) /\ g.flags = h.flags
             /\ g.length = h.length /\ g.nread = h.nread
             /\ g.mark = NoMark /\ g.message = WithBody(h)
<1> DEFINE a == [h EXCEPT !.mark = NoMark]
           text == h.mark.text
<1>1. /\ IsParser(a) /\ a.state = h.state /\ SameBody(h, a) /\ a.flags = h.flags
      /\ a.length = h.length /\ a.nread = h.nread
      /\ a.mark = NoMark /\ a.message = h.message
  BY DEF IsParser, Fields, SameBody
<1>2. CASE h.mark.kind = "none"
  <2>1. CallbackData(h) = a
    BY <1>2 DEF CallbackData
  <2> HIDE DEF a
  <2> QED BY <1>1, <1>2, <2>1 DEF WithBody
<1>3. CASE h.mark.kind = "body"
  <2>1. CallbackData(h) = [a EXCEPT !.message.body = text]
    BY <1>3 DEF CallbackData, OnBody
  <2> HIDE DEF a, text
  <2>2. LET g == [a EXCEPT !.message.body = text]
        IN  /\ IsParser(g) /\ g.state = a.state /\ SameBody(a, g) /\ g.flags = a.flags
            /\ g.length = a.length /\ g.nread = a.nread
            /\ g.mark = a.mark /\ g.message = [a.message EXCEPT !.body = text]
    BY <1>1 DEF IsParser, Fields, SameBody
  <2>3. WithBody(h) = [h.message EXCEPT !.body = text]
    BY <1>3 DEF WithBody, text
  <2> QED BY <1>1, <2>1, <2>2, <2>3 DEF SameBody
<1> QED BY <1>2, <1>3

LEMMA MarkedEffect ==
  ASSUME NEW h, NEW t, IsParser(h)
  PROVE  LET g == Marked(h, "body", t)
         IN  /\ IsParser(g) /\ g.state = h.state /\ SameBody(h, g) /\ g.flags = h.flags
             /\ g.length = h.length /\ g.nread = h.nread
             /\ g.mark = Going(h, "body", t) /\ g.message = h.message
BY DEF Marked, IsParser, Fields, SameBody, Going, Text

(* g counts one byte of the body less.                                     *)
LEMMA IdentityEffect ==
  ASSUME NEW h, NEW t, IsParser(h), h.state = "body", h.length \in Nat
  PROVE  \E g : /\ IsParser(g) /\ g.state = h.state /\ SameBody(h, g) /\ g.flags = h.flags
                /\ g.length = h.length - 1 /\ g.nread = h.nread
                /\ g.mark = Going(h, "body", t) /\ g.message = h.message
                /\ Turn(h, t) = IF g.length = 0 THEN MessageDone(CallbackData(g)) ELSE g
<1> DEFINE a == Marked(h, "body", t)
           g == [a EXCEPT !.length = @ - 1]
<1>1. Turn(h, t) = IF g.length = 0 THEN MessageDone(CallbackData(g)) ELSE g
  BY DEF Turn, BodyIdentity
<1>2. /\ IsParser(a) /\ a.state = h.state /\ SameBody(h, a) /\ a.flags = h.flags
      /\ a.length = h.length /\ a.nread = h.nread
      /\ a.mark = Going(h, "body", t) /\ a.message = h.message
  BY MarkedEffect
<1> HIDE DEF a
<1>3. /\ IsParser(g) /\ g.state = h.state /\ SameBody(h, g) /\ g.flags = h.flags
      /\ g.length = h.length - 1 /\ g.nread = h.nread
      /\ g.mark = Going(h, "body", t) /\ g.message = h.message
  BY <1>2 DEF IsParser, Fields, SameBody
<1> HIDE DEF g
<1> QED BY <1>1, <1>3

LEMMA EofEffect ==
  ASSUME NEW h, NEW t, IsParser(h), h.state = "body_eof"
  PROVE  LET g == Turn(h, t)
         IN  /\ g.state = h.state /\ SameBody(h, g) /\ g.flags = h.flags
             /\ g.length = h.length /\ g.nread = h.nread
             /\ g.mark = Going(h, "body", t) /\ g.message = h.message
<1>1. Turn(h, t) = Marked(h, "body", t)
  BY DEF Turn, BodyIdentityEof
<1> QED BY <1>1, MarkedEffect

LEMMA SizeStartEffect ==
  ASSUME NEW h, NEW n \in 0..9, IsParser(h), h.state = "chunk_start"
  PROVE  LET g == Turn(h, ToString(n))
         IN  /\ g.state = "chunk_size" /\ SameBody(h, g) /\ g.flags = h.flags
             /\ g.length = n /\ g.nread = h.nread /\ g.mark = h.mark /\ g.message = h.message
<1> DEFINE t == ToString(n)
<1>1. t \in Digit /\ DigitValue(t) = n
  BY DigitsAreSpelled
<1>2. Turn(h, t) = [h EXCEPT !.length = n, !.state = "chunk_size"]
  BY <1>1 DEF Turn, ChunkSizeStart
<1> QED BY <1>2 DEF IsParser, Fields, SameBody

LEMMA SizeEndEffect ==
  ASSUME NEW h, IsParser(h), h.state = "chunk_size", h.length \in Nat
  PROVE  LET g == Turn(h, "crlf")
         IN  /\ SameBody(h, g) /\ g.length = h.length /\ g.nread = 0
             /\ g.mark = h.mark /\ g.message = h.message
             /\ h.length = 0 => g.state = "field_start" /\ g.flags = h.flags \cup {"trailing"}
             /\ h.length # 0 => g.state = "chunk_data" /\ g.flags = h.flags
<1>1. "crlf" \notin Digit
  BY DEF Digit
<1>2. Turn(h, "crlf") = ChunkSize(h, "crlf")
  BY DEF Turn
<1>3. CASE h.length = 0
  BY <1>1, <1>2, <1>3, ZenonT(40) DEF ChunkSize, CountAgain, IsParser, Fields, SameBody
<1>4. CASE h.length # 0
  BY <1>1, <1>2, <1>4, ZenonT(40) DEF ChunkSize, CountAgain, Go, IsParser, Fields, SameBody
<1> QED BY <1>3, <1>4

LEMMA ChunkEffect ==
  ASSUME NEW h, NEW t, IsParser(h), h.state = "chunk_data", h.length \in Nat
  PROVE  LET g == Turn(h, t)
         IN  /\ g.state = (IF h.length = 1 THEN "chunk_end" ELSE "chunk_data")
             /\ SameBody(h, g) /\ g.flags = h.flags
             /\ g.length = h.length - 1 /\ g.nread = h.nread
             /\ g.mark = Going(h, "body", t) /\ g.message = h.message
<1> DEFINE a == Marked(h, "body", t)
<1>1. Turn(h, t) = [a EXCEPT !.length = @ - 1, !.state = IF h.length = 1 THEN "chunk_end" ELSE @]
  BY DEF Turn, ChunkData
<1>2. /\ IsParser(a) /\ a.state = h.state /\ SameBody(h, a) /\ a.flags = h.flags
      /\ a.length = h.length /\ a.nread = h.nread
      /\ a.mark = Going(h, "body", t) /\ a.message = h.message
  BY MarkedEffect
<1> HIDE DEF a
<1> QED BY <1>1, <1>2 DEF IsParser, Fields, SameBody

LEMMA ChunkEndEffect ==
  ASSUME NEW h, IsParser(h), h.state = "chunk_end", h.mark.kind \in {"body", "none"}
  PROVE  LET g == Turn(h, "crlf")
         IN  /\ g.state = "chunk_start" /\ SameBody(h, g) /\ g.flags = h.flags
             /\ g.nread = 0 /\ g.mark = NoMark /\ g.message = WithBody(h)
<1> DEFINE a == Go(CountAgain(h), "chunk_start")
           g == CallbackData(a)
<1>1. Turn(h, "crlf") = g
  BY DEF Turn, ChunkDataAlmostDone
<1>2. /\ IsParser(a) /\ a.state = "chunk_start" /\ SameBody(h, a) /\ a.flags = h.flags
      /\ a.nread = 0 /\ a.mark = h.mark /\ a.message = h.message
  BY DEF Go, CountAgain, IsParser, Fields, ParserState, SameBody
<1> HIDE DEF a
<1>3. /\ g.state = a.state /\ SameBody(a, g) /\ g.flags = a.flags
      /\ g.nread = a.nread /\ g.mark = NoMark /\ g.message = WithBody(a)
  BY <1>2, BodyCallback
<1> HIDE DEF g
<1> QED BY <1>1, <1>2, <1>3 DEF SameBody, WithBody

(* Without hypotheses on the mark, what counts and what is told.           *)
LEMMA ChunkEndControl ==
  ASSUME NEW h, IsParser(h), h.state = "chunk_end"
  PROVE  LET g == Turn(h, "crlf")
         IN  /\ g.state = "chunk_start" /\ g.flags = h.flags /\ g.nread = 0
             /\ g.type = h.type /\ g.method = h.method /\ g.version = h.version /\ g.status = h.status
             /\ g.upgrade = h.upgrade /\ g.error = h.error /\ g.stop = h.stop
<1> DEFINE a == Go(CountAgain(h), "chunk_start")
<1>1. Turn(h, "crlf") = CallbackData(a)
  BY DEF Turn, ChunkDataAlmostDone
<1>2. /\ IsParser(a) /\ a.state = "chunk_start" /\ a.flags = h.flags /\ a.nread = 0
      /\ a.type = h.type /\ a.method = h.method /\ a.version = h.version /\ a.status = h.status
      /\ a.upgrade = h.upgrade /\ a.error = h.error /\ a.stop = h.stop
  BY DEF Go, CountAgain, IsParser, Fields, ParserState
<1> HIDE DEF a
<1>3. LET g == CallbackData(a)
      IN  /\ g.state = a.state /\ g.flags = a.flags /\ g.nread = a.nread
          /\ g.type = a.type /\ g.method = a.method /\ g.version = a.version /\ g.status = a.status
          /\ g.upgrade = a.upgrade /\ g.error = a.error /\ g.stop = a.stop
  BY <1>2 DEF CallbackData, OnUrl, OnHeaderField, OnHeaderValue, OnBody, IsParser, Fields
<1> QED BY <1>1, <1>2, <1>3

(* The empty line behind the last chunk.                                   *)
LEMMA TrailerEffect ==
  ASSUME NEW h, h.state = "field_start", "trailing" \in h.flags
  PROVE  Turn(h, "crlf") = MessageDone(h)
<1>1. Turn(h, "crlf") = HeaderFieldStart(h, "crlf")
  BY DEF Turn
<1>2. HeaderFieldStart(h, "crlf") = HeadersAlmostDone(h)
  BY DEF HeaderFieldStart, IsText
<1> QED BY <1>1, <1>2 DEF HeadersAlmostDone

------------------------------------------------------------------------------
(* What no callback touches.                                               *)
SameControl(h, g) ==
  /\ g.type = h.type /\ g.method = h.method /\ g.version = h.version /\ g.status = h.status
  /\ g.upgrade = h.upgrade /\ g.error = h.error /\ g.stop = h.stop
  /\ g.state = h.state /\ g.flags = h.flags /\ g.length = h.length /\ g.nread = h.nread
  /\ g.name = h.name /\ g.value = h.value

LEMMA CallbackControl ==
  ASSUME NEW h, IsParser(h)
  PROVE  IsParser(CallbackData(h)) /\ SameControl(h, CallbackData(h))
<1>1. IsParser(CallbackData(h))
  BY CallbackTurned
<1>2. SameControl(h, CallbackData(h))
  BY DEF CallbackData, OnUrl, OnHeaderField, OnHeaderValue, OnBody, IsParser, Fields, SameControl
<1> QED BY <1>1, <1>2

(* One more piece of a body is marked.                                     *)
LEMMA TakenMore ==
  ASSUME NEW T \in Seq(Piece), NEW k \in Nat, k + 1 \in 1..Len(T), NEW h, Taken(h, T, k)
  PROVE  Going(h, "body", T[k + 1]) = Said("body", T, k + 1)
<1>1. (k + 1) - 1 = k
  OBVIOUS
<1>2. SubSeq(T, 1, k + 1) = Append(SubSeq(T, 1, k), T[k + 1]) /\ SubSeq(T, 1, 0) = <<>>
  BY <1>1, MoreSaid
<1>3. Text(h, "body") = SubSeq(T, 1, k)
  <2>1. CASE k = 0
    BY <1>2, <2>1 DEF Text, Taken, NoMark
  <2>2. CASE k # 0
    BY <2>2 DEF Text, Taken, Said
  <2> QED BY <2>1, <2>2
<1> QED BY <1>2, <1>3 DEF Going, Said

(* The last byte of a message that says where it ends.                     *)
LEMMA LastByte ==
  ASSUME NEW type, NEW m, NEW l, Good(type, m), NEW e \in BOOLEAN, NEW p,
         NEW b, IsParser(b), Told(b, type, m), b.error = FALSE, b.upgrade = UpgradesTo(type, m),
         p = l.end, m.coding # "eof", ShouldKeepAlive(b) <=> KeepsOpen(m),
         e => /\ BodyExact(b, type, m) /\ b.mark = NoMark
              /\ b.message.body = FlattenSeq(m.body)
  PROVE  OverPlace(e, MessageDone(b), type, m, l, p) /\ MessageDone(b).nread = b.nread
<1> DEFINE g == MessageDone(b)
<1>1. /\ IsParser(g) /\ g.type = b.type /\ g.error = b.error /\ g.complete = TRUE /\ g.stop = b.upgrade
      /\ g.state = (IF ShouldKeepAlive(b) THEN "start" ELSE "dead") /\ g.nread = b.nread
      /\ g.mark = b.mark /\ g.headFieldTemp = b.headFieldTemp /\ g.message = Final(b)
  BY DoneEffect
<1> HIDE DEF g
<1>3. ASSUME e PROVE Final(b) = MessageOf(type, m)
  BY <1>3, FinalIs DEF BodyExact, Good
<1> QED BY <1>1, <1>3 DEF OverPlace, Told, BodyExact, g

LEMMA LengthTurn ==
  ASSUME NEW x, NEW type, NEW m, NEW l, Good(type, m), Laid(x, type, m, l), NEW e \in BOOLEAN,
         NEW h, IsParser(h), NEW p \in Nat,
         Live(h, type), Told(h, type, m), h.upgrade = UpgradesTo(type, m),
         e => BodyExact(h, type, m), LengthPlace(e, h, type, m, l, p)
  PROVE  LET g == Turn(h, x[p + 1])
         IN  /\ BodyPlace(e, g, type, m, l, p + 1) \/ OverPlace(e, g, type, m, l, p + 1)
             /\ g.nread = h.nread
<1> DEFINE T == m.body[1]
           n == Len(T)
           c == BodyAt(m, l)
           k == p - c
           k1 == (p + 1) - c
           t == x[p + 1]
           g == Turn(h, t)
<1>1. /\ m.coding = "length" /\ h.state = "body" /\ k \in 0..(n - 1)
      /\ h.flags = AllFlags(m) /\ h.length = n - k
      /\ e => Taken(h, T, k)
  BY DEF LengthPlace
<1>2. /\ m.body \in Seq(Seq(Piece)) /\ Len(m.body) = 1 /\ n \in 0..9
      /\ c \in Nat /\ l.end = c + n /\ \A i \in 1..n : x[c + i] = T[i]
  BY <1>1 DEF Laid, BodyLaid, Good, GoodBody
<1>3. T \in Seq(Piece) /\ FlattenSeq(m.body) = T
  <2>1. T \in Seq(Piece) /\ m.body = <<T>>
    BY <1>2, ElementOfSeq
  <2> HIDE DEF T
  <2>2. FlattenSeq(<<T>>) = T
    BY FlattenOne
  <2> QED BY <2>1, <2>2
<1>4. "te" \notin AllFlags(m)
  BY <1>1, FlagsOfHead DEF Good
<1> HIDE DEF T, c
<1>5. /\ k \in Nat /\ k1 = k + 1 /\ k1 \in 1..n /\ p + 1 = c + k1 /\ h.length \in Nat
      /\ n - k1 = h.length - 1 /\ n \in Nat
  <2> HIDE DEF n
  <2> QED BY <1>1, <1>2
<1> HIDE DEF k, k1
<1>6. t = T[k + 1]
  <2>1. x[c + k1] = T[k1]
    BY <1>2, <1>5
  <2> QED BY <1>5, <2>1
<1> HIDE DEF n
<1>7. PICK a : /\ IsParser(a) /\ a.state = h.state /\ SameBody(h, a) /\ a.flags = h.flags
               /\ a.length = h.length - 1 /\ a.nread = h.nread
               /\ a.mark = Going(h, "body", t) /\ a.message = h.message
               /\ g = IF a.length = 0 THEN MessageDone(CallbackData(a)) ELSE a
  BY <1>1, <1>5, IdentityEffect
<1>8. ASSUME e PROVE a.mark = Said("body", T, k1) /\ h.message.body = <<>>
  BY <1>1, <1>3, <1>5, <1>6, <1>7, <1>8, TakenMore DEF Taken, n
<1>9. Live(a, type) /\ Told(a, type, m) /\ a.upgrade = UpgradesTo(type, m)
  BY <1>7 DEF SameBody, Live, Told
<1>10. ASSUME e PROVE BodyExact(a, type, m)
  BY <1>7, <1>10 DEF BodyExact, Unended, SameBody
<1>11. CASE k1 < n
  <2>1. a.length # 0 /\ k1 \in 0..(n - 1) /\ a.length = n - k1 /\ k1 # 0
    BY <1>5, <1>7, <1>11
  <2>2. LengthPlace(e, a, type, m, l, p + 1)
    BY <1>1, <1>7, <1>8, <2>1 DEF LengthPlace, Taken, T, n, c, k1
  <2> QED BY <1>7, <1>9, <1>10, <2>1, <2>2 DEF BodyPlace
<1>12. CASE ~(k1 < n)
  <2>1. k1 = n /\ a.length = 0
    BY <1>5, <1>7, <1>12
  <2> DEFINE b == CallbackData(a)
  <2>2. IsParser(b) /\ SameControl(a, b)
    BY <1>7, CallbackControl
  <2>3. ASSUME e PROVE BodyExact(b, type, m) /\ b.mark = NoMark /\ b.message.body = FlattenSeq(m.body)
    <3>1. a.mark.kind = "body" /\ a.mark.text = T
      BY <1>3, <1>8, <2>1, <2>3, SubSeqFull DEF Said, n
    <3>2. SameBody(a, b) /\ b.mark = NoMark /\ b.message = WithBody(a)
      BY <1>7, <3>1, BodyCallback
    <3> HIDE DEF b
    <3>3. b.message = [a.message EXCEPT !.body = T] /\ DOMAIN a.message = MessageFields
      BY <1>10, <2>3, <3>1, <3>2 DEF WithBody, BodyExact, Unended
    <3> QED BY <1>3, <1>10, <2>3, <3>2, <3>3 DEF BodyExact, Unended, SameBody, MessageFields
  <2> HIDE DEF b
  <2>4. p + 1 = l.end
    BY <1>2, <1>5, <2>1 DEF n
  <2>5. Told(b, type, m) /\ b.error = FALSE /\ b.upgrade = UpgradesTo(type, m)
        /\ b.length # ULLONG_MAX /\ b.flags = AllFlags(m)
    BY <1>1, <1>7, <1>9, <2>1, <2>2 DEF SameControl, Told, Live, ULLONG_MAX
  <2>6. OverPlace(e, MessageDone(b), type, m, l, p + 1) /\ MessageDone(b).nread = b.nread
    <3>1. ShouldKeepAlive(b) <=> KeepsOpen(m)
      BY <1>1, <1>4, <2>5, EndsItself DEF Good
    <3>2. m.coding # "eof"
      BY DEF LengthPlace
    <3> QED BY <2>2, <2>3, <2>4, <2>5, <3>1, <3>2, LastByte
  <2>7. b.nread = h.nread /\ g = MessageDone(b)
    BY <1>7, <2>1, <2>2 DEF SameControl, b
  <2> QED BY <2>6, <2>7
<1> QED BY <1>11, <1>12

LEMMA EofTurn ==
  ASSUME NEW x, NEW type, NEW m, NEW l, Good(type, m), Laid(x, type, m, l), NEW e \in BOOLEAN,
         NEW h, IsParser(h), NEW p \in Nat, p < l.end,
         Live(h, type), Told(h, type, m), h.upgrade = UpgradesTo(type, m),
         e => BodyExact(h, type, m), EofPlace(e, h, type, m, l, p)
  PROVE  LET g == Turn(h, x[p + 1])
         IN  BodyPlace(e, g, type, m, l, p + 1) /\ g.nread = h.nread
<1> DEFINE T == FlattenSeq(m.body)
           n == Len(T)
           c == BodyAt(m, l)
           k == p - c
           k1 == (p + 1) - c
           t == x[p + 1]
           g == Turn(h, t)
<1>1. /\ m.coding = "eof" /\ h.state = "body_eof" /\ k \in 0..n
      /\ h.flags = AllFlags(m)
      /\ e => Taken(h, T, k) \/ (k = n /\ h.message.body = T /\ h.mark = NoMark)
  BY DEF EofPlace
<1>2. /\ T \in Seq(Piece) /\ c \in Nat /\ l.end = c + n /\ \A i \in 1..n : x[c + i] = T[i]
  BY <1>1, FlatIsSeq, SMTT(30) DEF Laid, BodyLaid, Good, GoodBody
<1> HIDE DEF T, c
<1>5. k \in Nat /\ k1 = k + 1 /\ k1 \in 1..n /\ k1 \in 0..n /\ p + 1 = c + k1 /\ k # n /\ k1 # 0
  <2>1. n \in Nat
    BY <1>2, LenProperties
  <2> HIDE DEF n
  <2> QED BY <1>1, <1>2, <2>1
<1>6. t = T[k + 1]
  BY <1>2, <1>5
<1> HIDE DEF k, k1, n
<1>7. /\ g.state = h.state /\ SameBody(h, g) /\ g.flags = h.flags
      /\ g.length = h.length /\ g.nread = h.nread
      /\ g.mark = Going(h, "body", t) /\ g.message = h.message
  BY <1>1, EofEffect
<1> HIDE DEF g
<1>8. ASSUME e PROVE Taken(g, T, k1)
  <2>1. Taken(h, T, k)
    BY <1>1, <1>5, <1>8
  <2>2. Going(h, "body", t) = Said("body", T, k1)
    BY <1>2, <1>5, <1>6, <2>1, TakenMore DEF n
  <2> QED BY <1>5, <1>7, <2>1, <2>2 DEF Taken
<1>9. Live(g, type) /\ Told(g, type, m) /\ g.upgrade = UpgradesTo(type, m)
  BY <1>7 DEF SameBody, Live, Told
<1>10. ASSUME e PROVE BodyExact(g, type, m)
  BY <1>7, <1>10 DEF BodyExact, Unended, SameBody
<1>11. EofPlace(e, g, type, m, l, p + 1)
  BY <1>1, <1>5, <1>7, <1>8 DEF EofPlace, T, n, c, k1
<1> QED BY <1>7, <1>9, <1>10, <1>11 DEF BodyPlace, g

------------------------------------------------------------------------------
(* A place in chunk j, but for what is exact there.                        *)
ChunkKnown(x, m, l, j, c, T, n) ==
  /\ c = l.chunk[j] /\ c \in Nat /\ m.body \in Seq(Seq(Piece)) /\ Len(m.body) \in Nat
  /\ j <= Len(m.body) =>
       /\ T = m.body[j] /\ T \in Seq(Piece) /\ n = Len(T) /\ n \in 1..9
       /\ x[c + 1] = ToString(n) /\ x[c + 2] = "crlf"
       /\ \A k \in 1..n : x[(c + 2) + k] = T[k]
       /\ x[c + n + 3] = "crlf"
       /\ l.chunk[j + 1] = c + n + 3 /\ j + 1 \in 1..(Len(m.body) + 1)
  /\ j = Len(m.body) + 1 =>
       x[c + 1] = ToString(0) /\ x[c + 2] = "crlf" /\ x[c + 3] = "crlf" /\ l.end = c + 3
  /\ Len(m.body) = 0 => FlattenSeq(m.body) = <<>>
  /\ Len(m.body) = 1 => FlattenSeq(m.body) = m.body[1]

LEMMA KnowChunk ==
  ASSUME NEW x, NEW type, NEW m, NEW l, Good(type, m), Laid(x, type, m, l), m.coding = "chunked",
         NEW j \in 1..(Len(m.body) + 1)
  PROVE  ChunkKnown(x, m, l, j, l.chunk[j], m.body[j], Len(m.body[j]))
<1> DEFINE c == l.chunk[j]
           T == m.body[j]
           n == Len(T)
           s == Len(m.body)
<1>1. /\ m.body \in Seq(Seq(Piece)) /\ s \in Nat /\ \A i \in 1..s : Len(m.body[i]) \in 1..9
  BY DEF Good, GoodBody
<1>2. /\ \A i \in 1..(s + 1) : l.chunk[i] \in Nat
      /\ \A i \in 1..s :
           /\ ChunkLaid(x, l.chunk[i], m.body[i])
           /\ l.chunk[i + 1] = l.chunk[i] + Len(m.body[i]) + 3
      /\ LET z == l.chunk[s + 1]
         IN  x[z + 1] = "0" /\ x[z + 2] = "crlf" /\ x[z + 3] = "crlf" /\ l.end = z + 3
  BY DEF Laid, BodyLaid
<1>3. ASSUME j <= s
      PROVE  /\ T \in Seq(Piece) /\ n \in 1..9
             /\ x[c + 1] = ToString(n) /\ x[c + 2] = "crlf"
             /\ \A k \in 1..n : x[(c + 2) + k] = T[k]
             /\ x[c + n + 3] = "crlf"
             /\ l.chunk[j + 1] = c + n + 3 /\ j + 1 \in 1..(s + 1)
  <2>1. j \in 1..s /\ j + 1 \in 1..(s + 1)
    BY <1>1, <1>3
  <2>2. T \in Seq(Piece) /\ n \in 1..9
    BY <1>1, <2>1, ElementOfSeq
  <2>3. ChunkLaid(x, c, T) /\ l.chunk[j + 1] = c + n + 3
    BY <1>2, <2>1
  <2> QED BY <2>1, <2>2, <2>3 DEF ChunkLaid
<1>4. ASSUME j = s + 1
      PROVE  x[c + 1] = ToString(0) /\ x[c + 2] = "crlf" /\ x[c + 3] = "crlf" /\ l.end = c + 3
  BY <1>2, <1>4, DigitsAreSpelled
<1>5. s = 0 => FlattenSeq(m.body) = <<>>
  BY <1>1, FlattenNone, EmptySeq
<1>6. ASSUME s = 1 PROVE FlattenSeq(m.body) = m.body[1]
  <2>1. m.body = <<m.body[1]>>
    BY <1>1, <1>6
  <2> DEFINE y == m.body[1]
  <2> HIDE DEF y
  <2>2. FlattenSeq(<<y>>) = y
    BY FlattenOne
  <2> QED BY <2>1, <2>2 DEF y
<1>7. c \in Nat
  BY <1>2
<1> HIDE DEF c, T, n
<1>8. /\ j <= s => T \in Seq(Piece) /\ n \in 1..9
             /\ x[c + 1] = ToString(n) /\ x[c + 2] = "crlf"
             /\ (\A k \in 1..n : x[(c + 2) + k] = T[k])
             /\ x[c + n + 3] = "crlf"
             /\ l.chunk[j + 1] = c + n + 3 /\ j + 1 \in 1..(s + 1)
      /\ j = s + 1 => x[c + 1] = ToString(0) /\ x[c + 2] = "crlf" /\ x[c + 3] = "crlf" /\ l.end = c + 3
  BY <1>3, <1>4
<1> QED BY <1>1, <1>5, <1>6, <1>7, <1>8 DEF ChunkKnown, c, T, n

LEMMA SizeTurns ==
  ASSUME NEW x, NEW type, NEW m, NEW l, Good(type, m), Laid(x, type, m, l), NEW e \in BOOLEAN,
         NEW h, IsParser(h), NEW p \in Nat, NEW j \in 1..(Len(m.body) + 1),
         Live(h, type), Told(h, type, m), h.upgrade = UpgradesTo(type, m),
         e => BodyExact(h, type, m), ChunkPlace(e, h, type, m, l, p, j),
         h.state \in {"chunk_start", "chunk_size"}
  PROVE  LET g == Turn(h, x[p + 1])
         IN  /\ BodyPlace(e, g, type, m, l, p + 1)
             /\ g.nread = IF h.state = "chunk_size" THEN 0 ELSE h.nread
             /\ g.state = "chunk_size" <=> h.state = "chunk_start"
<1> DEFINE c == l.chunk[j]
           T == m.body[j]
           n == Len(T)
           t == x[p + 1]
           g == Turn(h, t)
           s == Len(m.body)
           body == IF j = 1 THEN <<>> ELSE FlattenSeq(m.body)
           size == IF j <= s THEN n ELSE 0
<1>0. m.coding = "chunked"
  BY DEF ChunkPlace
<1>1. ChunkKnown(x, m, l, j, c, T, n)
  BY <1>0, KnowChunk
<1>2. \/ /\ h.state = "chunk_start" /\ p = c /\ h.flags = AllFlags(m)
         /\ e => h.mark = NoMark /\ h.message.body = body
      \/ /\ h.state = "chunk_size" /\ p = c + 1 /\ h.flags = AllFlags(m) /\ h.length = size
         /\ e => h.mark = NoMark /\ h.message.body = body
  BY DEF ChunkPlace
<1>3. j <= s \/ j = s + 1
  BY <1>1 DEF ChunkKnown
<1>4. ASSUME SameBody(h, g) PROVE Live(g, type) /\ Told(g, type, m) /\ g.upgrade = UpgradesTo(type, m)
  <2> HIDE DEF g
  <2> QED BY <1>4 DEF SameBody, Live, Told
<1>5. ASSUME SameBody(h, g), g.message = h.message, e PROVE BodyExact(g, type, m)
  <2> HIDE DEF g
  <2> QED BY <1>5 DEF BodyExact, Unended, SameBody
<1>6. CASE h.state = "chunk_start"
  <2>1. t = ToString(size) /\ size \in 0..9
    BY <1>1, <1>2, <1>3, <1>6, SMTT(30) DEF ChunkKnown
  <2> DEFINE f == Turn(h, ToString(size))
  <2> HIDE DEF size
  <2>2. /\ f.state = "chunk_size" /\ SameBody(h, f) /\ f.flags = h.flags
        /\ f.length = size /\ f.nread = h.nread /\ f.mark = h.mark /\ f.message = h.message
    BY <1>6, <2>1, SizeStartEffect
  <2>3. g = f
    BY <2>1
  <2> HIDE DEF f, g
  <2>4. /\ g.state = "chunk_size" /\ p + 1 = c + 1 /\ g.flags = AllFlags(m) /\ g.length = size
        /\ e => g.mark = NoMark /\ g.message.body = body
    BY <1>2, <1>6, <2>2, <2>3
  <2>5. ChunkPlace(e, g, type, m, l, p + 1, j)
    BY <1>0, <2>4 DEF ChunkPlace, size
  <2> QED BY <1>4, <1>5, <1>6, <2>2, <2>3, <2>5 DEF BodyPlace, g
<1>7. CASE h.state = "chunk_size"
  <2>1. t = "crlf" /\ p + 1 = c + 2 /\ size \in Nat
    <3>1. p = c + 1 /\ c \in Nat
      BY <1>1, <1>2, <1>7 DEF ChunkKnown
    <3>2. x[c + 2] = "crlf"
      BY <1>1, <1>3 DEF ChunkKnown
    <3>3. ASSUME j <= s PROVE size \in Nat
      <4>1. n \in 1..9
        BY <1>1, <3>3 DEF ChunkKnown
      <4> HIDE DEF n
      <4> QED BY <3>3, <4>1
    <3>4. ASSUME j = s + 1 PROVE size \in Nat
      <4>1. s \in Nat
        BY <1>1 DEF ChunkKnown
      <4> QED BY <3>4, <4>1
    <3>5. p + 1 = c + 2
      <4> HIDE DEF c
      <4> QED BY <3>1
    <3> HIDE DEF size, c
    <3>6. t = "crlf"
      BY <3>2, <3>5
    <3> QED BY <1>3, <3>3, <3>4, <3>5, <3>6
  <2> DEFINE f == Turn(h, "crlf")
  <2>2. /\ SameBody(h, f) /\ f.length = h.length /\ f.nread = 0
        /\ f.mark = h.mark /\ f.message = h.message
        /\ h.length = 0 => f.state = "field_start" /\ f.flags = h.flags \cup {"trailing"}
        /\ h.length # 0 => f.state = "chunk_data" /\ f.flags = h.flags
    BY <1>2, <1>7, <2>1, SizeEndEffect
  <2>3. g = f
    BY <2>1
  <2> HIDE DEF f, g
  <2>4. CASE j <= s
    <3>1. size = n /\ n # 0 /\ (p + 1) - (c + 2) = 0 /\ 0 \in 0..(n - 1) /\ n - 0 = n
      <4>1. n \in 1..9 /\ c \in Nat
        BY <1>1, <2>4 DEF ChunkKnown
      <4> HIDE DEF n, c
      <4> QED BY <2>1, <2>4, <4>1
    <3>2. ASSUME e PROVE Taken(g, T, 0)
      <4>1. j = 1
        BY <1>1, <2>4, <3>2 DEF BodyExact, ChunkKnown
      <4> QED BY <1>2, <1>7, <2>2, <2>3, <3>2, <4>1 DEF Taken
    <3>3. g.state = "chunk_data" /\ g.flags = AllFlags(m) /\ g.length = n
      BY <1>2, <1>7, <2>2, <2>3, <3>1
    <3>4. ChunkPlace(e, g, type, m, l, p + 1, j)
      BY <1>0, <2>4, <3>1, <3>2, <3>3 DEF ChunkPlace
    <3> QED BY <1>4, <1>5, <1>7, <2>2, <2>3, <3>4 DEF BodyPlace, g
  <2>5. CASE j = s + 1
    <3>1. size = 0
      BY <1>1, <2>5 DEF ChunkKnown
    <3>2. ASSUME e PROVE g.mark = NoMark /\ g.message.body = FlattenSeq(m.body)
      <4>1. j = 1 => s = 0
        BY <1>1, <2>5 DEF ChunkKnown
      <4>2. body = FlattenSeq(m.body)
        BY <1>1, <4>1 DEF ChunkKnown
      <4> QED BY <1>2, <1>7, <2>2, <2>3, <3>2, <4>2
    <3>3. g.state = "field_start" /\ g.flags = AllFlags(m) \cup {"trailing"}
      BY <1>2, <1>7, <2>2, <2>3, <3>1
    <3>4. ChunkPlace(e, g, type, m, l, p + 1, j)
      BY <1>0, <2>1, <2>5, <3>2, <3>3 DEF ChunkPlace
    <3> QED BY <1>4, <1>5, <1>7, <2>2, <2>3, <3>4 DEF BodyPlace, g
  <2> QED BY <1>3, <2>4, <2>5
<1> QED BY <1>6, <1>7

LEMMA DataTurn ==
  ASSUME NEW x, NEW type, NEW m, NEW l, Good(type, m), Laid(x, type, m, l), NEW e \in BOOLEAN,
         NEW h, IsParser(h), NEW p \in Nat, NEW j \in 1..(Len(m.body) + 1),
         Live(h, type), Told(h, type, m), h.upgrade = UpgradesTo(type, m),
         e => BodyExact(h, type, m), ChunkPlace(e, h, type, m, l, p, j), h.state = "chunk_data"
  PROVE  LET g == Turn(h, x[p + 1])
         IN  /\ BodyPlace(e, g, type, m, l, p + 1)
             /\ g.nread = h.nread /\ g.state # "chunk_size"
<1> DEFINE c == l.chunk[j]
           T == m.body[j]
           n == Len(T)
           o == c + 2
           k == p - o
           k1 == (p + 1) - o
           t == x[p + 1]
           g == Turn(h, t)
<1>0. m.coding = "chunked"
  BY DEF ChunkPlace
<1>1. ChunkKnown(x, m, l, j, c, T, n)
  BY <1>0, KnowChunk
<1>2. /\ j <= Len(m.body) /\ h.flags = AllFlags(m) /\ k \in 0..(n - 1) /\ h.length = n - k
      /\ e => Taken(h, T, k)
  BY DEF ChunkPlace
<1> HIDE DEF c, T
<1>3. /\ T \in Seq(Piece) /\ n \in 1..9 /\ c \in Nat /\ o \in Nat
      /\ \A i \in 1..n : x[o + i] = T[i]
  <2>1. T \in Seq(Piece) /\ n \in 1..9 /\ c \in Nat
    BY <1>1, <1>2 DEF ChunkKnown
  <2> HIDE DEF n
  <2>2. \A i \in 1..n : x[(c + 2) + i] = T[i]
    BY <1>1, <1>2 DEF ChunkKnown, n
  <2>3. o \in Nat
    BY <2>1
  <2> QED BY <2>1, <2>2, <2>3
<1>4. /\ k \in Nat /\ k1 = k + 1 /\ k1 \in 1..n /\ p + 1 = o + k1 /\ h.length \in Nat
      /\ n - k1 = h.length - 1 /\ n \in Nat /\ k1 # 0 /\ (k1 = n <=> h.length = 1) /\ p + 1 = c + 2 + k1
  <2> DEFINE len == h.length
  <2>1. len = n - k
    BY <1>2
  <2>2. k \in 0..(n - 1) /\ n \in Nat /\ c \in Nat
    <3> HIDE DEF n, k
    <3> QED BY <1>2, <1>3
  <2> HIDE DEF n, len, c
  <2>3. k \in Nat /\ k < n
    <3> HIDE DEF k
    <3> QED BY ONLY <2>2
  <2>4. k1 = k + 1 /\ p + 1 = o + k1 /\ p + 1 = c + 2 + k1
    BY ONLY <2>2, p \in Nat
  <2> HIDE DEF k, k1
  <2>5. k1 \in 1..n /\ n - k1 = len - 1 /\ len \in Nat /\ k1 # 0 /\ (k1 = n <=> len = 1)
    BY ONLY <2>1, <2>2, <2>3, <2>4
  <2> QED BY <2>2, <2>3, <2>4, <2>5 DEF len
<1> HIDE DEF k, k1
<1>5. t = T[k + 1]
  <2>1. x[o + k1] = T[k1]
    BY <1>3, <1>4
  <2> QED BY <1>4, <2>1
<1> HIDE DEF n
<1>6. /\ g.state = (IF h.length = 1 THEN "chunk_end" ELSE "chunk_data")
      /\ SameBody(h, g) /\ g.flags = h.flags
      /\ g.length = h.length - 1 /\ g.nread = h.nread
      /\ g.mark = Going(h, "body", t) /\ g.message = h.message
  BY <1>4, ChunkEffect
<1> HIDE DEF g
<1>7. ASSUME e PROVE Taken(g, T, k1)
  <2>1. Taken(h, T, k)
    BY <1>2, <1>7
  <2>2. Going(h, "body", t) = Said("body", T, k1)
    BY <1>3, <1>4, <1>5, <2>1, TakenMore DEF n
  <2> QED BY <1>4, <1>6, <2>1, <2>2 DEF Taken
<1>8. Live(g, type) /\ Told(g, type, m) /\ g.upgrade = UpgradesTo(type, m)
  BY <1>6 DEF SameBody, Live, Told
<1>9. ASSUME e PROVE BodyExact(g, type, m)
  BY <1>6, <1>9 DEF BodyExact, Unended, SameBody
<1>10. CASE k1 = n
  <2>1. g.state = "chunk_end" /\ p + 1 = c + 2 + n /\ g.flags = AllFlags(m) /\ (e => Taken(g, T, n))
    BY <1>2, <1>4, <1>6, <1>7, <1>10
  <2>2. ChunkPlace(e, g, type, m, l, p + 1, j)
    BY <1>0, <1>2, <2>1 DEF ChunkPlace, n, c, T
  <2> QED BY <1>6, <1>8, <1>9, <2>2 DEF BodyPlace, g
<1>11. CASE k1 # n
  <2>1. /\ g.state = "chunk_data" /\ k1 \in 0..(n - 1) /\ g.flags = AllFlags(m) /\ (e => Taken(g, T, k1))
        /\ g.length = n - k1
    BY <1>2, <1>4, <1>6, <1>7, <1>11
  <2>2. ChunkPlace(e, g, type, m, l, p + 1, j)
    BY <1>0, <1>2, <2>1 DEF ChunkPlace, n, c, T, k1, o
  <2> QED BY <1>6, <1>8, <1>9, <2>2 DEF BodyPlace, g
<1> QED BY <1>10, <1>11

LEMMA ChunkEndTurn ==
  ASSUME NEW x, NEW type, NEW m, NEW l, Good(type, m), Laid(x, type, m, l), NEW e \in BOOLEAN,
         NEW h, IsParser(h), NEW p \in Nat, NEW j \in 1..(Len(m.body) + 1),
         Live(h, type), Told(h, type, m), h.upgrade = UpgradesTo(type, m),
         e => BodyExact(h, type, m), ChunkPlace(e, h, type, m, l, p, j), h.state = "chunk_end"
  PROVE  LET g == Turn(h, x[p + 1])
         IN  /\ BodyPlace(e, g, type, m, l, p + 1)
             /\ g.nread = 0 /\ g.state # "chunk_size"
<1> DEFINE c == l.chunk[j]
           T == m.body[j]
           n == Len(T)
           i == j + 1
           t == x[p + 1]
           g == Turn(h, t)
           f == Turn(h, "crlf")
<1>0. m.coding = "chunked"
  BY DEF ChunkPlace
<1>1. ChunkKnown(x, m, l, j, c, T, n)
  BY <1>0, KnowChunk
<1>2. /\ j <= Len(m.body) /\ h.flags = AllFlags(m) /\ p = c + 2 + n
      /\ e => Taken(h, T, n) \/ (h.message.body = T /\ h.mark = NoMark)
  BY DEF ChunkPlace
<1> HIDE DEF c, T
<1>3. /\ T \in Seq(Piece) /\ n \in 1..9 /\ c \in Nat /\ x[c + n + 3] = "crlf"
      /\ l.chunk[i] = c + n + 3 /\ i \in 1..(Len(m.body) + 1) /\ T = m.body[j]
  BY <1>1, <1>2 DEF ChunkKnown
<1>4. p + 1 = c + n + 3 /\ t = "crlf" /\ i # 1
  <2> HIDE DEF n
  <2>1. p + 1 = c + n + 3
    BY <1>2, <1>3
  <2> QED BY <1>3, <2>1
<1> HIDE DEF n
<1>5. /\ f.state = "chunk_start" /\ f.flags = h.flags /\ f.nread = 0
      /\ f.type = h.type /\ f.method = h.method /\ f.version = h.version /\ f.status = h.status
      /\ f.upgrade = h.upgrade /\ f.error = h.error /\ f.stop = h.stop
  BY ChunkEndControl
<1>6. ASSUME e PROVE BodyExact(f, type, m) /\ f.mark = NoMark /\ f.message.body = FlattenSeq(m.body)
  <2>1. BodyExact(h, type, m)
    BY <1>6
  <2>2. FlattenSeq(m.body) = T
    <3>1. Len(m.body) = 1 /\ j = 1
      <4> DEFINE s == Len(m.body)
      <4>1. s \in Nat /\ s <= 1 /\ j \in 1..(s + 1) /\ j <= s
        BY <1>1, <1>2, <2>1 DEF BodyExact, ChunkKnown
      <4> HIDE DEF s
      <4>2. s = 1 /\ j = 1
        BY ONLY <4>1
      <4> QED BY <4>2 DEF s
    <3> QED BY <1>1, <1>3, <3>1 DEF ChunkKnown
  <2>3. h.mark.kind \in {"body", "none"} /\ (h.mark.kind = "body" => h.mark.text = T)
        /\ (h.mark.kind = "none" => h.message.body = T)
    <3>1. SubSeq(T, 1, n) = T
      BY <1>3, SubSeqFull DEF n
    <3>2. n # 0
      BY <1>3
    <3>3. CASE Taken(h, T, n)
      <4>1. h.mark = [kind |-> "body", text |-> T]
        BY <3>1, <3>2, <3>3 DEF Taken, Said
      <4> QED BY <4>1
    <3>4. CASE h.message.body = T /\ h.mark = NoMark
      <4>1. h.mark.kind = "none"
        BY <3>4 DEF NoMark
      <4> QED BY <3>4, <4>1
    <3> QED BY <1>2, <1>6, <3>3, <3>4
  <2>4. SameBody(h, f) /\ f.mark = NoMark /\ f.message = WithBody(h)
    BY <2>3, ChunkEndEffect
  <2> HIDE DEF f
  <2>5. DOMAIN h.message = MessageFields
    BY <2>1 DEF BodyExact, Unended
  <2>6. f.message.body = T /\ DOMAIN f.message = MessageFields
        /\ \A fl \in {"method", "url", "status", "headers"} : f.message[fl] = h.message[fl]
    BY <2>3, <2>4, <2>5 DEF WithBody, MessageFields
  <2>7. f.message.method = h.message.method /\ f.message.url = h.message.url
        /\ f.message.status = h.message.status /\ f.message.headers = h.message.headers
    BY <2>6
  <2> QED BY <2>1, <2>2, <2>4, <2>6, <2>7 DEF BodyExact, Unended, SameBody
<1> HIDE DEF f
<1>7. ChunkPlace(e, f, type, m, l, p + 1, i)
  BY <1>0, <1>2, <1>3, <1>4, <1>5, <1>6 DEF ChunkPlace
<1>8. BodyPlace(e, f, type, m, l, p + 1)
  BY <1>3, <1>5, <1>6, <1>7 DEF BodyPlace, Live, Told
<1>9. g = f
  BY <1>4 DEF f
<1> QED BY <1>5, <1>8, <1>9

LEMMA TrailerTurn ==
  ASSUME NEW x, NEW type, NEW m, NEW l, Good(type, m), Laid(x, type, m, l), NEW e \in BOOLEAN,
         NEW h, IsParser(h), NEW p \in Nat, NEW j \in 1..(Len(m.body) + 1),
         Live(h, type), Told(h, type, m), h.upgrade = UpgradesTo(type, m),
         e => BodyExact(h, type, m), ChunkPlace(e, h, type, m, l, p, j), h.state = "field_start"
  PROVE  LET g == Turn(h, x[p + 1])
         IN  OverPlace(e, g, type, m, l, p + 1) /\ g.nread = h.nread
<1> DEFINE c == l.chunk[j]
           q == p + 1
<1>0. m.coding = "chunked"
  BY DEF ChunkPlace
<1>1. ChunkKnown(x, m, l, j, c, m.body[j], Len(m.body[j]))
  BY <1>0, KnowChunk
<1>2. /\ j = Len(m.body) + 1 /\ h.flags = AllFlags(m) \cup {"trailing"} /\ p = c + 2
      /\ e => h.mark = NoMark /\ h.message.body = FlattenSeq(m.body)
  BY DEF ChunkPlace
<1> HIDE DEF c
<1>3. x[q] = "crlf" /\ q = l.end
  <2>1. c \in Nat /\ x[c + 3] = "crlf" /\ l.end = c + 3
    BY <1>1, <1>2 DEF ChunkKnown
  <2>2. q = c + 3
    BY <1>2, <2>1
  <2> QED BY <2>1, <2>2
<1>4. ShouldKeepAlive(h) <=> KeepsOpen(m)
  <2>1. "chunked" \in AllFlags(m)
    BY <1>0, FlagsOfHead DEF Good
  <2> QED BY <1>0, <1>2, <2>1, EndsItself DEF Good
<1>5. Turn(h, "crlf") = MessageDone(h)
  BY <1>2, TrailerEffect
<1> HIDE DEF q
<1>6. OverPlace(e, MessageDone(h), type, m, l, q) /\ MessageDone(h).nread = h.nread
  <2>1. q \in Nat /\ q = l.end
    BY <1>3 DEF q
  <2>2. h.error = FALSE
    BY DEF Live
  <2>3. ASSUME e PROVE BodyExact(h, type, m) /\ h.mark = NoMark /\ h.message.body = FlattenSeq(m.body)
    BY <1>2, <2>3
  <2> DEFINE g == MessageDone(h)
  <2>4. /\ g.type = h.type /\ g.error = h.error /\ g.complete = TRUE /\ g.stop = h.upgrade
        /\ g.state = (IF ShouldKeepAlive(h) THEN "start" ELSE "dead") /\ g.nread = h.nread
        /\ g.mark = h.mark /\ g.headFieldTemp = h.headFieldTemp /\ g.message = Final(h)
    BY DoneEffect
  <2> HIDE DEF g
  <2>5. ASSUME e PROVE Final(h) = MessageOf(type, m)
    BY <2>3, <2>5, FinalIs DEF BodyExact, Good
  <2>6. ASSUME e PROVE g.mark = NoMark /\ g.headFieldTemp = <<>> /\ g.message = MessageOf(type, m)
    BY <2>3, <2>4, <2>5, <2>6 DEF BodyExact
  <2>7. h.type = type
    BY DEF Live
  <2> QED BY <1>0, <1>4, <2>1, <2>2, <2>4, <2>6, <2>7 DEF OverPlace, g
<1> QED BY <1>3, <1>5, <1>6 DEF q

(* One turn in a body.                                                     *)
LEMMA BodyTurn ==
  ASSUME NEW x, NEW type, NEW m, NEW l, Good(type, m), Laid(x, type, m, l), NEW e \in BOOLEAN,
         NEW h, IsParser(h), NEW p \in Nat, p < l.end, BodyPlace(e, h, type, m, l, p)
  PROVE  LET g == Turn(h, x[p + 1])
         IN  /\ \/ /\ BodyPlace(e, g, type, m, l, p + 1)
                   /\ g.state = "chunk_size" <=> h.state = "chunk_start"
                   /\ h.state # "field_start"
                \/ /\ OverPlace(e, g, type, m, l, p + 1)
                   /\ m.coding = "chunked" <=> h.state = "field_start"
             /\ g.nread = IF h.state \in {"chunk_size", "chunk_end"} THEN 0 ELSE h.nread
<1>1. /\ Live(h, type) /\ Told(h, type, m) /\ h.upgrade = UpgradesTo(type, m)
      /\ e => BodyExact(h, type, m)
  BY DEF BodyPlace
<1>2. CASE LengthPlace(e, h, type, m, l, p)
  <2> DEFINE g == Turn(h, x[p + 1])
  <2>1. h.state = "body" /\ m.coding = "length"
    BY <1>2 DEF LengthPlace
  <2>2. /\ BodyPlace(e, g, type, m, l, p + 1) \/ OverPlace(e, g, type, m, l, p + 1)
        /\ g.nread = h.nread
    BY <1>1, <1>2, LengthTurn
  <2> HIDE DEF g
  <2>3. BodyPlace(e, g, type, m, l, p + 1) => g.state = "body"
    BY <2>1 DEF BodyPlace, LengthPlace, EofPlace, ChunkPlace
  <2> QED BY <2>1, <2>2, <2>3 DEF g
<1>3. CASE EofPlace(e, h, type, m, l, p)
  <2> DEFINE g == Turn(h, x[p + 1])
  <2>1. h.state = "body_eof" /\ m.coding = "eof"
    BY <1>3 DEF EofPlace
  <2>2. BodyPlace(e, g, type, m, l, p + 1) /\ g.nread = h.nread
    BY <1>1, <1>3, EofTurn
  <2> HIDE DEF g
  <2>3. BodyPlace(e, g, type, m, l, p + 1) => g.state = "body_eof"
    BY <2>1 DEF BodyPlace, LengthPlace, EofPlace, ChunkPlace
  <2> QED BY <2>1, <2>2, <2>3 DEF g
<1>4. CASE \E j \in 1..(Len(m.body) + 1) : ChunkPlace(e, h, type, m, l, p, j)
  <2>1. PICK j \in 1..(Len(m.body) + 1) : ChunkPlace(e, h, type, m, l, p, j)
    BY <1>4
  <2>2. h.state \in {"chunk_start", "chunk_size", "chunk_data", "chunk_end", "field_start"}
        /\ m.coding = "chunked"
    BY <2>1 DEF ChunkPlace
  <2>3. CASE h.state \in {"chunk_start", "chunk_size"}
    BY <1>1, <2>1, <2>3, SizeTurns
  <2>4. CASE h.state = "chunk_data"
    BY <1>1, <2>1, <2>4, DataTurn
  <2>5. CASE h.state = "chunk_end"
    BY <1>1, <2>1, <2>5, ChunkEndTurn
  <2>6. CASE h.state = "field_start"
    BY <1>1, <2>1, <2>2, <2>6, TrailerTurn
  <2> QED BY <2>2, <2>3, <2>4, <2>5, <2>6
<1> QED BY <1>2, <1>3, <1>4 DEF BodyPlace

------------------------------------------------------------------------------
(* g is where h is: the places do not look at the count, at used, and, but *)
(* for what is exact there, at what the callbacks have stored.             *)
Alike(e, h, g) ==
  /\ g.type = h.type /\ g.method = h.method /\ g.version = h.version /\ g.status = h.status
  /\ g.upgrade = h.upgrade /\ g.error = h.error /\ g.state = h.state /\ g.flags = h.flags
  /\ g.length = h.length /\ g.name = h.name /\ g.value = h.value
  /\ e => /\ g.mark = h.mark /\ g.headFieldTemp = h.headFieldTemp
          /\ g.message = h.message /\ g.complete = h.complete

LEMMA FirstAlike ==
  ASSUME NEW e \in BOOLEAN, NEW h, NEW g, Alike(e, h, g), g.stop = h.stop,
         NEW type, NEW m, NEW l, NEW p, FirstPlace(e, h, type, m, l, p)
  PROVE  FirstPlace(e, g, type, m, l, p)
<1>1. Live(g, type) /\ g.flags = {} /\ g.length = ULLONG_MAX
  BY DEF FirstPlace, Live, Alike
<1>2. CASE type = "request"
  <2>1. RequestPlace(e, h, m, l.begin, p)
    BY <1>2 DEF FirstPlace
  <2>2. RequestPlace(e, g, m, l.begin, p)
    BY <2>1 DEF RequestPlace, Alike, Unended
  <2> QED BY <1>1, <1>2, <2>2 DEF FirstPlace
<1>3. CASE type # "request"
  <2>1. ResponsePlace(e, h, m, l.begin, p)
    BY <1>3 DEF FirstPlace
  <2>2. ResponsePlace(e, g, m, l.begin, p)
    BY <2>1 DEF ResponsePlace, Alike, Ready, Unended
  <2> QED BY <1>1, <1>3, <2>2 DEF FirstPlace
<1> QED BY <1>2, <1>3

LEMMA LineAlike ==
  ASSUME NEW e \in BOOLEAN, NEW h, NEW g, Alike(e, h, g), g.stop = h.stop,
         NEW type, NEW m, NEW l, NEW p, NEW j, LinePlace(e, h, type, m, l, p, j)
  PROVE  LinePlace(e, g, type, m, l, p, j)
<1>1. Live(g, type) /\ Told(g, type, m)
  BY DEF LinePlace, Live, Told, Alike
<1>2. ASSUME e, NEW i, HeadExact(h, type, m, i) PROVE HeadExact(g, type, m, i)
  BY <1>2 DEF HeadExact, Unended, Alike
<1>3. CASE NamePlace(e, h, type, m, l, p, j)
  <2>1. NamePlace(e, g, type, m, l, p, j)
    BY <1>2, <1>3 DEF NamePlace, Alike
  <2> QED BY <1>1, <2>1 DEF LinePlace
<1>4. CASE ColonPlace(e, h, type, m, l, p, j)
  <2>1. ColonPlace(e, g, type, m, l, p, j)
    BY <1>2, <1>4 DEF ColonPlace, Alike
  <2> QED BY <1>1, <2>1 DEF LinePlace
<1>5. CASE ValuePlace(e, h, type, m, l, p, j)
  <2>1. ValuePlace(e, g, type, m, l, p, j)
    BY <1>2, <1>5 DEF ValuePlace, Alike
  <2> QED BY <1>1, <2>1 DEF LinePlace
<1>6. CASE ValueEndPlace(e, h, type, m, l, p, j)
  <2>1. ValueEndPlace(e, g, type, m, l, p, j)
    BY <1>2, <1>6 DEF ValueEndPlace, Alike, Unmarked
  <2> QED BY <1>1, <2>1 DEF LinePlace
<1>7. CASE NoValuePlace(e, h, type, m, l, p, j)
  <2>1. NoValuePlace(e, g, type, m, l, p, j)
    BY <1>2, <1>7 DEF NoValuePlace, Alike
  <2> QED BY <1>1, <2>1 DEF LinePlace
<1> QED BY <1>3, <1>4, <1>5, <1>6, <1>7 DEF LinePlace

LEMMA HeadAlike ==
  ASSUME NEW e \in BOOLEAN, NEW h, NEW g, Alike(e, h, g), g.stop = h.stop,
         NEW type, NEW m, NEW l, NEW p, HeadPlace(e, h, type, m, l, p)
  PROVE  HeadPlace(e, g, type, m, l, p)
<1>1. CASE FirstPlace(e, h, type, m, l, p)
  BY <1>1, FirstAlike DEF HeadPlace
<1>2. CASE StartPlace(e, h, type, m, l, p)
  <2>1. StartPlace(e, g, type, m, l, p)
    BY <1>2 DEF StartPlace, Alike, Live, Told, HeadExact, Unended, Unmarked
  <2> QED BY <2>1 DEF HeadPlace
<1>3. CASE \E j \in 1..NL(m) : LinePlace(e, h, type, m, l, p, j)
  BY <1>3, LineAlike DEF HeadPlace
<1> QED BY <1>1, <1>2, <1>3 DEF HeadPlace

LEMMA BodyAlike ==
  ASSUME NEW e \in BOOLEAN, NEW h, NEW g, Alike(e, h, g), g.stop = h.stop,
         NEW type, NEW m, NEW l, NEW p, BodyPlace(e, h, type, m, l, p)
  PROVE  BodyPlace(e, g, type, m, l, p)
<1>1. /\ Live(g, type) /\ Told(g, type, m) /\ g.upgrade = UpgradesTo(type, m)
      /\ e => BodyExact(g, type, m)
  BY DEF BodyPlace, Live, Told, BodyExact, Unended, Alike
<1>2. CASE LengthPlace(e, h, type, m, l, p)
  <2>1. LengthPlace(e, g, type, m, l, p)
    BY <1>2 DEF LengthPlace, Taken, Alike
  <2> QED BY <1>1, <2>1 DEF BodyPlace
<1>3. CASE EofPlace(e, h, type, m, l, p)
  <2>1. EofPlace(e, g, type, m, l, p)
    BY <1>3 DEF EofPlace, Taken, Alike
  <2> QED BY <1>1, <2>1 DEF BodyPlace
<1>4. CASE \E j \in 1..(Len(m.body) + 1) : ChunkPlace(e, h, type, m, l, p, j)
  <2>1. PICK j \in 1..(Len(m.body) + 1) : ChunkPlace(e, h, type, m, l, p, j)
    BY <1>4
  <2>2. ChunkPlace(e, g, type, m, l, p, j)
    BY <2>1 DEF ChunkPlace, Taken, Alike
  <2> QED BY <1>1, <2>2 DEF BodyPlace
<1> QED BY <1>2, <1>3, <1>4 DEF BodyPlace

LEMMA OverAlike ==
  ASSUME NEW e \in BOOLEAN, NEW h, NEW g, Alike(e, h, g), g.stop = h.stop, g.complete = h.complete,
         NEW type, NEW m, NEW l, NEW p, OverPlace(e, h, type, m, l, p)
  PROVE  OverPlace(e, g, type, m, l, p)
BY DEF OverPlace, Alike

------------------------------------------------------------------------------
(* Where the places of a head lie.                                         *)
LEMMA HeadWithin ==
  ASSUME NEW x, NEW type, NEW m, NEW l, Good(type, m), Laid(x, type, m, l), NEW e \in BOOLEAN,
         NEW h, NEW p \in Nat, HeadPlace(e, h, type, m, l, p)
  PROVE  l.begin < p /\ p < BodyAt(m, l)
<1> DEFINE b == l.begin
           u == Len(m.url)
           n == NL(m)
           z == l.line[n + 1]
           a == l.line[1]
<1>1. b \in Nat /\ n \in Nat /\ a = b + FirstSize(type, m) /\ z \in Nat /\ a \in Nat
      /\ BodyAt(m, l) = z + 1
      /\ (type = "request" => u \in Nat /\ a = b + u + 5) /\ (type = "response" => a = b + 6)
      /\ type \in {"request", "response"}
  <2>1. b \in Nat /\ n \in Nat /\ a = b + FirstSize(type, m) /\ type \in {"request", "response"}
        /\ BodyAt(m, l) = z + 1
    BY DEF Laid, LinesLaid, Good, GoodLines, BodyAt
  <2>2. z \in Nat /\ a \in Nat
    <3>1. n + 1 \in 1..(n + 1) /\ 1 \in 1..(n + 1)
      BY <2>1
    <3> QED BY <3>1 DEF Laid, LinesLaid
  <2>3. type = "request" => u \in Nat
    BY DEF Good, GoodFirst
  <2>4. (type = "request" => FirstSize(type, m) = u + 5) /\ (type = "response" => FirstSize(type, m) = 6)
    BY DEF FirstSize
  <2> HIDE DEF u, a, b, z, n
  <2>5. type = "request" => a = b + u + 5
    BY <2>1, <2>3, <2>4
  <2> QED BY <2>1, <2>2, <2>3, <2>4, <2>5
<1>2. \A j \in 1..n : /\ Len(TheLine(m, j)[1]) \in Nat /\ Len(TheLine(m, j)[2]) \in Nat
                      /\ l.line[j] \in Nat /\ l.line[j + 1] \in Nat
                      /\ l.line[j + 1] = l.line[j] + Len(TheLine(m, j)[1]) + Len(TheLine(m, j)[2]) + 3
                      /\ l.line[j + 1] <= z
  <2> SUFFICES ASSUME NEW j \in 1..n
               PROVE  /\ Len(TheLine(m, j)[1]) \in Nat /\ Len(TheLine(m, j)[2]) \in Nat
                      /\ l.line[j] \in Nat /\ l.line[j + 1] \in Nat
                      /\ l.line[j + 1] = l.line[j] + Len(TheLine(m, j)[1]) + Len(TheLine(m, j)[2]) + 3
                      /\ l.line[j + 1] <= z
    OBVIOUS
  <2>1. LineOk(TheLine(m, j))
    BY DEF Good, GoodLines
  <2>2. j \in 1..(n + 1) /\ j + 1 \in 1..(n + 1)
    BY <1>1
  <2>3. Len(TheLine(m, j)[1]) \in Nat /\ Len(TheLine(m, j)[2]) \in Nat
    BY <2>1, LenProperties DEF LineOk
  <2> QED BY <2>2, <2>3 DEF Laid, LinesLaid
<1>3. a <= z
  <2>1. CASE n = 0
    BY <1>1, <2>1
  <2>2. CASE n # 0
    <3>1. 1 \in 1..n /\ 1 + 1 = 2
      BY <1>1, <2>2
    <3> DEFINE N == Len(TheLine(m, 1)[1])
               V == Len(TheLine(m, 1)[2])
               c == l.line[2]
    <3>2. N \in Nat /\ V \in Nat /\ c \in Nat /\ c = a + N + V + 3 /\ c <= z
      BY <1>2, <3>1
    <3> HIDE DEF N, V, c, a, z
    <3> QED BY <1>1, <3>2, SMTT(30)
  <2> QED BY <2>1, <2>2
<1>4. ASSUME NEW j \in 1..n PROVE b < l.line[j]
  <2>1. PICK i \in 1..n : i = j
    OBVIOUS
  <2> DEFINE S == {k \in Nat : k + 1 <= n => a <= l.line[k + 1]}
  <2>2. 0 \in S
    BY <1>1
  <2>3. ASSUME NEW k \in Nat, k \in S PROVE k + 1 \in S
    <3>1. ASSUME (k + 1) + 1 <= n PROVE a <= l.line[(k + 1) + 1]
      <4>1. k + 1 \in 1..n /\ k + 1 <= n
        BY <1>1, <3>1
      <4> DEFINE N == Len(TheLine(m, k + 1)[1])
                 V == Len(TheLine(m, k + 1)[2])
                 c == l.line[k + 1]
                 d == l.line[(k + 1) + 1]
      <4>2. N \in Nat /\ V \in Nat /\ c \in Nat /\ d = c + N + V + 3 /\ a <= c
        BY <1>2, <2>3, <4>1
      <4> HIDE DEF N, V, c, d, a
      <4>3. a <= d
        BY ONLY <1>1, <4>2
      <4> QED BY <4>3 DEF d
    <3> HIDE DEF a
    <3> QED BY <3>1
  <2> HIDE DEF S
  <2>4. Nat \subseteq S
    BY <2>2, <2>3, NatSetInduction
  <2>5. j - 1 \in Nat /\ (j - 1) + 1 = j /\ j <= n
    BY <1>1
  <2>6. a <= l.line[j]
    <3>1. j - 1 \in S
      BY <2>4, <2>5
    <3> DEFINE k == j - 1
    <3> HIDE DEF k
    <3>2. k + 1 <= n => a <= l.line[k + 1]
      BY <3>1 DEF S, k
    <3>3. k + 1 = j
      BY <2>5 DEF k
    <3> QED BY <2>5, <3>2, <3>3
  <2>7. l.line[j] \in Nat
    BY <1>2
  <2> DEFINE y == l.line[j]
  <2> HIDE DEF y, a, b, u
  <2>8. y \in Nat /\ a <= y
    BY <2>6, <2>7 DEF y
  <2>9. b < y
    BY ONLY <1>1, <2>8
  <2> QED BY <2>9 DEF y
<1>5. CASE FirstPlace(e, h, type, m, l, p)
  <2>1. CASE type = "request"
    <3>1. \/ p = b + 1 \/ p = b + 2 \/ p - (b + 2) \in 1..u \/ p = b + u + 3 \/ p = b + u + 4
      BY <1>5, <2>1 DEF FirstPlace, RequestPlace
    <3> HIDE DEF b, u, z, a
    <3>2. b < p /\ p < z + 1
      BY <1>1, <1>3, <2>1, <3>1
    <3> QED BY <1>1, <3>2 DEF b
  <2>2. CASE type = "response"
    <3>1. \/ p = b + 1 \/ p = b + 2 \/ p = b + 3 \/ p = b + 4 \/ p = b + 5
      BY <1>5, <2>2 DEF FirstPlace, ResponsePlace
    <3> HIDE DEF b, u, z, a
    <3>2. b < p /\ p < z + 1
      BY <1>1, <1>3, <2>2, <3>1
    <3> QED BY <1>1, <3>2 DEF b
  <2> QED BY <1>1, <2>1, <2>2
<1>6. CASE StartPlace(e, h, type, m, l, p)
  <2>1. p = a
    BY <1>6 DEF StartPlace
  <2> HIDE DEF b, u, z, a
  <2>2. b < p /\ p < z + 1
    BY <1>1, <1>3, <2>1
  <2> QED BY <1>1, <2>2 DEF b
<1>7. CASE \E j \in 1..NL(m) : LinePlace(e, h, type, m, l, p, j)
  <2>1. PICK j \in 1..n : LinePlace(e, h, type, m, l, p, j)
    BY <1>7
  <2> DEFINE N == Len(TheLine(m, j)[1])
             V == Len(TheLine(m, j)[2])
             c == l.line[j]
             d == l.line[j + 1]
  <2>2. N \in Nat /\ V \in Nat /\ c \in Nat /\ d \in Nat /\ d = c + N + V + 3 /\ d <= z /\ b < c
    BY <1>2, <1>4
  <2>3. \/ p - c \in 1..N
        \/ p - (c + N) \in {1, 2}
        \/ p - (c + N + 2) \in 1..V
        \/ p = d
    BY <2>1 DEF LinePlace, NamePlace, ColonPlace, ValuePlace, ValueEndPlace, NoValuePlace
  <2>4. p \in Nat /\ z \in Nat /\ b \in Nat
    BY <1>1
  <2> HIDE DEF N, V, c, d, b, z, u, a, n
  <2>5. b < p /\ p < z + 1
    BY ONLY <2>2, <2>3, <2>4
  <2> QED BY <1>1, <2>5 DEF b
<1> QED BY <1>5, <1>6, <1>7 DEF HeadPlace

------------------------------------------------------------------------------
(* A head has more than five bytes.                                        *)
LEMMA HeadLong ==
  ASSUME NEW x, NEW type, NEW m, NEW l, Good(type, m), Laid(x, type, m, l)
  PROVE  l.begin + 6 <= BodyAt(m, l)
<1> DEFINE u == Len(m.url)
           n == NL(m)
           a == l.line[1]
           z == l.line[n + 1]
           s == FirstSize(type, m)
           b == l.begin
<1>1. b \in Nat /\ n \in Nat /\ a = b + s /\ z \in Nat /\ BodyAt(m, l) = z + 1
  <2>1. b \in Nat /\ n \in Nat /\ a = b + s /\ BodyAt(m, l) = z + 1
    BY DEF Laid, LinesLaid, Good, GoodLines, BodyAt
  <2>2. n + 1 \in 1..(n + 1)
    BY <2>1
  <2> QED BY <2>1, <2>2 DEF Laid, LinesLaid
<1>2. s \in Nat /\ s >= 5
  <2>1. type = "request" => u \in Nat
    BY DEF Good, GoodFirst
  <2>2. s = IF type = "request" THEN u + 5 ELSE 6
    BY DEF FirstSize
  <2> HIDE DEF u, s
  <2> QED BY <2>1, <2>2
<1>3. a <= z
  <2>1. CASE n = 0
    BY <1>1, <1>2, <2>1
  <2>2. CASE n # 0
    <3>1. 1 \in 1..n /\ 1 + 1 = 2
      BY <1>1, <2>2
    <3>2. LineOk(TheLine(m, 1))
      BY <3>1 DEF Good, GoodLines
    <3> DEFINE N == Len(TheLine(m, 1)[1])
               V == Len(TheLine(m, 1)[2])
               c == l.line[2]
    <3>3. N \in Nat /\ V \in Nat
      BY <3>2, LenProperties DEF LineOk
    <3>4. c = a + N + V + 3 /\ c <= z
      BY <3>1 DEF Laid, LinesLaid
    <3> HIDE DEF N, V, c, a, z, s, b
    <3> QED BY <1>1, <1>2, <3>3, <3>4
  <2> QED BY <2>1, <2>2
<1> HIDE DEF a, z, s, b
<1>4. b + 6 <= z + 1
  BY <1>1, <1>2, <1>3
<1> QED BY <1>1, <1>4 DEF b

(* Where the chunks of a body lie.                                         *)
LEMMA ChunksWithin ==
  ASSUME NEW x, NEW type, NEW m, NEW l, Good(type, m), Laid(x, type, m, l), m.coding = "chunked",
         NEW j \in 1..(Len(m.body) + 1)
  PROVE  /\ l.chunk[j] \in Nat /\ BodyAt(m, l) <= l.chunk[j]
         /\ l.chunk[j] <= l.chunk[Len(m.body) + 1]
<1> DEFINE s == Len(m.body)
           z == l.chunk[s + 1]
           b == BodyAt(m, l)
<1>1. s \in Nat /\ m.body \in Seq(Seq(Piece)) /\ \A i \in 1..s : Len(m.body[i]) \in 1..9
  BY DEF Good, GoodBody
<1>2. /\ l.chunk[1] = b /\ b \in Nat /\ \A i \in 1..(s + 1) : l.chunk[i] \in Nat
      /\ \A i \in 1..s : l.chunk[i + 1] = l.chunk[i] + Len(m.body[i]) + 3
  BY DEF Laid, BodyLaid
<1>3. ASSUME NEW i \in 1..s PROVE l.chunk[i] <= l.chunk[i + 1]
  <2> DEFINE c == l.chunk[i]
             d == l.chunk[i + 1]
             n == Len(m.body[i])
  <2>1. c \in Nat /\ d = c + n + 3 /\ n \in 1..9
    BY <1>1, <1>2
  <2> HIDE DEF c, d, n
  <2>2. c <= d
    BY <2>1
  <2> QED BY <2>2 DEF c, d
<1> HIDE DEF b
<1>4. b <= l.chunk[j]
  <2> DEFINE S == {k \in Nat : k + 1 <= s + 1 => b <= l.chunk[k + 1]}
  <2>1. 0 \in S
    BY <1>2
  <2>2. ASSUME NEW k \in Nat, k \in S PROVE k + 1 \in S
    <3>1. ASSUME (k + 1) + 1 <= s + 1 PROVE b <= l.chunk[(k + 1) + 1]
      <4>1. k + 1 \in 1..s /\ k + 1 \in 1..(s + 1) /\ (k + 1) + 1 \in 1..(s + 1) /\ k + 1 <= s + 1
        BY <1>1, <3>1
      <4> DEFINE c == l.chunk[k + 1]
                 d == l.chunk[(k + 1) + 1]
      <4>2. c <= d /\ c \in Nat /\ d \in Nat /\ b <= c
        BY <1>2, <1>3, <2>2, <4>1
      <4> HIDE DEF c, d
      <4>3. b <= d
        BY <1>2, <4>2
      <4> QED BY <4>3 DEF d
    <3> QED BY <3>1
  <2> HIDE DEF S
  <2>3. Nat \subseteq S
    BY <2>1, <2>2, NatSetInduction
  <2> DEFINE k == j - 1
  <2>4. k \in Nat /\ k + 1 = j /\ k + 1 <= s + 1
    BY <1>1
  <2> HIDE DEF k
  <2>5. k \in S
    BY <2>3, <2>4
  <2> QED BY <2>4, <2>5 DEF S
<1>5. l.chunk[j] <= z
  <2> DEFINE S == {k \in Nat : k <= s => l.chunk[(s + 1) - k] <= z}
  <2>1. 0 \in S
    <3>1. (s + 1) - 0 = s + 1 /\ s + 1 \in 1..(s + 1)
      BY <1>1
    <3>2. z \in Nat
      BY <1>2, <3>1
    <3>3. z <= z
      BY <3>2
    <3> QED BY <3>1, <3>3
  <2>2. ASSUME NEW k \in Nat, k \in S PROVE k + 1 \in S
    <3>1. ASSUME k + 1 <= s PROVE l.chunk[(s + 1) - (k + 1)] <= z
      <4> DEFINE i == (s + 1) - (k + 1)
                 c == l.chunk[i]
                 d == l.chunk[i + 1]
      <4>1. i \in 1..s /\ i \in 1..(s + 1) /\ i + 1 \in 1..(s + 1) /\ i + 1 = (s + 1) - k
            /\ s + 1 \in 1..(s + 1) /\ k <= s
        BY <1>1, <3>1
      <4> HIDE DEF i
      <4>2. c <= d /\ c \in Nat /\ d \in Nat /\ d <= z /\ z \in Nat
        BY <1>2, <1>3, <2>2, <4>1
      <4> HIDE DEF c, d, z
      <4>3. c <= z
        BY <4>2
      <4> QED BY <4>3 DEF c, i, z
    <3> HIDE DEF z
    <3> QED BY <3>1
  <2> HIDE DEF S
  <2>3. Nat \subseteq S
    BY <2>1, <2>2, NatSetInduction
  <2> DEFINE k == (s + 1) - j
  <2>4. k \in Nat /\ (s + 1) - k = j /\ k <= s
    BY <1>1
  <2> HIDE DEF k
  <2>5. k \in S
    BY <2>3, <2>4
  <2> QED BY <2>4, <2>5 DEF S
<1> QED BY <1>2, <1>4, <1>5 DEF b

LEMMA BodyWithin ==
  ASSUME NEW x, NEW type, NEW m, NEW l, Good(type, m), Laid(x, type, m, l), NEW e \in BOOLEAN,
         NEW h, NEW p \in Nat, BodyPlace(e, h, type, m, l, p)
  PROVE  /\ BodyAt(m, l) <= p /\ p <= l.end
         /\ m.coding # "eof" => p < l.end
<1> DEFINE b == BodyAt(m, l)
           s == Len(m.body)
<1>1. b \in Nat /\ l.end \in Nat
  BY DEF Laid
<1>2. CASE LengthPlace(e, h, type, m, l, p)
  <2> DEFINE n == Len(m.body[1])
             z == l.end
  <2>1. n \in 0..9 /\ z = b + n /\ p - b \in 0..(n - 1)
    BY <1>2 DEF LengthPlace, Good, GoodBody, Laid, BodyLaid
  <2> HIDE DEF n, b, z
  <2>2. b <= p /\ p < z
    BY <1>1, <2>1
  <2>3. z \in Nat
    BY <1>1 DEF z
  <2>4. p <= z
    BY <2>2, <2>3
  <2> QED BY <2>2, <2>4 DEF b, z
<1>3. CASE EofPlace(e, h, type, m, l, p)
  <2> DEFINE T == FlattenSeq(m.body)
             n == Len(T)
             z == l.end
  <2>1. T \in Seq(Piece)
    BY FlatIsSeq DEF Good, GoodBody
  <2>2. n \in Nat
    BY <2>1, LenProperties
  <2>3. z = b + n /\ p - b \in 0..n /\ m.coding = "eof"
    BY <1>3 DEF EofPlace, Laid, BodyLaid
  <2> HIDE DEF n, b, z
  <2>4. b <= p /\ p <= z
    BY <1>1, <2>2, <2>3
  <2> QED BY <2>3, <2>4 DEF b, z
<1>4. CASE \E j \in 1..(s + 1) : ChunkPlace(e, h, type, m, l, p, j)
  <2>1. PICK j \in 1..(s + 1) : ChunkPlace(e, h, type, m, l, p, j)
    BY <1>4
  <2> DEFINE c == l.chunk[j]
             y == l.chunk[s + 1]
             z == l.end
             d == l.chunk[j + 1]
             n == Len(m.body[j])
  <2>2. m.coding = "chunked"
    BY <2>1 DEF ChunkPlace
  <2>3. c \in Nat /\ b <= c /\ c <= y
    BY <2>2, ChunksWithin
  <2>4. z = y + 3 /\ y \in Nat /\ s \in Nat
    <3>1. s \in Nat
      BY DEF Good, GoodBody
    <3>2. s + 1 \in 1..(s + 1)
      BY <3>1
    <3> QED BY <2>2, <3>1, <3>2 DEF Laid, BodyLaid
  <2>5. ASSUME j <= s PROVE d = c + n + 3 /\ d <= y /\ n \in 1..9 /\ d \in Nat
    <3>1. j \in 1..s /\ j + 1 \in 1..(s + 1)
      BY <2>4, <2>5
    <3>2. d <= y /\ d \in Nat
      BY <2>2, <3>1, ChunksWithin
    <3> QED BY <2>2, <3>1, <3>2 DEF Laid, BodyLaid, Good, GoodBody
  <2>6. \/ p = c \/ p = c + 1 \/ p = c + 2
        \/ j <= s /\ p - (c + 2) \in 0..(n - 1)
        \/ j <= s /\ p = c + 2 + n
    BY <2>1 DEF ChunkPlace
  <2> HIDE DEF b, c, y, z, d, n
  <2> HIDE DEF s
  <2>7. b <= p /\ p < z
    <3>1. CASE p \in {c, c + 1, c + 2}
      BY ONLY <1>1, <2>3, <2>4, <3>1, p \in Nat
    <3>2. CASE j <= s /\ (p - (c + 2) \in 0..(n - 1) \/ p = c + 2 + n)
      <4>1. d = c + n + 3 /\ d <= y /\ n \in 1..9 /\ d \in Nat
        BY <2>5, <3>2
      <4>2. c + 2 <= p /\ p <= c + 2 + n
        BY ONLY <2>3, <3>2, <4>1, p \in Nat
      <4> QED BY ONLY <1>1, <2>3, <2>4, <4>1, <4>2, p \in Nat
    <3> QED BY <2>6, <3>1, <3>2
  <2>8. z \in Nat
    BY <1>1 DEF z
  <2>9. p <= z
    BY <2>7, <2>8
  <2> QED BY <2>7, <2>9 DEF b, z
<1> QED BY <1>2, <1>3, <1>4 DEF BodyPlace

------------------------------------------------------------------------------
(* A stream y of messages: y.wire are its bytes, of y.type the messages    *)
(* y.msgs, laid out as y.at says; message i stands between y.off[i] and    *)
(* y.off[i + 1].                                                           *)
Stream(y) ==
  /\ y.wire \in Seq(Piece) /\ y.type \in {"request", "response"} /\ Len(y.msgs) \in Nat
  /\ y.off[1] = 0 /\ y.off[Len(y.msgs) + 1] = Len(y.wire)
  /\ \A i \in 1..(Len(y.msgs) + 1) : y.off[i] \in Nat
  /\ \A i, j \in 1..(Len(y.msgs) + 1) : i <= j => y.off[i] <= y.off[j]
  /\ \A i \in 1..Len(y.msgs) :
       /\ Good(y.type, y.msgs[i]) /\ Laid(y.wire, y.type, y.msgs[i], y.at[i])
       /\ y.at[i].begin = y.off[i] /\ y.at[i].end = y.off[i + 1]
       /\ y.msgs[i].coding = "eof" => i = Len(y.msgs)

(* The end of the chunks of a message counts with the next head.           *)
Carry(y, i) == IF i > 1 /\ y.msgs[i - 1].coding = "chunked" THEN 1 ELSE 0

Fits(y, i) ==
  Carry(y, i) + (BodyAt(y.msgs[i], y.at[i]) - y.off[i]) <= HTTP_MAX_HEADER_SIZE

(* The messages before message i.                                          *)
Through(y, i) == \A j \in 1..(i - 1) : Fits(y, j) /\ KeepsOpen(y.msgs[j])

Between(e, h, y, p, i) ==
  /\ p = y.off[i] /\ h.type = y.type /\ h.error = FALSE /\ h.nread = Carry(y, i)
  /\ i > 1 => Through(y, i - 1) /\ Fits(y, i - 1) /\ y.msgs[i - 1].coding # "eof"
  /\ h.state = IF i = 1 \/ KeepsOpen(y.msgs[i - 1]) THEN "start" ELSE "dead"
  /\ e => \/ Ready(h, y.type)
          \/ /\ i > 1 /\ h.complete = TRUE
             /\ h.mark = NoMark /\ h.headFieldTemp = <<>>
             /\ h.message = MessageOf(y.type, y.msgs[i - 1])

InHead(e, h, y, p, i) ==
  /\ Through(y, i)
  /\ HeadPlace(e, h, y.type, y.msgs[i], y.at[i], p)
  /\ h.nread = Carry(y, i) + (p - y.off[i])

InBody(e, h, y, p, i) ==
  /\ Through(y, i) /\ Fits(y, i)
  /\ BodyPlace(e, h, y.type, y.msgs[i], y.at[i], p)
  /\ h.nread = IF h.state = "chunk_size" THEN 1 ELSE 0

(* Where the parser is when it has read p bytes of y without an error.     *)
Place(e, h, y, p) ==
  \/ \E i \in 1..(Len(y.msgs) + 1) : Between(e, h, y, p, i)
  \/ \E i \in 1..Len(y.msgs) : InHead(e, h, y, p, i)
  \/ \E i \in 1..Len(y.msgs) : InBody(e, h, y, p, i)

(* The same when it has read the last of them in this call: a message may  *)
(* have become complete.                                                   *)
Reached(e, h, y, p) ==
  \/ \E i \in 1..(Len(y.msgs) + 1) : i > 1 /\ Between(e, h, y, p, i) /\ h.complete = TRUE
  \/ \E i \in 1..Len(y.msgs) : InHead(e, h, y, p, i)
  \/ \E i \in 1..Len(y.msgs) : InBody(e, h, y, p, i)

(* Why the parser may have failed.                                         *)
Blame(y, p) ==
  \E i \in 1..Len(y.msgs) :
    \/ ~Fits(y, i) /\ Carry(y, i) + (p - y.off[i]) > HTTP_MAX_HEADER_SIZE
    \/ i > 1 /\ ~KeepsOpen(y.msgs[i - 1]) /\ p > y.off[i]

LEMMA BlameStays ==
  ASSUME NEW y, Stream(y), NEW p \in Nat, NEW q \in Nat, p <= q, Blame(y, p)
  PROVE  Blame(y, q)
<1>1. PICK i \in 1..Len(y.msgs) :
        \/ ~Fits(y, i) /\ Carry(y, i) + (p - y.off[i]) > HTTP_MAX_HEADER_SIZE
        \/ i > 1 /\ ~KeepsOpen(y.msgs[i - 1]) /\ p > y.off[i]
  BY DEF Blame
<1>2. i \in 1..(Len(y.msgs) + 1) /\ y.off[i] \in Nat /\ Carry(y, i) \in Nat
  BY DEF Stream, Carry
<1> DEFINE o == y.off[i]
           c == Carry(y, i)
<1>3. c \in Nat /\ o \in Nat /\ HTTP_MAX_HEADER_SIZE \in Nat
  BY <1>2, HeaderSizeIsPositive
<1> HIDE DEF o, c
<1>4. /\ c + (p - o) > HTTP_MAX_HEADER_SIZE => c + (q - o) > HTTP_MAX_HEADER_SIZE
      /\ p > o => q > o
  BY <1>3
<1> QED BY <1>1, <1>4 DEF Blame, o, c

(* The place of message i.                                                 *)
LEMMA MessageSpot ==
  ASSUME NEW y, Stream(y), NEW i \in 1..Len(y.msgs)
  PROVE  /\ y.off[i] \in Nat /\ y.off[i + 1] \in Nat /\ i + 1 \in 1..(Len(y.msgs) + 1)
         /\ BodyAt(y.msgs[i], y.at[i]) \in Nat
         /\ y.off[i] + 6 <= BodyAt(y.msgs[i], y.at[i])
         /\ BodyAt(y.msgs[i], y.at[i]) <= y.off[i + 1]
         /\ Carry(y, i) \in {0, 1}
         /\ Good(y.type, y.msgs[i]) /\ Laid(y.wire, y.type, y.msgs[i], y.at[i])
         /\ y.at[i].begin = y.off[i] /\ y.at[i].end = y.off[i + 1]
<1>1. /\ i \in 1..(Len(y.msgs) + 1) /\ i + 1 \in 1..(Len(y.msgs) + 1)
      /\ Good(y.type, y.msgs[i]) /\ Laid(y.wire, y.type, y.msgs[i], y.at[i])
      /\ y.at[i].begin = y.off[i] /\ y.at[i].end = y.off[i + 1]
  BY DEF Stream
<1>2. y.off[i] + 6 <= BodyAt(y.msgs[i], y.at[i])
  BY <1>1, HeadLong
<1> QED BY <1>1, <1>2 DEF Stream, Laid, Carry

(* The head that is being read does not fit, when the count overflows.     *)
LEMMA TooLong ==
  ASSUME NEW y, Stream(y), NEW i \in 1..Len(y.msgs), NEW p \in Nat,
         y.off[i] < p, p <= BodyAt(y.msgs[i], y.at[i]),
         Carry(y, i) + (p - y.off[i]) > HTTP_MAX_HEADER_SIZE
  PROVE  Blame(y, p)
<1> DEFINE o == y.off[i]
           c == Carry(y, i)
           b == BodyAt(y.msgs[i], y.at[i])
<1>1. o \in Nat /\ b \in Nat /\ c \in {0, 1} /\ HTTP_MAX_HEADER_SIZE \in Nat
      /\ c + (p - o) > HTTP_MAX_HEADER_SIZE /\ p <= b
  BY MessageSpot, HeaderSizeIsPositive
<1> HIDE DEF o, c, b
<1>2. ~(c + (b - o) <= HTTP_MAX_HEADER_SIZE)
  BY <1>1
<1> QED BY <1>2 DEF Blame, Fits, o, c, b

------------------------------------------------------------------------------
(* A byte, taken apart: it is counted, the count is looked at, and then    *)
(* comes the turn.                                                         *)
Advanced(e, h, c, u, g) ==
  /\ IsParser(c) /\ Alike(e, h, c) /\ c.stop = FALSE /\ c.state = h.state
  /\ c.nread = h.nread + (IF ParsingHeader(h) THEN 1 ELSE 0)
  /\ h.state \notin {"field", "value"} /\ Overflow(c) => g.error = TRUE
  /\ h.state \in {"field", "value"} /\ Overflow(c) /\ u.error = FALSE =>
       u.state \in {"field", "value"} /\ u.stop = FALSE
  /\ \/ g.error = TRUE /\ Overflow(c)
     \/ /\ Alike(e, u, g) /\ g.stop = u.stop /\ g.complete = u.complete
        /\ g.nread = u.nread

LEMMA AdvanceIs ==
  ASSUME NEW h, InLoop(h), h.error = FALSE, h.stop = FALSE, NEW t, NEW e \in BOOLEAN
  PROVE  Advanced(e, h, Counted(h), Turn(Counted(h), t), Advance(h, t))
<1> DEFINE c == Counted(h)
           u == Turn(c, t)
           g == Advance(h, t)
<1>1. /\ IsParser(c) /\ Alike(e, h, c) /\ c.stop = FALSE /\ Pending(c) /\ c.error = FALSE
      /\ c.state = h.state /\ c.nread = h.nread + (IF ParsingHeader(h) THEN 1 ELSE 0)
  BY DEF InLoop, Counted, IsParser, Fields, Alike, Pending
<1>2. g = IF Overflow(c) /\ ~Scanning(h) THEN Fail(c) ELSE [u EXCEPT !.used = @ + 1]
  BY DEF Advance
<1> HIDE DEF c
<1>3. Turned(c, u)
  BY <1>1, TurnTurned
<1> HIDE DEF u, g
<1>4. IsParser(u)
  BY <1>3 DEF Turned
<1>5. CASE Overflow(c) /\ ~Scanning(h)
  <2>1. g = Fail(c)
    BY <1>2, <1>5
  <2>2. g.error = TRUE
    BY <1>1, <2>1 DEF Fail, IsParser, Fields
  <2> QED BY <1>1, <1>3, <1>5, <2>2 DEF c, u, g, Turned, Advanced
<1>6. CASE ~(Overflow(c) /\ ~Scanning(h))
  <2>1. g = [u EXCEPT !.used = @ + 1]
    BY <1>2, <1>6
  <2>2. Alike(e, u, g) /\ g.stop = u.stop /\ g.complete = u.complete /\ g.nread = u.nread
    BY <1>4, <2>1 DEF Alike, IsParser, Fields
  <2>3. Overflow(c) => h.state \in {"field", "value"}
    BY <1>6 DEF Scanning
  <2> QED BY <1>1, <1>3, <2>2, <2>3 DEF c, u, g, Turned, Advanced
<1> QED BY <1>5, <1>6

(* Between two messages.                                                   *)
LEMMA AdvanceBetween ==
  ASSUME NEW y, Stream(y), NEW e \in BOOLEAN, NEW p \in Nat, p < Len(y.wire),
         NEW h, InLoop(h), h.error = FALSE, h.stop = FALSE, e => h.complete = FALSE,
         NEW i \in 1..(Len(y.msgs) + 1), Between(e, h, y, p, i)
  PROVE  LET g == Advance(h, y.wire[p + 1])
         IN  IF g.error THEN Blame(y, p + 1) ELSE Reached(e, g, y, p + 1)
<1> DEFINE t == y.wire[p + 1]
           c == Counted(h)
           u == Turn(c, t)
           g == Advance(h, t)
           m == y.msgs[i]
           l == y.at[i]
           n == Len(y.msgs)
           q == p + 1
<1>1. i \in 1..n
  <2>1. i = n + 1 => p = Len(y.wire)
    BY DEF Between, Stream
  <2>2. n \in Nat
    BY DEF Stream
  <2>3. i # n + 1
    <3> DEFINE w == Len(y.wire)
    <3> HIDE DEF w
    <3>1. p < w /\ (i = n + 1 => p = w)
      BY <2>1 DEF w
    <3> QED BY <3>1
  <2> QED BY <2>2, <2>3
<1>2. /\ p = y.off[i] /\ Good(y.type, m) /\ Laid(y.wire, y.type, m, l) /\ l.begin = p
      /\ BodyAt(m, l) \in Nat /\ p + 6 <= BodyAt(m, l) /\ Carry(y, i) \in {0, 1}
  BY <1>1, MessageSpot DEF Between
<1>3. /\ h.type = y.type /\ h.nread = Carry(y, i)
      /\ (i > 1 => Through(y, i - 1) /\ Fits(y, i - 1))
      /\ h.state = (IF i = 1 \/ KeepsOpen(y.msgs[i - 1]) THEN "start" ELSE "dead")
      /\ (e => Ready(h, y.type))
  BY DEF Between
<1>0. Advanced(e, h, c, u, g)
  BY AdvanceIs
<1>4. /\ IsParser(c) /\ Alike(e, h, c) /\ c.stop = FALSE /\ c.state = h.state
      /\ c.nread = h.nread + (IF ParsingHeader(h) THEN 1 ELSE 0)
      /\ h.state \notin {"field", "value"} /\ Overflow(c) => g.error = TRUE
      /\ \/ g.error = TRUE /\ Overflow(c)
         \/ Alike(e, u, g) /\ g.stop = u.stop /\ g.complete = u.complete /\ g.nread = u.nread
  <2> HIDE DEF c, u, g
  <2> QED BY <1>0 DEF Advanced
<1>5. /\ y.type = "request" => t = m.method /\ m.method \in Method
      /\ y.type = "response" => t = m.version /\ m.version \in Version
      /\ y.type \in {"request", "response"}
  BY <1>2 DEF Laid, FirstLaid, Good, GoodFirst
<1>6. IsParser(g)
  BY AdvanceLoop DEF InLoop
<1>7. q \in Nat /\ p < q
  OBVIOUS
<1> HIDE DEF c, u, g, t, m, l, q
<1>8. c.nread = Carry(y, i) + (q - y.off[i])
  <2>1. ParsingHeader(h)
    BY <1>3 DEF ParsingHeader
  <2> QED BY <1>2, <1>3, <1>4, <2>1 DEF q
<1>9. CASE h.state = "dead"
  <2>1. i > 1 /\ ~KeepsOpen(y.msgs[i - 1])
    BY <1>3, <1>9
  <2>2. Blame(y, q)
    BY <1>1, <1>2, <1>7, <2>1 DEF Blame
  <2>3. g.error
    <3>1. t # "crlf"
      BY <1>5 DEF Method, Version
    <3>2. u.error = TRUE
      BY <1>4, <1>9, <3>1, DeadEffect DEF u
    <3> QED BY <1>4, <3>2 DEF Alike
  <2> QED BY <2>2, <2>3 DEF g, t, q
<1>10. CASE h.state = "start"
  <2>1. Through(y, i)
    <3>1. ASSUME NEW j \in 1..(i - 1) PROVE Fits(y, j) /\ KeepsOpen(y.msgs[j])
      <4>1. i > 1 /\ i \in Nat
        BY <1>1
      <4>2. CASE j = i - 1
        BY <1>3, <1>10, <4>1, <4>2
      <4>3. CASE j # i - 1
        <5>1. j \in 1..((i - 1) - 1)
          BY <4>1, <4>3
        <5> QED BY <1>3, <4>1, <5>1 DEF Through
      <4> QED BY <4>2, <4>3
    <3> QED BY <3>1 DEF Through
  <2>2. CASE Overflow(c)
    <3>1. g.error = TRUE
      BY <1>4, <1>10, <2>2
    <3>2. Carry(y, i) + (q - y.off[i]) > HTTP_MAX_HEADER_SIZE
      BY <1>8, <2>2 DEF Overflow
    <3>3. y.off[i] < q /\ q <= BodyAt(y.msgs[i], y.at[i])
      BY <1>2 DEF q, m, l
    <3>4. Blame(y, q)
      BY <1>1, <1>7, <3>2, <3>3, TooLong
    <3> QED BY <3>1, <3>4 DEF g, t, q
  <2>3. CASE ~Overflow(c)
    <3>1. c.type = y.type /\ c.error = FALSE
      BY <1>3, <1>4 DEF Alike
    <3>2. /\ y.type = "request" =>
               u.state = "method" /\ u.method = t
          /\ y.type = "response" =>
               u.state = "res_http_end" /\ u.version = t
          /\ u.flags = {} /\ u.length = ULLONG_MAX /\ SameData(c, u)
          /\ u.type = c.type /\ u.error = c.error /\ u.stop = c.stop /\ u.nread = c.nread
          /\ u.complete = c.complete
      BY <1>4, <1>5, <1>10, <3>1, StartEffect DEF u
    <3>3. ASSUME e PROVE Ready(u, y.type)
      <4>1. Ready(c, y.type)
        BY <1>3, <1>4, <3>3 DEF Ready, Unended, Alike
      <4> QED BY <3>2, <4>1 DEF Ready, Unended, SameData
    <3>4. Live(u, y.type)
      BY <1>4, <3>1, <3>2 DEF Live
    <3>5. FirstPlace(e, u, y.type, m, l, q)
      <4>1. q = l.begin + 1
        BY <1>2 DEF q
      <4>2. CASE y.type = "request"
        <5>1. RequestPlace(e, u, m, l.begin, q)
          BY <1>5, <3>2, <3>3, <4>1, <4>2 DEF RequestPlace, Ready
        <5> QED BY <3>2, <3>4, <4>2, <5>1 DEF FirstPlace
      <4>3. CASE y.type = "response"
        <5>1. ResponsePlace(e, u, m, l.begin, q)
          BY <1>5, <3>2, <3>3, <4>1, <4>3 DEF ResponsePlace
        <5> QED BY <3>2, <3>4, <4>3, <5>1 DEF FirstPlace
      <4> QED BY <1>5, <4>2, <4>3
    <3>6. HeadPlace(e, u, y.type, m, l, q)
      BY <3>5 DEF HeadPlace
    <3>7. Alike(e, u, g) /\ g.stop = u.stop /\ g.nread = u.nread
      BY <1>4, <2>3
    <3>8. HeadPlace(e, g, y.type, m, l, q)
      BY <3>6, <3>7, HeadAlike
    <3>9. g.error = FALSE
      BY <3>1, <3>2, <3>7 DEF Alike
    <3>10. InHead(e, g, y, q, i)
      BY <1>8, <2>1, <3>2, <3>7, <3>8 DEF InHead, m, l
    <3> QED BY <1>1, <3>9, <3>10 DEF Reached, g, t, q
  <2> QED BY <2>2, <2>3
<1> QED BY <1>3, <1>9, <1>10

------------------------------------------------------------------------------
(* In the head of message i.                                               *)
LEMMA AdvanceInHead ==
  ASSUME NEW y, Stream(y), NEW e \in BOOLEAN, NEW p \in Nat, p < Len(y.wire),
         \A j \in 1..Len(y.msgs) : e => Len(y.msgs[j].body) <= 1,
         NEW h, InLoop(h), h.error = FALSE, h.stop = FALSE,
         NEW i \in 1..Len(y.msgs), InHead(e, h, y, p, i)
  PROVE  LET g == Advance(h, y.wire[p + 1])
         IN  IF g.error THEN Blame(y, p + 1) ELSE Reached(e, g, y, p + 1)
<1> DEFINE t == y.wire[p + 1]
           c == Counted(h)
           u == Turn(c, t)
           g == Advance(h, t)
           m == y.msgs[i]
           l == y.at[i]
           q == p + 1
           b == BodyAt(m, l)
           o == y.off[i]
           k == Carry(y, i)
<1>1. /\ o \in Nat /\ b \in Nat /\ o + 6 <= b /\ k \in {0, 1}
      /\ Good(y.type, m) /\ Laid(y.wire, y.type, m, l) /\ l.begin = o /\ l.end = y.off[i + 1]
      /\ i + 1 \in 1..(Len(y.msgs) + 1)
  BY MessageSpot
<1>2. Through(y, i) /\ HeadPlace(e, h, y.type, m, l, p) /\ h.nread = k + (p - o)
  BY DEF InHead
<1>3. l.begin < p /\ p < b
  BY <1>1, <1>2, HeadWithin, SMTT(30)
<1>4. ParsingHeader(h)
  BY <1>2 DEF HeadPlace, FirstPlace, RequestPlace, ResponsePlace, StartPlace, LinePlace, NamePlace,
              ColonPlace, ValuePlace, ValueEndPlace, NoValuePlace, ParsingHeader
<1>5. Advanced(e, h, c, u, g)
  BY AdvanceIs
<1> HIDE DEF g
<1>6. HeadTurned(e, c, u, y.type, m, l, q)
  <2>1. HeadPlace(e, c, y.type, m, l, p) /\ IsParser(c)
    <3> HIDE DEF c, u, m, l
    <3>1. Alike(e, h, c) /\ c.stop = h.stop /\ IsParser(c)
      BY <1>5 DEF Advanced
    <3> QED BY <1>2, <3>1, HeadAlike
  <2>2. e => Len(m.body) <= 1
    OBVIOUS
  <2> HIDE DEF c, m, l
  <2> QED BY <1>1, <2>1, <2>2, HeadTurn
<1> HIDE DEF c, u, m, l, o, k, b
<1>7. c.nread = k + (q - o) /\ o < q /\ q <= b
  <2>1. c.nread = h.nread + 1
    BY <1>4, <1>5 DEF Advanced
  <2> QED BY <1>1, <1>2, <1>3, <2>1
<1>8. q \in Nat
  OBVIOUS
<1> HIDE DEF q
<1>9. ASSUME Overflow(c) PROVE Blame(y, q)
  <2>1. Carry(y, i) + (q - y.off[i]) > HTTP_MAX_HEADER_SIZE
    BY <1>7, <1>9 DEF Overflow, k, o
  <2>2. y.off[i] < q /\ q <= BodyAt(y.msgs[i], y.at[i])
    BY <1>7 DEF o, b, m, l
  <2> QED BY <1>8, <2>1, <2>2, TooLong
<1>10. CASE g.error = TRUE /\ Overflow(c)
  BY <1>9, <1>10 DEF g, t, q
<1>11. CASE Alike(e, u, g) /\ g.stop = u.stop /\ g.complete = u.complete /\ g.nread = u.nread
  <2>1. CASE u.error = TRUE /\ Overflow(c)
    <3>1. g.error = TRUE
      BY <1>11, <2>1 DEF Alike
    <3> QED BY <1>9, <2>1, <3>1 DEF g, t, q
  <2>2. CASE HeadPlace(e, u, y.type, m, l, q) /\ u.nread = c.nread
    <3>1. HeadPlace(e, g, y.type, m, l, q)
      BY <1>11, <2>2, HeadAlike
    <3>2. g.error = FALSE
      BY <3>1 DEF HeadPlace, FirstPlace, StartPlace, LinePlace, Live
    <3>3. InHead(e, g, y, q, i)
      BY <1>2, <1>7, <1>11, <2>2, <3>1 DEF InHead, m, l, k, o
    <3> QED BY <3>2, <3>3 DEF Reached, g, t, q
  <2>3. CASE /\ q = b /\ u.nread = 0
             /\ BodyPlace(e, u, y.type, m, l, q) \/ (HasNoBody(m) /\ OverPlace(e, u, y.type, m, l, q))
    <3>1. /\ u.error = FALSE /\ u.state \notin {"field", "value"}
      <4>1. CASE BodyPlace(e, u, y.type, m, l, q)
        BY <4>1 DEF BodyPlace, Live, LengthPlace, EofPlace, ChunkPlace
      <4>2. CASE OverPlace(e, u, y.type, m, l, q)
        BY <4>2 DEF OverPlace
      <4> QED BY <2>3, <4>1, <4>2
    <3>2. CASE Overflow(c)
      <4>1. h.state \notin {"field", "value"}
        BY <1>5, <3>1, <3>2 DEF Advanced
      <4>2. g.error = TRUE
        BY <1>5, <3>2, <4>1 DEF Advanced
      <4> QED BY <1>9, <3>2, <4>2 DEF g, t, q
    <3>3. CASE ~Overflow(c)
      <4>1. Fits(y, i)
        <5>1. k + (b - o) <= HTTP_MAX_HEADER_SIZE
          BY <1>1, <1>7, <2>3, <3>3, HeaderSizeIsPositive DEF Overflow
        <5> QED BY <5>1 DEF Fits, k, b, o, m, l
      <4>2. CASE BodyPlace(e, u, y.type, m, l, q)
        <5>1. BodyPlace(e, g, y.type, m, l, q)
          BY <1>11, <4>2, BodyAlike
        <5>2. g.error = FALSE
          BY <5>1 DEF BodyPlace, Live
        <5>3. g.state # "chunk_size"
          <6>1. SUFFICES ASSUME g.state = "chunk_size" PROVE FALSE
            OBVIOUS
          <6>2. PICK j \in 1..(Len(m.body) + 1) : ChunkPlace(e, g, y.type, m, l, q, j)
            BY <5>1, <6>1 DEF BodyPlace, LengthPlace, EofPlace
          <6>3. q = l.chunk[j] + 1 /\ m.coding = "chunked"
            BY <6>1, <6>2 DEF ChunkPlace
          <6>4. l.chunk[j] \in Nat /\ b <= l.chunk[j]
            BY <1>1, <6>3, ChunksWithin DEF b
          <6> DEFINE z == l.chunk[j]
          <6> HIDE DEF z
          <6>5. q = z + 1 /\ z \in Nat /\ b <= z
            BY <6>3, <6>4 DEF z
          <6> QED BY <1>1, <2>3, <6>5
        <5>4. InBody(e, g, y, q, i)
          BY <1>2, <1>11, <2>3, <4>1, <5>1, <5>3 DEF InBody, m, l
        <5> QED BY <5>2, <5>4 DEF Reached, g, t, q
      <4>3. CASE HasNoBody(m) /\ OverPlace(e, u, y.type, m, l, q)
        <5>1. OverPlace(e, g, y.type, m, l, q)
          BY <1>11, <4>3, OverAlike
        <5>2. i + 1 > 1 /\ (i + 1) - 1 = i
          OBVIOUS
        <5>3. Carry(y, i + 1) = 0
          BY <4>3, <5>2 DEF HasNoBody, Carry, m
        <5>4. Between(e, g, y, q, i + 1)
          <6> DEFINE i1 == i + 1
          <6>1. i1 > 1 /\ i1 - 1 = i /\ ~(i1 = 1)
            OBVIOUS
          <6>2. q = y.off[i1] /\ Carry(y, i1) = 0
            BY <1>1, <5>1, <5>3 DEF OverPlace
          <6> HIDE DEF i1
          <6>3. /\ g.type = y.type /\ g.error = FALSE /\ g.complete = TRUE /\ g.nread = 0
                /\ g.state = IF KeepsOpen(m) THEN "start" ELSE "dead"
                /\ e => g.mark = NoMark /\ g.headFieldTemp = <<>> /\ g.message = MessageOf(y.type, m)
            BY <1>11, <2>3, <5>1 DEF OverPlace
          <6>5. m.coding # "eof"
            BY <5>1 DEF OverPlace
          <6>4. Between(e, g, y, q, i1)
            BY <1>2, <4>1, <6>1, <6>2, <6>3, <6>5 DEF Between, m
          <6> QED BY <6>4 DEF i1
        <5>5. g.error = FALSE /\ g.complete = TRUE
          BY <5>1 DEF OverPlace
        <5> QED BY <1>1, <5>2, <5>4, <5>5 DEF Reached, g, t, q
      <4> QED BY <2>3, <4>2, <4>3
    <3> QED BY <3>2, <3>3
  <2> QED BY <1>6, <2>1, <2>2, <2>3 DEF HeadTurned, b
<1> QED BY <1>5, <1>10, <1>11 DEF Advanced

(* In the body of message i.                                               *)
LEMMA AdvanceInBody ==
  ASSUME NEW y, Stream(y), NEW e \in BOOLEAN, NEW p \in Nat, p < Len(y.wire),
         NEW h, InLoop(h), h.error = FALSE, h.stop = FALSE,
         NEW i \in 1..Len(y.msgs), InBody(e, h, y, p, i)
  PROVE  LET g == Advance(h, y.wire[p + 1])
         IN  IF g.error THEN Blame(y, p + 1) ELSE Reached(e, g, y, p + 1)
<1> DEFINE t == y.wire[p + 1]
           c == Counted(h)
           u == Turn(c, t)
           g == Advance(h, t)
           m == y.msgs[i]
           l == y.at[i]
           q == p + 1
           b == BodyAt(m, l)
           o == y.off[i]
           k == Carry(y, i)
<1>1. /\ o \in Nat /\ b \in Nat /\ o + 6 <= b /\ k \in {0, 1}
      /\ Good(y.type, m) /\ Laid(y.wire, y.type, m, l) /\ l.end = y.off[i + 1]
      /\ i + 1 \in 1..(Len(y.msgs) + 1)
  BY MessageSpot
<1>2. /\ Through(y, i) /\ Fits(y, i) /\ BodyPlace(e, h, y.type, m, l, p)
      /\ h.nread = IF h.state = "chunk_size" THEN 1 ELSE 0
  BY DEF InBody
<1>3. p < l.end
  <2>1. CASE m.coding = "eof"
    <3>1. y.off[i + 1] = Len(y.wire)
      BY <2>1 DEF Stream
    <3> QED BY <1>1, <3>1
  <2>2. CASE m.coding # "eof"
    BY <1>1, <1>2, <2>2, BodyWithin
  <2> QED BY <2>1, <2>2
<1>5. Advanced(e, h, c, u, g)
  BY AdvanceIs
<1> HIDE DEF g
<1>6. /\ \/ /\ BodyPlace(e, u, y.type, m, l, q)
            /\ u.state = "chunk_size" <=> c.state = "chunk_start"
            /\ c.state # "field_start"
         \/ /\ OverPlace(e, u, y.type, m, l, q)
            /\ m.coding = "chunked" <=> c.state = "field_start"
      /\ u.nread = IF c.state \in {"chunk_size", "chunk_end"} THEN 0 ELSE c.nread
  <2>1. BodyPlace(e, c, y.type, m, l, p) /\ IsParser(c)
    <3> HIDE DEF c, u, m, l
    <3>1. Alike(e, h, c) /\ c.stop = h.stop /\ IsParser(c)
      BY <1>5 DEF Advanced
    <3> QED BY <1>2, <3>1, BodyAlike
  <2> HIDE DEF c, m, l
  <2> QED BY <1>1, <1>3, <2>1, BodyTurn
<1> HIDE DEF c, u, m, l, o, k, b
<1>7. h.state \in {"body", "body_eof", "chunk_start", "chunk_size", "chunk_data", "chunk_end", "field_start"}
  BY <1>2 DEF BodyPlace, LengthPlace, EofPlace, ChunkPlace
<1>8. /\ c.nread = (IF h.state = "chunk_size" THEN 2
                    ELSE IF h.state \in {"chunk_start", "field_start"} THEN 1 ELSE 0)
      /\ c.state = h.state
  BY <1>2, <1>5, <1>7 DEF Advanced, ParsingHeader
<1>9. ~Overflow(c)
  <2>1. k + (b - o) <= HTTP_MAX_HEADER_SIZE
    BY <1>2 DEF Fits, k, b, o, m, l
  <2>2. c.nread \in {0, 1, 2}
    BY <1>8
  <2> QED BY <1>1, <2>1, <2>2, HeaderSizeIsPositive DEF Overflow
<1>10. Alike(e, u, g) /\ g.stop = u.stop /\ g.complete = u.complete /\ g.nread = u.nread
  BY <1>5, <1>9 DEF Advanced
<1>11. CASE /\ BodyPlace(e, u, y.type, m, l, q)
            /\ u.state = "chunk_size" <=> c.state = "chunk_start"
            /\ c.state # "field_start"
  <2>1. BodyPlace(e, g, y.type, m, l, q)
    BY <1>10, <1>11, BodyAlike
  <2>2. g.error = FALSE
    BY <2>1 DEF BodyPlace, Live
  <2>3. g.nread = IF g.state = "chunk_size" THEN 1 ELSE 0
    BY <1>6, <1>7, <1>8, <1>10, <1>11 DEF Alike
  <2>4. InBody(e, g, y, q, i)
    BY <1>2, <2>1, <2>3 DEF InBody, m, l
  <2> QED BY <2>2, <2>4 DEF Reached, g, t, q
<1>12. CASE /\ OverPlace(e, u, y.type, m, l, q)
            /\ m.coding = "chunked" <=> c.state = "field_start"
  <2>1. OverPlace(e, g, y.type, m, l, q)
    BY <1>10, <1>12, OverAlike
  <2>2. m.coding # "chunked" => h.state \in {"body", "body_eof"}
    BY <1>2 DEF BodyPlace, LengthPlace, EofPlace, ChunkPlace
  <2> DEFINE i1 == i + 1
  <2>3. i1 > 1 /\ i1 - 1 = i /\ ~(i1 = 1)
    OBVIOUS
  <2>4. q = y.off[i1] /\ i1 \in 1..(Len(y.msgs) + 1)
    BY <1>1, <2>1 DEF OverPlace
  <2> HIDE DEF i1
  <2>5. g.nread = Carry(y, i1)
    <3>1. Carry(y, i1) = IF m.coding = "chunked" THEN 1 ELSE 0
      BY <2>3 DEF Carry, m
    <3> QED BY <1>6, <1>8, <1>10, <1>12, <2>2, <3>1
  <2>6. /\ g.type = y.type /\ g.error = FALSE /\ g.complete = TRUE /\ m.coding # "eof"
        /\ g.state = IF KeepsOpen(m) THEN "start" ELSE "dead"
        /\ e => g.mark = NoMark /\ g.headFieldTemp = <<>> /\ g.message = MessageOf(y.type, m)
    BY <2>1 DEF OverPlace
  <2>7. Between(e, g, y, q, i1)
    BY <1>2, <2>3, <2>4, <2>5, <2>6 DEF Between, m
  <2> QED BY <2>3, <2>4, <2>6, <2>7 DEF Reached, g, t, q
<1> QED BY <1>6, <1>11, <1>12

(* One more byte.                                                          *)
LEMMA AdvancePlace ==
  ASSUME NEW y, Stream(y), NEW e \in BOOLEAN, NEW p \in Nat, p < Len(y.wire),
         \A j \in 1..Len(y.msgs) : e => Len(y.msgs[j].body) <= 1,
         NEW h, InLoop(h), h.error = FALSE, h.stop = FALSE, e => h.complete = FALSE,
         Place(e, h, y, p)
  PROVE  LET g == Advance(h, y.wire[p + 1])
         IN  IF g.error THEN Blame(y, p + 1) ELSE Reached(e, g, y, p + 1)
<1>1. CASE \E i \in 1..(Len(y.msgs) + 1) : Between(e, h, y, p, i)
  BY <1>1, AdvanceBetween
<1>2. CASE \E i \in 1..Len(y.msgs) : InHead(e, h, y, p, i)
  BY <1>2, AdvanceInHead
<1>3. CASE \E i \in 1..Len(y.msgs) : InBody(e, h, y, p, i)
  BY <1>3, AdvanceInBody
<1> QED BY <1>1, <1>2, <1>3 DEF Place

------------------------------------------------------------------------------
(* Up to message i nothing is wrong: p is not behind its begin, or in it.  *)
FineUpTo(y, p, i) ==
  /\ \A j \in 1..(i - 1) : Fits(y, j)
  /\ \A j \in 1..(i - 2) : KeepsOpen(y.msgs[j])
  /\ \/ p <= y.off[i]
     \/ /\ i <= Len(y.msgs) /\ p <= y.off[i + 1]
        /\ i > 1 => KeepsOpen(y.msgs[i - 1])
        /\ Fits(y, i) \/ Carry(y, i) + (p - y.off[i]) <= HTTP_MAX_HEADER_SIZE

LEMMA FineNotBlamed ==
  ASSUME NEW y, Stream(y), NEW p \in Nat, NEW i \in 1..(Len(y.msgs) + 1), FineUpTo(y, p, i)
  PROVE  ~Blame(y, p)
<1> SUFFICES ASSUME Blame(y, p) PROVE FALSE
  OBVIOUS
<1>1. PICK k \in 1..Len(y.msgs) :
        \/ ~Fits(y, k) /\ Carry(y, k) + (p - y.off[k]) > HTTP_MAX_HEADER_SIZE
        \/ k > 1 /\ ~KeepsOpen(y.msgs[k - 1]) /\ p > y.off[k]
  BY DEF Blame
<1>2. FineUpTo(y, p, i)
  OBVIOUS
<1>3. /\ Len(y.msgs) \in Nat /\ k \in 1..(Len(y.msgs) + 1) /\ y.off[k] \in Nat /\ y.off[i] \in Nat
      /\ i <= k => y.off[i] <= y.off[k]
      /\ i < k => i + 1 \in 1..(Len(y.msgs) + 1) /\ y.off[i + 1] <= y.off[k] /\ y.off[i + 1] \in Nat
  <2> DEFINE n == Len(y.msgs)
             f == y.off
  <2>1. n \in Nat /\ (\A j \in 1..(n + 1) : f[j] \in Nat)
        /\ \A j, l \in 1..(n + 1) : j <= l => f[j] <= f[l]
    BY ZenonT(40) DEF Stream
  <2>2. i \in 1..(n + 1) /\ k \in 1..n
    OBVIOUS
  <2> HIDE DEF n, f
  <2>3. /\ n \in Nat /\ k \in 1..(n + 1) /\ f[k] \in Nat /\ f[i] \in Nat
        /\ i <= k => f[i] <= f[k]
        /\ i < k => i + 1 \in 1..(n + 1) /\ f[i + 1] <= f[k] /\ f[i + 1] \in Nat
    <3>1. k \in 1..(n + 1) /\ i <= n + 1 /\ (i < k => i + 1 \in 1..(n + 1) /\ i + 1 <= k)
      BY ONLY <2>1, <2>2
    <3> QED BY ONLY <2>1, <2>2, <3>1
  <2> QED BY ONLY <2>3 DEF n, f
<1>4. Carry(y, k) \in {0, 1} /\ HTTP_MAX_HEADER_SIZE \in Nat \ {0}
  BY MessageSpot, HeaderSizeIsPositive
<1>5. ~(p <= y.off[k])
  <2> SUFFICES ASSUME p <= y.off[k] PROVE FALSE
    OBVIOUS
  <2> DEFINE o == y.off[k]
             c == Carry(y, k)
             z == HTTP_MAX_HEADER_SIZE
  <2>1. o \in Nat /\ c \in {0, 1} /\ z \in Nat \ {0} /\ p <= o
        /\ (c + (p - o) > z \/ p > o)
    BY <1>1, <1>3, <1>4
  <2> HIDE DEF o, c, z
  <2> QED BY ONLY <2>1, p \in Nat
<1>6. CASE k < i
  <2>1. k \in 1..(i - 1) /\ (k > 1 => k - 1 \in 1..(i - 2))
    BY <1>6, <1>3
  <2> QED BY <1>1, <1>2, <2>1 DEF FineUpTo
<1>7. CASE k = i
  <2> DEFINE s == Carry(y, k) + (p - y.off[k])
             z == HTTP_MAX_HEADER_SIZE
  <2>1. /\ k > 1 => KeepsOpen(y.msgs[k - 1])
        /\ Fits(y, k) \/ s <= z
    BY <1>2, <1>5, <1>7 DEF FineUpTo
  <2>2. ~Fits(y, k) /\ s > z
    BY <1>1, <2>1
  <2>3. s \in Int /\ z \in Nat
    BY <1>3, <1>4
  <2> HIDE DEF s, z
  <2> QED BY <2>1, <2>2, <2>3
<1>8. CASE i < k
  <2> DEFINE o == y.off[k]
             a == y.off[i]
             b == y.off[i + 1]
  <2>1. o \in Nat /\ a \in Nat /\ b \in Nat /\ a <= o /\ b <= o /\ (p <= a \/ p <= b) /\ ~(p <= o)
    BY <1>2, <1>3, <1>5, <1>8 DEF FineUpTo
  <2> HIDE DEF o, a, b
  <2> QED BY ONLY <2>1, p \in Nat
<1> QED BY <1>3, <1>6, <1>7, <1>8

------------------------------------------------------------------------------
(* A message is complete only where it ends.                               *)
LEMMA CompleteAt ==
  ASSUME NEW y, Stream(y), NEW h, NEW p \in Nat, Place(TRUE, h, y, p), h.complete # FALSE
  PROVE  \E i \in 1..(Len(y.msgs) + 1) : i > 1 /\ Between(TRUE, h, y, p, i)
<1>1. ASSUME NEW i \in 1..(Len(y.msgs) + 1), Between(TRUE, h, y, p, i) PROVE i > 1
  BY <1>1 DEF Between, Ready, Unended
<1>2. ASSUME NEW i \in 1..Len(y.msgs), InHead(TRUE, h, y, p, i) PROVE FALSE
  <2> DEFINE m == y.msgs[i]
             l == y.at[i]
  <2>1. HeadPlace(TRUE, h, y.type, m, l, p)
    BY <1>2 DEF InHead
  <2> HIDE DEF m, l
  <2>2. CASE FirstPlace(TRUE, h, y.type, m, l, p)
    BY <2>2 DEF FirstPlace, RequestPlace, ResponsePlace, Ready, Unended
  <2>3. CASE StartPlace(TRUE, h, y.type, m, l, p)
    BY <2>3 DEF StartPlace, HeadExact, Unended
  <2>4. ASSUME NEW j, LinePlace(TRUE, h, y.type, m, l, p, j) PROVE FALSE
    <3>1. CASE NamePlace(TRUE, h, y.type, m, l, p, j)
      BY <3>1 DEF NamePlace, HeadExact, Unended
    <3>2. CASE ColonPlace(TRUE, h, y.type, m, l, p, j)
      BY <3>2 DEF ColonPlace, HeadExact, Unended
    <3>3. CASE ValuePlace(TRUE, h, y.type, m, l, p, j)
      BY <3>3 DEF ValuePlace, HeadExact, Unended
    <3>4. CASE ValueEndPlace(TRUE, h, y.type, m, l, p, j)
      BY <3>4 DEF ValueEndPlace, HeadExact, Unended
    <3>5. CASE NoValuePlace(TRUE, h, y.type, m, l, p, j)
      BY <3>5 DEF NoValuePlace, HeadExact, Unended
    <3> QED BY <2>4, <3>1, <3>2, <3>3, <3>4, <3>5 DEF LinePlace
  <2> QED BY <2>1, <2>2, <2>3, <2>4 DEF HeadPlace
<1>3. ASSUME NEW i \in 1..Len(y.msgs), InBody(TRUE, h, y, p, i) PROVE FALSE
  BY <1>3 DEF InBody, BodyPlace, BodyExact, Unended
<1> QED BY <1>1, <1>2, <1>3 DEF Place

(* A place does not look at what a callback or the end of a call changes.  *)
LEMMA PlaceAlike ==
  ASSUME NEW y, NEW e \in BOOLEAN, NEW h, NEW g, Alike(e, h, g), g.nread = h.nread, g.stop = FALSE,
         NEW p, Place(e, h, y, p)
  PROVE  Place(e, g, y, p)
<1>1. ASSUME NEW i \in 1..(Len(y.msgs) + 1), Between(e, h, y, p, i) PROVE Between(e, g, y, p, i)
  <2>1. e => (Ready(h, y.type) => Ready(g, y.type))
    BY DEF Ready, Unended, Alike
  <2> QED BY <1>1, <2>1 DEF Between, Alike
<1>2. ASSUME NEW i \in 1..Len(y.msgs), InHead(e, h, y, p, i) PROVE InHead(e, g, y, p, i)
  <2> DEFINE m == y.msgs[i]
             l == y.at[i]
  <2>1. HeadPlace(e, h, y.type, m, l, p)
    BY <1>2 DEF InHead
  <2> HIDE DEF m, l
  <2>2. h.stop = FALSE
    BY <2>1 DEF HeadPlace, FirstPlace, StartPlace, LinePlace, Live
  <2>3. HeadPlace(e, g, y.type, m, l, p)
    BY <2>1, <2>2, HeadAlike
  <2> QED BY <1>2, <2>3 DEF InHead, m, l
<1>3. ASSUME NEW i \in 1..Len(y.msgs), InBody(e, h, y, p, i) PROVE InBody(e, g, y, p, i)
  <2> DEFINE m == y.msgs[i]
             l == y.at[i]
  <2>1. BodyPlace(e, h, y.type, m, l, p)
    BY <1>3 DEF InBody
  <2> HIDE DEF m, l
  <2>2. h.stop = FALSE
    BY <2>1 DEF BodyPlace, Live
  <2>3. BodyPlace(e, g, y.type, m, l, p)
    BY <2>1, <2>2, BodyAlike
  <2>4. g.state = h.state
    BY DEF Alike
  <2> QED BY <1>3, <2>3, <2>4 DEF InBody, m, l
<1> QED BY <1>1, <1>2, <1>3 DEF Place

(* Inside a message the parser is in none of the states between messages.  *)
LEMMA InsideState ==
  ASSUME NEW y, NEW e \in BOOLEAN, NEW h, NEW p, NEW i, InHead(e, h, y, p, i) \/ InBody(e, h, y, p, i)
  PROVE  h.state \notin {"start", "dead"} /\ h.stop = FALSE /\ h.error = FALSE
<1> DEFINE m == y.msgs[i]
           l == y.at[i]
<1>1. HeadPlace(e, h, y.type, m, l, p) \/ BodyPlace(e, h, y.type, m, l, p)
  BY DEF InHead, InBody
<1> HIDE DEF m, l
<1>2. CASE HeadPlace(e, h, y.type, m, l, p)
  BY <1>2 DEF HeadPlace, FirstPlace, RequestPlace, ResponsePlace, StartPlace, LinePlace, NamePlace,
              ColonPlace, ValuePlace, ValueEndPlace, NoValuePlace, Live
<1>3. CASE BodyPlace(e, h, y.type, m, l, p)
  BY <1>3 DEF BodyPlace, LengthPlace, EofPlace, ChunkPlace, Live
<1> QED BY <1>1, <1>2, <1>3

(* The messages that have ended in a call from c up to p.                  *)
EndsIn(y, c, p) == \E i \in 1..(Len(y.msgs) + 1) : i > 1 /\ c < y.off[i] /\ y.off[i] <= p

(* The loop after k bytes of a call that starts at c.                      *)
Running(e, y, c, k, b) ==
  /\ InLoop(b)
  /\ b.error => Blame(y, c + k)
  /\ ~b.error =>
       /\ b.used <= k /\ (k >= 1 => b.used >= 1) /\ (~b.stop => b.used = k)
       /\ Place(e, b, y, c + b.used)
       /\ k >= 1 => Reached(e, b, y, c + b.used)
       /\ b.complete => EndsIn(y, c, c + b.used)

(* With e no message ends strictly between c and d, and none is in chunks  *)
(* of which there are two.                                                 *)
Undivided(e, y, c, d) ==
  e => /\ \A j \in 1..Len(y.msgs) : Len(y.msgs[j].body) <= 1
       /\ \A i \in 1..(Len(y.msgs) + 1) : ~(c < y.off[i] /\ y.off[i] < d)

LEMMA RunningOn ==
  ASSUME NEW y, Stream(y), NEW e \in BOOLEAN, NEW c \in Nat, NEW d \in Nat, d <= Len(y.wire),
         Undivided(e, y, c, d), NEW k \in Nat, c + k < d,
         NEW a, Running(e, y, c, k, a), k = 0 => a.stop = FALSE /\ (e => a.complete = FALSE)
  PROVE  Running(e, y, c, k + 1, Advance(a, y.wire[(c + k) + 1]))
<1> DEFINE t == y.wire[(c + k) + 1]
           b == Advance(a, t)
<1>1. /\ InLoop(b)
      /\ b.error \/ b.stop \/ b.used = a.used + 1
      /\ a.error \/ a.stop => b = a
      /\ b.complete => a.complete \/ b.error \/ b.state \in {"start", "dead"}
  BY AdvanceLoop DEF Running
<1>2. /\ {a.error, a.stop, a.complete} \subseteq BOOLEAN /\ a.used \in Nat
      /\ {b.error, b.stop} \subseteq BOOLEAN /\ b.used \in Nat /\ InLoop(a)
  BY <1>1 DEF Running, InLoop, IsParser
<1>3. c + k \in Nat /\ c + (k + 1) \in Nat /\ c + k <= c + (k + 1) /\ (c + k) + 1 = c + (k + 1)
      /\ Len(y.wire) \in Nat /\ c + k < Len(y.wire)
  <2>1. Len(y.wire) \in Nat
    BY LenProperties DEF Stream
  <2> DEFINE w == Len(y.wire)
  <2>2. w \in Nat /\ d <= w
    BY <2>1
  <2> HIDE DEF w
  <2>3. c + k < w
    BY <2>2
  <2> QED BY <2>1, <2>3 DEF w
<1> HIDE DEF b
<1>4. CASE a.error
  <2>1. Blame(y, c + (k + 1))
    BY <1>3, <1>4, BlameStays DEF Running
  <2> QED BY <1>1, <1>4, <2>1 DEF Running, b, t
<1>5. CASE ~a.error /\ a.stop
  <2>1. b = a
    BY <1>1, <1>5
  <2>2. a.used >= 1 /\ a.used <= k /\ k >= 1
    <3>1. k # 0
      BY <1>5
    <3> QED BY <1>5, <3>1 DEF Running
  <2>3. /\ Place(e, a, y, c + a.used) /\ Reached(e, a, y, c + a.used)
        /\ a.complete => EndsIn(y, c, c + a.used)
    BY <1>5, <2>2 DEF Running
  <2> QED BY <1>1, <1>2, <1>5, <2>1, <2>2, <2>3 DEF Running, b, t
<1>6. CASE ~a.error /\ ~a.stop
  <2>1. a.error = FALSE /\ a.stop = FALSE /\ a.used = k /\ Place(e, a, y, c + k)
    BY <1>2, <1>6 DEF Running
  <2>2. e => a.complete = FALSE
    <3> SUFFICES ASSUME e = TRUE, a.complete # FALSE, k # 0 PROVE FALSE
      BY <1>2
    <3>1. PICK i \in 1..(Len(y.msgs) + 1) : Between(TRUE, a, y, c + k, i)
      BY <1>3, <2>1, CompleteAt
    <3>2. y.off[i] = c + k
      BY <3>1 DEF Between
    <3>3. c < y.off[i] /\ y.off[i] < d
      BY <3>2
    <3> QED BY <3>3 DEF Undivided
  <2>3. IF b.error THEN Blame(y, (c + k) + 1) ELSE Reached(e, b, y, (c + k) + 1)
    <3>1. \A j \in 1..Len(y.msgs) : e => Len(y.msgs[j].body) <= 1
      BY DEF Undivided
    <3> QED BY <1>2, <1>3, <2>1, <2>2, <3>1, AdvancePlace DEF b, t
  <2>4. b.error = FALSE => b.used = k + 1
    <3> SUFFICES ASSUME b.error = FALSE PROVE b.used = k + 1
      OBVIOUS
    <3> DEFINE q == Counted(a)
               u == Turn(q, t)
    <3>1. b = [u EXCEPT !.used = @ + 1] \/ b = Fail(q)
      BY <2>1 DEF Advance, b
    <3>2. IsParser(q) /\ Pending(q) /\ q.error = FALSE /\ q.stop = FALSE /\ q.used = k
      BY <1>2, <2>1 DEF InLoop, Counted, IsParser, Pending, Fields
    <3> HIDE DEF q
    <3>3. IsParser(u) /\ u.used = k
      BY <3>2, TurnTurned DEF Turned
    <3> HIDE DEF u
    <3> QED BY <3>1, <3>2, <3>3 DEF Fail, IsParser, Fields
  <2>5. b.error = FALSE => Reached(e, b, y, c + b.used)
    BY <1>2, <1>3, <2>3, <2>4
  <2>7. b.error = FALSE => Place(e, b, y, c + b.used)
    BY <2>5 DEF Reached, Place
  <2>8. b.error = FALSE /\ b.complete => EndsIn(y, c, c + b.used)
    <3> SUFFICES ASSUME b.error = FALSE, b.complete PROVE EndsIn(y, c, c + b.used)
      OBVIOUS
    <3>1. c + b.used = c + (k + 1) /\ Reached(e, b, y, c + b.used)
      BY <2>4, <2>5
    <3>2. CASE a.complete
      <4>1. PICK i \in 1..(Len(y.msgs) + 1) : i > 1 /\ c < y.off[i] /\ y.off[i] <= c + k
        BY <1>6, <2>1, <3>2 DEF Running, EndsIn
      <4>2. y.off[i] \in Nat
        BY DEF Stream
      <4> DEFINE o == y.off[i]
      <4> HIDE DEF o
      <4>3. o \in Nat /\ c < o /\ o <= c + k
        BY <4>1, <4>2 DEF o
      <4>4. o <= c + (k + 1)
        BY ONLY <4>3, c \in Nat, k \in Nat
      <4> QED BY <3>1, <4>1, <4>4 DEF EndsIn, o
    <3>3. CASE b.state \in {"start", "dead"}
      <4>1. PICK i \in 1..(Len(y.msgs) + 1) : i > 1 /\ Between(e, b, y, c + b.used, i)
        BY <3>1, <3>3, InsideState DEF Reached
      <4>2. y.off[i] = c + (k + 1)
        BY <3>1, <4>1 DEF Between
      <4>3. c < c + (k + 1) /\ c + (k + 1) <= c + (k + 1)
        OBVIOUS
      <4> QED BY <3>1, <4>1, <4>2, <4>3 DEF EndsIn
    <3> QED BY <1>1, <3>2, <3>3
  <2>6. b.error = TRUE => Blame(y, c + (k + 1))
    BY <1>3, <2>3
  <2> QED BY <1>1, <1>2, <2>4, <2>5, <2>6, <2>7, <2>8 DEF Running, b, t
<1> QED BY <1>4, <1>5, <1>6

------------------------------------------------------------------------------
LEMMA LoopPlaces ==
  ASSUME NEW y, Stream(y), NEW e \in BOOLEAN, NEW c \in Nat, NEW d \in Nat, c < d, d <= Len(y.wire),
         Undivided(e, y, c, d), NEW h, InLoop(h), h.used = 0, h.error = FALSE, h.stop = FALSE,
         h.complete = FALSE, Place(e, h, y, c)
  PROVE  Running(e, y, c, d - c, FoldLeft(Advance, h, SubSeq(y.wire, c + 1, d)))
<1> DEFINE w == y.wire
           bytes == SubSeq(w, c + 1, d)
           n == d - c
<1>1. /\ n \in Nat /\ bytes \in Seq(Piece) /\ Len(bytes) = n
      /\ \A k \in 1..n : bytes[k] = w[c + k]
  <2>0. w \in Seq(Piece)
    BY DEF Stream
  <2>1. c + 1 \in 1..(Len(w) + 1) /\ d \in 0..Len(w) /\ Len(w) \in Nat
    BY <2>0, LenProperties
  <2>2. bytes \in Seq(Piece) /\ Len(bytes) = (IF c + 1 <= d THEN d - (c + 1) + 1 ELSE 0)
        /\ \A k \in 1..(d - (c + 1) + 1) : bytes[k] = w[(c + 1) + k - 1]
    BY <2>0, <2>1, SubSeqProperties
  <2>3. d - (c + 1) + 1 = n /\ c + 1 <= d
    OBVIOUS
  <2> HIDE DEF bytes
  <2>4. \A k \in 1..n : (c + 1) + k - 1 = c + k
    OBVIOUS
  <2> QED BY <2>2, <2>3, <2>4
<1> HIDE DEF bytes
<1>2. PICK run : IsRun(run, h, bytes)
  BY <1>1, RunExists
<1> DEFINE T == {k \in Nat : k <= n => Running(e, y, c, k, run[k])}
<1>3. 0 \in T
  <2>1. run[0] = h /\ c + 0 = c
    BY <1>2 DEF IsRun
  <2>2. Running(e, y, c, 0, h)
    BY <2>1 DEF Running
  <2> QED BY <2>1, <2>2
<1>4. ASSUME NEW k \in Nat, k \in T PROVE k + 1 \in T
  <2>1. ASSUME k + 1 <= n PROVE Running(e, y, c, k + 1, run[k + 1])
    <3>1. k \in 0..(n - 1) /\ k <= n /\ k + 1 \in 1..n /\ c + k < d
      BY <1>1, <2>1
    <3>2. run[k + 1] = Advance(run[k], w[(c + k) + 1])
      <4> HIDE DEF w
      <4>1. bytes[k + 1] = w[c + (k + 1)]
        BY <1>1, <3>1
      <4>2. c + (k + 1) = (c + k) + 1
        OBVIOUS
      <4> QED BY <1>1, <1>2, <3>1, <4>1, <4>2 DEF IsRun
    <3>3. Running(e, y, c, k, run[k])
      BY <1>4, <3>1
    <3>4. k = 0 => run[k] = h
      BY <1>2 DEF IsRun
    <3>5. k = 0 => run[k].stop = FALSE /\ (e => run[k].complete = FALSE)
      BY <3>4
    <3> DEFINE a == run[k]
    <3> HIDE DEF a
    <3>6. Running(e, y, c, k + 1, Advance(a, y.wire[(c + k) + 1]))
      BY <3>1, <3>3, <3>5, RunningOn DEF a
    <3> QED BY <3>2, <3>6 DEF a
  <2> QED BY <2>1
<1> HIDE DEF T
<1>5. Nat \subseteq T
  BY <1>3, <1>4, NatSetInduction
<1>6. Running(e, y, c, n, run[n])
  BY <1>1, <1>5 DEF T
<1>7. run[n] = FoldLeft(Advance, h, bytes)
  BY <1>1, <1>2 DEF IsRun
<1> QED BY <1>6, <1>7 DEF bytes

(* A count over the limit is that of a head that does not fit.             *)
LEMMA OverflowBlamed ==
  ASSUME NEW y, Stream(y), NEW e \in BOOLEAN, NEW p \in Nat, NEW h, Place(e, h, y, p), Overflow(h)
  PROVE  Blame(y, p)
<1> DEFINE z == HTTP_MAX_HEADER_SIZE
<1>1. z \in Nat \ {0} /\ h.nread > z
  BY HeaderSizeIsPositive DEF Overflow
<1> HIDE DEF z
<1>2. h.nread \notin {0, 1}
  BY <1>1
<1>3. ASSUME NEW i \in 1..(Len(y.msgs) + 1), Between(e, h, y, p, i) PROVE FALSE
  BY <1>2, <1>3 DEF Between, Carry
<1>4. ASSUME NEW i \in 1..Len(y.msgs), InBody(e, h, y, p, i) PROVE FALSE
  BY <1>2, <1>4 DEF InBody
<1>5. ASSUME NEW i \in 1..Len(y.msgs), InHead(e, h, y, p, i) PROVE Blame(y, p)
  <2> DEFINE m == y.msgs[i]
             l == y.at[i]
  <2>1. /\ Good(y.type, m) /\ Laid(y.wire, y.type, m, l) /\ l.begin = y.off[i]
        /\ BodyAt(m, l) \in Nat /\ y.off[i] \in Nat
    BY MessageSpot
  <2>2. HeadPlace(e, h, y.type, m, l, p) /\ h.nread = Carry(y, i) + (p - y.off[i])
    BY <1>5 DEF InHead
  <2> HIDE DEF m, l
  <2>3. l.begin < p /\ p < BodyAt(m, l)
    BY <2>1, <2>2, HeadWithin
  <2>4. y.off[i] < p /\ p <= BodyAt(m, l)
    BY <2>1, <2>3
  <2>5. Carry(y, i) + (p - y.off[i]) > HTTP_MAX_HEADER_SIZE
    BY <1>1, <2>2 DEF z
  <2> QED BY <2>4, <2>5, TooLong DEF m, l
<1> QED BY <1>3, <1>4, <1>5 DEF Place

------------------------------------------------------------------------------
PartsOf(type, m) == IF type = "request" THEN RequestParts(m) ELSE ResponseParts(m)
HeadOf(type, m)  == IF type = "request" THEN RequestHead(m) ELSE ResponseHead(m)

LEMMA PartsAreParts ==
  ASSUME NEW type, NEW m, Good(type, m)
  PROVE  PartsOf(type, m) \in Seq(Part) /\ HeadOf(type, m) \in Seq(Part)
<1>1. HeadEnd(m) \in Seq(Part) /\ BodyParts(m) \in Seq(Part)
  BY HeadEndParts, BodyPartsParts DEF Good, GoodFirst
<1>2. CASE type = "request"
  <2> DEFINE first == <<Plain(<<m.method, "sp">>), Name(m.url), Plain(<<"sp", m.version, "crlf">>)>>
  <2>1. /\ <<m.method, "sp">> \in Seq(Piece) /\ <<"sp", m.version, "crlf">> \in Seq(Piece)
        /\ m.url \in Seq(Piece)
    BY <1>2 DEF Good, GoodFirst, Piece
  <2>2. first \in Seq(Part)
    BY <2>1 DEF Plain, Name, Part
  <2>3. /\ PartsOf(type, m) = (first \o HeadEnd(m)) \o BodyParts(m)
        /\ HeadOf(type, m) = first \o HeadEnd(m)
    BY <1>2 DEF PartsOf, RequestParts, RequestHead, HeadOf
  <2> HIDE DEF first
  <2> QED BY <1>1, <2>2, <2>3, ConcatProperties
<1>3. CASE type # "request"
  <2> DEFINE t == <<m.version, "sp", m.status, "sp", "reason", "crlf">>
             first == <<Plain(t)>>
  <2>1. t \in Seq(Piece)
    BY <1>3 DEF Good, GoodFirst, Piece
  <2>2. /\ PartsOf(type, m) = (first \o HeadEnd(m)) \o BodyParts(m)
        /\ HeadOf(type, m) = first \o HeadEnd(m)
    BY <1>3 DEF PartsOf, ResponseParts, ResponseHead, HeadOf
  <2> HIDE DEF t
  <2>3. first \in Seq(Part)
    BY <2>1, BytesPlain
  <2> HIDE DEF first
  <2> QED BY <1>1, <2>2, <2>3, ConcatProperties
<1> QED BY <1>2, <1>3

LEMMA LaidOut ==
  ASSUME NEW w \in Seq(Piece), NEW b \in Nat, NEW type, NEW m, Good(type, m),
         At(w, b, Bytes(PartsOf(type, m)))
  PROVE  \E l : /\ l.begin = b /\ l.end = b + Len(Bytes(PartsOf(type, m)))
                /\ BodyAt(m, l) = b + Len(Bytes(HeadOf(type, m)))
                /\ Laid(w, type, m, l)
<1>1. CASE type = "request"
  BY <1>1, RequestFound DEF PartsOf, HeadOf
<1>2. CASE type # "request"
  <2>1. type = "response"
    BY <1>2, SMTT(30) DEF Good
  <2> QED BY <2>1, ResponseFound DEF PartsOf, HeadOf
<1> QED BY <1>1, <1>2

(* The bytes of messages one behind the other are a stream.                *)
HasStream(type, msgs) ==
  LET pp == [i \in 1..Len(msgs) |-> PartsOf(type, msgs[i])]
  IN  /\ pp \in Seq(Seq(Part))
      /\ \E y : /\ Stream(y) /\ y.type = type /\ y.msgs = msgs /\ y.wire = Bytes(FlattenSeq(pp))
                /\ \A i \in 0..Len(msgs) : y.off[i + 1] = Len(Bytes(FlattenSeq(SubSeq(pp, 1, i))))
                /\ \A i \in 1..Len(msgs) :
                     /\ y.off[i + 1] = y.off[i] + Len(Bytes(PartsOf(type, msgs[i])))
                     /\ BodyAt(msgs[i], y.at[i]) = y.off[i] + Len(Bytes(HeadOf(type, msgs[i])))

LEMMA StreamFound ==
  ASSUME NEW type \in {"request", "response"}, NEW msgs, Len(msgs) \in Nat,
         \A i \in 1..Len(msgs) : Good(type, msgs[i]),
         \A i \in 1..Len(msgs) : msgs[i].coding = "eof" => i = Len(msgs)
  PROVE  HasStream(type, msgs)
<1> DEFINE n == Len(msgs)
           pp == [i \in 1..n |-> PartsOf(type, msgs[i])]
           w == Bytes(FlattenSeq(pp))
           off == [k \in 1..(n + 1) |-> Len(Bytes(FlattenSeq(SubSeq(pp, 1, k - 1))))]
<1>1. pp \in Seq(Seq(Part)) /\ Len(pp) = n /\ \A i \in 1..n : pp[i] = PartsOf(type, msgs[i])
  <2>1. \A i \in 1..n : PartsOf(type, msgs[i]) \in Seq(Part)
    BY PartsAreParts
  <2> QED BY <2>1
<1>2. \A i \in 0..n : off[i + 1] = Len(Bytes(FlattenSeq(SubSeq(pp, 1, i))))
  <2>1. \A i \in 0..n : i + 1 \in 1..(n + 1) /\ (i + 1) - 1 = i
    OBVIOUS
  <2> HIDE DEF n, pp
  <2> QED BY <2>1
<1> HIDE DEF pp, off
<1>3. w \in Seq(Piece)
  <2>1. 0 \in 0..Len(pp)
    BY <1>1
  <2>2. FlattenSeq(pp) \in Seq(Part)
    BY <1>1, <2>1, FlatIsSeq
  <2> HIDE DEF w
  <2>3. Bytes(FlattenSeq(pp)) \in Seq(Piece)
    BY <2>2, BytesBehind
  <2> QED BY <2>3 DEF w
<1>4. Len(w) \in Nat
  BY <1>3, LenProperties
<1> HIDE DEF w
<1>5. /\ off[1] = 0 /\ off[n + 1] = Len(w)
      /\ \A j \in 1..n :
           /\ off[j] \in Nat
           /\ off[j + 1] = off[j] + Len(Bytes(pp[j]))
           /\ At(w, off[j], Bytes(pp[j]))
  <2>1. At(w, 0, w)
    BY <1>4 DEF At
  <2>2. At(w, 0, Bytes(FlattenSeq(pp)))
    BY <2>1 DEF w
  <2>3. \A i \in 0..Len(pp) : off[i + 1] = 0 + Len(Bytes(FlattenSeq(SubSeq(pp, 1, i))))
    <3>1. ASSUME NEW i \in 0..n PROVE off[i + 1] = 0 + Len(Bytes(FlattenSeq(SubSeq(pp, 1, i))))
      <4>1. i \in 0..Len(pp)
        BY <1>1
      <4>2. FlattenSeq(SubSeq(pp, 1, i)) \in Seq(Part)
        BY <1>1, <4>1, FlatIsSeq
      <4>3. Bytes(FlattenSeq(SubSeq(pp, 1, i))) \in Seq(Piece)
        BY <4>2, BytesBehind
      <4> DEFINE z == Len(Bytes(FlattenSeq(SubSeq(pp, 1, i))))
      <4>4. z \in Nat /\ off[i + 1] = z
        BY <1>2, <4>3, LenProperties
      <4> HIDE DEF z
      <4>5. off[i + 1] = 0 + z
        BY <4>4
      <4> QED BY <4>5 DEF z
    <3> QED BY <1>1, <3>1
  <2>4. /\ off[1] = 0 /\ off[Len(pp) + 1] = 0 + Len(Bytes(FlattenSeq(pp)))
        /\ \A j \in 1..Len(pp) :
             /\ off[j] \in Nat
             /\ off[j + 1] = off[j] + Len(Bytes(pp[j]))
             /\ off[j + 1] <= off[Len(pp) + 1]
             /\ At(w, off[j], Bytes(pp[j]))
    BY <1>1, <1>3, <2>2, <2>3, PartsPlaces
  <2>5. off[n + 1] = Len(w)
    BY <1>1, <1>4, <2>4 DEF w
  <2> QED BY <1>1, <2>4, <2>5
<1>6. ASSUME NEW j \in 1..n
      PROVE  /\ Len(Bytes(pp[j])) \in Nat
             /\ \E l : /\ l.begin = off[j] /\ l.end = off[j + 1]
                       /\ BodyAt(msgs[j], l) = off[j] + Len(Bytes(HeadOf(type, msgs[j])))
                       /\ Laid(w, type, msgs[j], l)
  <2>1. Bytes(pp[j]) \in Seq(Piece)
    <3>1. pp[j] \in Seq(Part)
      BY <1>1, PartsAreParts
    <3> QED BY <3>1, BytesBehind
  <2>2. Len(Bytes(pp[j])) \in Nat
    BY <2>1, LenProperties
  <2>3. /\ off[j] \in Nat /\ pp[j] = PartsOf(type, msgs[j]) /\ Good(type, msgs[j])
        /\ At(w, off[j], Bytes(PartsOf(type, msgs[j])))
        /\ off[j + 1] = off[j] + Len(Bytes(PartsOf(type, msgs[j])))
    BY <1>1, <1>5
  <2>4. \E l : /\ l.begin = off[j] /\ l.end = off[j] + Len(Bytes(PartsOf(type, msgs[j])))
               /\ BodyAt(msgs[j], l) = off[j] + Len(Bytes(HeadOf(type, msgs[j])))
               /\ Laid(w, type, msgs[j], l)
    BY <1>3, <2>3, LaidOut
  <2> QED BY <2>2, <2>3, <2>4
<1> DEFINE Lay(j, l) == /\ l.begin = off[j] /\ l.end = off[j + 1]
                        /\ BodyAt(msgs[j], l) = off[j] + Len(Bytes(HeadOf(type, msgs[j])))
                        /\ Laid(w, type, msgs[j], l)
           at == [j \in 1..n |-> CHOOSE l : Lay(j, l)]
           y == [type |-> type, wire |-> w, msgs |-> msgs, off |-> off, at |-> at]
<1>7. ASSUME NEW j \in 1..n PROVE Lay(j, at[j])
  <2>1. \E l : Lay(j, l)
    BY <1>6
  <2> HIDE DEF Lay
  <2> QED BY <2>1
<1>8. y.type = type /\ y.wire = w /\ y.msgs = msgs /\ y.off = off /\ y.at = at
  OBVIOUS
<1> HIDE DEF at, y
<1>9. \A i \in 1..(n + 1) : off[i] \in Nat
  <2>1. \A i \in 1..(n + 1) : i \in 1..n \/ i = n + 1
    OBVIOUS
  <2> HIDE DEF n
  <2> QED BY <1>4, <1>5, <2>1
<1>10. ASSUME NEW i \in 1..(n + 1), NEW j \in 1..(n + 1), i <= j PROVE off[i] <= off[j]
  <2> DEFINE S == {k \in Nat : i + k <= n + 1 => off[i] <= off[i + k]}
  <2>1. 0 \in S
    <3>1. i + 0 = i /\ off[i] \in Nat
      BY <1>9
    <3> QED BY <3>1
  <2>2. ASSUME NEW k \in Nat, k \in S PROVE k + 1 \in S
    <3>1. ASSUME i + (k + 1) <= n + 1 PROVE off[i] <= off[i + (k + 1)]
      <4> DEFINE q == i + k
      <4>1. q \in 1..n /\ q + 1 = i + (k + 1) /\ i + k <= n + 1
        BY <3>1
      <4>2. off[i] <= off[q]
        BY <2>2, <4>1
      <4> HIDE DEF q
      <4> DEFINE a == off[i]
                 b == off[q]
                 c == off[q + 1]
                 s == Len(Bytes(pp[q]))
      <4>3. a \in Nat /\ b \in Nat /\ s \in Nat /\ c = b + s /\ a <= b
        BY <1>5, <1>6, <1>9, <4>1, <4>2
      <4> HIDE DEF a, b, c, s
      <4>4. a <= c
        BY <4>3
      <4> QED BY <4>1, <4>4 DEF a, c
    <3> QED BY <3>1
  <2> HIDE DEF S
  <2>3. Nat \subseteq S
    BY <2>1, <2>2, NatSetInduction
  <2> DEFINE k == j - i
  <2>4. k \in Nat /\ i + k = j /\ i + k <= n + 1
    BY <1>10
  <2> HIDE DEF k
  <2>5. k \in S
    BY <2>3, <2>4
  <2> QED BY <2>4, <2>5 DEF S
<1>11. Stream(y)
  <2>1. \A i \in 1..Len(y.msgs) :
          /\ Good(y.type, y.msgs[i]) /\ Laid(y.wire, y.type, y.msgs[i], y.at[i])
          /\ y.at[i].begin = y.off[i] /\ y.at[i].end = y.off[i + 1]
          /\ y.msgs[i].coding = "eof" => i = Len(y.msgs)
    BY <1>7, <1>8
  <2> HIDE DEF Lay
  <2> QED BY <1>3, <1>5, <1>8, <1>9, <1>10, <2>1 DEF Stream
<1>12. \A i \in 1..n : BodyAt(msgs[i], y.at[i]) = y.off[i] + Len(Bytes(HeadOf(type, msgs[i])))
  BY <1>7, <1>8
<1>13. \A i \in 1..n : y.off[i + 1] = y.off[i] + Len(Bytes(PartsOf(type, msgs[i])))
  BY <1>1, <1>5, <1>8
<1> QED BY <1>1, <1>2, <1>8, <1>11, <1>12, <1>13 DEF w, pp, HasStream

------------------------------------------------------------------------------
(* The header lines that are not the message's own are about its body.     *)
LEMMA OwnLines ==
  ASSUME NEW m, IsMessage(m), m.coding \in {"none", "eof", "length", "chunked"}
  PROVE  /\ DOMAIN m.headers = 1..Len(m.headers) /\ Len(m.headers) \in Nat
         /\ Len(m.headers) <= NL(m) /\ NL(m) \in Nat
         /\ \A j \in 1..Len(m.headers) : TheLine(m, j) = m.headers[j]
         /\ \A j \in 1..NL(m) : j > Len(m.headers) =>
              TheLine(m, j)[1] \in {ContentLength, TransferEncoding}
<1> DEFINE hs == m.headers
           L == HeaderLinesOf(m)
           k == Len(hs)
<1>1. hs \in Seq(Range(hs)) /\ k \in Nat /\ DOMAIN hs = 1..k
  BY LenProperties DEF IsMessage
<1>2. CASE m.coding \in {"none", "eof"}
  <2>1. L = hs
    <3>1. L = hs \o <<>>
      BY <1>2 DEF HeaderLinesOf
    <3> QED BY <1>1, <3>1, ConcatEmptySeq
  <2> QED BY <1>1, <2>1 DEF NL, TheLine
<1>3. CASE m.coding \in {"length", "chunked"}
  <2> DEFINE extra == IF m.coding = "length" THEN <<ContentLength, <<ToString(Len(m.body[1]))>>>>
                      ELSE <<TransferEncoding, Chunked>>
             S == Range(hs) \cup {extra}
             e == <<extra>>
  <2>1. L = hs \o e
    BY <1>3 DEF HeaderLinesOf
  <2>2. extra[1] \in {ContentLength, TransferEncoding}
    OBVIOUS
  <2> HIDE DEF extra
  <2>3. hs \in Seq(S) /\ e \in Seq(S) /\ Len(e) = 1 /\ e[1] = extra
    <3>1. Range(hs) \subseteq S
      OBVIOUS
    <3> QED BY <1>1, <3>1, SeqMonotonic
  <2> HIDE DEF e, S, L, hs
  <2>4. /\ Len(L) = k + 1
        /\ \A j \in 1..(k + 1) : L[j] = IF j <= k THEN hs[j] ELSE e[j - k]
    <3>1. /\ Len(hs \o e) = Len(hs) + Len(e)
          /\ \A j \in 1..(Len(hs) + Len(e)) : (hs \o e)[j] = IF j <= Len(hs) THEN hs[j] ELSE e[j - Len(hs)]
      BY ONLY <2>3, ConcatProperties
    <3> QED BY <2>1, <2>3, <3>1
  <2>5. \A j \in 1..k : L[j] = hs[j]
    BY <1>1, <2>4
  <2>6. \A j \in 1..(k + 1) : j > k => L[j] = extra
    <3>1. \A j \in 1..(k + 1) : j > k => j - k = 1 /\ ~(j <= k)
      BY <1>1
    <3> QED BY <2>3, <2>4, <3>1
  <2>7. Len(L) \in Nat /\ k <= Len(L)
    BY <1>1, <2>4
  <2> QED BY <1>1, <2>2, <2>4, <2>5, <2>6, <2>7 DEF L, hs, NL, TheLine
<1> QED BY <1>2, <1>3

(* What the value of a header line says, in lower case.                    *)
Says(line, token) ==
  line[1] = Connection /\ Lists([i \in DOMAIN line[2] |-> Lower(line[2][i])], <<token>>)

LEMMA SaysFlag ==
  ASSUME NEW line, line[2] \in Seq(Piece), NEW token \in {"close", "keep-alive"}
  PROVE  token \in FlagsOf(line) <=> Says(line, token)
<1> DEFINE low == [i \in DOMAIN line[2] |-> Lower(line[2][i])]
<1>1. /\ Connection # TransferEncoding /\ Connection # ContentLength /\ Connection # Upgrade
  <2>1. Len(Connection) = 1 /\ Len(Upgrade) = 2
    BY DEF Connection, Upgrade
  <2> QED BY <2>1 DEF Connection, TransferEncoding, ContentLength
<1>2. token \notin NameFlags(line) \cup ValueFlags(line)
  BY DEF NameFlags, ValueFlags
<1>3. line[2] = <<>> => ~Lists(low, <<token>>)
  <2> SUFFICES ASSUME line[2] = <<>> PROVE ~Lists(low, <<token>>)
    OBVIOUS
  <2>1. low = <<>>
    OBVIOUS
  <2> HIDE DEF low
  <2> QED BY <2>1, NothingListed
<1>4. line[1] = Connection => (token \in LineFlags(line) <=> Lists(low, <<token>>))
  <2> SUFFICES ASSUME line[1] = Connection PROVE token \in LineFlags(line) <=> Lists(low, <<token>>)
    OBVIOUS
  <2>1. LineFlags(line) = {f \in {"close", "keep-alive"} : Lists(low, <<f>>)} \cup
          (IF Lists(line[2], Upgrade) THEN {"connection_upgrade"} ELSE {})
    BY <1>1 DEF LineFlags, HeaderFlags
  <2> HIDE DEF low
  <2> QED BY <2>1
<1>5. line[1] # Connection => token \notin LineFlags(line)
  <2> SUFFICES ASSUME line[1] # Connection PROVE token \notin LineFlags(line)
    OBVIOUS
  <2>1. LineFlags(line) \subseteq {"chunked"}
    <3>1. CASE line[1] = TransferEncoding
      <4>1. LineFlags(line) = IF EndsChunked(line[2]) THEN {"chunked"} ELSE {}
        BY <1>1, <3>1 DEF LineFlags, HeaderFlags
      <4> QED BY <4>1
    <3>2. CASE line[1] # TransferEncoding
      BY <3>2 DEF LineFlags, HeaderFlags
    <3> QED BY <3>1, <3>2
  <2> QED BY <2>1
<1> HIDE DEF low
<1>6. FlagsOf(line) = NameFlags(line) \cup (IF line[2] = <<>> THEN {} ELSE ValueFlags(line) \cup LineFlags(line))
  BY DEF FlagsOf
<1>7. Says(line, token) <=> line[1] = Connection /\ Lists(low, <<token>>)
  BY DEF Says, low
<1> QED BY <1>2, <1>3, <1>4, <1>5, <1>6, <1>7

(* A message keeps the connection open unless its own headers say no.      *)
LEMMA KeepsOpenSaid ==
  ASSUME NEW m, IsMessage(m), m.coding \in {"none", "eof", "length", "chunked"}
  PROVE  KeepsOpen(m) <=> IF m.version = "HTTP/1.1"
                          THEN ~\E l \in Range(m.headers) : Says(l, "close")
                          ELSE \E l \in Range(m.headers) : Says(l, "keep-alive")
<1>1. /\ DOMAIN m.headers = 1..Len(m.headers) /\ Len(m.headers) \in Nat
      /\ Len(m.headers) <= NL(m) /\ NL(m) \in Nat
      /\ \A j \in 1..Len(m.headers) : TheLine(m, j) = m.headers[j]
      /\ \A j \in 1..NL(m) : j > Len(m.headers) =>
           TheLine(m, j)[1] \in {ContentLength, TransferEncoding}
  BY OwnLines
<1>2. \A j \in 1..NL(m) : TheLine(m, j)[2] \in Seq(Piece)
  <2>1. GoodLines(m)
    BY MessageLines
  <2> QED BY <2>1 DEF GoodLines, LineOk
<1>3. Connection \notin {ContentLength, TransferEncoding}
  BY DEF Connection, TransferEncoding, ContentLength
<1>4. ASSUME NEW token \in {"close", "keep-alive"}
      PROVE  token \in AllFlags(m) <=> \E l \in Range(m.headers) : Says(l, token)
  <2>1. token \in AllFlags(m) <=> \E j \in 1..NL(m) : token \in FlagsOf(TheLine(m, j))
    BY DEF AllFlags, FlagsUpTo
  <2>2. \A j \in 1..NL(m) : token \in FlagsOf(TheLine(m, j)) <=> Says(TheLine(m, j), token)
    BY <1>2, SaysFlag
  <2>3. ASSUME NEW j \in 1..NL(m), Says(TheLine(m, j), token)
        PROVE  \E l \in Range(m.headers) : Says(l, token)
    <3>1. j \in 1..Len(m.headers)
      <4> DEFINE k == Len(m.headers)
                 n == NL(m)
      <4>1. ~(j > k)
        BY <1>1, <1>3, <2>3 DEF Says
      <4>2. k \in Nat /\ n \in Nat
        BY <1>1
      <4> HIDE DEF k, n
      <4>3. j \in 1..n
        BY DEF n
      <4>4. j \in 1..k
        BY <4>1, <4>2, <4>3
      <4> QED BY <4>4 DEF k
    <3>2. m.headers[j] \in Range(m.headers) /\ m.headers[j] = TheLine(m, j)
      BY <1>1, <3>1 DEF Range
    <3> QED BY <2>3, <3>2
  <2>4. ASSUME NEW l \in Range(m.headers), Says(l, token)
        PROVE  \E j \in 1..NL(m) : Says(TheLine(m, j), token)
    <3>1. PICK j \in 1..Len(m.headers) : l = m.headers[j]
      BY <1>1 DEF Range
    <3>2. j \in 1..NL(m) /\ TheLine(m, j) = l
      <4>1. TheLine(m, j) = l
        BY <1>1, <3>1
      <4> DEFINE k == Len(m.headers)
                 n == NL(m)
      <4>2. k \in Nat /\ n \in Nat /\ k <= n /\ j \in 1..k
        BY <1>1
      <4> HIDE DEF k, n
      <4>3. j \in 1..n
        BY <4>2
      <4> QED BY <4>1, <4>3 DEF n
    <3> QED BY <2>4, <3>2
  <2> QED BY <2>1, <2>2, <2>3, <2>4
<1> QED BY <1>4 DEF KeepsOpen

------------------------------------------------------------------------------
(* No string of m is cut at p: this is not an offset inside or right       *)
(* behind a URL or a name, nor one inside a value or a body.               *)
UncutIn(type, m, l, p) ==
  /\ type = "request" => p - (l.begin + 2) \notin 1..Len(m.url)
  /\ \A j \in 1..NL(m) :
       /\ p - l.line[j] \notin 1..Len(TheLine(m, j)[1])
       /\ p - (l.line[j] + Len(TheLine(m, j)[1]) + 2) \notin 1..(Len(TheLine(m, j)[2]) - 1)
  /\ m.coding = "length" => p - BodyAt(m, l) \notin 1..(Len(m.body[1]) - 1)
  /\ m.coding = "eof" => p - BodyAt(m, l) \notin 1..(Len(FlattenSeq(m.body)) - 1)
  /\ m.coding = "chunked" =>
       \A j \in 1..Len(m.body) : p - (l.chunk[j] + 2) \notin 1..(Len(m.body[j]) - 1)

Uncut(y, p) == \A i \in 1..Len(y.msgs) : UncutIn(y.type, y.msgs[i], y.at[i], p)

(* The parser at the begin of the next call.                               *)
NextCall(h) == Resume(Idle(CallbackData(h)))

(* Where nothing is marked, the end of a call changes nothing.             *)
LEMMA RestUnmarked ==
  ASSUME NEW h, IsParser(h), h.mark = NoMark, h.state \notin {"url", "field", "value"}, h.stop = FALSE
  PROVE  Alike(TRUE, h, NextCall(h)) /\ NextCall(h).nread = h.nread /\ NextCall(h).stop = FALSE
<1> DEFINE a == CallbackData(h)
<1>1. a = [h EXCEPT !.mark = NoMark]
  BY DEF CallbackData, NoMark
<1>2. /\ IsParser(a) /\ a.mark = h.mark
      /\ \A f \in Fields : a[f] = h[f]
  BY <1>1 DEF IsParser, Fields
<1> HIDE DEF a
<1> DEFINE b == Idle(a)
<1>3. /\ IsParser(b) /\ b.used = 0 /\ b.stop = FALSE
      /\ \A f \in Fields \ {"used", "stop"} : b[f] = h[f]
  BY <1>2 DEF Idle, IsParser, Fields
<1> HIDE DEF b
<1> DEFINE c == Resume(b)
<1>4. /\ IsParser(c) /\ c.used = 0 /\ c.stop = FALSE /\ c.mark = NoMark
      /\ \A f \in Fields \ {"used", "stop", "mark"} : c[f] = h[f]
  BY <1>3 DEF Resume, IsParser, Fields
<1>5. c = NextCall(h)
  BY DEF b, a, NextCall
<1> HIDE DEF c
<1>6. Alike(TRUE, h, c) /\ c.nread = h.nread /\ c.stop = FALSE
  BY <1>4 DEF Alike, IsParser, Fields
<1> QED BY <1>5, <1>6

(* Behind a value the call ends with the value stored.                     *)
LEMMA RestValue ==
  ASSUME NEW h, IsParser(h), h.mark.kind = "value", h.state = "value"
  PROVE  LET g == NextCall(h)
         IN  /\ SameControl([h EXCEPT !.stop = FALSE], g)
             /\ g.mark.kind = "value" /\ g.headFieldTemp = <<>>
             /\ g.message = WithValue(h) /\ g.complete = h.complete
<1> DEFINE b == [h EXCEPT !.mark = NoMark]
           a == CallbackData(h)
           g == NextCall(h)
           text == h.mark.text
<1>0. a = OnHeaderValue(b, text)
  BY DEF CallbackData
<1>1. SameControl(h, a) /\ IsParser(a)
  BY CallbackControl
<1>2. a.headFieldTemp = <<>> /\ a.complete = h.complete
  BY CallbackTurned
<1>3. a.message = WithValue(h)
  <2>1. IsParser(b) /\ b.headFieldTemp = h.headFieldTemp /\ b.message = h.message
    BY DEF IsParser, Fields
  <2> HIDE DEF a, b, text
  <2>2. CASE h.headFieldTemp = <<>>
    <3>1. a = b
      BY <1>0, <2>1, <2>2 DEF OnHeaderValue
    <3> QED BY <2>1, <2>2, <3>1 DEF WithValue
  <2>3. CASE h.headFieldTemp # <<>>
    <3>1. a = [b EXCEPT !.message.headers = WithHeader(@, b.headFieldTemp[1], text),
                        !.headFieldTemp = <<>>]
      BY <1>0, <2>1, <2>3 DEF OnHeaderValue
    <3>2. a.message = [b.message EXCEPT !.headers = WithHeader(@, b.headFieldTemp[1], text)]
      BY <2>1, <3>1 DEF IsParser, Fields
    <3> QED BY <2>1, <2>3, <3>2 DEF WithValue, text
  <2> QED BY <2>2, <2>3
<1> HIDE DEF a
<1>4. g = [a EXCEPT !.used = 0, !.stop = FALSE, !.mark = [kind |-> "value", text |-> <<>>]]
  BY <1>1 DEF NextCall, Idle, Resume, IsParser, Fields, SameControl, a
<1> HIDE DEF g
<1>5. /\ SameControl([a EXCEPT !.stop = FALSE], g)
      /\ g.mark.kind = "value" /\ g.headFieldTemp = a.headFieldTemp
      /\ g.message = a.message /\ g.complete = a.complete
  BY <1>1, <1>4 DEF SameControl, IsParser, Fields
<1>6. SameControl([h EXCEPT !.stop = FALSE], [a EXCEPT !.stop = FALSE])
  BY <1>1 DEF SameControl, IsParser, Fields
<1> QED BY <1>2, <1>3, <1>5, <1>6 DEF SameControl, g

(* So a call that ends in a head, but cuts none of its strings, leaves the *)
(* parser where it is.                                                     *)
LEMMA RestHead ==
  ASSUME NEW type, NEW m, Good(type, m), NEW l, NEW p \in Nat, NEW h, IsParser(h),
         HeadPlace(TRUE, h, type, m, l, p), UncutIn(type, m, l, p)
  PROVE  HeadPlace(TRUE, NextCall(h), type, m, l, p) /\ NextCall(h).nread = h.nread
<1> DEFINE g == NextCall(h)
<1>0. h.stop = FALSE
  BY DEF HeadPlace, FirstPlace, StartPlace, LinePlace, Live
<1>1. ASSUME h.mark = NoMark, h.state \notin {"url", "field", "value"}
      PROVE  HeadPlace(TRUE, g, type, m, l, p) /\ g.nread = h.nread
  BY <1>0, <1>1, RestUnmarked, HeadAlike
<1> HIDE DEF g
<1>2. CASE FirstPlace(TRUE, h, type, m, l, p)
  <2>1. type \in {"request", "response"}
    BY DEF Good
  <2>2. h.mark = NoMark /\ h.state \notin {"url", "field", "value"}
    BY <1>2, <2>1 DEF FirstPlace, RequestPlace, ResponsePlace, Ready, UncutIn
  <2> QED BY <1>1, <2>2 DEF g
<1>3. CASE StartPlace(TRUE, h, type, m, l, p)
  BY <1>1, <1>3 DEF StartPlace, Unmarked, g
<1>4. ASSUME NEW j \in 1..NL(m), LinePlace(TRUE, h, type, m, l, p, j)
      PROVE  HeadPlace(TRUE, g, type, m, l, p) /\ g.nread = h.nread
  <2>1. CASE NamePlace(TRUE, h, type, m, l, p, j)
    BY <2>1 DEF NamePlace, UncutIn
  <2>2. CASE ColonPlace(TRUE, h, type, m, l, p, j)
    BY <1>1, <2>2 DEF ColonPlace
  <2>3. CASE ValueEndPlace(TRUE, h, type, m, l, p, j)
    BY <1>1, <2>3 DEF ValueEndPlace, Unmarked
  <2>4. CASE NoValuePlace(TRUE, h, type, m, l, p, j)
    BY <1>1, <2>4 DEF NoValuePlace
  <2>5. CASE ValuePlace(TRUE, h, type, m, l, p, j)
    <3> DEFINE N == TheLine(m, j)[1]
               V == TheLine(m, j)[2]
               k == p - (l.line[j] + Len(N) + 2)
    <3>1. /\ h.state = "value" /\ k \in 1..Len(V) /\ h.mark.kind = "value"
          /\ h.name = N /\ h.value = SubSeq(V, 1, k)
          /\ h.flags = FlagsIn(m, j) /\ h.length = LengthUpTo(m, j)
          /\ \/ /\ HeadExact(h, type, m, j - 1) /\ h.headFieldTemp = <<N>>
                /\ h.mark.text = SubSeq(V, 1, k)
             \/ k = Len(V) /\ HeadExact(h, type, m, j) /\ h.headFieldTemp = <<>>
      BY <2>5 DEF ValuePlace
    <3>2. k \notin 1..(Len(V) - 1)
      BY DEF UncutIn
    <3>3. V \in Seq(Piece) /\ Len(V) \in Nat /\ j \in Nat /\ j > 0
      BY LenProperties DEF Good, GoodLines, LineOk
    <3>4. k = Len(V)
      <4> DEFINE z == Len(V)
      <4>1. k \in 1..z /\ k \notin 1..(z - 1) /\ z \in Nat
        BY <3>1, <3>2, <3>3
      <4> HIDE DEF z, k
      <4>2. k = z
        BY <4>1
      <4> QED BY <4>2 DEF z
    <3>5. SubSeq(V, 1, Len(V)) = V
      BY <3>3, SubSeqFull
    <3>6. /\ SameControl([h EXCEPT !.stop = FALSE], g)
          /\ g.mark.kind = "value" /\ g.headFieldTemp = <<>>
          /\ g.message = WithValue(h) /\ g.complete = h.complete
      BY <3>1, RestValue DEF g
    <3>7. SameControl(h, g)
      BY <1>0, <3>6 DEF SameControl, IsParser, Fields
    <3> HIDE DEF k
    <3>8. HeadExact(g, type, m, j)
      <4>2. CASE HeadExact(h, type, m, j - 1) /\ h.headFieldTemp = <<N>> /\ h.mark.text = V
        <5> DEFINE hs == WithHeader(HeadersUpTo(m, j - 1), N, V)
        <5>1. HeadersUpTo(m, j) = hs
          BY <3>3, OneMoreLine
        <5>2. h.headFieldTemp # <<>> /\ h.headFieldTemp[1] = N
          BY <4>2
        <5>3. WithValue(h) = [h.message EXCEPT !.headers = WithHeader(@, N, V)]
          BY <4>2, <5>2 DEF WithValue
        <5>4. h.message.headers = HeadersUpTo(m, j - 1) /\ DOMAIN h.message = MessageFields
          BY <4>2 DEF HeadExact, Unended
        <5>5. g.message = [h.message EXCEPT !.headers = hs]
          BY <3>6, <5>3, <5>4
        <5> HIDE DEF hs
        <5>6. /\ DOMAIN g.message = MessageFields /\ g.message.headers = hs
              /\ \A fl \in MessageFields \ {"headers"} : g.message[fl] = h.message[fl]
          BY <5>4, <5>5 DEF MessageFields
        <5>7. /\ g.message.status = h.message.status /\ g.message.method = h.message.method
              /\ g.message.url = h.message.url /\ g.message.body = h.message.body
          BY <5>6 DEF MessageFields
        <5> QED BY <3>6, <4>2, <5>1, <5>6, <5>7 DEF HeadExact, Unended
      <4>3. CASE HeadExact(h, type, m, j) /\ h.headFieldTemp = <<>>
        BY <3>6, <4>3 DEF HeadExact, Unended, WithValue
      <4> QED BY <3>1, <3>4, <3>5, <4>2, <4>3
    <3>9. ValuePlace(TRUE, g, type, m, l, p, j)
      BY <3>1, <3>4, <3>6, <3>7, <3>8 DEF ValuePlace, SameControl, k
    <3>10. Live(g, type) /\ Told(g, type, m) /\ g.nread = h.nread
      BY <1>4, <3>7 DEF LinePlace, Live, Told, SameControl
    <3> QED BY <3>9, <3>10 DEF HeadPlace, LinePlace
  <2> QED BY <1>4, <2>1, <2>2, <2>3, <2>4, <2>5 DEF LinePlace, g
<1> QED BY <1>2, <1>3, <1>4 DEF HeadPlace, g

------------------------------------------------------------------------------
(* Behind a body the call ends with the body stored.                       *)
LEMMA RestTaken ==
  ASSUME NEW h, IsParser(h), h.mark.kind = "body", h.state \notin {"url", "field", "value"}, h.stop = FALSE
  PROVE  LET g == NextCall(h)
         IN  /\ SameControl(h, g)
             /\ g.mark = NoMark /\ g.headFieldTemp = h.headFieldTemp
             /\ g.message = [h.message EXCEPT !.body = h.mark.text] /\ g.complete = h.complete
<1> DEFINE a == CallbackData(h)
           g == NextCall(h)
<1>1. SameControl(h, a) /\ IsParser(a)
  BY CallbackControl
<1>2. /\ a.mark = NoMark /\ a.message = [h.message EXCEPT !.body = h.mark.text]
      /\ a.headFieldTemp = h.headFieldTemp /\ a.complete = h.complete
  BY BodyCallback DEF SameBody, WithBody
<1> HIDE DEF a
<1>3. g = [a EXCEPT !.used = 0, !.stop = FALSE, !.mark = NoMark]
  BY <1>1 DEF NextCall, Idle, Resume, IsParser, Fields, SameControl, a
<1> HIDE DEF g
<1>4. /\ SameControl(a, g) /\ g.mark = NoMark /\ g.headFieldTemp = a.headFieldTemp
      /\ g.message = a.message /\ g.complete = a.complete
  BY <1>1, <1>3 DEF SameControl, IsParser, Fields
<1> QED BY <1>1, <1>2, <1>4 DEF SameControl, g

(* A body of which all is marked.                                          *)
LEMMA AllTaken ==
  ASSUME NEW h, IsParser(h), h.stop = FALSE, h.state \in {"body_eof", "chunk_end"},
         NEW t \in Seq(Piece), Taken(h, t, Len(t)), Len(t) # 0, DOMAIN h.message = MessageFields
  PROVE  LET g == NextCall(h)
         IN  /\ SameControl(h, g)
             /\ g.mark = NoMark /\ g.headFieldTemp = h.headFieldTemp /\ g.complete = h.complete
             /\ g.message.body = t /\ DOMAIN g.message = MessageFields
             /\ \A fl \in MessageFields \ {"body"} : g.message[fl] = h.message[fl]
<1>1. h.mark.kind = "body" /\ h.mark.text = SubSeq(t, 1, Len(t))
  BY DEF Taken, Said
<1>2. SubSeq(t, 1, Len(t)) = t
  BY SubSeqFull
<1> DEFINE g == NextCall(h)
<1>3. /\ SameControl(h, g)
      /\ g.mark = NoMark /\ g.headFieldTemp = h.headFieldTemp
      /\ g.message = [h.message EXCEPT !.body = t] /\ g.complete = h.complete
  <2>1. h.state \notin {"url", "field", "value"}
    OBVIOUS
  <2>2. h.mark.text = t
    BY <1>1, <1>2
  <2> QED BY <1>1, <2>1, <2>2, RestTaken
<1> HIDE DEF g
<1>4. /\ g.message.body = t /\ DOMAIN g.message = MessageFields
      /\ \A fl \in MessageFields \ {"body"} : g.message[fl] = h.message[fl]
  BY <1>3 DEF MessageFields
<1> QED BY <1>3, <1>4 DEF g

(* A call that ends in a body, but not inside a string of it, leaves the   *)
(* parser where it is.                                                     *)
LEMMA RestBody ==
  ASSUME NEW type, NEW m, Good(type, m), NEW l, NEW p \in Nat, NEW h, IsParser(h),
         BodyPlace(TRUE, h, type, m, l, p), UncutIn(type, m, l, p)
  PROVE  BodyPlace(TRUE, NextCall(h), type, m, l, p) /\ NextCall(h).nread = h.nread
         /\ NextCall(h).state = h.state
<1> DEFINE g == NextCall(h)
<1>0. /\ Live(h, type) /\ Told(h, type, m) /\ h.upgrade = UpgradesTo(type, m)
      /\ BodyExact(h, type, m) /\ h.stop = FALSE /\ DOMAIN h.message = MessageFields
      /\ type \in {"request", "response"}
  BY DEF BodyPlace, Live, BodyExact, Unended, Good
<1>1. ASSUME h.mark = NoMark, h.state \notin {"url", "field", "value"}
      PROVE  BodyPlace(TRUE, g, type, m, l, p) /\ g.nread = h.nread /\ g.state = h.state
  <2>1. Alike(TRUE, h, g) /\ g.nread = h.nread /\ g.stop = FALSE
    BY <1>0, <1>1, RestUnmarked
  <2> HIDE DEF g
  <2>2. g.state = h.state /\ g.stop = h.stop
    BY <1>0, <2>1 DEF Alike
  <2> QED BY <2>1, <2>2, BodyAlike
<1>2. ASSUME /\ SameControl(h, g)
             /\ g.mark = NoMark /\ g.headFieldTemp = h.headFieldTemp /\ g.complete = h.complete
             /\ DOMAIN g.message = MessageFields
             /\ \A fl \in MessageFields \ {"body"} : g.message[fl] = h.message[fl]
      PROVE  /\ Live(g, type) /\ Told(g, type, m) /\ g.upgrade = UpgradesTo(type, m)
             /\ BodyExact(g, type, m) /\ g.nread = h.nread /\ g.state = h.state
  <2> HIDE DEF g
  <2>1. Live(g, type) /\ Told(g, type, m) /\ g.upgrade = UpgradesTo(type, m)
        /\ g.nread = h.nread /\ g.state = h.state
    BY <1>0, <1>2 DEF SameControl, Live, Told
  <2>2. /\ g.message.status = h.message.status /\ g.message.method = h.message.method
        /\ g.message.url = h.message.url /\ g.message.headers = h.message.headers
    BY <1>2 DEF MessageFields
  <2>3. BodyExact(g, type, m)
    BY <1>0, <1>2, <2>2 DEF BodyExact, Unended
  <2> QED BY <2>1, <2>3
<1> HIDE DEF g
<1>3. CASE LengthPlace(TRUE, h, type, m, l, p)
  <2> DEFINE n == Len(m.body[1])
             k == p - BodyAt(m, l)
  <2>1. k \in 0..(n - 1) /\ k \notin 1..(n - 1) /\ n \in Nat /\ h.state = "body" /\ Taken(h, m.body[1], k)
    BY <1>3 DEF LengthPlace, UncutIn, Good, GoodBody
  <2> HIDE DEF n, k
  <2>2. k = 0
    BY <2>1
  <2> QED BY <1>1, <2>1, <2>2 DEF Taken, g
<1>4. CASE EofPlace(TRUE, h, type, m, l, p)
  <2> DEFINE t == FlattenSeq(m.body)
             n == Len(t)
             k == p - BodyAt(m, l)
  <2>1. /\ k \in 0..n /\ k \notin 1..(n - 1) /\ h.state = "body_eof" /\ m.coding = "eof"
        /\ h.flags = AllFlags(m)
        /\ Taken(h, t, k) \/ (k = n /\ h.message.body = t /\ h.mark = NoMark)
    BY <1>4 DEF EofPlace, UncutIn
  <2>2. t \in Seq(Piece)
    BY FlatIsSeq DEF Good, GoodBody
  <2>3. n \in Nat
    BY <2>2, LenProperties
  <2> HIDE DEF t
  <2>4. CASE k = 0 /\ Taken(h, t, k)
    BY <1>1, <2>1, <2>4 DEF Taken, g
  <2>5. CASE h.mark = NoMark
    BY <1>1, <2>1, <2>5 DEF g
  <2>6. CASE k # 0 /\ Taken(h, t, k)
    <3>1. k = n /\ n # 0
      <4> HIDE DEF n, k
      <4> QED BY <2>1, <2>3, <2>6
    <3>2. /\ SameControl(h, g)
          /\ g.mark = NoMark /\ g.headFieldTemp = h.headFieldTemp /\ g.complete = h.complete
          /\ g.message.body = t /\ DOMAIN g.message = MessageFields
          /\ \A fl \in MessageFields \ {"body"} : g.message[fl] = h.message[fl]
      BY <1>0, <2>1, <2>2, <2>6, <3>1, AllTaken DEF g
    <3>3. /\ Live(g, type) /\ Told(g, type, m) /\ g.upgrade = UpgradesTo(type, m)
          /\ BodyExact(g, type, m) /\ g.nread = h.nread /\ g.state = h.state
      BY <1>2, <3>2
    <3>4. g.flags = h.flags
      BY <3>2 DEF SameControl
    <3> HIDE DEF n
    <3>5. EofPlace(TRUE, g, type, m, l, p)
      BY <2>1, <3>1, <3>2, <3>3, <3>4 DEF EofPlace, t, n, k
    <3> QED BY <3>3, <3>5 DEF BodyPlace, g
  <2> QED BY <2>1, <2>4, <2>5, <2>6
<1>5. ASSUME NEW j \in 1..(Len(m.body) + 1), ChunkPlace(TRUE, h, type, m, l, p, j)
      PROVE  BodyPlace(TRUE, g, type, m, l, p) /\ g.nread = h.nread /\ g.state = h.state
  <2> DEFINE t == m.body[j]
             n == Len(t)
             c == l.chunk[j]
             k == p - (c + 2)
             s == Len(m.body)
  <2>0. m.coding = "chunked" /\ s \in Nat
    BY <1>5 DEF ChunkPlace, Good, GoodBody
  <2>1. CASE h.mark = NoMark /\ h.state \in {"chunk_start", "chunk_size", "chunk_data", "chunk_end", "field_start"}
    BY <1>1, <2>1 DEF g
  <2>2. ASSUME j <= s, h.state = "chunk_data", k \in 0..(n - 1), Taken(h, t, k)
        PROVE  h.mark = NoMark
    <3>1. j \in 1..s
      BY <2>0, <2>2
    <3>2. k \notin 1..(n - 1) /\ n \in Nat
      BY <2>0, <3>1 DEF UncutIn, Good, GoodBody
    <3> HIDE DEF n, k
    <3>3. k = 0
      BY <2>2, <3>2
    <3> QED BY <2>2, <3>3 DEF Taken
  <2>3. CASE /\ j <= s /\ h.flags = AllFlags(m) /\ h.state = "chunk_end" /\ p = c + 2 + n
             /\ Taken(h, t, n)
    <3>1. j \in 1..s
      BY <2>0, <2>3
    <3>2. t \in Seq(Piece) /\ n \in 1..9
      BY <2>0, <3>1, ElementOfSeq DEF Good, GoodBody
    <3> HIDE DEF t, n
    <3>3. n # 0
      BY <3>2
    <3>4. /\ SameControl(h, g)
          /\ g.mark = NoMark /\ g.headFieldTemp = h.headFieldTemp /\ g.complete = h.complete
          /\ g.message.body = t /\ DOMAIN g.message = MessageFields
          /\ \A fl \in MessageFields \ {"body"} : g.message[fl] = h.message[fl]
      <4>1. h.state \in {"body_eof", "chunk_end"} /\ h.stop = FALSE /\ DOMAIN h.message = MessageFields
        BY <1>0, <2>3
      <4>2. IsParser(h) /\ t \in Seq(Piece) /\ Taken(h, t, Len(t)) /\ Len(t) # 0
        BY <2>3, <3>2, <3>3 DEF n
      <4> HIDE DEF g
      <4>3. /\ SameControl(h, NextCall(h))
            /\ NextCall(h).mark = NoMark /\ NextCall(h).headFieldTemp = h.headFieldTemp
            /\ NextCall(h).complete = h.complete
            /\ NextCall(h).message.body = t /\ DOMAIN NextCall(h).message = MessageFields
            /\ \A fl \in MessageFields \ {"body"} : NextCall(h).message[fl] = h.message[fl]
        BY ONLY <4>1, <4>2, AllTaken
      <4> QED BY <4>3 DEF g
    <3>5. /\ Live(g, type) /\ Told(g, type, m) /\ g.upgrade = UpgradesTo(type, m)
          /\ BodyExact(g, type, m) /\ g.nread = h.nread /\ g.state = h.state
      BY <1>2, <3>4
    <3>6. g.flags = h.flags
      BY <3>4 DEF SameControl
    <3> HIDE DEF n
    <3>7. ChunkPlace(TRUE, g, type, m, l, p, j)
      BY <2>0, <2>3, <3>4, <3>5, <3>6 DEF ChunkPlace, t, n, c
    <3> QED BY <3>5, <3>7 DEF BodyPlace, g
  <2> HIDE DEF k
  <2> QED BY <1>5, <2>1, <2>2, <2>3 DEF ChunkPlace, k, g
<1> QED BY <1>3, <1>4, <1>5 DEF BodyPlace, g

------------------------------------------------------------------------------
(* What the next call starts from, if the last has cut no string.          *)
LEMMA RestReached ==
  ASSUME NEW y, Stream(y), NEW p \in Nat, Uncut(y, p),
         NEW b, IsParser(b), b.stop = FALSE, Reached(TRUE, b, y, p)
  PROVE  Reached(TRUE, NextCall(b), y, p)
<1> DEFINE g == NextCall(b)
<1>1. ASSUME NEW i \in 1..(Len(y.msgs) + 1), i > 1, Between(TRUE, b, y, p, i), b.complete = TRUE
      PROVE  Between(TRUE, g, y, p, i) /\ g.complete = TRUE
  <2>1. b.mark = NoMark /\ b.state \in {"start", "dead"}
    BY <1>1 DEF Between, Ready
  <2>2. Alike(TRUE, b, g) /\ g.nread = b.nread
    BY <2>1, RestUnmarked
  <2> HIDE DEF g
  <2>3. Ready(b, y.type) => Ready(g, y.type)
    BY <2>2 DEF Alike, Ready, Unended
  <2> QED BY <1>1, <2>2, <2>3 DEF Alike, Between
<1>2. ASSUME NEW i \in 1..Len(y.msgs), InHead(TRUE, b, y, p, i) PROVE InHead(TRUE, g, y, p, i)
  <2> DEFINE m == y.msgs[i]
             l == y.at[i]
  <2>1. HeadPlace(TRUE, b, y.type, m, l, p) /\ Good(y.type, m) /\ UncutIn(y.type, m, l, p)
    BY <1>2, MessageSpot DEF InHead, Uncut
  <2> DEFINE ty == y.type
  <2> HIDE DEF m, l, ty, g
  <2>2. IsParser(b) /\ HeadPlace(TRUE, b, ty, m, l, p) /\ Good(ty, m) /\ UncutIn(ty, m, l, p)
    BY <2>1 DEF ty
  <2>3. p \in Nat
    OBVIOUS
  <2>4. HeadPlace(TRUE, NextCall(b), ty, m, l, p) /\ NextCall(b).nread = b.nread
    BY ONLY <2>2, <2>3, RestHead
  <2> QED BY <1>2, <2>4 DEF InHead, m, l, ty, g
<1>3. ASSUME NEW i \in 1..Len(y.msgs), InBody(TRUE, b, y, p, i) PROVE InBody(TRUE, g, y, p, i)
  <2> DEFINE m == y.msgs[i]
             l == y.at[i]
  <2>1. BodyPlace(TRUE, b, y.type, m, l, p) /\ Good(y.type, m) /\ UncutIn(y.type, m, l, p)
    BY <1>3, MessageSpot DEF InBody, Uncut
  <2> DEFINE ty == y.type
  <2> HIDE DEF m, l, ty, g
  <2>2. IsParser(b) /\ BodyPlace(TRUE, b, ty, m, l, p) /\ Good(ty, m) /\ UncutIn(ty, m, l, p)
    BY <2>1 DEF ty
  <2>3. p \in Nat
    OBVIOUS
  <2>4. /\ BodyPlace(TRUE, NextCall(b), ty, m, l, p) /\ NextCall(b).nread = b.nread
        /\ NextCall(b).state = b.state
    BY ONLY <2>2, <2>3, RestBody
  <2> QED BY <1>3, <2>4 DEF InBody, m, l, ty, g
<1> HIDE DEF g
<1> QED BY <1>1, <1>2, <1>3 DEF Reached, g

(* A call of http_parser_execute with the bytes c + 1 to d, if no message  *)
(* ends between them and no string is cut at d: the parser takes them all  *)
(* and stores what was sent.                                               *)
LEMMA CallExact ==
  ASSUME NEW y, Stream(y), NEW c \in Nat, NEW d \in Nat, c < d, d <= Len(y.wire),
         Undivided(TRUE, y, c, d), Uncut(y, d),
         NEW h, AtRest(h), h.error = FALSE, h.complete = FALSE, Place(TRUE, Resume(h), y, c)
  PROVE  LET g == Execute(h, SubSeq(y.wire, c + 1, d))
         IN  /\ g.error => Blame(y, d)
             /\ ~g.error => g.used = d - c /\ Reached(TRUE, Resume(Idle(g)), y, d)
<1> DEFINE r == Resume(h)
           bytes == SubSeq(y.wire, c + 1, d)
           f == FoldLeft(Advance, r, bytes)
           g == Execute(h, bytes)
           k == d - c
<1>1. InLoop(r) /\ r.used = 0 /\ r.error = FALSE /\ r.stop = FALSE /\ r.complete = FALSE
  BY DEF Resume, AtRest, InLoop, IsParser, Fields, Pending, NoMark
<1>2. Place(TRUE, r, y, c)
  OBVIOUS
<1> HIDE DEF r
<1>3. Running(TRUE, y, c, k, f)
  BY <1>1, <1>2, LoopPlaces
<1>4. bytes # <<>>
  <2>1. y.wire \in Seq(Piece) /\ Len(y.wire) \in Nat
    BY LenProperties DEF Stream
  <2> DEFINE n == Len(y.wire)
  <2>2. n \in Nat /\ d <= n
    BY <2>1
  <2> HIDE DEF n
  <2>3. c + 1 \in 1..(n + 1) /\ d \in 0..n /\ c + 1 <= d /\ d - (c + 1) + 1 = d - c /\ d - c # 0
    BY <2>2
  <2>4. Len(bytes) = d - c
    BY <2>1, <2>3, SubSeqProperties DEF n
  <2> HIDE DEF bytes
  <2> QED BY <2>3, <2>4
<1>5. g = ExecuteBytes(h, bytes)
  BY <1>4 DEF Execute
<1> HIDE DEF f, g
<1>6. /\ InLoop(f) /\ IsParser(f) /\ f.used \in Nat /\ k \in Nat /\ k >= 1 /\ c + k = d
      /\ {f.error, f.stop, f.complete} \subseteq BOOLEAN
  BY <1>3 DEF Running, InLoop, IsParser
<1> HIDE DEF k
<1>7. f.error => Blame(y, d)
  BY <1>3, <1>6 DEF Running
<1>8. ~f.error => /\ f.used <= k /\ f.used >= 1 /\ Reached(TRUE, f, y, c + f.used)
                  /\ (~f.stop => f.used = k)
  BY <1>3, <1>6 DEF Running
<1>9. CASE f.error
  <2>1. g = [f EXCEPT !.mark = NoMark]
    BY <1>5, <1>9 DEF ExecuteBytes, f, r
  <2>2. g.error = f.error
    BY <1>6, <2>1 DEF IsParser, Fields
  <2> QED BY <1>7, <1>9, <2>2 DEF g
<1>10. CASE ~f.error /\ f.stop
  <2>1. g = [f EXCEPT !.mark = NoMark]
    BY <1>5, <1>10 DEF ExecuteBytes, f, r
  <2>2. PICK i \in 1..(Len(y.msgs) + 1) : i > 1 /\ Between(TRUE, f, y, c + f.used, i) /\ f.complete = TRUE
    BY <1>8, <1>10, InsideState DEF Reached
  <2>3. f.mark = NoMark /\ f.state \in {"start", "dead"} /\ y.off[i] = c + f.used
    BY <2>2 DEF Between, Ready
  <2>4. f.used = k
    <3> DEFINE o == y.off[i]
               u == f.used
    <3>1. ~(c < o /\ o < d) /\ o = c + u /\ u \in Nat /\ u <= k /\ u >= 1
      BY <1>6, <1>8, <1>10, <2>3 DEF Undivided
    <3> HIDE DEF o, u
    <3>2. u = k
      BY ONLY <1>6, <3>1, c \in Nat, d \in Nat
    <3> QED BY <3>2 DEF u
  <2> DEFINE q == Resume(Idle(g))
  <2>5. q = [f EXCEPT !.used = 0, !.stop = FALSE, !.mark = NoMark]
    BY <1>6, <2>1, <2>3 DEF Idle, Resume, IsParser, Fields
  <2> HIDE DEF q
  <2>6. Alike(TRUE, f, q) /\ q.nread = f.nread
    BY <1>6, <2>3, <2>5 DEF Alike, IsParser, Fields
  <2>7. Ready(f, y.type) => Ready(q, y.type)
    BY <2>6 DEF Alike, Ready, Unended
  <2>8. Between(TRUE, q, y, d, i) /\ q.complete = TRUE
    BY <1>6, <2>2, <2>4, <2>6, <2>7 DEF Alike, Between
  <2>9. g.error = f.error /\ g.used = f.used
    BY <1>6, <2>1 DEF IsParser, Fields
  <2>10. Reached(TRUE, q, y, d)
    BY <2>2, <2>8 DEF Reached
  <2> QED BY <1>10, <2>4, <2>9, <2>10 DEF g, q, k
<1>11. CASE ~(f.error \/ f.stop) /\ Overflow(f)
  <2>1. Place(TRUE, f, y, d)
    BY <1>6, <1>8, <1>11 DEF Reached, Place
  <2>2. Blame(y, d)
    BY <1>11, <2>1, OverflowBlamed
  <2>3. g = Fail([f EXCEPT !.mark = NoMark])
    BY <1>5, <1>11 DEF ExecuteBytes, f, r
  <2>4. g.error = TRUE
    BY <1>6, <2>3 DEF Fail, IsParser, Fields
  <2> QED BY <2>2, <2>4 DEF g
<1>12. CASE ~(f.error \/ f.stop) /\ ~Overflow(f)
  <2>1. g = CallbackData(f)
    BY <1>5, <1>12 DEF ExecuteBytes, f, r
  <2>2. g.error = f.error /\ g.used = f.used
    BY <1>6, <2>1, CallbackTurned
  <2>3. Reached(TRUE, f, y, d) /\ f.used = k
    BY <1>6, <1>8, <1>12
  <2>4. Reached(TRUE, NextCall(f), y, d)
    BY <1>6, <1>12, <2>3, RestReached
  <2>5. NextCall(f) = Resume(Idle(g))
    BY <2>1 DEF NextCall
  <2> QED BY <1>12, <2>2, <2>3, <2>4, <2>5 DEF g, k
<1> QED BY <1>6, <1>9, <1>10, <1>11, <1>12

------------------------------------------------------------------------------
(* The first offset behind each part.                                      *)
LEMMA StartNext ==
  ASSUME NEW parts \in Seq(Part)
  PROVE  /\ Len(parts) \in Nat /\ Start(parts, 1) = 0
         /\ \A i \in 1..Len(parts) :
              Start(parts, i) \in Nat /\ Start(parts, i + 1) = Start(parts, i) + Len(parts[i].text)
<1>1. Len(parts) \in Nat
  BY LenProperties
<1>2. Start(parts, 1) = 0
  <2>1. SubSeq(parts, 1, 1 - 1) = <<>>
    <3>1. 1 - 1 = 0
      OBVIOUS
    <3> QED BY <3>1, SubSeqEmpty
  <2>2. Bytes(<<>>) = <<>>
    <3>1. [i \in DOMAIN <<>> |-> <<>>[i].text] = <<>>
      OBVIOUS
    <3> QED BY <3>1, FlattenNone DEF Bytes
  <2>3. Len(<<>>) = 0
    OBVIOUS
  <2> QED BY <2>1, <2>2, <2>3 DEF Start
<1>3. ASSUME NEW i \in 1..Len(parts)
      PROVE  Start(parts, i) \in Nat /\ Start(parts, i + 1) = Start(parts, i) + Len(parts[i].text)
  <2> DEFINE a == SubSeq(parts, 1, i - 1)
             t == parts[i].text
             b == <<parts[i]>>
  <2>1. parts[i] \in Part /\ t \in Seq(Piece)
    <3>1. parts[i] \in Part
      BY ElementOfSeq
    <3> QED BY <3>1 DEF Part
  <2>2. b \in Seq(Part) /\ Bytes(b) = t
    <3>1. [k \in DOMAIN b |-> b[k].text] = <<t>>
      OBVIOUS
    <3> QED BY <2>1, <3>1, FlattenOne DEF Bytes
  <2>3. a \in Seq(Part)
    <3>1. 1 \in Int /\ i - 1 \in Int /\ \A k \in 1..(i - 1) : k \in 1..Len(parts) /\ parts[k] \in Part
      BY <1>1, ElementOfSeq
    <3> QED BY <3>1, SubSeqProperties
  <2>4. SubSeq(parts, 1, i) = a \o b
    <3>1. 1 \in 1..Len(parts) /\ i \in 1..Len(parts) /\ 1 <= i
      BY <1>1
    <3> QED BY <3>1, SubSeqRecursiveSecond
  <2> HIDE DEF a, b, t
  <2>5. /\ Bytes(a \o b) = Bytes(a) \o t /\ Bytes(a) \in Seq(Piece)
    BY <2>2, <2>3, BytesBehind
  <2>6. Len(Bytes(a) \o t) = Len(Bytes(a)) + Len(t) /\ Len(Bytes(a)) \in Nat
    BY <2>1, <2>5, ConcatProperties, LenProperties
  <2>7. Start(parts, i) = Len(Bytes(a)) /\ Start(parts, i + 1) = Len(Bytes(SubSeq(parts, 1, i)))
    <3>1. (i + 1) - 1 = i
      OBVIOUS
    <3> QED BY <3>1 DEF Start, a
  <2> QED BY <2>4, <2>5, <2>6, <2>7 DEF t
<1> QED BY <1>1, <1>2, <1>3

(* The offsets that a part makes harmful.                                  *)
LEMMA HarmOfPart ==
  ASSUME NEW parts \in Seq(Part), NEW i \in 1..Len(parts), NEW j \in Nat, j >= 1,
         \/ parts[i].kind = "name" /\ j <= Len(parts[i].text)
         \/ parts[i].kind = "whole" /\ j <= Len(parts[i].text) - 1
  PROVE  Start(parts, i) + j \in Harmful(parts)
<1> DEFINE size == Len(parts[i].text)
           last == CASE parts[i].kind = "plain" -> 0
                     [] parts[i].kind = "name"  -> size
                     [] parts[i].kind = "whole" -> size - 1
<1>1. i \in DOMAIN parts
  BY LenProperties
<1>2. size \in Nat
  <2>1. parts[i].text \in Seq(Piece)
    <3>1. parts[i] \in Part
      BY ElementOfSeq
    <3> QED BY <3>1 DEF Part
  <2> QED BY <2>1, LenProperties
<1>3. j \in 1..last
  <2>1. CASE parts[i].kind = "name" /\ j <= size
    <3>1. last = size
      BY <2>1
    <3> HIDE DEF last, size
    <3> QED BY <1>2, <2>1, <3>1
  <2>2. CASE parts[i].kind = "whole" /\ j <= size - 1
    <3>1. last = size - 1
      BY <2>2
    <3> HIDE DEF last, size
    <3> QED BY <1>2, <2>2, <3>1
  <2> QED BY <2>1, <2>2
<1>4. Start(parts, i) + j \in {Start(parts, i) + k : k \in 1..last}
  BY <1>3
<1> QED BY <1>1, <1>4 DEF Harmful

(* Of parts behind parts each keeps its harmful offsets.                   *)
LEMMA HarmBehind ==
  ASSUME NEW a \in Seq(Part), NEW b \in Seq(Part), NEW c
  PROVE  /\ c \in Harmful(a) => c \in Harmful(a \o b)
         /\ c \in Harmful(b) => Len(Bytes(a)) + c \in Harmful(a \o b)
<1> DEFINE s == a \o b
           n == Len(a)
           k == Len(b)
<1>1. /\ s \in Seq(Part) /\ Len(s) = n + k /\ n \in Nat /\ k \in Nat
      /\ \A i \in 1..(n + k) : s[i] = IF i <= n THEN a[i] ELSE b[i - n]
  BY ConcatProperties, LenProperties
<1>2. DOMAIN a = 1..n /\ DOMAIN b = 1..k /\ DOMAIN s = 1..(n + k)
  BY <1>1, LenProperties
<1> HIDE DEF s, n, k
<1> DEFINE Upto(d) == CASE d.kind = "plain" -> 0
                        [] d.kind = "name"  -> Len(d.text)
                        [] d.kind = "whole" -> Len(d.text) - 1
           Harm(parts) == UNION {{Start(parts, i) + j : j \in 1..Upto(parts[i])} : i \in DOMAIN parts}
<1>4. \A parts : Harmful(parts) = Harm(parts)
  BY DEF Harmful
<1> HIDE DEF Upto
<1>5. \A parts, e : e \in Harm(parts) <=> \E i \in DOMAIN parts : \E j \in 1..Upto(parts[i]) : e = Start(parts, i) + j
  OBVIOUS
<1> HIDE DEF Harm
<1>6. \A i \in 1..n : Start(s, i) = Start(a, i) /\ s[i] = a[i] /\ i \in 1..(n + k)
  <2> SUFFICES ASSUME NEW i \in 1..n PROVE Start(s, i) = Start(a, i) /\ s[i] = a[i] /\ i \in 1..(n + k)
    OBVIOUS
  <2>1. s[i] = a[i] /\ i \in 1..(n + k)
    BY <1>1
  <2> DEFINE l == i - 1
  <2>2. l \in Int /\ l <= n /\ \A q \in 1..l : q \in 1..n
    BY <1>1
  <2> HIDE DEF l
  <2>3. \A q \in 1..l : s[q] = a[q]
    BY <1>1, <2>2
  <2>4. SubSeq(s, 1, l) = SubSeq(a, 1, l)
    <3> DEFINE f(x) == [q \in 1..(1 + l - 1) |-> x[1 + q - 1]]
    <3>1. SubSeq(s, 1, l) = f(s) /\ SubSeq(a, 1, l) = f(a)
      BY <2>2
    <3>2. \A q \in 1..(1 + l - 1) : s[1 + q - 1] = a[1 + q - 1]
      <4>1. 1 + l - 1 = l /\ \A q \in 1..l : 1 + q - 1 = q
        BY <2>2
      <4> QED BY <2>3, <4>1
    <3>3. f(s) = f(a)
      BY <3>2
    <3> QED BY <3>1, <3>3
  <2> QED BY <2>1, <2>4 DEF Start, l
<1>7. \A i \in 1..k : /\ Start(s, n + i) = Len(Bytes(a)) + Start(b, i) /\ Start(b, i) \in Nat
                      /\ s[n + i] = b[i] /\ n + i \in 1..(n + k)
  <2> DEFINE T == {i \in Nat : i + 1 <= k => Start(s, n + (i + 1)) = Len(Bytes(a)) + Start(b, i + 1)}
             z == Len(Bytes(a))
  <2>0. z \in Nat
    <3>1. Bytes(a) \in Seq(Piece)
      BY BytesBehind
    <3> QED BY <3>1, LenProperties
  <2>00. \A i \in 1..k : n + i \in 1..(n + k) /\ s[n + i] = b[i]
    <3>1. \A i \in 1..k : n + i \in 1..(n + k) /\ ~(n + i <= n) /\ (n + i) - n = i
      BY <1>1
    <3> QED BY <1>1, <3>1
  <2>1. 0 \in T
    <3> SUFFICES ASSUME 1 <= k PROVE Start(s, n + 1) = z + Start(b, 1)
      OBVIOUS
    <3>1. Start(s, n + 1) = z
      <4>1. (n + 1) - 1 = n
        BY <1>1
      <4>2. SubSeq(s, 1, n) = a
        <5> DEFINE f(x) == [q \in 1..(1 + n - 1) |-> x[1 + q - 1]]
        <5>1. SubSeq(s, 1, n) = f(s) /\ SubSeq(a, 1, n) = f(a)
          BY <1>1
        <5>2. \A q \in 1..(1 + n - 1) : s[1 + q - 1] = a[1 + q - 1]
          <6>1. 1 + n - 1 = n /\ \A q \in 1..n : 1 + q - 1 = q
            BY <1>1
          <6> QED BY <1>6, <6>1
        <5>3. f(s) = f(a)
          BY <5>2
        <5>4. SubSeq(a, 1, n) = a
          BY SubSeqFull DEF n
        <5> QED BY <5>1, <5>3, <5>4
      <4> QED BY <4>1, <4>2 DEF Start
    <3>2. Start(b, 1) = 0
      BY StartNext
    <3> HIDE DEF z
    <3> QED BY <2>0, <3>1, <3>2
  <2>2. ASSUME NEW i \in Nat, i \in T PROVE i + 1 \in T
    <3> DEFINE q == i + 1
               p == n + q
    <3> SUFFICES ASSUME q + 1 <= k PROVE Start(s, n + (q + 1)) = z + Start(b, q + 1)
      OBVIOUS
    <3>1. q \in 1..k /\ q <= k /\ p \in 1..(n + k) /\ n + (q + 1) = p + 1
      BY <1>1
    <3>2. Start(s, p) = z + Start(b, q)
      BY <2>2, <3>1
    <3> HIDE DEF q, p
    <3>3. Start(s, p + 1) = Start(s, p) + Len(s[p].text)
      BY <1>1, <3>1, StartNext
    <3>4. Start(b, q + 1) = Start(b, q) + Len(b[q].text) /\ Start(b, q) \in Nat
      BY <3>1, StartNext DEF k
    <3>5. s[p] = b[q] /\ b[q].text \in Seq(Piece)
      <4>1. b[q] \in Part
        BY <3>1, ElementOfSeq DEF k
      <4> QED BY <2>00, <3>1, <4>1 DEF p, Part
    <3>6. Len(b[q].text) \in Nat
      BY <3>5, LenProperties
    <3> DEFINE x == Start(b, q)
               w == Len(b[q].text)
    <3> HIDE DEF z, x, w
    <3>7. (z + x) + w = z + (x + w)
      BY <2>0, <3>4, <3>6 DEF x, w
    <3> QED BY <3>1, <3>2, <3>3, <3>4, <3>5, <3>7 DEF x, w
  <2> HIDE DEF T
  <2>3. Nat \subseteq T
    BY <2>1, <2>2, NatSetInduction
  <2> SUFFICES ASSUME NEW i \in 1..k
               PROVE  Start(s, n + i) = z + Start(b, i) /\ Start(b, i) \in Nat
    BY <2>00
  <2> DEFINE q == i - 1
  <2>4. q \in Nat /\ q + 1 = i /\ q + 1 <= k
    BY <1>1
  <2> HIDE DEF q
  <2>5. Start(s, n + i) = z + Start(b, i)
    BY <2>3, <2>4 DEF T
  <2>6. Start(b, i) \in Nat
    BY StartNext DEF k
  <2> QED BY <2>5, <2>6
<1>8. ASSUME c \in Harm(a) PROVE c \in Harm(s)
  <2>0. \E i \in DOMAIN a : \E j \in 1..Upto(a[i]) : c = Start(a, i) + j
    BY <1>5, <1>8
  <2>1. PICK i \in 1..n : \E j \in 1..Upto(a[i]) : c = Start(a, i) + j
    BY <1>2, <2>0
  <2>2. i \in DOMAIN s /\ \E j \in 1..Upto(s[i]) : c = Start(s, i) + j
    BY <1>2, <1>6, <2>1
  <2> QED BY <1>5, <2>2
<1>9. ASSUME c \in Harm(b) PROVE Len(Bytes(a)) + c \in Harm(s)
  <2> DEFINE z == Len(Bytes(a))
  <2>0. \E i \in DOMAIN b : \E j \in 1..Upto(b[i]) : c = Start(b, i) + j
    BY <1>5, <1>9
  <2>1. PICK i \in 1..k : \E j \in 1..Upto(b[i]) : c = Start(b, i) + j
    BY <1>2, <2>0
  <2>2. PICK j \in 1..Upto(b[i]) : c = Start(b, i) + j
    BY <2>1
  <2>3. z \in Nat
    <3>1. Bytes(a) \in Seq(Piece)
      BY BytesBehind
    <3> QED BY <3>1, LenProperties
  <2>4. Start(s, n + i) = z + Start(b, i) /\ Start(b, i) \in Nat /\ s[n + i] = b[i] /\ n + i \in DOMAIN s
    BY <1>2, <1>7
  <2> HIDE DEF z
  <2>5. z + c = Start(s, n + i) + j
    <3> DEFINE x == Start(b, i)
               w == Start(s, n + i)
    <3>1. x \in Nat /\ w = z + x /\ c = x + j /\ j \in Int
      BY <2>2, <2>4
    <3> HIDE DEF x, w
    <3> QED BY <2>3, <3>1 DEF w
  <2>6. j \in 1..Upto(s[n + i])
    BY <2>4
  <2>7. z + c \in Harm(s)
    BY <1>5, <2>4, <2>5, <2>6
  <2> QED BY <2>7 DEF z
<1> QED BY <1>4, <1>8, <1>9 DEF s

------------------------------------------------------------------------------
(* Of parts that FlattenSeq joins each list keeps its harmful offsets.     *)
LEMMA HarmFlat ==
  ASSUME NEW pp \in Seq(Seq(Part)), NEW n \in Nat, NEW off, off[1] = n,
         \A j \in 1..Len(pp) : off[j] \in Nat /\ off[j + 1] = off[j] + Len(Bytes(pp[j])),
         NEW p \in Nat, p - n \notin Harmful(FlattenSeq(pp))
  PROVE  \A j \in 1..Len(pp) : p - off[j] \notin Harmful(pp[j])
<1> DEFINE k == Len(pp)
           P(i) == FlattenSeq(SubSeq(pp, 1, i))
           Known(i) == /\ off[i + 1] = n + Len(Bytes(P(i)))
                       /\ \A j \in 1..i : p - off[j] \in Harmful(pp[j]) => p - n \in Harmful(P(i))
           T == {i \in Nat : i <= k => Known(i)}
<1>1. k \in Nat /\ FlattenSeq(pp) = P(k) /\ P(0) = <<>>
  <2>1. k \in Nat
    BY LenProperties
  <2>2. 0 \in 0..Len(pp)
    BY <2>1
  <2> QED BY <2>1, <2>2, FlatIsSeq, FlattenNone
<1>2. ASSUME NEW i \in 0..(k - 1)
      PROVE  P(i) \in Seq(Part) /\ pp[i + 1] \in Seq(Part) /\ P(i + 1) = P(i) \o pp[i + 1]
  BY FlatStep
<1> HIDE DEF k, P
<1>3. 0 \in T
  <2>1. Bytes(<<>>) = <<>>
    <3>1. [i \in DOMAIN <<>> |-> <<>>[i].text] = <<>>
      OBVIOUS
    <3> QED BY <3>1, FlattenNone DEF Bytes
  <2>2. Len(<<>>) = 0 /\ off[0 + 1] = n
    OBVIOUS
  <2>3. off[0 + 1] = n + Len(Bytes(P(0)))
    BY <1>1, <2>1, <2>2
  <2> QED BY <2>3
<1>4. ASSUME NEW i \in Nat, i \in T PROVE i + 1 \in T
  <2> DEFINE i1 == i + 1
  <2> SUFFICES ASSUME i1 <= k PROVE Known(i1)
    OBVIOUS
  <2>1. i \in 0..(k - 1) /\ i <= k /\ i1 \in 1..k /\ \A j \in 1..i1 : j \in 1..i \/ j = i1
    BY <1>1
  <2>2. Known(i)
    BY <1>4, <2>1
  <2>3. P(i) \in Seq(Part) /\ pp[i1] \in Seq(Part) /\ P(i1) = P(i) \o pp[i1]
    BY <1>2, <2>1
  <2>4. off[i1] \in Nat /\ off[i1 + 1] = off[i1] + Len(Bytes(pp[i1])) /\ off[i1] = n + Len(Bytes(P(i)))
    BY <2>1, <2>2 DEF k
  <2> HIDE DEF i1
  <2> DEFINE x == Bytes(P(i))
             y == Bytes(pp[i1])
  <2>5. x \in Seq(Piece) /\ y \in Seq(Piece) /\ Bytes(P(i1)) = x \o y
    BY <2>3, BytesBehind
  <2>6. Len(x \o y) = Len(x) + Len(y) /\ Len(x) \in Nat /\ Len(y) \in Nat
    BY <2>5, ConcatProperties, LenProperties
  <2>7. off[i1 + 1] = n + Len(Bytes(P(i1)))
    <3> DEFINE a == Len(x)
               b == Len(y)
               c == Len(Bytes(P(i1)))
               o == off[i1]
               e == off[i1 + 1]
    <3>1. a \in Nat /\ b \in Nat /\ c = a + b /\ o = n + a /\ e = o + b
      BY <2>4, <2>5, <2>6
    <3> HIDE DEF a, b, c, o, e
    <3>2. e = n + c
      BY <3>1
    <3> QED BY <3>2 DEF e, c
  <2>8. ASSUME NEW j \in 1..i1, p - off[j] \in Harmful(pp[j]) PROVE p - n \in Harmful(P(i1))
    <3>1. CASE j \in 1..i
      <4>1. p - n \in Harmful(P(i))
        BY <2>2, <2>8, <3>1
      <4> QED BY <2>3, <4>1, HarmBehind
    <3>2. CASE j = i1
      <4>1. Len(x) + (p - off[i1]) \in Harmful(P(i1))
        BY <2>3, <2>8, <3>2, HarmBehind
      <4>2. Len(x) + (p - off[i1]) = p - n
        <5> DEFINE a == Len(x)
                   o == off[i1]
        <5>1. a \in Nat /\ o = n + a
          BY <2>4, <2>6
        <5> HIDE DEF a, o
        <5>2. a + (p - o) = p - n
          BY <5>1
        <5> QED BY <5>2 DEF a, o
      <4> QED BY <4>1, <4>2
    <3> QED BY <2>1, <3>1, <3>2
  <2> QED BY <2>7, <2>8
<1> HIDE DEF T
<1>5. Nat \subseteq T
  BY <1>3, <1>4, NatSetInduction
<1>6. Known(k)
  <2> HIDE DEF Known
  <2>1. k \in T
    BY <1>1, <1>5
  <2>2. k <= k
    BY <1>1
  <2> QED BY <2>1, <2>2 DEF T
<1> QED BY <1>1, <1>6 DEF k

(* The same of a list of parts behind another.                             *)
LEMMA HarmSplit ==
  ASSUME NEW a \in Seq(Part), NEW b \in Seq(Part), NEW n \in Nat, NEW p \in Nat,
         p - n \notin Harmful(a \o b)
  PROVE  /\ p - n \notin Harmful(a) /\ p - (n + Len(Bytes(a))) \notin Harmful(b)
         /\ n + Len(Bytes(a)) \in Nat
<1> DEFINE z == Len(Bytes(a))
<1>1. z \in Nat
  <2>1. Bytes(a) \in Seq(Piece)
    BY BytesBehind
  <2> QED BY <2>1, LenProperties
<1>2. /\ p - n \in Harmful(a) => p - n \in Harmful(a \o b)
      /\ p - (n + z) \in Harmful(b) => z + (p - (n + z)) \in Harmful(a \o b)
  BY HarmBehind
<1> HIDE DEF z
<1>3. z + (p - (n + z)) = p - n /\ n + z \in Nat
  BY <1>1
<1> QED BY <1>2, <1>3 DEF z

(* A part that is not cut.                                                 *)
LEMMA PartUncut ==
  ASSUME NEW parts \in Seq(Part), NEW i \in 1..Len(parts), NEW n \in Nat, NEW p \in Nat,
         p - n \notin Harmful(parts)
  PROVE  /\ parts[i].kind = "name" => p - (n + Start(parts, i)) \notin 1..Len(parts[i].text)
         /\ parts[i].kind = "whole" => p - (n + Start(parts, i)) \notin 1..(Len(parts[i].text) - 1)
<1> DEFINE s == Start(parts, i)
           j == p - (n + s)
           z == Len(parts[i].text)
<1>1. s \in Nat
  BY StartNext
<1>2. z \in Nat
  <2>1. parts[i].text \in Seq(Piece)
    <3>1. parts[i] \in Part
      BY ElementOfSeq
    <3> QED BY <3>1 DEF Part
  <2> QED BY <2>1, LenProperties
<1>3. ASSUME NEW x \in Int, j \in 1..x, x <= z, parts[i].kind = "name" \/ (parts[i].kind = "whole" /\ x <= z - 1)
      PROVE  FALSE
  <2> HIDE DEF s, z
  <2>1. j \in Nat /\ j >= 1 /\ s + j = p - n /\ j <= z /\ (x <= z - 1 => j <= z - 1)
    BY <1>1, <1>2, <1>3
  <2> HIDE DEF j
  <2>2. s + j \in Harmful(parts)
    BY <1>3, <2>1, HarmOfPart DEF s, z
  <2> QED BY <2>1, <2>2
<1> HIDE DEF j, z, s
<1>4. z \in Int /\ z <= z /\ z - 1 \in Int /\ z - 1 <= z /\ z - 1 <= z - 1
  BY <1>2
<1>5. parts[i].kind = "name" => j \notin 1..z
  BY <1>3, <1>4
<1>6. parts[i].kind = "whole" => j \notin 1..(z - 1)
  BY <1>3, <1>4
<1> QED BY <1>5, <1>6 DEF j, z, s

------------------------------------------------------------------------------
(* A read that ends in a header line, but not inside a string of it.       *)
LEMMA LineUncut ==
  ASSUME NEW line, LineOk(line), NEW n \in Nat, NEW p \in Nat, p - n \notin Harmful(HeaderParts(line))
  PROVE  /\ p - n \notin 1..Len(line[1])
         /\ p - (n + Len(line[1]) + 2) \notin 1..(Len(line[2]) - 1)
<1> DEFINE q == HeaderParts(line)
           N == line[1]
           V == line[2]
<1>1. N \in Seq(Piece) /\ V \in Seq(Piece) /\ Len(N) \in Nat
  BY LenProperties DEF LineOk
<1>2. q \in Seq(Part) /\ Len(q) = 4
  BY <1>1, BytesOfHeader
<1>3. /\ q[1].kind = "name" /\ q[1].text = N /\ q[2].text = <<":", "sp">>
      /\ q[3].kind = "whole" /\ q[3].text = V
  BY DEF HeaderParts, Name, Plain, Whole
<1> HIDE DEF q, N, V
<1>4. Start(q, 1) = 0 /\ Start(q, 3) = Len(N) + 2
  <2>1. Start(q, 1) = 0 /\ \A i \in 1..4 : Start(q, i + 1) = Start(q, i) + Len(q[i].text)
    BY <1>2, StartNext
  <2>2. Start(q, 1 + 1) = Start(q, 1) + Len(q[1].text) /\ Start(q, 2 + 1) = Start(q, 2) + Len(q[2].text)
    BY <2>1
  <2>3. 1 + 1 = 2 /\ 2 + 1 = 3 /\ Len(<<":", "sp">>) = 2
    OBVIOUS
  <2> QED BY <1>1, <1>3, <2>1, <2>2, <2>3
<1>5. 1 \in 1..Len(q) /\ 3 \in 1..Len(q)
  BY <1>2
<1>6. p - (n + Start(q, 1)) \notin 1..Len(N) /\ p - (n + Start(q, 3)) \notin 1..(Len(V) - 1)
  BY <1>2, <1>3, <1>5, PartUncut DEF q
<1> DEFINE a == Len(N)
<1>7. a \in Nat
  BY <1>1
<1> HIDE DEF a
<1>8. n + 0 = n /\ n + (a + 2) = n + a + 2
  BY <1>7
<1> QED BY <1>4, <1>6, <1>8 DEF N, V, a

LEMMA ChunkUncut ==
  ASSUME NEW chunk \in Seq(Piece), Len(chunk) \in 1..9, NEW n \in Nat, NEW p \in Nat,
         p - n \notin Harmful(ChunkParts(chunk))
  PROVE  p - (n + 2) \notin 1..(Len(chunk) - 1)
<1> DEFINE q == ChunkParts(chunk)
<1>1. q \in Seq(Part)
  BY ChunkFound
<1>2. Len(q) = 3 /\ Len(q[1].text) = 2 /\ q[2].kind = "whole" /\ q[2].text = chunk
  BY DEF ChunkParts, Plain, Whole
<1> HIDE DEF q
<1>3. Start(q, 2) = 2
  <2>1. Start(q, 1) = 0 /\ \A i \in 1..3 : Start(q, i + 1) = Start(q, i) + Len(q[i].text)
    BY <1>1, <1>2, StartNext
  <2>2. Start(q, 1 + 1) = Start(q, 1) + Len(q[1].text)
    BY <2>1
  <2> QED BY <1>2, <2>1, <2>2
<1>4. 2 \in 1..Len(q)
  BY <1>2
<1> QED BY <1>1, <1>2, <1>3, <1>4, PartUncut DEF q

(* The same of all header lines.                                           *)
LEMMA LinesUncut ==
  ASSUME NEW x, NEW m, GoodLines(m), NEW a \in Nat, NEW line, LinesLaid(x, m, a, line),
         NEW p \in Nat, p - a \notin Harmful(HeadEnd(m))
  PROVE  \A j \in 1..NL(m) :
           /\ p - line[j] \notin 1..Len(TheLine(m, j)[1])
           /\ p - (line[j] + Len(TheLine(m, j)[1]) + 2) \notin 1..(Len(TheLine(m, j)[2]) - 1)
<1> DEFINE L == HeaderLinesOf(m)
           n == NL(m)
           pp == [i \in 1..n |-> HeaderParts(L[i])]
           all == FlattenSeq(pp)
           crlf == <<Plain(<<"crlf">>)>>
<1>1. /\ n \in Nat /\ \A j \in 1..n : LineOk(L[j]) /\ DOMAIN L = 1..n
      /\ \A j \in 1..n : TheLine(m, j) = L[j]
  BY DEF GoodLines, TheLine
<1>2. pp \in Seq(Seq(Part)) /\ Len(pp) = n
  <2>1. ASSUME NEW j \in 1..n PROVE HeaderParts(L[j]) \in Seq(Part)
    BY <1>1, BytesOfHeader DEF LineOk
  <2> QED BY <1>1, <2>1
<1>3. all \in Seq(Part)
  <2>1. 0 \in 0..Len(pp)
    BY <1>1, <1>2
  <2> QED BY <1>2, <2>1, FlatIsSeq
<1>4. crlf \in Seq(Part)
  <2>1. <<"crlf">> \in Seq(Piece)
    BY DEF Piece
  <2> QED BY <2>1, BytesPlain
<1>5. HeadEnd(m) = all \o crlf
  <2>1. DOMAIN L = 1..n
    BY DEF GoodLines, NL
  <2> QED BY <2>1 DEF HeadEnd, AllParts
<1>6. \A j \in 1..n : pp[j] = HeaderParts(L[j])
  OBVIOUS
<1> HIDE DEF pp, all, crlf
<1>7. p - a \notin Harmful(all)
  BY <1>3, <1>4, <1>5, HarmSplit
<1>8. ASSUME NEW j \in 1..Len(pp) PROVE line[j] \in Nat /\ line[j + 1] = line[j] + Len(Bytes(pp[j]))
  <2>1. j \in 1..n /\ j \in 1..(n + 1)
    BY <1>1, <1>2
  <2>2. line[j] \in Nat /\ line[j + 1] = line[j] + Len(L[j][1]) + Len(L[j][2]) + 3
    BY <1>1, <2>1 DEF LinesLaid
  <2> DEFINE N == L[j][1]
             V == L[j][2]
             z == Bytes(HeaderParts(L[j]))
  <2>3. N \in Seq(Piece) /\ V \in Seq(Piece) /\ Len(N) \in Nat /\ Len(V) \in Nat
    BY <1>1, <2>1, LenProperties DEF LineOk
  <2>4. Len(z) = Len(N) + Len(V) + 3
    <3> DEFINE c == <<":", "sp">>
               e == <<"crlf">>
               y1 == N \o c
               y2 == y1 \o V
    <3>1. z = y2 \o e
      BY <2>3, BytesOfHeader
    <3>2. c \in Seq(Piece) /\ Len(c) = 2 /\ e \in Seq(Piece) /\ Len(e) = 1
      BY DEF Piece
    <3> HIDE DEF c, e, z, N, V
    <3>3. y1 \in Seq(Piece) /\ Len(y1) = Len(N) + 2
      <4>1. N \o c \in Seq(Piece) /\ Len(N \o c) = Len(N) + Len(c)
        BY <2>3, <3>2, ConcatProperties
      <4> QED BY <3>2, <4>1
    <3> HIDE DEF y1
    <3>4. y2 \in Seq(Piece) /\ Len(y2) = Len(y1) + Len(V)
      BY <2>3, <3>3, ConcatProperties
    <3> HIDE DEF y2
    <3>5. Len(y2 \o e) = Len(y2) + Len(e)
      BY <3>2, <3>4, ConcatProperties
    <3> QED BY <2>3, <3>1, <3>2, <3>3, <3>4, <3>5
  <2>5. z = Bytes(pp[j])
    BY <1>6, <2>1
  <2> DEFINE u == line[j]
             b == Len(N)
             d == Len(V)
             f == Len(z)
  <2>6. u \in Nat /\ b \in Nat /\ d \in Nat /\ f = b + d + 3 /\ line[j + 1] = u + b + d + 3
    BY <2>2, <2>3, <2>4
  <2> HIDE DEF u, b, d, f
  <2>7. line[j + 1] = u + f
    BY <2>6
  <2> QED BY <2>2, <2>5, <2>7 DEF u, f
<1>9. \A j \in 1..Len(pp) : p - line[j] \notin Harmful(pp[j])
  <2>1. line[1] = a /\ p - a \notin Harmful(FlattenSeq(pp))
    BY <1>7 DEF LinesLaid, all
  <2>2. \A j \in 1..Len(pp) : line[j] \in Nat /\ line[j + 1] = line[j] + Len(Bytes(pp[j]))
    BY <1>8
  <2> QED BY <1>2, <2>1, <2>2, HarmFlat
<1>10. ASSUME NEW j \in 1..n
       PROVE  /\ p - line[j] \notin 1..Len(TheLine(m, j)[1])
              /\ p - (line[j] + Len(TheLine(m, j)[1]) + 2) \notin 1..(Len(TheLine(m, j)[2]) - 1)
  <2>1. j \in 1..Len(pp)
    BY <1>2
  <2>2. line[j] \in Nat /\ p - line[j] \notin Harmful(HeaderParts(L[j])) /\ LineOk(L[j]) /\ TheLine(m, j) = L[j]
    BY <1>1, <1>6, <1>8, <1>9, <2>1
  <2> HIDE DEF L
  <2> QED BY <2>2, LineUncut
<1> QED BY <1>10

------------------------------------------------------------------------------
(* The same of the body.                                                   *)
LEMMA BodyUncut ==
  ASSUME NEW x, NEW m, GoodBody(m), m.coding \in {"none", "eof", "length", "chunked"},
         NEW c \in Nat, NEW chunk, NEW end, BodyLaid(x, m, c, chunk, end),
         NEW p \in Nat, p - c \notin Harmful(BodyParts(m))
  PROVE  /\ m.coding = "length" => p - c \notin 1..(Len(m.body[1]) - 1)
         /\ m.coding = "eof" => p - c \notin 1..(Len(FlattenSeq(m.body)) - 1)
         /\ m.coding = "chunked" =>
              \A j \in 1..Len(m.body) : p - (chunk[j] + 2) \notin 1..(Len(m.body[j]) - 1)
<1>1. ASSUME NEW t \in Seq(Piece), BodyParts(m) = <<Whole(t)>> PROVE p - c \notin 1..(Len(t) - 1)
  <2> DEFINE q == <<Whole(t)>>
  <2>1. q \in Seq(Part) /\ Len(q) = 1 /\ q[1].kind = "whole" /\ q[1].text = t
    <3>1. Whole(t) \in Part
      BY DEF Whole, Part
    <3> QED BY <3>1 DEF Whole
  <2>2. p - c \notin Harmful(q)
    BY <1>1
  <2> HIDE DEF q
  <2>3. Start(q, 1) = 0 /\ 1 \in 1..Len(q) /\ c + 0 = c
    BY <2>1, StartNext
  <2>4. p - (c + Start(q, 1)) \notin 1..(Len(t) - 1)
    BY <2>1, <2>2, <2>3, PartUncut
  <2> QED BY <2>3, <2>4
<1>2. CASE m.coding = "none"
  BY <1>2
<1>3. CASE m.coding = "length"
  <2>1. m.body[1] \in Seq(Piece)
    <3>1. 1 \in 1..Len(m.body)
      BY <1>3 DEF GoodBody
    <3> QED BY <3>1, ElementOfSeq DEF GoodBody
  <2>2. BodyParts(m) = <<Whole(m.body[1])>>
    BY <1>3 DEF BodyParts
  <2> QED BY <1>1, <1>3, <2>1, <2>2
<1>4. CASE m.coding = "eof"
  <2>1. FlattenSeq(m.body) \in Seq(Piece)
    <3>1. 0 \in 0..Len(m.body)
      BY DEF GoodBody
    <3> QED BY <3>1, FlatIsSeq DEF GoodBody
  <2>2. BodyParts(m) = <<Whole(FlattenSeq(m.body))>>
    BY <1>4 DEF BodyParts
  <2> QED BY <1>1, <1>4, <2>1, <2>2
<1>5. CASE m.coding = "chunked"
  <2> DEFINE n == Len(m.body)
             pp == [i \in 1..n |-> ChunkParts(m.body[i])]
             all == FlattenSeq(pp)
             last == <<Plain(<<"0", "crlf", "crlf">>)>>
  <2>1. /\ n \in Nat /\ DOMAIN m.body = 1..n
        /\ \A i \in 1..n : m.body[i] \in Seq(Piece) /\ Len(m.body[i]) \in 1..9
    BY <1>5, LenProperties, ElementOfSeq DEF GoodBody
  <2>2. pp \in Seq(Seq(Part)) /\ Len(pp) = n
    <3>1. \A i \in 1..n : ChunkParts(m.body[i]) \in Seq(Part)
      BY <2>1, ChunkFound
    <3> QED BY <2>1, <3>1
  <2>3. all \in Seq(Part)
    <3>1. 0 \in 0..Len(pp)
      BY <2>1, <2>2
    <3> QED BY <2>2, <3>1, FlatIsSeq
  <2>4. last \in Seq(Part)
    <3>1. <<"0", "crlf", "crlf">> \in Seq(Piece)
      BY DEF Piece, Digit
    <3> QED BY <3>1, BytesPlain
  <2>5. BodyParts(m) = all \o last
    BY <1>5, <2>1 DEF BodyParts, AllParts
  <2>6. \A j \in 1..n : pp[j] = ChunkParts(m.body[j])
    OBVIOUS
  <2> HIDE DEF pp, all, last
  <2>7. p - c \notin Harmful(FlattenSeq(pp))
    <3>1. p - c \notin Harmful(all)
      BY <2>3, <2>4, <2>5, HarmSplit
    <3> QED BY <3>1 DEF all
  <2>8. chunk[1] = c
    BY <1>5 DEF BodyLaid
  <2>9. ASSUME NEW j \in 1..Len(pp) PROVE chunk[j] \in Nat /\ chunk[j + 1] = chunk[j] + Len(Bytes(pp[j]))
    <3>1. j \in 1..n /\ j \in 1..(n + 1)
      BY <2>1, <2>2
    <3>2. chunk[j] \in Nat /\ chunk[j + 1] = chunk[j] + Len(m.body[j]) + 3
      BY <1>5, <3>1 DEF BodyLaid
    <3>3. Len(Bytes(pp[j])) = Len(m.body[j]) + 3 /\ Len(m.body[j]) \in Nat
      BY <2>1, <2>6, <3>1, ChunkFound
    <3> DEFINE u == chunk[j]
               b == Len(m.body[j])
    <3>4. u \in Nat /\ b \in Nat
      BY <3>2, <3>3
    <3> HIDE DEF u, b
    <3>5. u + b + 3 = u + (b + 3)
      BY <3>4
    <3> QED BY <3>2, <3>3, <3>5 DEF u, b
  <2>10. \A j \in 1..Len(pp) : p - chunk[j] \notin Harmful(pp[j])
    <3>1. \A j \in 1..Len(pp) : chunk[j] \in Nat /\ chunk[j + 1] = chunk[j] + Len(Bytes(pp[j]))
      BY <2>9
    <3> QED BY <2>2, <2>7, <2>8, <3>1, HarmFlat
  <2>11. ASSUME NEW j \in 1..n PROVE p - (chunk[j] + 2) \notin 1..(Len(m.body[j]) - 1)
    <3>1. j \in 1..Len(pp)
      BY <2>2
    <3>2. chunk[j] \in Nat /\ p - chunk[j] \notin Harmful(ChunkParts(m.body[j]))
      BY <2>6, <2>9, <2>10, <3>1
    <3> QED BY <2>1, <3>2, ChunkUncut
  <2> QED BY <1>5, <2>11
<1> QED BY <1>2, <1>3, <1>4, <1>5

(* The same of a whole message.                                            *)
LEMMA MessageUncut ==
  ASSUME NEW x, NEW type, NEW m, Good(type, m), NEW l, Laid(x, type, m, l),
         BodyAt(m, l) = l.begin + Len(Bytes(HeadOf(type, m))),
         NEW p \in Nat, p - l.begin \notin Harmful(PartsOf(type, m))
  PROVE  UncutIn(type, m, l, p)
<1> DEFINE h == HeadEnd(m)
           d == BodyParts(m)
           b == l.begin
           c == BodyAt(m, l)
           first == IF type = "request"
                    THEN <<Plain(<<m.method, "sp">>), Name(m.url), Plain(<<"sp", m.version, "crlf">>)>>
                    ELSE <<Plain(<<m.version, "sp", m.status, "sp", "reason", "crlf">>)>>
           head == first \o h
<1>1. /\ b \in Nat /\ c \in Nat /\ LinesLaid(x, m, b + FirstSize(type, m), l.line)
      /\ BodyLaid(x, m, c, l.chunk, l.end)
  BY DEF Laid
<1>2. /\ GoodLines(m) /\ GoodBody(m) /\ m.coding \in {"none", "eof", "length", "chunked"}
      /\ type \in {"request", "response"}
  BY DEF Good, GoodFirst
<1>3. h \in Seq(Part) /\ d \in Seq(Part)
  BY <1>2, HeadEndParts, BodyPartsParts
<1>4. PartsOf(type, m) = head \o d /\ HeadOf(type, m) = head
  BY DEF PartsOf, HeadOf, RequestParts, ResponseParts, RequestHead, ResponseHead
<1>5. /\ first \in Seq(Part) /\ Len(Bytes(first)) = FirstSize(type, m)
      /\ (type = "request" /\ p - b \notin Harmful(first) => p - (b + 2) \notin 1..Len(m.url))
  <2>1. CASE type = "request"
    <3> DEFINE t1 == <<m.method, "sp">>
               t3 == <<"sp", m.version, "crlf">>
               u == m.url
               q == <<Plain(t1), Name(u), Plain(t3)>>
    <3>1. /\ t1 \in Seq(Piece) /\ Len(t1) = 2 /\ t3 \in Seq(Piece) /\ Len(t3) = 3
          /\ u \in Seq(Piece) /\ Len(u) \in Nat
      BY <2>1 DEF Good, GoodFirst, Piece
    <3>2. first = q
      BY <2>1
    <3> HIDE DEF t1, t3
    <3>3. /\ q \in Seq(Part) /\ Len(q) = 3 /\ q[1].text = t1 /\ q[2].text = u /\ q[3].text = t3
          /\ q[2].kind = "name"
      <4>1. Plain(t1) \in Part /\ Name(u) \in Part /\ Plain(t3) \in Part
        BY <3>1 DEF Plain, Name, Part
      <4> QED BY <4>1 DEF Plain, Name
    <3> HIDE DEF q, first, u
    <3>4. /\ Start(q, 1) = 0 /\ Start(q, 2) = 2 /\ Start(q, 4) = Len(u) + 5
      <4>1. Start(q, 1) = 0 /\ \A i \in 1..3 : Start(q, i + 1) = Start(q, i) + Len(q[i].text)
        BY <3>3, StartNext
      <4>2. /\ Start(q, 1 + 1) = Start(q, 1) + 2 /\ Start(q, 2 + 1) = Start(q, 2) + Len(u)
            /\ Start(q, 3 + 1) = Start(q, 3) + 3
        <5>1. /\ Start(q, 1 + 1) = Start(q, 1) + Len(q[1].text)
              /\ Start(q, 2 + 1) = Start(q, 2) + Len(q[2].text)
              /\ Start(q, 3 + 1) = Start(q, 3) + Len(q[3].text)
          BY <4>1
        <5> QED BY ONLY <3>1, <3>3, <5>1
      <4>3. 1 + 1 = 2 /\ 2 + 1 = 3 /\ 3 + 1 = 4
        OBVIOUS
      <4> QED BY <3>1, <4>1, <4>2, <4>3
    <3>5. Start(q, 4) = Len(Bytes(q))
      <4>1. SubSeq(q, 1, 3) = q
        BY <3>3, SubSeqFull
      <4>2. 4 - 1 = 3
        OBVIOUS
      <4> QED BY <4>1, <4>2 DEF Start
    <3>6. ASSUME p - b \notin Harmful(q) PROVE p - (b + 2) \notin 1..Len(u)
      <4>1. 2 \in 1..Len(q)
        BY <3>3
      <4> QED BY <1>1, <3>3, <3>4, <3>6, <4>1, PartUncut
    <3> QED BY <2>1, <3>2, <3>3, <3>4, <3>5, <3>6 DEF FirstSize, u
  <2>2. CASE type # "request"
    <3> DEFINE t == <<m.version, "sp", m.status, "sp", "reason", "crlf">>
    <3>1. t \in Seq(Piece) /\ Len(t) = 6
      BY <1>2, <2>2 DEF Good, GoodFirst, Piece
    <3>2. first = <<Plain(t)>>
      BY <2>2
    <3> HIDE DEF t, first
    <3> QED BY <2>2, <3>1, <3>2, BytesPlain DEF FirstSize
  <2> QED BY <2>1, <2>2
<1> HIDE DEF first, h, d
<1>6. head \in Seq(Part)
  BY <1>3, <1>5, ConcatProperties
<1>7. p - b \notin Harmful(head \o d)
  BY <1>4
<1>8. p - b \notin Harmful(head) /\ p - c \notin Harmful(d)
  <2>1. c = b + Len(Bytes(head))
    BY <1>4
  <2> HIDE DEF head, b, c
  <2>2. p - b \notin Harmful(head) /\ p - (b + Len(Bytes(head))) \notin Harmful(d)
    BY <1>1, <1>3, <1>6, <1>7, HarmSplit
  <2> QED BY <2>1, <2>2
<1>9. p - b \notin Harmful(first) /\ p - (b + FirstSize(type, m)) \notin Harmful(h) /\ b + FirstSize(type, m) \in Nat
  <2> HIDE DEF b
  <2>1. /\ p - b \notin Harmful(first) /\ p - (b + Len(Bytes(first))) \notin Harmful(h)
        /\ b + Len(Bytes(first)) \in Nat
    BY <1>1, <1>3, <1>5, <1>8, HarmSplit
  <2> QED BY <1>5, <2>1
<1> DEFINE a == b + FirstSize(type, m)
<1>10. /\ a \in Nat /\ LinesLaid(x, m, a, l.line) /\ p - a \notin Harmful(HeadEnd(m))
  BY <1>1, <1>9 DEF h
<1> HIDE DEF a
<1>11. \A j \in 1..NL(m) :
           /\ p - l.line[j] \notin 1..Len(TheLine(m, j)[1])
           /\ p - (l.line[j] + Len(TheLine(m, j)[1]) + 2) \notin 1..(Len(TheLine(m, j)[2]) - 1)
  BY <1>2, <1>10, LinesUncut
<1> HIDE DEF b, c
<1>12. /\ m.coding = "length" => p - c \notin 1..(Len(m.body[1]) - 1)
       /\ m.coding = "eof" => p - c \notin 1..(Len(FlattenSeq(m.body)) - 1)
       /\ m.coding = "chunked" =>
            \A j \in 1..Len(m.body) : p - (l.chunk[j] + 2) \notin 1..(Len(m.body[j]) - 1)
  BY <1>1, <1>2, <1>8, BodyUncut DEF d
<1> QED BY <1>5, <1>9, <1>11, <1>12 DEF UncutIn, b, c

(* And of a stream.                                                        *)
LEMMA StreamUncut ==
  ASSUME NEW y, Stream(y),
         \A i \in 1..Len(y.msgs) :
           BodyAt(y.msgs[i], y.at[i]) = y.off[i] + Len(Bytes(HeadOf(y.type, y.msgs[i]))),
         NEW pp \in Seq(Seq(Part)), Len(pp) = Len(y.msgs),
         \A i \in 1..Len(y.msgs) : /\ pp[i] = PartsOf(y.type, y.msgs[i])
                                   /\ y.off[i + 1] = y.off[i] + Len(Bytes(pp[i])),
         NEW p \in Nat, p \notin Harmful(FlattenSeq(pp))
  PROVE  Uncut(y, p)
<1>1. y.off[1] = 0 /\ p - 0 = p
  BY DEF Stream
<1>2. \A j \in 1..Len(pp) : y.off[j] \in Nat /\ y.off[j + 1] = y.off[j] + Len(Bytes(pp[j]))
  BY MessageSpot
<1>3. \A j \in 1..Len(pp) : p - y.off[j] \notin Harmful(pp[j])
  <2>1. p - 0 \notin Harmful(FlattenSeq(pp)) /\ 0 \in Nat
    BY <1>1
  <2> QED BY <1>1, <1>2, <2>1, HarmFlat
<1>4. ASSUME NEW i \in 1..Len(y.msgs) PROVE UncutIn(y.type, y.msgs[i], y.at[i], p)
  <2> DEFINE m == y.msgs[i]
             l == y.at[i]
  <2>1. /\ Good(y.type, m) /\ Laid(y.wire, y.type, m, l) /\ l.begin = y.off[i]
        /\ BodyAt(m, l) = y.off[i] + Len(Bytes(HeadOf(y.type, m)))
        /\ p - y.off[i] \notin Harmful(PartsOf(y.type, m))
    BY <1>3, MessageSpot
  <2> HIDE DEF m, l
  <2> QED BY <2>1, MessageUncut DEF m, l
<1> QED BY <1>4 DEF Uncut

------------------------------------------------------------------------------
(* The messages of y that a parser which has read p bytes has found whole. *)
Done(y, p) ==
  {i \in 1..Len(y.msgs) : /\ y.off[i + 1] <= p /\ y.msgs[i].coding # "eof"
                          /\ \A j \in 1..i : Fits(y, j)
                          /\ \A j \in 1..(i - 1) : KeepsOpen(y.msgs[j])}

(* The parser has read the messages before message i, and not all of that. *)
Standing(y, p, i) ==
  /\ y.off[i] <= p
  /\ i <= Len(y.msgs) /\ y.msgs[i].coding # "eof" => p < y.off[i + 1]
  /\ \A j \in 1..(i - 1) : Fits(y, j) /\ y.msgs[j].coding # "eof"
  /\ \A j \in 1..(i - 2) : KeepsOpen(y.msgs[j])

LEMMA DoneIs ==
  ASSUME NEW y, Stream(y), NEW p \in Nat, NEW i \in 1..(Len(y.msgs) + 1), Standing(y, p, i)
  PROVE  Done(y, p) = 1..(i - 1)
<1> DEFINE n == Len(y.msgs)
<1>1. /\ n \in Nat /\ \A j \in 1..(n + 1) : y.off[j] \in Nat
      /\ \A j, k \in 1..(n + 1) : j <= k => y.off[j] <= y.off[k]
      /\ \A j \in 1..n : y.msgs[j].coding = "eof" => j = n
  BY DEF Stream
<1>2. /\ y.off[i] <= p
      /\ i <= n /\ y.msgs[i].coding # "eof" => p < y.off[i + 1]
      /\ \A j \in 1..(i - 1) : Fits(y, j) /\ y.msgs[j].coding # "eof"
      /\ \A j \in 1..(i - 2) : KeepsOpen(y.msgs[j])
  BY DEF Standing
<1>3. ASSUME NEW x \in Done(y, p) PROVE x \in 1..(i - 1)
  <2>1. x \in 1..n /\ y.off[x + 1] <= p /\ y.msgs[x].coding # "eof"
    BY DEF Done
  <2> HIDE DEF n
  <2>2. ASSUME x >= i PROVE FALSE
    <3> DEFINE i1 == i + 1
               x1 == x + 1
    <3>1. i <= n /\ i1 \in 1..(n + 1) /\ x1 \in 1..(n + 1) /\ i1 <= x1
      BY <1>1, <2>1, <2>2
    <3>3. y.msgs[i].coding # "eof"
      BY <1>1, <2>1, <2>2, <3>1
    <3> DEFINE a == y.off[i1]
               b == y.off[x1]
    <3>2. a \in Nat /\ b \in Nat /\ a <= b /\ p < a /\ b <= p
      BY <1>1, <1>2, <2>1, <3>1, <3>3
    <3> HIDE DEF a, b
    <3> QED BY <3>2
  <2> QED BY <1>1, <2>1, <2>2
<1>4. ASSUME NEW x \in 1..(i - 1) PROVE x \in Done(y, p)
  <2> HIDE DEF n
  <2> DEFINE x1 == x + 1
  <2>1. x \in 1..n /\ x1 \in 1..(n + 1) /\ x1 <= i /\ i \in 1..(n + 1)
    BY <1>1 DEF n
  <2> DEFINE a == y.off[x1]
             b == y.off[i]
  <2>2. a \in Nat /\ b \in Nat /\ a <= b /\ b <= p
    BY <1>1, <1>2, <2>1
  <2> HIDE DEF a, b
  <2>3. a <= p
    BY <2>2
  <2>4. \A j \in 1..x : j \in 1..(i - 1)
    BY <1>1, <2>1
  <2>5. \A j \in 1..(x - 1) : j \in 1..(i - 2)
    BY <1>1, <2>1
  <2> QED BY <1>2, <2>1, <2>3, <2>4, <2>5 DEF Done, a, n
<1> QED BY <1>3, <1>4

(* In a read that ends no message before its last byte.                    *)
LEMMA DoneBefore ==
  ASSUME NEW y, Stream(y), NEW c \in Nat, NEW d \in Nat, c < d, Undivided(TRUE, y, c, d)
  PROVE  /\ \A x \in Done(y, d) : x \in Done(y, c) \/ y.off[x + 1] = d
         /\ Done(y, c) \subseteq Done(y, d)
         /\ \A x \in Done(y, c) : y.off[x + 1] # d
<1> DEFINE n == Len(y.msgs)
<1>1. /\ n \in Nat /\ \A j \in 1..(n + 1) : y.off[j] \in Nat /\ ~(c < y.off[j] /\ y.off[j] < d)
  BY DEF Stream, Undivided
<1>2. \A x \in 1..n : x + 1 \in 1..(n + 1)
  BY <1>1
<1>3. \A x \in 1..n : y.off[x + 1] <= d => y.off[x + 1] <= c \/ y.off[x + 1] = d
  <2> SUFFICES ASSUME NEW x \in 1..n, y.off[x + 1] <= d PROVE y.off[x + 1] <= c \/ y.off[x + 1] = d
    OBVIOUS
  <2> DEFINE o == y.off[x + 1]
  <2>1. o \in Nat /\ ~(c < o /\ o < d) /\ o <= d
    BY <1>1, <1>2
  <2> HIDE DEF o
  <2>2. o <= c \/ o = d
    BY <2>1
  <2> QED BY <2>2 DEF o
<1>4. \A x \in 1..n : y.off[x + 1] <= c => y.off[x + 1] <= d /\ y.off[x + 1] # d
  <2> SUFFICES ASSUME NEW x \in 1..n, y.off[x + 1] <= c PROVE y.off[x + 1] <= d /\ y.off[x + 1] # d
    OBVIOUS
  <2> DEFINE o == y.off[x + 1]
  <2>1. o \in Nat /\ o <= c
    BY <1>1, <1>2
  <2> HIDE DEF o
  <2>2. o <= d /\ o # d
    BY <2>1
  <2> QED BY <2>2 DEF o
<1> QED BY <1>3, <1>4 DEF Done

(* Where the parser stands.                                                *)
LEMMA BetweenStands ==
  ASSUME NEW y, Stream(y), NEW e \in BOOLEAN, NEW h, NEW p \in Nat,
         NEW i \in 1..(Len(y.msgs) + 1), Between(e, h, y, p, i)
  PROVE  Standing(y, p, i) /\ y.off[i] = p
<1>1. /\ p = y.off[i] /\ Len(y.msgs) \in Nat
      /\ i > 1 => /\ \A j \in 1..((i - 1) - 1) : Fits(y, j) /\ KeepsOpen(y.msgs[j])
                  /\ Fits(y, i - 1) /\ y.msgs[i - 1].coding # "eof"
      /\ \A j \in 1..Len(y.msgs) : y.msgs[j].coding = "eof" => j = Len(y.msgs)
  BY DEF Between, Through, Stream
<1>2. \A j \in 1..(i - 1) : Fits(y, j) /\ y.msgs[j].coding # "eof"
  <2> SUFFICES ASSUME NEW j \in 1..(i - 1) PROVE Fits(y, j) /\ y.msgs[j].coding # "eof"
    OBVIOUS
  <2>1. i > 1 /\ (j = i - 1 \/ (j \in 1..((i - 1) - 1) /\ j \in 1..Len(y.msgs) /\ j # Len(y.msgs)))
    BY <1>1
  <2> QED BY <1>1, <2>1
<1>3. \A j \in 1..(i - 2) : KeepsOpen(y.msgs[j])
  <2> SUFFICES ASSUME NEW j \in 1..(i - 2) PROVE KeepsOpen(y.msgs[j])
    OBVIOUS
  <2>1. i > 1 /\ j \in 1..((i - 1) - 1)
    BY <1>1
  <2> QED BY <1>1, <2>1
<1>4. i <= Len(y.msgs) => p < y.off[i + 1]
  <2> SUFFICES ASSUME i <= Len(y.msgs) PROVE p < y.off[i + 1]
    OBVIOUS
  <2> DEFINE b == BodyAt(y.msgs[i], y.at[i])
             o == y.off[i + 1]
  <2>1. i \in 1..Len(y.msgs)
    BY <1>1
  <2>2. b \in Nat /\ o \in Nat /\ p + 6 <= b /\ b <= o
    BY <1>1, <2>1, MessageSpot
  <2> HIDE DEF b, o
  <2>3. p < o
    BY <2>2
  <2> QED BY <2>3 DEF o
<1>5. y.off[i] <= p
  BY <1>1
<1> QED BY <1>1, <1>2, <1>3, <1>4, <1>5 DEF Standing

LEMMA InsideStands ==
  ASSUME NEW y, Stream(y), NEW e \in BOOLEAN, NEW h, NEW p \in Nat,
         NEW i \in 1..Len(y.msgs), InHead(e, h, y, p, i) \/ InBody(e, h, y, p, i)
  PROVE  Standing(y, p, i) /\ y.off[i] < p
<1> DEFINE m == y.msgs[i]
           l == y.at[i]
           b == BodyAt(m, l)
           o == y.off[i]
           z == y.off[i + 1]
<1>1. /\ Good(y.type, m) /\ Laid(y.wire, y.type, m, l) /\ l.begin = o /\ l.end = z
      /\ b \in Nat /\ o \in Nat /\ z \in Nat /\ o + 6 <= b /\ b <= z
  BY MessageSpot
<1>2. Through(y, i)
  BY DEF InHead, InBody
<1>3. \/ HeadPlace(e, h, y.type, m, l, p)
      \/ BodyPlace(e, h, y.type, m, l, p)
  BY DEF InHead, InBody
<1> HIDE DEF m, l
<1>5. o < p /\ (m.coding # "eof" => p < z)
  <2>1. CASE HeadPlace(e, h, y.type, m, l, p)
    <3>1. l.begin < p /\ p < b
      BY <1>1, <2>1, HeadWithin
    <3> HIDE DEF b, o, z
    <3> QED BY <1>1, <3>1
  <2>2. CASE BodyPlace(e, h, y.type, m, l, p)
    <3>1. b <= p /\ (m.coding # "eof" => p < l.end)
      BY <1>1, <2>2, BodyWithin
    <3> HIDE DEF b, o, z
    <3> QED BY <1>1, <3>1
  <2> QED BY <1>3, <2>1, <2>2
<1>6. o <= p
  <2> HIDE DEF o, z
  <2> QED BY <1>1, <1>5
<1>7. \A j \in 1..(i - 1) : Fits(y, j) /\ KeepsOpen(y.msgs[j])
  BY <1>2 DEF Through
<1>8. \A j \in 1..(i - 2) : j \in 1..(i - 1)
  OBVIOUS
<1>9. \A j \in 1..(i - 1) : y.msgs[j].coding # "eof"
  <2> SUFFICES ASSUME NEW j \in 1..(i - 1) PROVE y.msgs[j].coding # "eof"
    OBVIOUS
  <2>1. Len(y.msgs) \in Nat /\ \A k \in 1..Len(y.msgs) : y.msgs[k].coding = "eof" => k = Len(y.msgs)
    BY DEF Stream
  <2>2. j \in 1..Len(y.msgs) /\ j # Len(y.msgs)
    BY <2>1
  <2> QED BY <2>1, <2>2
<1> QED BY <1>5, <1>6, <1>7, <1>8, <1>9 DEF Standing, m, o, z

------------------------------------------------------------------------------
(* The parser holds the message before message i.                          *)
HoldsLast(h, y, i) == h.message = MessageOf(y.type, y.msgs[i - 1])

(* A message is handled: the parser begins the next.                       *)
LEMMA ResetReady ==
  ASSUME NEW y, NEW p, NEW i \in Nat, NEW h, IsParser(h),
         Between(TRUE, Resume(h), y, p, i), Resume(h).complete = TRUE
  PROVE  /\ Between(TRUE, Resume(ResetMessage(h)), y, p, i)
         /\ HoldsLast(h, y, i)
<1> DEFINE r == Resume(h)
           q == ResetMessage(h)
           g == Resume(q)
<1>1. /\ r.type = h.type /\ r.error = h.error /\ r.nread = h.nread /\ r.state = h.state
      /\ r.message = h.message
  BY DEF Resume, IsParser, Fields
<1>2. /\ p = y.off[i] /\ r.type = y.type /\ r.error = FALSE /\ r.nread = Carry(y, i)
      /\ i > 1 => Through(y, i - 1) /\ Fits(y, i - 1) /\ y.msgs[i - 1].coding # "eof"
      /\ r.state = IF i = 1 \/ KeepsOpen(y.msgs[i - 1]) THEN "start" ELSE "dead"
      /\ Ready(r, y.type) \/ (i > 1 /\ r.message = MessageOf(y.type, y.msgs[i - 1]))
  BY DEF Between
<1>3. i > 1 /\ r.message = MessageOf(y.type, y.msgs[i - 1])
  BY <1>2 DEF Ready, Unended
<1> HIDE DEF r
<1>4. /\ IsParser(q) /\ q.type = h.type /\ q.error = h.error /\ q.nread = h.nread /\ q.state = h.state
      /\ q.complete = FALSE /\ q.headFieldTemp = <<>>
  BY DEF ResetMessage, IsParser, Fields
<1>5. /\ DOMAIN q.message = MessageFields /\ q.message.headers = NoHeaders /\ q.message.body = <<>>
      /\ y.type = "request" => q.message.status = "unset"
      /\ y.type = "response" => q.message.method = "unset" /\ q.message.url = <<>>
  <2> DEFINE m == MessageOf(y.type, y.msgs[i - 1])
  <2>1. /\ DOMAIN m = MessageFields
        /\ y.type = "request" => m.status = "unset"
        /\ y.type = "response" => m.method = "unset" /\ m.url = <<>>
    BY DEF MessageOf, RequestOf, ResponseOf, MessageFields
  <2>2. h.message = m
    BY <1>1, <1>3
  <2> HIDE DEF m
  <2>3. q.message = [m EXCEPT !.headers = NoHeaders, !.body = <<>>]
    BY <2>2 DEF ResetMessage, IsParser, Fields
  <2> QED BY <2>1, <2>3 DEF MessageFields
<1> HIDE DEF q
<1>6. /\ g.type = q.type /\ g.error = q.error /\ g.nread = q.nread /\ g.state = q.state
      /\ g.complete = q.complete /\ g.headFieldTemp = q.headFieldTemp /\ g.message = q.message
      /\ q.state \notin {"url", "field", "value"} => g.mark = NoMark
  BY <1>4 DEF Resume, IsParser, Fields
<1> HIDE DEF g
<1>7. q.state \notin {"url", "field", "value"}
  BY <1>1, <1>2, <1>4
<1>8. Ready(g, y.type)
  BY <1>4, <1>5, <1>6, <1>7 DEF Ready, Unended
<1>9. Between(TRUE, g, y, p, i)
  BY <1>1, <1>2, <1>4, <1>6, <1>8 DEF Between
<1>10. HoldsLast(h, y, i)
  BY <1>1, <1>3 DEF HoldsLast
<1> QED BY <1>9, <1>10 DEF g, q

(* Two beginnings of the naturals of which one has one more.               *)
LEMMA OneMore ==
  ASSUME NEW k \in Nat, NEW j \in Nat, j >= 1,
         \A x : x \in 1..k <=> x \in 1..j /\ x # j
  PROVE  j = k + 1
<1>1. k < j
  <2> SUFFICES ASSUME j <= k PROVE FALSE
    OBVIOUS
  <2>1. j \in 1..k
    OBVIOUS
  <2> QED BY <2>1
<1>2. k + 1 \in 1..j /\ k + 1 \notin 1..k
  BY <1>1
<1>3. k + 1 \in 1..j /\ k + 1 # j => k + 1 \in 1..k
  OBVIOUS
<1> QED BY <1>1, <1>2, <1>3

(* What a call of http_parser_execute comes to that cuts no string and in  *)
(* which no message ends before its last byte: k messages were whole.      *)
Called(y, c, d, k, g) ==
  /\ ~g.error => g.used = d - c
  /\ g.error => Done(y, d) = 1..k /\ Blame(y, d)
  /\ ~g.error /\ g.complete = FALSE => Done(y, d) = 1..k /\ Place(TRUE, Resume(Idle(g)), y, d)
  /\ ~g.error /\ g.complete = TRUE =>
       /\ Done(y, d) = 1..(k + 1) /\ k + 1 \in 1..Len(y.msgs)
       /\ Idle(g).message = MessageOf(y.type, y.msgs[k + 1])
       /\ Place(TRUE, Resume(ResetMessage(Idle(g))), y, d)
       /\ Idle(g).state \in {"start", "dead"}

LEMMA CallDone ==
  ASSUME NEW y, Stream(y), NEW c \in Nat, NEW d \in Nat, c < d, d <= Len(y.wire),
         Undivided(TRUE, y, c, d), Uncut(y, d),
         NEW h, AtRest(h), h.error = FALSE, h.complete = FALSE, Place(TRUE, Resume(h), y, c),
         NEW k \in Nat, Done(y, c) = 1..k,
         NEW g, g = Execute(h, SubSeq(y.wire, c + 1, d)), IsParser(Idle(g)),
         Idle(g).complete = g.complete
  PROVE  Called(y, c, d, k, g)
<1> DEFINE r == Resume(Idle(g))
           s == Len(y.msgs)
<1>0. s \in Nat
  BY DEF Stream
<1>1. /\ g.error => Blame(y, d)
      /\ ~g.error => g.used = d - c /\ Reached(TRUE, r, y, d)
  BY CallExact
<1>2. /\ \A x \in Done(y, d) : x \in Done(y, c) \/ y.off[x + 1] = d
      /\ Done(y, c) \subseteq Done(y, d)
      /\ \A x \in Done(y, c) : y.off[x + 1] # d
  BY DoneBefore, ZenonT(40)
<1>3. r.complete = g.complete /\ r.state = Idle(g).state
  BY DEF Resume, IsParser, Fields
<1> DEFINE q == Idle(g)
<1> HIDE DEF s, q
<1>4. ASSUME g.error PROVE Done(y, d) = 1..k
  <2>1. ASSUME NEW x \in Done(y, d), y.off[x + 1] = d PROVE FALSE
    <3> DEFINE i == x + 1
    <3>1. /\ x \in 1..s /\ i \in 1..(s + 1) /\ i - 1 = x /\ i - 2 = x - 1
          /\ \A j \in 1..x : Fits(y, j)
          /\ \A j \in 1..(x - 1) : KeepsOpen(y.msgs[j])
      <4>1. x \in 1..s
        BY DEF Done, s
      <4>2. \A j \in 1..x : Fits(y, j)
        BY DEF Done
      <4>3. \A j \in 1..(x - 1) : KeepsOpen(y.msgs[j])
        BY DEF Done
      <4>4. i \in 1..(s + 1) /\ i - 1 = x /\ i - 2 = x - 1
        BY ONLY <1>0, <4>1
      <4> QED BY ONLY <4>1, <4>2, <4>3, <4>4
    <3>2. d <= y.off[i]
      BY <2>1
    <3> HIDE DEF i
    <3>3. FineUpTo(y, d, i)
      BY <3>1, <3>2 DEF FineUpTo
    <3>4. i \in 1..(Len(y.msgs) + 1)
      BY <3>1 DEF s
    <3>5. ~Blame(y, d)
      BY <3>3, <3>4, FineNotBlamed
    <3> QED BY <1>1, <1>4, <3>5
  <2> QED BY <1>2, <2>1
<1>5. ASSUME ~g.error, g.complete = FALSE
      PROVE  Done(y, d) = 1..k /\ Place(TRUE, r, y, d)
  <2>1. Reached(TRUE, r, y, d)
    BY <1>1, <1>5
  <2> HIDE DEF r
  <2>2. PICK i \in 1..s : InHead(TRUE, r, y, d, i) \/ InBody(TRUE, r, y, d, i)
    BY <1>3, <1>5, <2>1 DEF Reached, s
  <2>3. Standing(y, d, i) /\ y.off[i] < d
    BY <2>2, InsideStands DEF s
  <2>4. i \in 1..(s + 1)
    BY <1>0
  <2>5. Done(y, d) = 1..(i - 1)
    BY <2>3, <2>4, DoneIs DEF s
  <2>6. ASSUME NEW x \in Done(y, d) PROVE y.off[x + 1] # d
    <3> DEFINE x1 == x + 1
               a == y.off[x1]
               b == y.off[i]
    <3>1. x1 \in 1..(s + 1) /\ x1 <= i
      BY <1>0, <2>4, <2>5
    <3>2. a \in Nat /\ b \in Nat /\ a <= b
      BY <2>4, <3>1 DEF Stream, s
    <3>3. b < d
      BY <2>3
    <3> HIDE DEF a, b
    <3>4. a # d
      BY <3>2, <3>3
    <3> QED BY <3>4 DEF a
  <2>7. Done(y, d) = Done(y, c)
    BY <1>2, <2>6
  <2>8. Place(TRUE, r, y, d)
    BY <2>2 DEF Place, s
  <2> QED BY <2>7, <2>8
<1>6. ASSUME ~g.error, g.complete = TRUE
      PROVE  /\ Done(y, d) = 1..(k + 1) /\ k + 1 \in 1..s
             /\ q.message = MessageOf(y.type, y.msgs[k + 1])
             /\ Place(TRUE, Resume(ResetMessage(q)), y, d)
             /\ q.state \in {"start", "dead"}
  <2>1. r.complete = TRUE
    BY <1>3, <1>6
  <2>2. PICK i \in 1..(s + 1) : i > 1 /\ Between(TRUE, r, y, d, i)
    <3>1. Place(TRUE, r, y, d)
      <4>1. Reached(TRUE, r, y, d)
        BY <1>1, <1>6
      <4> HIDE DEF r
      <4> QED BY <4>1 DEF Reached, Place
    <3> HIDE DEF r
    <3> QED BY <2>1, <3>1, CompleteAt DEF s
  <2>3. /\ Between(TRUE, Resume(ResetMessage(q)), y, d, i)
        /\ HoldsLast(q, y, i)
    <3>1. IsParser(q) /\ Resume(q).complete = TRUE
      BY <2>1 DEF q
    <3>2. Between(TRUE, Resume(q), y, d, i)
      BY <2>2 DEF q
    <3>3. i \in Nat
      BY <1>0
    <3> QED BY ONLY <3>1, <3>2, <3>3, ResetReady
  <2>4. Standing(y, d, i) /\ y.off[i] = d
    <3>1. Stream(y) /\ d \in Nat /\ i \in 1..(Len(y.msgs) + 1)
      BY DEF s
    <3>2. Between(TRUE, r, y, d, i)
      BY <2>2
    <3> HIDE DEF r
    <3> QED BY ONLY <3>1, <3>2, BetweenStands, ZenonT(40)
  <2>5. Done(y, d) = 1..(i - 1)
    BY <2>4, DoneIs DEF s
  <2>6. ASSUME NEW x \in 1..(i - 1) PROVE y.off[x + 1] = d <=> x = i - 1
    <3> SUFFICES ASSUME x # i - 1, y.off[x + 1] = d PROVE FALSE
      <4>1. (i - 1) + 1 = i
        BY <1>0, <2>2
      <4> QED BY <2>4, <4>1
    <3> DEFINE x1 == x + 1
               x2 == (x + 1) + 1
    <3>1. x1 \in 1..s /\ x1 \in 1..(s + 1) /\ x2 \in 1..(s + 1) /\ i \in 1..(s + 1) /\ x2 <= i
          /\ x1 + 1 = x2
      BY <1>0, <2>2
    <3> DEFINE b == BodyAt(y.msgs[x1], y.at[x1])
               o == y.off[x1]
               z == y.off[x1 + 1]
               t == y.off[i]
    <3>2. b \in Nat /\ o \in Nat /\ z \in Nat /\ o + 6 <= b /\ b <= z
      BY <3>1, MessageSpot DEF s
    <3>3. z <= t
      BY <3>1 DEF Stream, s
    <3>4. t = d /\ o = d
      BY <2>4
    <3> HIDE DEF b, o, z, t
    <3> QED BY <3>2, <3>3, <3>4
  <2> DEFINE j == i - 1
  <2>7. j \in Nat /\ j >= 1 /\ j \in 1..s
    BY <1>0, <2>2
  <2>8. \A x : x \in 1..k <=> x \in 1..j /\ x # j
    BY <1>2, <2>5, <2>6
  <2>9. j = k + 1
    <3> HIDE DEF j
    <3> QED BY <2>7, <2>8, OneMore
  <2>10. q.message = MessageOf(y.type, y.msgs[k + 1])
    BY <2>3, <2>9 DEF HoldsLast
  <2>11. Place(TRUE, Resume(ResetMessage(q)), y, d)
    BY <2>3 DEF Place, s
  <2>12. q.state \in {"start", "dead"}
    BY <1>3, <2>2 DEF Between, q
  <2> QED BY <2>5, <2>7, <2>9, <2>10, <2>11, <2>12
<1> QED BY <1>1, <1>4, <1>5, <1>6 DEF s, q, Called

------------------------------------------------------------------------------
(* At the first byte.                                                      *)
LEMMA AtTheBegin ==
  ASSUME NEW y, Stream(y), NEW e \in BOOLEAN
  PROVE  Place(e, NewParser(y.type), y, 0) /\ NewParser(y.type).nread <= HTTP_MAX_HEADER_SIZE
<1> DEFINE h == NewParser(y.type)
<1>1. Len(y.msgs) \in Nat /\ y.off[1] = 0 /\ y.type \in {"request", "response"}
  BY DEF Stream
<1>2. /\ h.type = y.type /\ h.error = FALSE /\ h.nread = 0 /\ h.state = "start"
      /\ Ready(h, y.type)
  BY <1>1 DEF NewParser, Ready, Unended, MessageFields
<1> HIDE DEF h
<1>3. Carry(y, 1) = 0
  BY DEF Carry
<1>4. Between(e, h, y, 0, 1)
  BY <1>1, <1>2, <1>3 DEF Between
<1>5. 1 \in 1..(Len(y.msgs) + 1)
  BY <1>1
<1> QED BY <1>2, <1>4, <1>5, HeaderSizeIsPositive DEF Place, h

LEMMA NothingDone ==
  ASSUME NEW y, Stream(y), NEW h, h = NewParser(y.type)
  PROVE  Place(TRUE, Resume(h), y, 0) /\ Done(y, 0) = 1..0
<1>1. Len(y.msgs) \in Nat /\ y.off[1] = 0
  BY DEF Stream
<1>2. Place(TRUE, Resume(h), y, 0)
  <2> DEFINE g == Resume(h)
  <2>1. Alike(TRUE, h, g) /\ g.nread = h.nread /\ g.stop = FALSE
    BY DEF NewParser, Resume, Alike
  <2>2. Place(TRUE, h, y, 0)
    BY AtTheBegin
  <2> HIDE DEF g
  <2>3. Place(TRUE, g, y, 0)
    BY <2>1, <2>2, PlaceAlike
  <2> QED BY <2>3 DEF g
<1>3. Standing(y, 0, 1)
  <2>1. 1 <= Len(y.msgs) => 0 < y.off[1 + 1]
    <3> SUFFICES ASSUME 1 <= Len(y.msgs) PROVE 0 < y.off[1 + 1]
      OBVIOUS
    <3> DEFINE b == BodyAt(y.msgs[1], y.at[1])
               o == y.off[1 + 1]
    <3>1. 1 \in 1..Len(y.msgs)
      BY <1>1
    <3>2. b \in Nat /\ o \in Nat /\ 0 + 6 <= b /\ b <= o
      BY <1>1, <3>1, MessageSpot
    <3> HIDE DEF b, o
    <3>3. 0 < o
      BY <3>2
    <3> QED BY <3>3 DEF o
  <2> QED BY <1>1, <2>1 DEF Standing
<1>4. Done(y, 0) = 1..(1 - 1)
  <2>1. 1 \in 1..(Len(y.msgs) + 1) /\ 0 \in Nat
    BY <1>1
  <2> QED BY <1>3, <2>1, DoneIs
<1>5. 1 - 1 = 0
  OBVIOUS
<1> QED BY <1>2, <1>4, <1>5

(* A read that brings bytes of one message.                                *)
LEMMA OneMessage ==
  ASSUME NEW y, Stream(y), NEW c \in Nat, NEW d,
         \A j \in 1..Len(y.msgs) : Len(y.msgs[j].body) <= 1,
         \A i \in 1..Len(y.msgs) : ~(c < y.off[i + 1] /\ y.off[i + 1] < d)
  PROVE  Undivided(TRUE, y, c, d)
<1>1. ASSUME NEW i \in 1..(Len(y.msgs) + 1), c < y.off[i], y.off[i] < d PROVE FALSE
  <2>1. CASE i = 1
    <3>1. y.off[i] = 0
      BY <2>1 DEF Stream
    <3> QED BY <1>1, <3>1
  <2>2. CASE i # 1
    <3> DEFINE q == i - 1
    <3>1. q \in 1..Len(y.msgs) /\ q + 1 = i
      BY <2>2 DEF Stream
    <3> HIDE DEF q
    <3> QED BY <1>1, <3>1
  <2> QED BY <2>1, <2>2
<1> QED BY <1>1 DEF Undivided

------------------------------------------------------------------------------
(* The messages s as a stream.                                             *)
PartsOfAll(type, s) == FlattenSeq([k \in DOMAIN s |-> PartsOf(type, s[k])])

StreamOf(type, s, y) ==
  /\ Stream(y) /\ y.type = type /\ y.msgs = s /\ y.wire = Bytes(PartsOfAll(type, s))
  /\ \A i \in 1..Len(s) :
       /\ y.off[i + 1] = Len(Bytes(PartsOfAll(type, SubSeq(s, 1, i))))
       /\ y.off[i + 1] = y.off[i] + Len(Bytes(PartsOf(type, s[i])))
       /\ BodyAt(s[i], y.at[i]) = y.off[i] + Len(Bytes(HeadOf(type, s[i])))

MayCome(type, s) ==
  /\ type \in {"request", "response"} /\ s \in Seq(Range(s))
  /\ \A i \in DOMAIN s : Good(type, s[i]) /\ (s[i].coding = "eof" => i = Len(s))

LEMMA StreamExists ==
  ASSUME NEW type, NEW s, MayCome(type, s)
  PROVE  \E y : StreamOf(type, s, y)
<1> DEFINE n == Len(s)
           pp == [i \in 1..n |-> PartsOf(type, s[i])]
<1>1. s \in Seq(Range(s)) /\ DOMAIN s = 1..n /\ n \in Nat /\ type \in {"request", "response"}
  BY LenProperties DEF MayCome
<1>2. /\ pp \in Seq(Seq(Part))
      /\ \E y : /\ Stream(y) /\ y.type = type /\ y.msgs = s
                /\ y.wire = Bytes(FlattenSeq(pp))
                /\ \A i \in 0..n : y.off[i + 1] = Len(Bytes(FlattenSeq(SubSeq(pp, 1, i))))
                /\ \A i \in 1..n :
                     /\ y.off[i + 1] = y.off[i] + Len(Bytes(PartsOf(type, s[i])))
                     /\ BodyAt(s[i], y.at[i]) = y.off[i] + Len(Bytes(HeadOf(type, s[i])))
  <2>1. \A i \in 1..Len(s) : Good(type, s[i])
    BY <1>1 DEF MayCome
  <2>2. \A i \in 1..Len(s) : s[i].coding = "eof" => i = Len(s)
    BY <1>1 DEF MayCome
  <2>3. Len(s) \in Nat /\ type \in {"request", "response"}
    BY <1>1
  <2>4. HasStream(type, s)
    BY <2>1, <2>2, <2>3, StreamFound
  <2> QED BY <2>4 DEF HasStream
<1>3. PartsOfAll(type, s) = FlattenSeq(pp)
  BY <1>1 DEF PartsOfAll
<1>4. \A i \in 1..n : PartsOfAll(type, SubSeq(s, 1, i)) = FlattenSeq(SubSeq(pp, 1, i))
  <2> SUFFICES ASSUME NEW i \in 1..n
               PROVE  PartsOfAll(type, SubSeq(s, 1, i)) = FlattenSeq(SubSeq(pp, 1, i))
    OBVIOUS
  <2> DEFINE q == SubSeq(s, 1, i)
             r == [k \in DOMAIN q |-> PartsOf(type, q[k])]
  <2>1. DOMAIN q = 1..i /\ \A k \in 1..i : q[k] = s[k]
    <3>1. 1 \in 1..(n + 1) /\ i \in 0..n /\ 1 <= i /\ i - 1 + 1 = i
      BY <1>1
    <3>2. q \in Seq(Range(s)) /\ Len(q) = i /\ \A k \in 1..i : q[k] = s[1 + k - 1]
      BY <1>1, <3>1, SubSeqProperties
    <3>3. \A k \in 1..i : 1 + k - 1 = k
      BY <1>1
    <3> HIDE DEF q
    <3>4. DOMAIN q = 1..i
      BY <3>2, LenProperties
    <3> QED BY <3>2, <3>3, <3>4
  <2>2. PartsOfAll(type, q) = FlattenSeq(r)
    BY DEF PartsOfAll
  <2> HIDE DEF q
  <2>3. r = [k \in 1..i |-> PartsOf(type, s[k])]
    BY <2>1
  <2>4. SubSeq(pp, 1, i) = [k \in 1..i |-> PartsOf(type, s[k])]
    <3>0. i \in Nat /\ i <= n /\ i \in 1..n
      BY <1>1
    <3>1. \A k \in 1..n : pp[k] = PartsOf(type, s[k])
      OBVIOUS
    <3> HIDE DEF pp, n
    <3>2. SubSeq(pp, 1, i) = [k \in 1..(1 + i - 1) |-> pp[1 + k - 1]]
      BY <3>0
    <3>3. 1 + i - 1 = i /\ \A k \in 1..i : 1 + k - 1 = k /\ k \in 1..n
      BY <1>1, <3>0
    <3> QED BY <3>1, <3>2, <3>3
  <2> QED BY <2>2, <2>3, <2>4 DEF q
<1>5. PICK y : /\ Stream(y) /\ y.type = type /\ y.msgs = s
               /\ y.wire = Bytes(FlattenSeq(pp))
               /\ \A i \in 0..n : y.off[i + 1] = Len(Bytes(FlattenSeq(SubSeq(pp, 1, i))))
               /\ \A i \in 1..n :
                    /\ y.off[i + 1] = y.off[i] + Len(Bytes(PartsOf(type, s[i])))
                    /\ BodyAt(s[i], y.at[i]) = y.off[i] + Len(Bytes(HeadOf(type, s[i])))
  BY <1>2
<1>6. \A i \in 1..n : i \in 0..n
  BY <1>1
<1> HIDE DEF pp
<1>7. StreamOf(type, s, y)
  BY <1>3, <1>4, <1>5, <1>6 DEF StreamOf
<1> QED BY <1>7

(* What a read that ends in no string does not cut.                        *)
LEMMA StreamOfUncut ==
  ASSUME NEW type, NEW s, MayCome(type, s), NEW y, StreamOf(type, s, y),
         NEW p \in Nat, p \notin Harmful(PartsOfAll(type, s))
  PROVE  Uncut(y, p)
<1> DEFINE n == Len(s)
           pp == [i \in 1..n |-> PartsOf(type, s[i])]
<1>1. DOMAIN s = 1..n /\ n \in Nat /\ \A i \in 1..n : Good(type, s[i])
  BY LenProperties DEF MayCome
<1>2. \A i \in 1..n : PartsOf(type, s[i]) \in Seq(Part)
  BY <1>1, PartsAreParts
<1>3. pp \in Seq(Seq(Part)) /\ Len(pp) = n /\ \A i \in 1..n : pp[i] = PartsOf(type, s[i])
  BY <1>1, <1>2
<1>4. p \notin Harmful(FlattenSeq(pp))
  BY <1>1 DEF PartsOfAll
<1> HIDE DEF pp
<1>5. /\ Stream(y) /\ y.type = type /\ y.msgs = s
      /\ \A i \in 1..n : /\ BodyAt(s[i], y.at[i]) = y.off[i] + Len(Bytes(HeadOf(type, s[i])))
                         /\ y.off[i + 1] = y.off[i] + Len(Bytes(PartsOf(type, s[i])))
  BY DEF StreamOf
<1>6. \A i \in 1..Len(y.msgs) :
        BodyAt(y.msgs[i], y.at[i]) = y.off[i] + Len(Bytes(HeadOf(y.type, y.msgs[i])))
  BY <1>5
<1>7. /\ Len(pp) = Len(y.msgs)
      /\ \A i \in 1..Len(y.msgs) : /\ pp[i] = PartsOf(y.type, y.msgs[i])
                                   /\ y.off[i + 1] = y.off[i] + Len(Bytes(pp[i]))
  BY <1>3, <1>5
<1> QED BY <1>3, <1>4, <1>5, <1>6, <1>7, StreamUncut

(* What the properties say of a message.                                   *)
LEMMA MessageSaid ==
  ASSUME NEW type, NEW s, MayCome(type, s), NEW y, StreamOf(type, s, y), NEW i \in DOMAIN s,
         IsMessage(s[i]), s[i].coding \in {"none", "eof", "length", "chunked"}
  PROVE  /\ i \in 1..Len(s) /\ Len(s) \in Nat /\ DOMAIN s = 1..Len(s)
         /\ y.off[i] = (IF i = 1 THEN 0 ELSE Len(Bytes(PartsOfAll(type, SubSeq(s, 1, i - 1)))))
         /\ y.off[i] \in Nat /\ Carry(y, i) \in {0, 1}
         /\ Carry(y, i) = (IF i > 1 /\ s[i - 1].coding = "chunked" THEN 1 ELSE 0)
         /\ Fits(y, i) <=> Carry(y, i) + Len(Bytes(HeadOf(type, s[i]))) <= HTTP_MAX_HEADER_SIZE
         /\ Closing(s[i]) <=> ~KeepsOpen(s[i])
<1>1. s \in Seq(Range(s)) /\ DOMAIN s = 1..Len(s) /\ Len(s) \in Nat /\ Good(type, s[i])
  BY LenProperties DEF MayCome
<1>2. Stream(y) /\ y.msgs = s /\ y.off[1] = 0 /\ y.off[i] \in Nat
  <2>1. Stream(y) /\ y.msgs = s
    BY DEF StreamOf
  <2>2. i \in 1..(Len(y.msgs) + 1)
    BY <1>1, <2>1
  <2> QED BY <2>1, <2>2 DEF Stream
<1>3. y.off[i] = IF i = 1 THEN 0 ELSE Len(Bytes(PartsOfAll(type, SubSeq(s, 1, i - 1))))
  <2>1. CASE i = 1
    BY <1>2, <2>1
  <2>2. CASE i # 1
    <3> DEFINE k == i - 1
    <3>1. k \in 1..Len(s) /\ k + 1 = i
      BY <1>1, <2>2
    <3> HIDE DEF k
    <3>2. y.off[k + 1] = Len(Bytes(PartsOfAll(type, SubSeq(s, 1, k))))
      BY <3>1 DEF StreamOf
    <3> QED BY <2>2, <3>1, <3>2 DEF k
  <2> QED BY <2>1, <2>2
<1>4. /\ Carry(y, i) \in {0, 1}
      /\ Carry(y, i) = IF i > 1 /\ s[i - 1].coding = "chunked" THEN 1 ELSE 0
  BY <1>2 DEF Carry
<1>5. Fits(y, i) <=> Carry(y, i) + Len(Bytes(HeadOf(type, s[i]))) <= HTTP_MAX_HEADER_SIZE
  <2> DEFINE b == BodyAt(y.msgs[i], y.at[i])
             o == y.off[i]
             z == Len(Bytes(HeadOf(type, s[i])))
  <2>1. b = o + z /\ o \in Nat /\ b \in Nat
    <3>1. b = o + z
      BY <1>1, <1>2 DEF StreamOf
    <3>2. b \in Nat
      BY <1>1, <1>2, MessageSpot
    <3> QED BY <1>2, <3>1, <3>2
  <2>2. z \in Nat
    <3>1. HeadOf(type, s[i]) \in Seq(Part)
      BY <1>1, PartsAreParts
    <3>2. Bytes(HeadOf(type, s[i])) \in Seq(Piece)
      BY <3>1, BytesBehind
    <3> QED BY <3>2, LenProperties
  <2> HIDE DEF b, o, z
  <2>3. b - o = z
    BY <2>1, <2>2
  <2> QED BY <2>3 DEF Fits, b, o, z
<1>6. Closing(s[i]) <=> ~KeepsOpen(s[i])
  <2> DEFINE m == s[i]
  <2>0. IsMessage(m) /\ m.coding \in {"none", "eof", "length", "chunked"}
    OBVIOUS
  <2> HIDE DEF m
  <2>1. KeepsOpen(m) <=> IF m.version = "HTTP/1.1"
                         THEN ~\E l \in Range(m.headers) : Says(l, "close")
                         ELSE \E l \in Range(m.headers) : Says(l, "keep-alive")
    BY <2>0, KeepsOpenSaid
  <2> DEFINE V == {[k \in DOMAIN line[2] |-> Lower(line[2][k])] :
                     line \in {l \in Range(m.headers) : l[1] = Connection}}
  <2>2. \A token : (\E v \in V : Lists(v, <<token>>)) <=> (\E l \in Range(m.headers) : Says(l, token))
    BY DEF Says
  <2>3. Closing(m) <=> IF m.version = "HTTP/1.1" THEN \E v \in V : Lists(v, <<"close">>)
                       ELSE ~\E v \in V : Lists(v, <<"keep-alive">>)
    BY DEF Closing
  <2> HIDE DEF V
  <2> QED BY <2>1, <2>2, <2>3 DEF m
<1> QED BY <1>1, <1>2, <1>3, <1>4, <1>5, <1>6

(* A history grows at its end.                                             *)
LEMMA Appended ==
  ASSUME NEW k \in Nat, NEW s, s = [j \in 1..k |-> s[j]], Len(s) = k, NEW a
  PROVE  /\ Len(Append(s, a)) = k + 1 /\ Append(s, a)[k + 1] = a
         /\ \A j \in 1..k : Append(s, a)[j] = s[j]
<1> DEFINE S == {s[j] : j \in 1..k} \cup {a}
<1>1. s \in Seq(S) /\ a \in S
  OBVIOUS
<1> HIDE DEF S
<1> QED BY <1>1, AppendProperties
==============================================================================
