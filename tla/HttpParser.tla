------------------------------ MODULE HttpParser ------------------------------
(***************************************************************************)
(* http_parser_execute with the callbacks HttpParser gives it: the bytes   *)
(* of one read event go in, strings reach the callbacks in as many pieces  *)
(* as the reads cut them into, and HttpMessage is what they leave.         *)
(*                                                                         *)
(* A stream is a sequence of pieces, the places where a read may end: a    *)
(* separator ("crlf", "sp", ":" or, in a list of tokens, ","), a method, a *)
(* version, a status code, a digit, or a part of a string.  A string is    *)
(* the sequence of its pieces.  Each piece counts as one byte, of a body   *)
(* and of the size that the headers may have.                              *)
(* Left out: which characters a string may have, the other methods and     *)
(* status codes, folded header lines, chunk parameters.                    *)
(***************************************************************************)
EXTENDS Integers, Sequences, SequencesExt

CONSTANT HTTP_MAX_HEADER_SIZE

ASSUME HeaderSizeIsPositive == HTTP_MAX_HEADER_SIZE \in Nat \ {0}

Method  == {"GET", "POST", "PUT"}
Version == {"HTTP/1.0", "HTTP/1.1"}
Status  == {"100", "101", "200", "400", "404", "501"}
Digit   == {"0", "1", "2", "3", "4", "5", "6", "7", "8", "9"}

IsText(t) == t \notin {"crlf", "sp", ":"}

(* The headers http_parser itself looks at, and their values.              *)
Connection       == <<"Connection">>
ContentLength    == <<"Content-Length">>
TransferEncoding == <<"Transfer-Encoding">>
Upgrade          == <<"Up", "grade">>
Chunked          == <<"chunked">>

DigitValue(d) == CHOOSE n \in 0..9 : ToString(n) = d

ASSUME DigitsAreSpelled ==
  /\ ToString(0) = "0"
  /\ \A n \in 0..9 : ToString(n) \in Digit /\ DigitValue(ToString(n)) = n

ULLONG_MAX == -1          \* content_length while none was given

NoHeaders == [name \in {} |-> <<>>]

NoMark == [kind |-> "none", text |-> <<>>]

(* http_parser_init, the constructors of HttpParser and HttpMessage.  The  *)
(* members HttpMessage does not initialize are "unset".                    *)
NewParser(type) ==
  [ type |-> type, state |-> "start", method |-> "unset", version |-> "unset",
    status |-> "unset", name |-> <<>>, value |-> <<>>, length |-> ULLONG_MAX,
    flags |-> {}, upgrade |-> FALSE, error |-> FALSE,
    mark |-> NoMark, used |-> 0, stop |-> FALSE, nread |-> 0,
    headFieldTemp |-> <<>>, complete |-> FALSE,
    message |-> [ method |-> "unset", url |-> <<>>, version |-> "unset",
                  status |-> "unset", headers |-> NoHeaders, body |-> <<>> ] ]

------------------------------------------------------------------------------
(* The callbacks.  headFieldTemp is <<>> or holds the pending name.        *)

(* HttpMessage::appendHeader, on the map.                                  *)
WithHeader(headers, name, value) ==
  [k \in DOMAIN headers \cup {name} |-> IF k = name THEN value ELSE headers[k]]

OnUrl(h, text) == [h EXCEPT !.message.url = text]

(* Mutant: the name replaces nothing while one is pending.                 *)
OnHeaderFieldOnce(h, text) ==
  IF h.headFieldTemp # <<>> THEN h ELSE [h EXCEPT !.headFieldTemp = <<text>>]

OnHeaderField(h, text) == [h EXCEPT !.headFieldTemp = <<text>>]

(* Mutant: the pending name is not cleared.                                *)
OnHeaderValueSticky(h, text) ==
  IF h.headFieldTemp = <<>>
  THEN h
  ELSE [h EXCEPT !.message.headers = WithHeader(@, h.headFieldTemp[1], text)]

OnHeaderValue(h, text) ==
  IF h.headFieldTemp = <<>>
  THEN h
  ELSE [h EXCEPT !.message.headers = WithHeader(@, h.headFieldTemp[1], text),
                 !.headFieldTemp = <<>>]

OnBody(h, text) == [h EXCEPT !.message.body = text]

OnMessageComplete(h) ==
  [h EXCEPT !.complete = TRUE,
            !.message.version = h.version,
            !.message.method = IF h.type = "request" THEN h.method ELSE @,
            !.message.status = IF h.type = "response" THEN h.status ELSE @]

(* CALLBACK_DATA: the string since the mark, whichever is set.  There is   *)
(* no callback for the reason of a status line.                            *)
CallbackData(h) ==
  LET g == [h EXCEPT !.mark = NoMark]
      text == h.mark.text
  IN  CASE h.mark.kind = "url"   -> OnUrl(g, text)
        [] h.mark.kind = "field" -> OnHeaderField(g, text)
        [] h.mark.kind = "value" -> OnHeaderValue(g, text)
        [] h.mark.kind = "body"  -> OnBody(g, text)
        [] OTHER                 -> g

(* MARK: set unless it is set already; the piece t belongs to the string.  *)
Marked(h, kind, t) ==
  [h EXCEPT !.mark = [kind |-> kind, text |-> Append(IF @.kind = kind THEN @.text ELSE <<>>, t)]]

------------------------------------------------------------------------------
Go(h, state) == [h EXCEPT !.state = state]
Fail(h) == [h EXCEPT !.error = TRUE]

(* PARSING_HEADER: the states whose bytes are counted.                     *)
ParsingHeader(h) == h.state \notin {"body", "body_eof", "chunk_data", "chunk_end"}

(* COUNT_HEADER_SIZE(1), and its verdict.                                  *)
Counted(h) == IF ParsingHeader(h) THEN [h EXCEPT !.nread = @ + 1] ELSE h

Overflow(h) == h.nread > HTTP_MAX_HEADER_SIZE

(* Mutant: the count goes on over the body and into the next message.      *)
KeepCounting(h) == h

(* nread = 0, where the headers of a message and those of a chunk end.     *)
CountAgain(h) == [h EXCEPT !.nread = 0]

(* http_message_needs_eof.                                                 *)
NeedsEof(h) ==
  /\ h.type = "response"
  /\ h.status \notin {"100", "101"}
  /\ \/ "te" \in h.flags /\ "chunked" \notin h.flags
     \/ "chunked" \notin h.flags /\ h.length = ULLONG_MAX

(* Mutant: HTTP_PARSER_STRICT is 0, the parser always starts again.        *)
AlwaysKeepAlive(h) == TRUE

(* http_should_keep_alive.                                                 *)
ShouldKeepAlive(h) ==
  /\ IF h.version = "HTTP/1.1" THEN "close" \notin h.flags ELSE "keep-alive" \in h.flags
  /\ ~NeedsEof(h)

(* UPDATE_STATE(NEW_MESSAGE()) and the callback.                           *)
Complete(h) ==
  OnMessageComplete(Go(h, IF ShouldKeepAlive(h) THEN "start" ELSE "dead"))

(* s_message_done: after an upgrade the rest is in a different protocol.   *)
MessageDone(h) == [Complete(h) EXCEPT !.stop = h.upgrade]

(* s_dead: after a message that closes the connection.                     *)
Dead(h, t) == IF t = "crlf" THEN h ELSE Fail(h)

------------------------------------------------------------------------------
(* The first line.                                                         *)

NewMessage(h) == [h EXCEPT !.flags = {}, !.length = ULLONG_MAX]

StartReq(h, t) ==
  CASE t = "crlf"    -> h
    [] t \in Method  -> [NewMessage(h) EXCEPT !.method = t, !.state = "method"]
    [] OTHER         -> Fail(NewMessage(h))

ReqMethod(h, t) == IF t = "sp" THEN Go(h, "before_url") ELSE Fail(h)

ReqSpacesBeforeUrl(h, t) ==
  CASE t = "sp"  -> h
    [] IsText(t) -> Go(Marked(h, "url", t), "url")
    [] OTHER     -> Fail(h)

ReqUrl(h, t) ==
  CASE t = "sp"   -> CallbackData(Go(h, "http"))
    [] t = "crlf" -> CallbackData([h EXCEPT !.version = "HTTP/0.9", !.state = "field_start"])
    [] OTHER      -> Marked(h, "url", t)

ReqHttp(h, t) ==
  CASE t = "sp"       -> h
    [] t \in Version  -> [h EXCEPT !.version = t, !.state = "line_end"]
    [] OTHER          -> Fail(h)

ReqLineEnd(h, t) == IF t = "crlf" THEN Go(h, "field_start") ELSE Fail(h)

StartRes(h, t) ==
  CASE t = "crlf"     -> h
    [] t \in Version  -> [NewMessage(h) EXCEPT !.version = t, !.state = "res_http_end"]
    [] OTHER          -> Fail(NewMessage(h))

ResHttpEnd(h, t) == IF t = "sp" THEN Go(h, "status") ELSE Fail(h)

ResStatus(h, t) ==
  CASE t = "sp"      -> h
    [] t \in Status  -> [h EXCEPT !.status = t, !.state = "status_end"]
    [] OTHER         -> Fail(h)

ResStatusEnd(h, t) ==
  CASE t = "sp"   -> Go(h, "reason")
    [] t = "crlf" -> Go(h, "field_start")
    [] OTHER      -> Fail(h)

ResReason(h, t) == IF t = "crlf" THEN Go(h, "field_start") ELSE h

------------------------------------------------------------------------------
(* The end of the headers.                                                 *)

HasBody(h) == "chunked" \in h.flags \/ h.length > 0

HeadersDone(h) ==
  LET g == CountAgain(h)
  IN  IF g.upgrade /\ ~HasBody(g)       THEN MessageDone(g)
      ELSE IF "chunked" \in g.flags     THEN Go(g, "chunk_start")
      ELSE IF "te" \in g.flags          THEN IF g.type = "request" THEN Fail(g)
                                             ELSE Go(g, "body_eof")
      ELSE IF g.length > 0              THEN Go(g, "body")
      ELSE IF g.length = 0 \/ ~NeedsEof(g) THEN Complete(g)
      ELSE Go(g, "body_eof")

HeadersAlmostDone(h) ==
  IF "trailing" \in h.flags THEN MessageDone(h)
  ELSE IF {"te", "length"} \subseteq h.flags THEN Fail(h)
  ELSE HeadersDone([h EXCEPT !.upgrade =
         /\ {"upgrade", "connection_upgrade"} \subseteq h.flags
         /\ h.type = "request" \/ h.status = "101"])

------------------------------------------------------------------------------
(* A header line.  What a loop over a name or a value has counted is       *)
(* checked before a name is delivered, and after a value is.               *)

HeaderFieldStart(h, t) ==
  CASE t = "crlf" -> HeadersAlmostDone(h)
    [] IsText(t)  -> [Marked(h, "field", t) EXCEPT
                        !.name = <<t>>, !.value = <<>>, !.state = "field"]
    [] OTHER      -> Fail(h)

HeaderField(h, t) ==
  CASE IsText(t)             -> [Marked(h, "field", t) EXCEPT !.name = Append(@, t)]
    [] t = ":" /\ ~Overflow(h) -> CallbackData([h EXCEPT !.state = "value_ws", !.flags =
                      @ \cup IF h.name = TransferEncoding THEN {"te"} ELSE {}])
    [] OTHER                 -> Fail(h)

(* A piece of the value of Content-Length: digits, then spaces; once.      *)
LengthPiece(h, t) ==
  CASE h.value = <<>> /\ t \in Digit /\ "length" \notin h.flags ->
         [h EXCEPT !.length = DigitValue(t), !.flags = @ \cup {"length"}]
    [] h.value # <<>> /\ t \in Digit /\ "sp" \notin Range(h.value) ->
         [h EXCEPT !.length = 10 * @ + DigitValue(t)]
    [] h.value # <<>> /\ t = "sp" -> h
    [] OTHER -> Fail(h)

ValuePiece(h, t) ==
  LET g == CASE h.name = ContentLength -> LengthPiece(h, t)
             [] h.name = Upgrade       -> [h EXCEPT !.flags = @ \cup {"upgrade"}]
             [] OTHER                  -> h
  IN  [Marked(g, "value", t) EXCEPT !.value = Append(@, t), !.state = "value"]

HeaderValueStart(h, t) ==
  CASE t = "sp"   -> h
    [] t = "crlf" -> Go(h, "empty_value")
    [] OTHER      -> ValuePiece(h, t)

HeaderValue(h, t) ==
  CASE t # "crlf"                -> ValuePiece(h, t)
    [] t = "crlf" /\ Overflow(h) -> Fail(CallbackData(Go(h, "value_lws")))
    [] OTHER                     -> CallbackData(Go(h, "value_lws"))

(* The scan of a comma-separated list: at its first piece, behind a comma, *)
(* in a part or behind the whole of one of the tokens, in some other       *)
(* element, or given up.  A comma that ends a part of a token is no comma. *)
(* next: where the comma behind a token leads.                             *)
ListPiece(s, t, tokens, next) ==
  LET matched == Append(s.token, t)
  IN  CASE s.at = "token" /\ t = "sp" -> s
        [] s.at = "token" /\ t = ","  ->
             [at |-> next, token |-> <<>>, found |-> s.found \cup {s.token}]
        [] s.at \in {"first", "start", "part"} /\ \E k \in tokens : IsPrefix(matched, k) ->
             [s EXCEPT !.token = matched, !.at = IF matched \in tokens THEN "token" ELSE "part"]
        [] s.at = "start" /\ t = "sp"          -> s
        [] s.at = "start" /\ t \in {",", ":"}  -> [s EXCEPT !.at = "stop"]
        [] s.at = "other" /\ t = ","           -> [s EXCEPT !.at = "start"]
        [] s.at = "stop" -> s
        [] OTHER -> [s EXCEPT !.at = "other", !.token = <<>>]

ListScan(value, tokens, next) ==
  FoldLeft(LAMBDA s, t : ListPiece(s, t, tokens, next),
           [at |-> "first", token |-> <<>>, found |-> {}], value)

(* token, of those of Connection, is an element of value.                  *)
Lists(value, token) ==
  LET s == ListScan(value, {<<"close">>, <<"keep-alive">>, Upgrade}, "start")
  IN  token \in s.found \cup IF s.at = "token" THEN {s.token} ELSE {}

(* The last coding is chunked.  No element begins behind the comma that    *)
(* follows an earlier chunked.                                             *)
EndsChunked(value) == ListScan(value, {Chunked}, "other").at = "token"

(* LOWER, on the tokens that are written in two ways.                      *)
Lower(token) ==
  CASE token = "Close"      -> "close"
    [] token = "Keep-Alive" -> "keep-alive"
    [] OTHER                -> token

(* s_header_value_lws: what the finished header means.                     *)
HeaderFlags(h) ==
  CASE h.name = Connection ->
         {f \in {"close", "keep-alive"} :
            Lists([i \in DOMAIN h.value |-> Lower(h.value[i])], <<f>>)} \cup
         (IF Lists(h.value, Upgrade) THEN {"connection_upgrade"} ELSE {})
    [] h.name = TransferEncoding ->
         IF EndsChunked(h.value) THEN {"chunked"} ELSE {}
    [] OTHER -> {}

HeaderValueLws(h, t) ==
  HeaderFieldStart([h EXCEPT !.flags = @ \cup HeaderFlags(h), !.state = "field_start"], t)

HeaderValueDiscardLws(h, t) ==
  IF t = "sp" THEN Go(h, "value_ws")
  ELSE IF h.name = ContentLength THEN Fail(h)
  ELSE HeaderFieldStart(Go(OnHeaderValue(h, <<>>), "field_start"), t)

------------------------------------------------------------------------------
(* The body.                                                               *)

BodyIdentity(h, t) ==
  LET g == [Marked(h, "body", t) EXCEPT !.length = @ - 1]
  IN  IF g.length = 0 THEN MessageDone(CallbackData(g)) ELSE g

BodyIdentityEof(h, t) == Marked(h, "body", t)

ChunkSizeStart(h, t) ==
  IF t \in Digit
  THEN [h EXCEPT !.length = DigitValue(t), !.state = "chunk_size"]
  ELSE Fail(h)

ChunkSize(h, t) ==
  CASE t \in Digit -> [h EXCEPT !.length = 16 * @ + DigitValue(t)]
    [] t = "crlf" /\ h.length = 0 ->
         [CountAgain(h) EXCEPT !.flags = @ \cup {"trailing"}, !.state = "field_start"]
    [] t = "crlf" /\ h.length # 0 -> Go(CountAgain(h), "chunk_data")
    [] OTHER -> Fail(h)

ChunkData(h, t) ==
  [Marked(h, "body", t) EXCEPT !.length = @ - 1,
                               !.state = IF h.length = 1 THEN "chunk_end" ELSE @]

ChunkDataAlmostDone(h, t) ==
  IF t = "crlf" THEN CallbackData(Go(CountAgain(h), "chunk_start")) ELSE Fail(h)

------------------------------------------------------------------------------
(* One turn of the loop of http_parser_execute.                            *)
Turn(h, t) ==
  CASE h.state = "start" /\ h.type = "request"  -> StartReq(h, t)
    [] h.state = "start" /\ h.type = "response" -> StartRes(h, t)
    [] h.state = "dead"         -> Dead(h, t)
    [] h.state = "method"       -> ReqMethod(h, t)
    [] h.state = "before_url"   -> ReqSpacesBeforeUrl(h, t)
    [] h.state = "url"          -> ReqUrl(h, t)
    [] h.state = "http"         -> ReqHttp(h, t)
    [] h.state = "line_end"     -> ReqLineEnd(h, t)
    [] h.state = "res_http_end" -> ResHttpEnd(h, t)
    [] h.state = "status"       -> ResStatus(h, t)
    [] h.state = "status_end"   -> ResStatusEnd(h, t)
    [] h.state = "reason"       -> ResReason(h, t)
    [] h.state = "field_start"  -> HeaderFieldStart(h, t)
    [] h.state = "field"        -> HeaderField(h, t)
    [] h.state = "value_ws"     -> HeaderValueStart(h, t)
    [] h.state = "value"        -> HeaderValue(h, t)
    [] h.state = "value_lws"    -> HeaderValueLws(h, t)
    [] h.state = "empty_value"  -> HeaderValueDiscardLws(h, t)
    [] h.state = "body"         -> BodyIdentity(h, t)
    [] h.state = "body_eof"     -> BodyIdentityEof(h, t)
    [] h.state = "chunk_start"  -> ChunkSizeStart(h, t)
    [] h.state = "chunk_size"   -> ChunkSize(h, t)
    [] h.state = "chunk_data"   -> ChunkData(h, t)
    [] h.state = "chunk_end"    -> ChunkDataAlmostDone(h, t)

(* len == 0: the end of the stream, which only some states can take.       *)
ExecuteEof(h) ==
  CASE h.state = "body_eof"            -> OnMessageComplete(h)
    [] h.state \in {"dead", "start"}   -> h
    [] OTHER                           -> Fail(h)

(* The marks with which a call starts: a string cut by the last read goes  *)
(* on at the first byte.                                                   *)
Resume(h) ==
  [h EXCEPT !.used = 0, !.stop = FALSE,
            !.mark = IF h.state \in {"url", "field", "value"}
                     THEN [kind |-> h.state, text |-> <<>>]
                     ELSE NoMark]

(* The loops over a name and over a value run, which count what they read  *)
(* when they end, from the second byte of the string on.                   *)
Scanning(h) ==
  /\ h.state \in {"field", "value"}
  /\ h.mark.text # <<>>
  /\ Len(IF h.state = "field" THEN h.name ELSE h.value) >= 2

Advance(h, t) ==
  LET g == Counted(h)
  IN  IF h.error \/ h.stop THEN h
      ELSE IF Overflow(g) /\ ~Scanning(h) THEN Fail(g)
      ELSE [Turn(g, t) EXCEPT !.used = @ + 1]

(* The strings that are still marked at the end go to their callbacks.     *)
ExecuteBytes(h, bytes) ==
  LET g == FoldLeft(Advance, Resume(h), bytes)
  IN  CASE g.error \/ g.stop -> [g EXCEPT !.mark = NoMark]
        [] ~(g.error \/ g.stop) /\ Overflow(g) -> Fail([g EXCEPT !.mark = NoMark])
        [] OTHER -> CallbackData(g)

Execute(h, bytes) ==
  CASE h.error                  -> h
    [] ~h.error /\ bytes = <<>> -> ExecuteEof([h EXCEPT !.used = 0])
    [] OTHER                    -> ExecuteBytes(h, bytes)

------------------------------------------------------------------------------
(* Mutant: the Buffer is emptied.                                          *)
LeftOverNothing(h, bytes) == IF h.error THEN bytes ELSE <<>>

(* Mutant: what was parsed is not retrieved.                               *)
LeftOverAll(h, bytes) == bytes

(* HttpParser::excuteParser: what is left in the Buffer.                   *)
LeftOver(h, bytes) ==
  IF h.error THEN bytes ELSE SubSeq(bytes, h.used + 1, Len(bytes))

(* What outlives a call of http_parser_execute.                            *)
Idle(h) == [h EXCEPT !.used = 0, !.stop = FALSE]

(* Mutant: the body survives.                                              *)
ResetHeadersOnly(h) ==
  [h EXCEPT !.complete = FALSE, !.headFieldTemp = <<>>, !.message.headers = NoHeaders]

(* HttpParser::reset and HttpMessage::reset.                               *)
ResetMessage(h) ==
  [h EXCEPT !.complete = FALSE, !.headFieldTemp = <<>>,
            !.message.headers = NoHeaders, !.message.body = <<>>]

(* HttpParser::package, after the first line.  The order of the headers is *)
(* that of the map.                                                        *)
HeaderLines(headers) ==
  FoldLeft(LAMBDA lines, name : lines \o name \o <<":", "sp">> \o headers[name] \o <<"crlf">>,
           <<>>, SetToSeq(DOMAIN headers))

(* Mutant: no Content-Length.                                              *)
PackageWithoutLength(message) ==
  HeaderLines(message.headers) \o <<"crlf">> \o message.body

PackageHeaderAndBody(message) ==
  LET length == IF message.body = <<>>
                THEN <<>>
                ELSE ContentLength \o <<":", "sp", ToString(Len(message.body)), "crlf">>
  IN  HeaderLines(message.headers) \o length \o <<"crlf">> \o message.body

PackageResponse(message) ==
  <<message.version, "sp", message.status, "sp", "reason", "crlf">>
    \o PackageHeaderAndBody(message)
==============================================================================
