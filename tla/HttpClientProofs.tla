--------------------------- MODULE HttpClientProofs ---------------------------
(***************************************************************************)
(* Proofs about HttpClient, for every set of sessions, every sequence of   *)
(* requests and every bound on the connections.                            *)
(***************************************************************************)
EXTENDS HttpClient, FiniteSetTheorems, HttpParserProofs

(* The parser between two events: see TypeOK.                              *)
ParserInv ==
  /\ buffer \in Seq(STRING)
  /\ AtRest(http)
  /\ calm \in BOOLEAN
  /\ conn # "closed" => session \in Sessions /\ read \in Nat
  /\ conn = "open" =>
       /\ http.complete => http.state = "body_eof" /\ ~calm
       /\ buffer # <<>> => http.upgrade
       /\ http.error => ~calm

(* The callback in place is that of the last send.  Unless that send was   *)
(* made on an earlier connection, the context holds its URL, and all of    *)
(* its request until a response has been handled.                          *)
ContextInv ==
  /\ cb = Len(sends)
  /\ "url" \in DOMAIN request
  /\ conn # "closed" /\ cb # 0 /\ sends[cb].connection = connects =>
       /\ sends[cb].after <= Len(handled)
       /\ request.url = Requests[cb].url
       /\ sends[cb].after = Len(handled) => request = Requests[cb]

(* The histories: no send is of a later connection than this one, and no   *)
(* response went to a callback that had not been installed.                *)
HistoryInv ==
  /\ connects \in 0..MaxConnects
  /\ Len(sends) \in Nat /\ sends = [k \in 1..Len(sends) |-> sends[k]]
  /\ Len(handled) \in Nat /\ handled = [i \in 1..Len(handled) |-> handled[i]]
  /\ Len(sends) <= Len(Requests)
  /\ \A k \in 1..Len(sends) :
       sends[k].connection \in 0..connects /\ sends[k].after \in Nat
  /\ \A i \in 1..Len(handled) : handled[i].send \in 0..Len(sends)

CallbackInv == HistoryInv /\ ContextInv /\ OwnRequest

ClientInv == ParserInv /\ CallbackInv

------------------------------------------------------------------------------
LEMMA ClientStart == Init => ClientInv
<1> SUFFICES ASSUME Init PROVE ClientInv
  OBVIOUS
<1>1. ParserInv
  BY NewAtRest DEF Init, ParserInv
<1>2. "url" \in DOMAIN request
  BY DEF Init, NewParser
<1>3. Len(Requests) \in Nat
  BY RequestsAreMessages, LenProperties
<1>4. HistoryInv /\ OwnRequest
  BY <1>3, MaxConnectsIsNatural DEF Init, HistoryInv, OwnRequest
<1>5. ContextInv
  BY <1>2 DEF Init, ContextInv
<1> QED BY <1>1, <1>4, <1>5 DEF ClientInv, CallbackInv

------------------------------------------------------------------------------
(* The parser.                                                             *)

(* The end of the stream: the parser fails unless a message may end there. *)
LEMMA AfterNothing ==
  ASSUME NEW h, IsParser(h), AtRest(Idle(h))
  PROVE  LET g == Idle(Execute(h, <<>>))
         IN  /\ AtRest(g) /\ g.state = h.state /\ g.upgrade = h.upgrade
             /\ g.error => h.error \/ h.state \notin {"start", "dead"}
             /\ g.complete => h.complete \/ h.state = "body_eof"
<1> DEFINE u == [h EXCEPT !.used = 0]
<1>1. CASE h.error
  BY <1>1 DEF Execute, Idle, AtRest, IsParser, Fields
<1>2. CASE ~h.error
  <2>1. /\ IsParser(u) /\ u.state = h.state /\ u.upgrade = h.upgrade /\ u.error = h.error
        /\ u.complete = h.complete /\ u.mark = h.mark /\ u.headFieldTemp = h.headFieldTemp
        /\ u.nread = h.nread
    BY DEF IsParser, Fields
  <2>2. h.mark = NoMark /\ h.error = FALSE
    BY <1>2 DEF AtRest, Idle, IsParser, Fields
  <2>3. /\ h.headFieldTemp # <<>> => h.state \in {"field", "value_ws", "empty_value"}
        /\ h.state = "chunk_start" => h.nread = 0
        /\ h.nread <= HTTP_MAX_HEADER_SIZE
    BY <2>2 DEF AtRest, Idle, IsParser, Fields
  <2>4. Execute(h, <<>>) = ExecuteEof(u)
    BY <1>2 DEF Execute
  <2> HIDE DEF u
  <2>5. CASE h.state = "body_eof"
    <3>1. ExecuteEof(u) = OnMessageComplete(u)
      BY <2>1, <2>5 DEF ExecuteEof
    <3> DEFINE e == OnMessageComplete(u)
    <3>2. /\ IsParser(e) /\ e.state = h.state /\ e.upgrade = h.upgrade /\ e.error = FALSE
          /\ e.mark = NoMark /\ e.headFieldTemp = h.headFieldTemp /\ e.nread = h.nread
      BY <2>1, <2>2 DEF OnMessageComplete, IsParser, Fields
    <3> HIDE DEF e
    <3>3. /\ AtRest(Idle(e)) /\ Idle(e).state = h.state /\ Idle(e).upgrade = h.upgrade
          /\ Idle(e).error = FALSE
      BY <2>3, <3>2 DEF Idle, AtRest, IsParser, Fields
    <3> QED BY <2>4, <2>5, <3>1, <3>3 DEF e
  <2>6. CASE h.state \in {"start", "dead"}
    BY <2>1, <2>2, <2>3, <2>4, <2>6 DEF ExecuteEof, Idle, AtRest, IsParser, Fields
  <2>7. CASE h.state \notin {"body_eof", "start", "dead"}
    <3>1. ExecuteEof(u) = Fail(u)
      BY <2>1, <2>7 DEF ExecuteEof
    <3> DEFINE e == Fail(u)
    <3>2. /\ IsParser(e) /\ e.state = h.state /\ e.upgrade = h.upgrade /\ e.error = TRUE
          /\ e.mark = NoMark /\ e.complete = h.complete
      BY <2>1, <2>2 DEF Fail, IsParser, Fields
    <3> HIDE DEF e
    <3>3. /\ AtRest(Idle(e)) /\ Idle(e).state = h.state /\ Idle(e).upgrade = h.upgrade
          /\ Idle(e).complete = h.complete
      BY <3>2 DEF Idle, AtRest, IsParser, Fields
    <3> QED BY <2>4, <2>7, <3>1, <3>3 DEF e
  <2> QED BY <2>5, <2>6, <2>7
<1> QED BY <1>1, <1>2

LEMMA ConnectedParser ==
  ASSUME ParserInv, OnConnected
  PROVE  ParserInv'
<1>1. AtRest(NewParser("response")) /\ NewParser("response").complete = FALSE
      /\ NewParser("response").error = FALSE
  BY NewAtRest
<1> QED BY <1>1 DEF OnConnected, ParserInv

LEMMA SendParser ==
  ASSUME ParserInv, Send
  PROVE  ParserInv'
<1>1. /\ http' = SentNothing(http) /\ UNCHANGED <<session, read, buffer, conn>>
      /\ calm' = (calm /\ http.state \in {"start", "dead"}) /\ conn # "closed"
  BY DEF Send, Sending
<1>2. AtRest(http) /\ AtRest(Idle(http)) /\ IsParser(http)
  BY DEF ParserInv, AtRest, Idle, IsParser, Fields
<1>3. /\ AtRest(http') /\ http'.state = http.state /\ http'.upgrade = http.upgrade
      /\ http'.error => http.error \/ http.state \notin {"start", "dead"}
      /\ http'.complete => http.complete \/ http.state = "body_eof"
  BY <1>1, <1>2, AfterNothing DEF SentNothing
<1> QED BY <1>1, <1>3 DEF ParserInv

LEMMA MessageParser ==
  ASSUME ParserInv, conn = "open", NEW n \in 1..(Len(Wire[session]) - read), OnMessage(n)
  PROVE  ParserInv'
<1> DEFINE bytes == buffer \o SubSeq(Wire[session], read + 1, read + n)
           parsed == Execute(http, bytes)
<1>1. /\ session \in Sessions /\ read \in Nat /\ Len(Wire[session]) \in Nat
      /\ read + n <= Len(Wire[session]) /\ n \in Nat /\ n > 0 /\ Wire[session] \in Seq(STRING)
      /\ buffer \in Seq(STRING) /\ AtRest(http)
  BY WiresAreBytes, LenProperties DEF ParserInv
<1>2. /\ session' = session /\ read' = read + n
      /\ buffer' = LeftOver(parsed, bytes)
      /\ OnFailure(parsed) \/ OnIncomplete(parsed) \/ OnResponse(parsed)
  BY DEF OnMessage
<1>3. bytes \in Seq(STRING) /\ bytes # <<>> /\ Len(bytes) \in Nat
  <2> DEFINE new == SubSeq(Wire[session], read + 1, read + n)
  <2>1. new \in Seq(STRING) /\ Len(new) = n
    BY <1>1, SubSeqProperties
  <2> HIDE DEF new
  <2>2. bytes \in Seq(STRING) /\ Len(bytes) = Len(buffer) + n /\ Len(buffer) \in Nat
    BY <1>1, <2>1, ConcatProperties, LenProperties DEF new
  <2> HIDE DEF bytes
  <2> QED BY <1>1, <2>2
<1> HIDE DEF bytes
<1>4. /\ AtRest(Idle(parsed)) /\ Idle(parsed).error = parsed.error
      /\ Idle(parsed).upgrade = parsed.upgrade /\ IsParser(parsed) /\ parsed.used \in Nat
      /\ LeftOver(parsed, bytes) # <<>> => parsed.error \/ parsed.upgrade
      /\ parsed.complete = Idle(parsed).complete
  BY <1>1, <1>3, AfterBytes
<1> HIDE DEF parsed
<1>5. buffer' \in Seq(STRING)
  <2>1. SubSeq(bytes, parsed.used + 1, Len(bytes)) \in Seq(STRING)
    BY <1>3, <1>4, SubSeqProperties
  <2> QED BY <1>2, <1>3, <2>1 DEF LeftOver
<1>6. CASE OnFailure(parsed)
  BY <1>1, <1>2, <1>4, <1>5, <1>6 DEF OnFailure, ParserInv
<1>7. CASE OnIncomplete(parsed)
  BY <1>1, <1>2, <1>4, <1>5, <1>7 DEF OnIncomplete, ParserInv
<1>8. CASE OnResponse(parsed) /\ http' = ResetMessage(Idle(parsed)) /\ UNCHANGED calm
  <2>1. /\ AtRest(http') /\ http'.complete = FALSE /\ http'.upgrade = parsed.upgrade
        /\ ~http'.error /\ ~parsed.error
    BY <1>4, <1>8, AfterReset DEF OnResponse
  <2> QED BY <1>1, <1>2, <1>4, <1>5, <1>8, <2>1 DEF OnResponse, ParserInv
<1>9. CASE /\ OnResponse(parsed) /\ http' = ResetMessage(SentNothing(parsed))
           /\ calm' = (calm /\ parsed.state \in {"start", "dead"})
  <2> DEFINE g == SentNothing(parsed)
  <2>1. IsParser(parsed) /\ ~parsed.error
    BY <1>4, <1>9 DEF OnResponse
  <2>2. /\ AtRest(g) /\ g.upgrade = parsed.upgrade
        /\ g.error => parsed.state \notin {"start", "dead"}
    BY <1>4, <2>1, AfterNothing DEF SentNothing
  <2> HIDE DEF g
  <2>3. /\ AtRest(http') /\ http'.complete = FALSE /\ http'.upgrade = parsed.upgrade
        /\ http'.error = g.error
    BY <1>9, <2>2, AfterReset DEF g
  <2>4. http'.error => ~calm'
    BY <1>9, <2>2, <2>3
  <2>5. calm' \in BOOLEAN
    BY <1>9
  <2>6. buffer' # <<>> => http'.upgrade
    BY <1>2, <1>4, <2>1, <2>3
  <2> QED BY <1>1, <1>2, <1>5, <2>3, <2>4, <2>5, <2>6 DEF ParserInv
<1> QED BY <1>2, <1>6, <1>7, <1>8, <1>9 DEF OnResponse, Sending

------------------------------------------------------------------------------
(* The callbacks and the requests.                                         *)

(* send, with the callback and the request it installs: the history        *)
(* grows at its end, and the new send is the one of the callback.          *)
LEMMA SendHistory ==
  ASSUME HistoryInv, NEW h, Sending(h), connects' = connects
  PROVE  /\ Len(sends') = Len(sends) + 1 /\ Len(sends') <= Len(Requests)
         /\ sends' = [k \in 1..Len(sends') |-> sends'[k]]
         /\ \A k \in 1..Len(sends) : sends'[k] = sends[k]
         /\ sends'[Len(sends')] = [connection |-> connects, after |-> Len(handled)]
         /\ \A k \in 1..Len(sends') :
              sends'[k].connection \in 0..connects /\ sends'[k].after \in Nat
         /\ cb' = Len(sends')
<1>1. sends' = Append(sends, [connection |-> connects, after |-> Len(handled)])
  BY DEF Sending
<1>2. /\ Len(sends) \in Nat /\ Len(Requests) \in Nat /\ Len(sends) < Len(Requests)
      /\ connects \in Nat /\ Len(handled) \in Nat
  BY RequestsAreMessages, LenProperties, MaxConnectsIsNatural DEF HistoryInv, Sending
<1>3. /\ Len(sends') = Len(sends) + 1 /\ sends' = [k \in 1..Len(sends') |-> sends'[k]]
      /\ \A k \in 1..Len(sends) : sends'[k] = sends[k]
      /\ sends'[Len(sends')] = [connection |-> connects, after |-> Len(handled)]
  BY <1>1, <1>2 DEF HistoryInv
<1>4. ASSUME NEW k \in 1..Len(sends')
      PROVE  sends'[k].connection \in 0..connects /\ sends'[k].after \in Nat
  <2>1. CASE k \in 1..Len(sends)
    BY <1>3, <2>1 DEF HistoryInv
  <2>2. CASE k = Len(sends')
    BY <1>2, <1>3, <2>2
  <2> QED BY <1>2, <1>3, <2>1, <2>2
<1>5. cb' = Len(sends')
  BY <1>3 DEF Sending, Installed
<1> QED BY <1>2, <1>3, <1>4, <1>5

(* The message of the next send.                                           *)
LEMMA StoredRequest ==
  ASSUME HistoryInv, Len(sends) < Len(Requests)
  PROVE  Stored = Requests[Len(sends) + 1] /\ "url" \in DOMAIN Stored
<1>1. Len(sends) + 1 \in DOMAIN Requests
  <2>1. Requests \in Seq(Range(Requests)) /\ Len(Requests) \in Nat
           /\ DOMAIN Requests = 1..Len(Requests)
    BY RequestsAreMessages, LenProperties
  <2> QED BY <2>1 DEF HistoryInv
<1>2. DOMAIN Requests[Len(sends) + 1] = DOMAIN NewParser("request").message
  BY <1>1, RequestsAreMessages
<1>3. "url" \in DOMAIN NewParser("request").message
  BY DEF NewParser
<1> QED BY <1>2, <1>3 DEF Stored

LEMMA UrlKept ==
  ASSUME NEW r, "url" \in DOMAIN r
  PROVE  ResetRequest(r).url = r.url /\ "url" \in DOMAIN ResetRequest(r)
BY DEF ResetRequest

LEMMA ConnectedCallback ==
  ASSUME CallbackInv, OnConnected
  PROVE  CallbackInv'
<1>1. /\ connects' = connects + 1 /\ connects < MaxConnects /\ handled' = <<>>
      /\ request' = NewParser("request").message /\ UNCHANGED <<cb, sends>>
  BY DEF OnConnected
<1>2. HistoryInv'
  BY <1>1, MaxConnectsIsNatural DEF CallbackInv, HistoryInv
<1>3. "url" \in DOMAIN request'
  BY <1>1 DEF NewParser
<1>4. cb' # 0 => sends'[cb'].connection # connects'
  BY <1>1, MaxConnectsIsNatural DEF CallbackInv, HistoryInv, ContextInv
<1>5. ContextInv'
  BY <1>1, <1>3, <1>4 DEF CallbackInv, ContextInv
<1>6. OwnRequest'
  BY <1>1 DEF OwnRequest
<1> QED BY <1>2, <1>5, <1>6 DEF CallbackInv

LEMMA SendCallback ==
  ASSUME CallbackInv, Send
  PROVE  CallbackInv'
<1>1. /\ Sending(http) /\ request' = Stored /\ UNCHANGED <<connects, conn, handled>>
      /\ Len(sends) < Len(Requests)
  BY DEF Send, Sending
<1>2. /\ Len(sends') = Len(sends) + 1 /\ Len(sends') <= Len(Requests)
      /\ sends' = [k \in 1..Len(sends') |-> sends'[k]]
      /\ \A k \in 1..Len(sends) : sends'[k] = sends[k]
      /\ sends'[Len(sends')] = [connection |-> connects, after |-> Len(handled)]
      /\ \A k \in 1..Len(sends') :
           sends'[k].connection \in 0..connects /\ sends'[k].after \in Nat
      /\ cb' = Len(sends')
  BY <1>1, SendHistory DEF CallbackInv
<1>3. request' = Requests[cb'] /\ "url" \in DOMAIN request'
  BY <1>1, <1>2, StoredRequest DEF CallbackInv
<1>4. HistoryInv'
  BY <1>1, <1>2 DEF CallbackInv, HistoryInv
<1>5. ContextInv'
  BY <1>1, <1>2, <1>3, <1>4 DEF ContextInv, HistoryInv
<1>6. OwnRequest'
  <2> SUFFICES ASSUME NEW i \in 1..Len(handled), handled[i].send # 0,
                      sends'[handled[i].send].connection = connects
               PROVE  /\ handled[i].request.url = Requests[handled[i].send].url
                      /\ sends'[handled[i].send].after = i - 1 =>
                           handled[i].request = Requests[handled[i].send]
    BY <1>1 DEF OwnRequest, CallbackInv, HistoryInv
  <2>1. sends'[handled[i].send] = sends[handled[i].send]
    BY <1>2 DEF CallbackInv, HistoryInv
  <2> QED BY <2>1 DEF OwnRequest, CallbackInv, HistoryInv
<1> QED BY <1>4, <1>5, <1>6 DEF CallbackInv

(* The response that is handled: what the callback is given, before the    *)
(* context is reset and before the callback itself sends.                  *)
LEMMA HandledCallback ==
  ASSUME CallbackInv, conn # "closed", NEW response,
         handled' = Append(handled, [send |-> cb, request |-> request,
                                     response |-> response]),
         connects' = connects, Len(sends') \in Nat, Len(sends) <= Len(sends'),
         \A k \in 1..Len(sends) : sends'[k] = sends[k]
  PROVE  /\ Len(handled') = Len(handled) + 1
         /\ handled' = [i \in 1..Len(handled') |-> handled'[i]]
         /\ \A i \in 1..Len(handled') : handled'[i].send \in 0..Len(sends')
         /\ OwnRequest'
<1>1. /\ Len(handled) \in Nat /\ Len(sends) \in Nat
      /\ Len(handled') = Len(handled) + 1
      /\ handled' = [i \in 1..Len(handled') |-> handled'[i]]
      /\ DOMAIN handled' = 1..Len(handled')
      /\ \A i \in 1..Len(handled) : handled'[i] = handled[i]
      /\ handled'[Len(handled')] = [send |-> cb, request |-> request, response |-> response]
  BY DEF CallbackInv, HistoryInv
<1>2. ASSUME NEW i \in 1..Len(handled')
      PROVE  LET k == handled'[i].send
             IN  /\ k \in 0..Len(sends')
                 /\ k # 0 /\ sends'[k].connection = connects =>
                      /\ handled'[i].request.url = Requests[k].url
                      /\ sends'[k].after = i - 1 => handled'[i].request = Requests[k]
  <2>1. CASE i \in 1..Len(handled)
    <3> DEFINE k == handled[i].send
    <3>1. handled'[i] = handled[i] /\ k \in 0..Len(sends) /\ k \in 0..Len(sends')
      BY <1>1, <2>1 DEF CallbackInv, HistoryInv
    <3>2. k # 0 => sends'[k] = sends[k]
      BY <1>1, <3>1
    <3>3. k # 0 /\ sends[k].connection = connects =>
            /\ handled[i].request.url = Requests[k].url
            /\ sends[k].after = i - 1 => handled[i].request = Requests[k]
      BY <2>1 DEF CallbackInv, HistoryInv, OwnRequest
    <3> QED BY <3>1, <3>2, <3>3
  <2>2. CASE i = Len(handled')
    <3>1. /\ handled'[i].send = cb /\ handled'[i].request = request /\ i - 1 = Len(handled)
          /\ cb = Len(sends) /\ cb \in 0..Len(sends')
      BY <1>1, <2>2 DEF CallbackInv, ContextInv
    <3>2. cb # 0 => sends'[cb] = sends[cb]
      BY <1>1, <3>1
    <3>3. cb # 0 /\ sends[cb].connection = connects =>
            /\ request.url = Requests[cb].url
            /\ sends[cb].after = Len(handled) => request = Requests[cb]
      BY DEF CallbackInv, ContextInv
    <3> QED BY <3>1, <3>2, <3>3
  <2> QED BY <1>1, <2>1, <2>2
<1>3. OwnRequest'
  BY <1>1, <1>2 DEF OwnRequest
<1> QED BY <1>1, <1>2, <1>3

LEMMA ResponseCallback ==
  ASSUME CallbackInv, conn # "closed", NEW parsed, OnResponse(parsed), connects' = connects
  PROVE  CallbackInv'
<1>1. handled' = Append(handled, [send |-> cb, request |-> request,
                                  response |-> parsed.message])
  BY DEF OnResponse
<1>2. CASE request' = ResetRequest(request) /\ UNCHANGED <<cb, sends>>
  <2>1. /\ Len(handled') = Len(handled) + 1
        /\ handled' = [i \in 1..Len(handled') |-> handled'[i]]
        /\ \A i \in 1..Len(handled') : handled'[i].send \in 0..Len(sends')
        /\ OwnRequest'
    BY <1>1, <1>2, HandledCallback DEF CallbackInv, HistoryInv
  <2>2. HistoryInv'
    BY <1>2, <2>1 DEF CallbackInv, HistoryInv
  <2>3. request'.url = request.url /\ "url" \in DOMAIN request'
    BY <1>2, UrlKept DEF CallbackInv, ContextInv
  <2>4. /\ cb' = Len(sends') /\ UNCHANGED <<cb, sends>> /\ cb \in 0..Len(sends)
        /\ cb # 0 => sends[cb].after \in Nat
        /\ cb # 0 /\ sends[cb].connection = connects =>
             sends[cb].after <= Len(handled) /\ request.url = Requests[cb].url
    BY <1>2 DEF CallbackInv, HistoryInv, ContextInv
  <2>5. cb # 0 /\ sends[cb].connection = connects =>
          sends[cb].after <= Len(handled') /\ sends[cb].after # Len(handled')
    <3>1. Len(handled) \in Nat
      BY DEF CallbackInv, HistoryInv
    <3> QED BY <2>1, <2>4, <3>1
  <2>6. ContextInv'
    BY <2>3, <2>4, <2>5 DEF ContextInv
  <2> QED BY <2>1, <2>2, <2>6 DEF CallbackInv
<1>3. CASE Sending(parsed) /\ request' = ResetRequest(Stored)
  <2>1. /\ Len(sends') = Len(sends) + 1 /\ Len(sends') <= Len(Requests)
        /\ sends' = [k \in 1..Len(sends') |-> sends'[k]]
        /\ \A k \in 1..Len(sends) : sends'[k] = sends[k]
        /\ sends'[Len(sends')] = [connection |-> connects, after |-> Len(handled)]
        /\ \A k \in 1..Len(sends') :
             sends'[k].connection \in 0..connects /\ sends'[k].after \in Nat
        /\ cb' = Len(sends')
    BY <1>3, SendHistory DEF CallbackInv
  <2>2. Len(sends') \in Nat /\ Len(sends) <= Len(sends')
    BY <2>1 DEF CallbackInv, HistoryInv
  <2>3. /\ Len(handled') = Len(handled) + 1
        /\ handled' = [i \in 1..Len(handled') |-> handled'[i]]
        /\ \A i \in 1..Len(handled') : handled'[i].send \in 0..Len(sends')
        /\ OwnRequest'
    BY <1>1, <2>1, <2>2, HandledCallback
  <2>4. HistoryInv'
    BY <2>1, <2>2, <2>3 DEF CallbackInv, HistoryInv
  <2>5. request'.url = Requests[cb'].url /\ "url" \in DOMAIN request'
    BY <1>3, <2>1, StoredRequest, UrlKept DEF CallbackInv, Sending
  <2>6. ContextInv'
    BY <2>1, <2>3, <2>5 DEF CallbackInv, HistoryInv, ContextInv
  <2> QED BY <2>3, <2>4, <2>6 DEF CallbackInv
<1> QED BY <1>2, <1>3 DEF OnResponse

------------------------------------------------------------------------------
LEMMA ClientStep == ClientInv /\ [Next]_vars => ClientInv'
<1> SUFFICES ASSUME ClientInv, [Next]_vars PROVE ClientInv'
  OBVIOUS
<1>1. ParserInv /\ CallbackInv
  BY DEF ClientInv
<1>2. CASE OnConnected
  BY <1>1, <1>2, ConnectedParser, ConnectedCallback DEF ClientInv
<1>3. CASE Send
  BY <1>1, <1>3, SendParser, SendCallback DEF ClientInv
<1>4. CASE conn = "open" /\ \E n \in 1..(Len(Wire[session]) - read) : OnMessage(n)
  <2>1. PICK n \in 1..(Len(Wire[session]) - read) : OnMessage(n)
    BY <1>4
  <2>2. ParserInv'
    BY <1>1, <1>4, <2>1, MessageParser
  <2> DEFINE parsed == Execute(http, buffer \o SubSeq(Wire[session], read + 1, read'))
  <2>3. (OnFailure(parsed) \/ OnIncomplete(parsed) \/ OnResponse(parsed)) /\ connects' = connects
    BY <2>1 DEF OnMessage
  <2> HIDE DEF parsed
  <2> SUFFICES CallbackInv'
    BY <2>2 DEF ClientInv
  <2>4. CASE OnFailure(parsed) \/ OnIncomplete(parsed)
    BY <1>1, <1>4, <2>3, <2>4
    DEF OnFailure, OnIncomplete, CallbackInv, HistoryInv, ContextInv, OwnRequest
  <2>5. CASE OnResponse(parsed)
    BY <1>1, <1>4, <2>3, <2>5, ResponseCallback
  <2> QED BY <2>3, <2>4, <2>5
<1>5. CASE OnDisconnected
  BY <1>1, <1>5
  DEF OnDisconnected, context, cuts, ClientInv, ParserInv, CallbackInv, HistoryInv, ContextInv,
      OwnRequest
<1>6. CASE UNCHANGED vars
  BY <1>1, <1>6
  DEF vars, context, cuts, ClientInv, ParserInv, CallbackInv, HistoryInv, ContextInv, OwnRequest
<1> QED BY <1>2, <1>3, <1>4, <1>5, <1>6 DEF Next

LEMMA ClientInductive == Spec => []ClientInv
BY ClientStart, ClientStep, PTL DEF Spec

(* An HttpClient between two events: no complete response but one that a   *)
(* send has ended, no marked string, an empty Buffer unless for an upgrade,*)
(* an error only after a send in the middle of a response; the callback is *)
(* one that a send has installed.                                          *)
THEOREM ClientTypes == Spec => []TypeOK
<1>1. ClientInv => TypeOK
  <2> SUFFICES ASSUME ClientInv PROVE TypeOK
    OBVIOUS
  <2>1. ParserInv /\ HistoryInv /\ cb = Len(sends)
    BY DEF ClientInv, CallbackInv, ContextInv
  <2>2. /\ http.mark = NoMark
        /\ http.headFieldTemp # <<>> =>
             http.error \/ http.state \in {"field", "value_ws", "empty_value"}
    BY <2>1 DEF ParserInv, AtRest, IsParser
  <2>3. cb \in 0..Len(sends) /\ \A i \in DOMAIN handled : handled[i].send \in 0..Len(sends)
    BY <2>1 DEF HistoryInv
  <2> QED BY <2>1, <2>2, <2>3 DEF TypeOK, ParserInv, HistoryInv
<1> QED BY <1>1, ClientInductive, PTL

(* A callback gets the request of its own send, whatever was sent before   *)
(* it, also from another callback, and whatever connections were lost.     *)
THEOREM RequestsStayOwn == Spec => []OwnRequest
<1>1. ClientInv => OwnRequest
  BY DEF ClientInv, CallbackInv
<1> QED BY <1>1, ClientInductive, PTL

------------------------------------------------------------------------------
(* The bytes of session s as a stream.                                     *)
IsWire(s, y) == StreamOf("response", s, y)

LEMMA SessionBytes ==
  ASSUME NEW s \in Sessions
  PROVE  /\ MayCome("response", s) /\ DOMAIN s = 1..Len(s) /\ Len(s) \in Nat
         /\ Wire[s] = Bytes(PartsOfAll("response", s))
         /\ Cuts[s] = Harmful(PartsOfAll("response", s))
         /\ DOMAIN Ends[s] = DOMAIN s
         /\ \A i \in DOMAIN s : Ends[s][i] = Len(Bytes(PartsOfAll("response", SubSeq(s, 1, i))))
<1>1. /\ s \in Seq(Range(s)) /\ DOMAIN s = 1..Len(s) /\ Len(s) \in Nat
      /\ \A i \in DOMAIN s : IsResponse(s[i]) /\ (s[i].coding = "eof" => i = Len(s))
  BY SessionsAreResponses, LenProperties
<1>2. \A i \in DOMAIN s : Good("response", s[i])
  BY <1>1, ResponsesAreGood
<1>3. \A q : FlattenSeq([k \in DOMAIN q |-> ResponseParts(q[k])]) = PartsOfAll("response", q)
  BY DEF PartsOfAll, PartsOf
<1>4. Wire[s] = Bytes(PartsOfAll("response", s)) /\ Cuts[s] = Harmful(PartsOfAll("response", s))
  BY <1>3 DEF Wire, Cuts, AllParts
<1>5. /\ DOMAIN Ends[s] = DOMAIN s
      /\ \A i \in DOMAIN s : Ends[s][i] = Len(Bytes(PartsOfAll("response", SubSeq(s, 1, i))))
  BY <1>3 DEF Ends, AllParts
<1>6. MayCome("response", s)
  BY <1>1, <1>2 DEF MayCome
<1> QED BY <1>1, <1>4, <1>5, <1>6

(* Every session has its stream.                                           *)
LEMMA SessionWire ==
  ASSUME NEW s \in Sessions
  PROVE  \E y : IsWire(s, y)
BY SessionBytes, StreamExists DEF IsWire

(* What a read that ends in no string does not cut.                        *)
LEMMA SessionUncut ==
  ASSUME NEW s \in Sessions, NEW y, IsWire(s, y), NEW p \in Nat, p \notin Cuts[s]
  PROVE  Uncut(y, p)
<1>1. /\ MayCome("response", s) /\ StreamOf("response", s, y)
      /\ p \notin Harmful(PartsOfAll("response", s))
  BY SessionBytes DEF IsWire
<1> QED BY <1>1, StreamOfUncut

(* What is known of the stream of a session.                               *)
LEMMA WireKnown ==
  ASSUME NEW s \in Sessions, NEW y, IsWire(s, y)
  PROVE  /\ Stream(y) /\ y.type = "response" /\ y.msgs = s /\ y.wire = Wire[s]
         /\ Len(s) \in Nat /\ DOMAIN s = 1..Len(s) /\ DOMAIN Ends[s] = 1..Len(s)
         /\ \A i \in 1..Len(s) : y.off[i + 1] = Ends[s][i]
         /\ Len(y.wire) \in Nat
<1>1. Len(y.wire) \in Nat
  BY LenProperties DEF IsWire, StreamOf, Stream
<1> QED BY <1>1, SessionBytes DEF IsWire, StreamOf

(* What the properties say of a response, and what its place in the stream *)
(* is.                                                                     *)
LEMMA ResponseAt ==
  ASSUME session \in Sessions, NEW y, IsWire(session, y), NEW i \in DOMAIN session
  PROVE  /\ Begin(i) = y.off[i] /\ Ends[session][i] = y.off[i + 1]
         /\ Carried(i) = Carry(y, i)
         /\ HeadFits(i) <=> Fits(y, i)
         /\ Closing(session[i]) <=> ~KeepsOpen(session[i])
         /\ y.off[i] \in Nat /\ Carry(y, i) \in {0, 1}
<1> DEFINE E(k) == Len(Bytes(PartsOfAll("response", SubSeq(session, 1, k))))
<1>1. /\ MayCome("response", session) /\ StreamOf("response", session, y)
      /\ y.off[i + 1] = Ends[session][i]
      /\ DOMAIN session = 1..Len(session) /\ Len(session) \in Nat
      /\ \A k \in DOMAIN session : Ends[session][k] = E(k)
  BY SessionBytes, WireKnown DEF IsWire
<1>2. IsMessage(session[i]) /\ session[i].coding \in {"none", "eof", "length", "chunked"}
  BY SessionsAreResponses DEF IsResponse
<1>3. /\ y.off[i] = (IF i = 1 THEN 0 ELSE E(i - 1))
      /\ y.off[i] \in Nat /\ Carry(y, i) \in {0, 1}
      /\ Carry(y, i) = (IF i > 1 /\ session[i - 1].coding = "chunked" THEN 1 ELSE 0)
      /\ Fits(y, i) <=> Carry(y, i) + Len(Bytes(HeadOf("response", session[i]))) <= HTTP_MAX_HEADER_SIZE
      /\ Closing(session[i]) <=> ~KeepsOpen(session[i])
  BY <1>1, <1>2, MessageSaid
<1> HIDE DEF E
<1>4. HeadFits(i) <=> Fits(y, i)
  BY <1>3 DEF HeadFits, Carried, HeadOf
<1>5. Begin(i) = y.off[i]
  <2>1. i # 1 => i - 1 \in DOMAIN session
    BY <1>1
  <2> QED BY <1>1, <1>3, <2>1 DEF Begin
<1> QED BY <1>1, <1>3, <1>4, <1>5 DEF Carried

(* What the property calls the responses that are due.                     *)
LEMMA DueIsDone ==
  ASSUME session \in Sessions, NEW y, IsWire(session, y)
  PROVE  Due = Done(y, read)
<1>1. DOMAIN session = 1..Len(session) /\ Len(session) \in Nat /\ y.msgs = session
  BY WireKnown
<1>2. ASSUME NEW i \in 1..Len(session)
      PROVE  /\ Ends[session][i] = y.off[i + 1]
             /\ HeadFits(i) <=> Fits(y, i)
             /\ Closing(session[i]) <=> ~KeepsOpen(session[i])
  BY <1>1, ResponseAt
<1>3. ASSUME NEW i \in 1..Len(session)
      PROVE  i \in Due <=> i \in Done(y, read)
  <2>1. (\A j \in 1..i : j \in 1..Len(session)) /\ (\A j \in 1..(i - 1) : j \in 1..Len(session))
    BY <1>1
  <2>2. i \in Arrived <=> y.off[i + 1] <= read
    BY <1>1, <1>2 DEF Arrived
  <2>3. (\A j \in 1..i : HeadFits(j)) <=> (\A j \in 1..i : Fits(y, j))
    BY <1>2, <2>1
  <2>4. (\A j \in 1..(i - 1) : ~Closing(session[j])) <=> (\A j \in 1..(i - 1) : KeepsOpen(y.msgs[j]))
    BY <1>1, <1>2, <2>1
  <2> QED BY <1>1, <2>2, <2>3, <2>4 DEF Due, Done
<1>4. Due \subseteq 1..Len(session)
  BY <1>1 DEF Due, Arrived
<1>5. Done(y, read) \subseteq 1..Len(session)
  BY <1>1 DEF Done
<1> QED BY <1>3, <1>4, <1>5

------------------------------------------------------------------------------
(* What a send tells the parser: between two messages nothing, and inside  *)
(* one, unless it runs to the end of the stream, that it has failed.       *)
LEMMA NothingTold ==
  ASSUME NEW h, IsParser(h), AtRest(Idle(h))
  PROVE  /\ h.error => SentNothing(h) = Idle(h)
         /\ h.error = FALSE /\ h.state \in {"start", "dead"} => SentNothing(h) = Idle(h)
         /\ h.error = FALSE /\ h.state \notin {"start", "dead", "body_eof"} => SentNothing(h).error = TRUE
<1>1. CASE h.error
  BY <1>1 DEF SentNothing, Execute
<1>2. CASE ~h.error
  <2> DEFINE u == [h EXCEPT !.used = 0]
  <2>1. Execute(h, <<>>) = ExecuteEof(u) /\ u.state = h.state
    BY <1>2 DEF Execute, IsParser, Fields
  <2>2. CASE h.state \in {"start", "dead"}
    <3>1. SentNothing(h) = Idle(u)
      BY <2>1, <2>2 DEF ExecuteEof, SentNothing
    <3>2. Idle(u) = Idle(h)
      BY DEF Idle
    <3> QED BY <1>2, <2>2, <3>1, <3>2
  <2>3. CASE h.state \notin {"start", "dead", "body_eof"}
    <3>1. SentNothing(h) = Idle(Fail(u))
      BY <2>1, <2>3 DEF ExecuteEof, SentNothing
    <3>2. Idle(Fail(u)).error = TRUE
      BY DEF Idle, Fail, IsParser, Fields
    <3> QED BY <1>2, <2>3, <3>1, <3>2
  <2>4. CASE h.state = "body_eof"
    BY <1>2, <2>4
  <2> QED BY <2>2, <2>3, <2>4
<1> QED BY <1>1, <1>2

------------------------------------------------------------------------------
(* The last response runs to the end of the stream, and a parser that has  *)
(* read p bytes is at its first.                                           *)
Runs(y) == Len(y.msgs) >= 1 /\ y.msgs[Len(y.msgs)].coding = "eof"

AtTail(y, p) == Runs(y) /\ p = BodyAt(y.msgs[Len(y.msgs)], y.at[Len(y.msgs)])

(* Where such a response is laid.                                          *)
LEMMA TailLaid ==
  ASSUME NEW y, Stream(y), Runs(y)
  PROVE  LET n == Len(y.msgs)
             b == BodyAt(y.msgs[n], y.at[n])
             t == FlattenSeq(y.msgs[n].body)
         IN  b \in Nat /\ Len(t) \in Nat /\ Len(y.wire) = b + Len(t)
<1> DEFINE n == Len(y.msgs)
           m == y.msgs[n]
           l == y.at[n]
<1>1. n \in Nat /\ n >= 1
  BY DEF Stream, Runs
<1>2. n \in 1..n
  BY <1>1
<1>3. /\ Good(y.type, m) /\ Laid(y.wire, y.type, m, l) /\ l.end = y.off[n + 1] /\ BodyAt(m, l) \in Nat
      /\ y.off[n + 1] = Len(y.wire)
  BY <1>2, MessageSpot DEF Stream
<1>4. m.coding = "eof"
  BY DEF Runs
<1> HIDE DEF n, m, l
<1>5. l.end = BodyAt(m, l) + Len(FlattenSeq(m.body))
  BY <1>3, <1>4 DEF Laid, BodyLaid
<1>6. Len(FlattenSeq(m.body)) \in Nat
  <2>1. m.body \in Seq(Seq(Piece))
    BY <1>3 DEF Good, GoodBody
  <2>2. 0 \in 0..Len(m.body)
    BY <2>1, LenProperties
  <2>3. FlattenSeq(m.body) \in Seq(Piece)
    BY <2>1, <2>2, FlatIsSeq
  <2> QED BY <2>3, LenProperties
<1> QED BY <1>3, <1>5, <1>6 DEF n, m, l

(* Where a parser in a body that runs to the end of the stream may be.     *)
LEMMA TailPlace ==
  ASSUME NEW y, Stream(y), NEW p \in Nat, NEW h, IsParser(h), h.state = "body_eof",
         Place(TRUE, Resume(h), y, p)
  PROVE  /\ Runs(y) /\ (AtTail(y, p) \/ p = Len(y.wire))
         /\ Done(y, p) = 1..(Len(y.msgs) - 1)
<1> DEFINE g == Resume(h)
<1>1. g.state = "body_eof" /\ g.mark = NoMark
  BY DEF Resume, IsParser, Fields
<1> HIDE DEF g
<1>2. PICK i \in 1..Len(y.msgs) : InBody(TRUE, g, y, p, i)
  <2>1. ASSUME NEW i \in 1..(Len(y.msgs) + 1) PROVE ~Between(TRUE, g, y, p, i)
    BY <1>1 DEF Between
  <2>2. ASSUME NEW i \in 1..Len(y.msgs) PROVE ~InHead(TRUE, g, y, p, i)
    <3> DEFINE m == y.msgs[i]
               l == y.at[i]
    <3> HIDE DEF m, l
    <3>1. ~HeadPlace(TRUE, g, y.type, m, l, p)
      BY <1>1 DEF HeadPlace, FirstPlace, RequestPlace, ResponsePlace, StartPlace, LinePlace, NamePlace,
                  ColonPlace, ValuePlace, ValueEndPlace, NoValuePlace
    <3> QED BY <3>1 DEF InHead, m, l
  <2> QED BY <2>1, <2>2 DEF Place, g
<1> DEFINE m == y.msgs[i]
           l == y.at[i]
<1>3. BodyPlace(TRUE, g, y.type, m, l, p)
  BY <1>2 DEF InBody
<1>4. EofPlace(TRUE, g, y.type, m, l, p)
  <2> HIDE DEF m, l
  <2> QED BY <1>1, <1>3 DEF BodyPlace, LengthPlace, ChunkPlace
<1>5. i = Len(y.msgs) /\ m.coding = "eof" /\ Len(y.msgs) \in Nat
  BY <1>4 DEF EofPlace, Stream
<1>6. Runs(y)
  BY <1>5 DEF Runs
<1>7. BodyAt(m, l) \in Nat /\ Len(FlattenSeq(m.body)) \in Nat
      /\ Len(y.wire) = BodyAt(m, l) + Len(FlattenSeq(m.body))
  BY <1>5, <1>6, TailLaid
<1>8. Done(y, p) = 1..(i - 1)
  <2>1. Standing(y, p, i)
    BY <1>2, InsideStands
  <2>2. i \in 1..(Len(y.msgs) + 1)
    BY <1>5
  <2> QED BY <2>1, <2>2, DoneIs
<1>9. p = BodyAt(m, l) \/ p = Len(y.wire)
  <2> DEFINE t == FlattenSeq(m.body)
             b == BodyAt(m, l)
             k == p - b
             q == Len(t)
  <2>1. Taken(g, t, k) \/ k = q
    BY <1>4 DEF EofPlace
  <2>2. ASSUME Taken(g, t, k) PROVE k = 0
    <3> HIDE DEF t, k
    <3>1. \A r : Said("body", t, r) # NoMark
      BY DEF Said, NoMark
    <3> QED BY <1>1, <2>2, <3>1 DEF Taken
  <2>3. b \in Nat /\ q \in Nat /\ Len(y.wire) = b + q /\ (k = 0 \/ k = q)
    BY <1>7, <2>1, <2>2
  <2>4. k = p - b
    OBVIOUS
  <2> HIDE DEF b, q, k, t
  <2>5. p = b \/ p = b + q
    BY <2>3, <2>4
  <2> QED BY <2>3, <2>5 DEF b
<1> QED BY <1>5, <1>6, <1>8, <1>9 DEF AtTail

(* A read from there that cuts no body ends the stream.                    *)
LEMMA TailRead ==
  ASSUME NEW y, Stream(y), NEW c \in Nat, AtTail(y, c), NEW d \in Nat, c < d, d <= Len(y.wire),
         Uncut(y, d)
  PROVE  d = Len(y.wire)
<1> DEFINE n == Len(y.msgs)
           b == BodyAt(y.msgs[n], y.at[n])
           q == Len(FlattenSeq(y.msgs[n].body))
<1>1. b \in Nat /\ q \in Nat /\ Len(y.wire) = b + q /\ c = b
  BY TailLaid DEF AtTail
<1>2. d - b \notin 1..(q - 1)
  <2>1. n \in 1..Len(y.msgs) /\ y.msgs[n].coding = "eof"
    BY DEF Stream, AtTail, Runs
  <2>2. UncutIn(y.type, y.msgs[n], y.at[n], d)
    BY <2>1 DEF Uncut
  <2> QED BY <2>1, <2>2 DEF UncutIn
<1> DEFINE w == Len(y.wire)
<1>3. w = b + q /\ d <= w
  BY <1>1
<1> HIDE DEF b, q, n, w
<1>4. d = w
  BY <1>1, <1>2, <1>3
<1> QED BY <1>4 DEF w

(* What was whole stays whole.                                             *)
LEMMA DoneStays ==
  ASSUME NEW y, Stream(y), NEW c \in Nat, NEW d \in Nat, c <= d
  PROVE  Done(y, c) \subseteq Done(y, d)
<1> SUFFICES ASSUME NEW i \in Done(y, c) PROVE i \in Done(y, d)
  OBVIOUS
<1>1. i \in 1..Len(y.msgs) /\ Len(y.msgs) \in Nat /\ y.off[i + 1] <= c
  BY DEF Done, Stream
<1>2. y.off[i + 1] \in Nat
  BY <1>1 DEF Stream
<1> DEFINE o == y.off[i + 1]
<1>3. o \in Nat /\ o <= c
  BY <1>1, <1>2
<1> HIDE DEF o
<1>4. o <= d
  BY <1>3
<1> QED BY <1>4 DEF Done, o

------------------------------------------------------------------------------
(* The responses that were handled, while no read has cut a string or held *)
(* bytes of two: they are those that were sent, and until a send has come  *)
(* in the middle of one, all that are whole.                               *)
SentAre(y) ==
  /\ \A j \in 1..Len(session) : Len(session[j].body) <= 1
  /\ \A i \in 1..Len(handled) :
       /\ i \in 1..Len(session)
       /\ session[i].coding # "eof" => handled[i].response = ResponseOf(session[i])

CausedAt(y) ==
  \/ Blame(y, read)
  \/ \E i \in Done(y, read) : SaysClose(session[i])

CalmAt(y) ==
  /\ Done(y, read) = 1..Len(handled)
  /\ conn = "open" => buffer = <<>> /\ Place(TRUE, Resume(http), y, read)
  /\ conn = "closing" => CausedAt(y)

(* After such a send the parser has failed, unless it was in a body that   *)
(* runs to the end of the stream: then one more may be handled.            *)
TornAt(y) ==
  \/ /\ 1..Len(handled) \subseteq Done(y, read)
     /\ conn = "open" =>
          \/ http.error = TRUE
          \/ Runs(y) /\ read = Len(y.wire)
          \/ AtTail(y, read) /\ Len(handled) = Len(y.msgs) - 1
  \/ Runs(y) /\ read = Len(y.wire) /\ Len(handled) = Len(y.msgs)

StreamInv(y) ==
  /\ read \in 0..Len(y.wire)
  /\ SentAre(y)
  /\ calm => CalmAt(y)
  /\ ~calm => TornAt(y)

ExactInv ==
  /\ session \in Sessions \/ (session = <<>> /\ conn = "closed" /\ handled = <<>>)
  /\ whole /\ alone /\ session \in Sessions =>
       \A y : IsWire(session, y) => StreamInv(y)

(* Nothing of the stream has been read.                                    *)
LEMMA StreamBegins ==
  ASSUME NEW s \in Sessions, NEW y, IsWire(s, y)
  PROVE  /\ Place(TRUE, Resume(NewParser("response")), y, 0) /\ Done(y, 0) = 1..Len(<<>>)
         /\ 0 \in 0..Len(y.wire) /\ DOMAIN s = 1..Len(s) /\ Len(<<>>) = 0
<1>1. Stream(y) /\ NewParser("response") = NewParser(y.type) /\ Len(y.wire) \in Nat
      /\ DOMAIN s = 1..Len(s)
  BY WireKnown
<1>2. Len(<<>>) = 0
  OBVIOUS
<1>3. Place(TRUE, Resume(NewParser("response")), y, 0) /\ Done(y, 0) = 1..0
  BY <1>1, NothingDone
<1>4. 0 \in 0..Len(y.wire)
  <2> DEFINE w == Len(y.wire)
  <2>1. w \in Nat
    BY <1>1
  <2> HIDE DEF w
  <2>2. 0 \in 0..w
    BY <2>1
  <2> QED BY <2>2 DEF w
<1>5. Done(y, 0) = 1..Len(<<>>)
  BY <1>2, <1>3
<1> QED BY <1>1, <1>2, <1>3, <1>4, <1>5

LEMMA ExactStart == Init => ExactInv
<1> SUFFICES ASSUME Init PROVE ExactInv
  OBVIOUS
<1>1. session = <<>> /\ read = 0 /\ conn = "closed" /\ handled = <<>> /\ calm = TRUE
  BY DEF Init
<1>2. ASSUME session \in Sessions, NEW y, IsWire(session, y) PROVE StreamInv(y)
  <2>1. Done(y, 0) = 1..Len(<<>>) /\ 0 \in 0..Len(y.wire) /\ Len(<<>>) = 0
    BY <1>2, StreamBegins
  <2>2. 1..0 = {}
    OBVIOUS
  <2>3. SentAre(y)
    BY <1>1, <2>1, <2>2 DEF SentAre
  <2>4. CalmAt(y)
    BY <1>1, <2>1 DEF CalmAt, CausedAt
  <2> QED BY <1>1, <2>1, <2>3, <2>4 DEF StreamInv
<1> QED BY <1>1, <1>2 DEF ExactInv

LEMMA ExactConnected ==
  ASSUME OnConnected
  PROVE  ExactInv'
<1>1. /\ conn' = "open" /\ session' \in Sessions /\ read' = 0 /\ buffer' = <<>> /\ http' = NewParser("response")
      /\ handled' = <<>> /\ calm' = TRUE
      /\ whole' = \A i \in DOMAIN session' : Len(session'[i].body) <= 1
  BY DEF OnConnected
<1>2. ASSUME whole', NEW y, IsWire(session, y)' PROVE StreamInv(y)'
  <2>1. /\ Place(TRUE, Resume(NewParser("response")), y, 0) /\ Done(y, 0) = 1..Len(<<>>)
        /\ 0 \in 0..Len(y.wire) /\ DOMAIN session' = 1..Len(session') /\ Len(<<>>) = 0
    BY <1>1, <1>2, StreamBegins DEF IsWire
  <2>2. 1..0 = {}
    OBVIOUS
  <2>3. SentAre(y)'
    BY <1>1, <1>2, <2>1, <2>2 DEF SentAre
  <2>4. CalmAt(y)'
    BY <1>1, <2>1 DEF CalmAt, CausedAt
  <2> QED BY <1>1, <2>1, <2>3, <2>4 DEF StreamInv
<1> QED BY <1>1, <1>2 DEF ExactInv

(* A send between two reads.                                               *)
LEMMA ExactSend ==
  ASSUME ClientInv, ExactInv, Send
  PROVE  ExactInv'
<1>1. /\ UNCHANGED <<session, read, buffer, conn, handled, whole, alone>>
      /\ http' = SentNothing(http) /\ conn # "closed"
      /\ calm' = (calm /\ http.state \in {"start", "dead"})
  BY DEF Send, Sending
<1>2. /\ ParserInv /\ session \in Sessions /\ calm \in BOOLEAN
      /\ AtRest(http) /\ IsParser(http) /\ http.error \in BOOLEAN /\ Len(handled) \in Nat
  BY <1>1 DEF ClientInv, CallbackInv, HistoryInv, ParserInv, AtRest, IsParser
<1>3. AtRest(Idle(http)) /\ Idle(http).error = http.error
  BY <1>2 DEF AtRest, Idle, IsParser, Fields
<1>4. /\ http.error => http' = Idle(http)
      /\ http.error = FALSE /\ http.state \in {"start", "dead"} => http' = Idle(http)
      /\ http.error = FALSE /\ http.state \notin {"start", "dead", "body_eof"} => http'.error = TRUE
  BY <1>1, <1>2, <1>3, NothingTold
<1>5. ASSUME whole, alone, NEW y, IsWire(session, y) PROVE StreamInv(y)'
  <2>1. StreamInv(y)
    BY <1>2, <1>5 DEF ExactInv
  <2>2. SentAre(y)' /\ read' \in 0..Len(y.wire)
    BY <1>1, <2>1 DEF StreamInv, SentAre
  <2>3. CASE ~calm
    <3>1. TornAt(y)
      BY <2>1, <2>3 DEF StreamInv
    <3>2. http.error = TRUE => http'.error = TRUE
      BY <1>3, <1>4
    <3>3. TornAt(y)'
      BY <1>1, <3>1, <3>2 DEF TornAt
    <3> QED BY <1>1, <2>2, <2>3, <3>3 DEF StreamInv
  <2>4. CASE calm /\ http.state \in {"start", "dead"}
    <3>1. CalmAt(y)
      BY <2>1, <2>4 DEF StreamInv
    <3>2. CASE conn = "open"
      <4>1. http.error = FALSE
        BY <1>2, <2>4, <3>2 DEF ParserInv
      <4>2. Resume(http') = Resume(http)
        <5>1. Resume(Idle(http)) = Resume(http)
          BY <1>2 DEF Resume, Idle, IsParser, Fields
        <5> QED BY <1>4, <2>4, <4>1, <5>1
      <4>3. CalmAt(y)'
        BY <1>1, <3>1, <4>2 DEF CalmAt, CausedAt
      <4> QED BY <1>1, <2>2, <2>4, <4>3 DEF StreamInv
    <3>3. CASE conn # "open"
      <4>1. CalmAt(y)'
        BY <1>1, <3>1, <3>3 DEF CalmAt, CausedAt
      <4> QED BY <1>1, <2>2, <2>4, <4>1 DEF StreamInv
    <3> QED BY <3>2, <3>3
  <2>5. CASE calm /\ http.state \notin {"start", "dead"}
    <3>1. CalmAt(y)
      BY <2>1, <2>5 DEF StreamInv
    <3>2. CASE conn # "open" \/ http.state # "body_eof"
      <4>1. conn = "open" => http.error = FALSE
        BY <1>2, <2>5 DEF ParserInv
      <4>2. conn = "open" => http'.error = TRUE
        BY <1>4, <2>5, <3>2, <4>1
      <4>3. TornAt(y)'
        BY <1>1, <3>1, <4>2 DEF CalmAt, TornAt
      <4> QED BY <1>1, <2>2, <2>5, <4>3 DEF StreamInv
    <3>3. CASE conn = "open" /\ http.state = "body_eof"
      <4> DEFINE n == Len(y.msgs)
                 k == Len(handled)
      <4>1. Stream(y) /\ n \in Nat /\ read \in Nat
        BY <1>2, <1>5, <3>3, WireKnown DEF ParserInv
      <4>2. Runs(y) /\ (AtTail(y, read) \/ read = Len(y.wire)) /\ Done(y, read) = 1..(n - 1)
        BY <1>2, <3>1, <3>3, <4>1, TailPlace DEF CalmAt, CausedAt
      <4>3. 1..k = 1..(n - 1) /\ n >= 1
        BY <3>1, <4>2 DEF CalmAt, Runs
      <4>4. k = n - 1
        <5> HIDE DEF n, k
        <5>1. k \in Nat /\ n \in Nat
          BY <1>2, <4>1 DEF k
        <5>2. k # 0 => k \in 1..k
          BY <5>1
        <5>3. n - 1 # 0 => n - 1 \in 1..(n - 1)
          BY <4>3, <5>1
        <5> QED BY <4>3, <5>1, <5>2, <5>3
      <4>5. TornAt(y)'
        BY <1>1, <3>1, <4>2, <4>4 DEF CalmAt, TornAt
      <4> QED BY <1>1, <2>2, <2>5, <4>5 DEF StreamInv
    <3> QED BY <3>2, <3>3
  <2> QED BY <1>2, <2>3, <2>4, <2>5
<1>6. \A y : IsWire(session, y)' <=> IsWire(session, y)
  BY <1>1 DEF IsWire
<1> QED BY <1>1, <1>2, <1>5, <1>6 DEF ExactInv

LEMMA ExactDisconnected ==
  ASSUME ExactInv, OnDisconnected
  PROVE  ExactInv'
<1>1. UNCHANGED <<session, read, handled, cuts>> /\ conn' = "closed"
  BY DEF OnDisconnected
<1>2. ASSUME NEW y, StreamInv(y) PROVE StreamInv(y)'
  <2>1. SentAre(y) => SentAre(y)'
    BY <1>1 DEF SentAre
  <2>2. (CalmAt(y) => CalmAt(y)') /\ (TornAt(y) => TornAt(y)')
    BY <1>1 DEF CalmAt, TornAt
  <2> QED BY <1>1, <1>2, <2>1, <2>2 DEF StreamInv, cuts
<1> QED BY <1>1, <1>2 DEF ExactInv, IsWire, cuts

------------------------------------------------------------------------------
(* What a read event gives the parser.                                     *)
LEMMA ReadBrings ==
  ASSUME ParserInv, conn = "open", NEW n \in 1..(Len(Wire[session]) - read), OnMessage(n),
         NEW y, IsWire(session, y)
  PROVE  /\ session \in Sessions /\ session' = session /\ Stream(y) /\ y.type = "response" /\ y.msgs = session
         /\ read \in Nat /\ read' \in Nat /\ read < read' /\ read' <= Len(y.wire)
         /\ read' \in 0..Len(y.wire)
         /\ whole' => whole /\ Uncut(y, read')
         /\ alone' => /\ alone
                      /\ \A i \in 1..Len(y.msgs) : ~(read < y.off[i + 1] /\ y.off[i + 1] < read')
<1>1. /\ session' = session /\ read' = read + n /\ whole' = (whole /\ read' \notin Cuts[session])
      /\ alone' = (alone /\ ~\E e \in Range(Ends[session]) : read < e /\ e < read')
  BY DEF OnMessage
<1>2. session \in Sessions /\ read \in Nat
  BY DEF ParserInv
<1>3. /\ Stream(y) /\ y.type = "response" /\ y.msgs = session /\ y.wire = Wire[session]
      /\ DOMAIN Ends[session] = 1..Len(session) /\ Len(y.wire) \in Nat
      /\ \A i \in 1..Len(session) : y.off[i + 1] = Ends[session][i]
  BY <1>2, WireKnown
<1>4. /\ read' \in Nat /\ read < read' /\ read' <= Len(y.wire) /\ read' \in 0..Len(y.wire)
  <2> DEFINE w == Len(y.wire)
  <2>1. w \in Nat /\ n \in 1..(w - read)
    BY <1>3
  <2> HIDE DEF w
  <2>2. read' \in Nat /\ read < read' /\ read' <= w /\ read' \in 0..w
    BY <1>1, <1>2, <2>1
  <2> QED BY <2>2 DEF w
<1>5. whole' => whole /\ Uncut(y, read')
  BY <1>1, <1>2, <1>4, SessionUncut
<1>6. alone' => alone /\ \A i \in 1..Len(y.msgs) : ~(read < y.off[i + 1] /\ y.off[i + 1] < read')
  BY <1>1, <1>3 DEF Range
<1> QED BY <1>1, <1>2, <1>3, <1>4, <1>5, <1>6

(* What the parser makes of it while it is calm.                           *)
LEMMA CalmCall ==
  ASSUME ClientInv, conn = "open", NEW n \in 1..(Len(Wire[session]) - read), OnMessage(n),
         whole', alone', calm, NEW y, IsWire(session, y), StreamInv(y),
         NEW parsed, parsed = Execute(http, buffer \o SubSeq(Wire[session], read + 1, read'))
  PROVE  /\ Called(y, read, read', Len(handled), parsed)
         /\ IsParser(parsed) /\ AtRest(Idle(parsed))
         /\ ~parsed.error => buffer' = <<>>
<1> DEFINE c == read
           d == read'
           k == Len(handled)
           bytes == SubSeq(y.wire, c + 1, d)
<1>1. /\ ParserInv /\ AtRest(http) /\ IsParser(http) /\ k \in Nat
      /\ http.error = FALSE /\ http.complete = FALSE
  BY DEF ClientInv, CallbackInv, HistoryInv, ParserInv, AtRest, IsParser
<1>2. /\ session \in Sessions /\ Stream(y) /\ y.type = "response" /\ y.msgs = session
      /\ c \in Nat /\ d \in Nat /\ c < d /\ d <= Len(y.wire) /\ Uncut(y, d)
      /\ \A i \in 1..Len(y.msgs) : ~(c < y.off[i + 1] /\ y.off[i + 1] < d)
  BY <1>1, ReadBrings
<1>3. /\ Done(y, c) = 1..k /\ buffer = <<>> /\ Place(TRUE, Resume(http), y, c)
      /\ \A j \in 1..Len(y.msgs) : Len(y.msgs[j].body) <= 1
  BY <1>2 DEF StreamInv, CalmAt, SentAre
<1>4. Undivided(TRUE, y, c, d)
  BY <1>2, <1>3, OneMessage
<1>5. y.wire = Wire[session] /\ y.wire \in Seq(STRING)
  BY <1>2, WireKnown, WiresAreBytes
<1>6. bytes \in Seq(STRING) /\ bytes # <<>> /\ Len(bytes) = d - c
  <2> DEFINE w == Len(y.wire)
  <2>1. w \in Nat
    BY <1>5, LenProperties
  <2>2. c + 1 \in 1..(w + 1) /\ d \in Nat /\ d <= w /\ c \in Nat /\ c < d
    <3>1. d <= w
      BY <1>2
    <3> HIDE DEF w
    <3> QED BY <1>2, <2>1, <3>1
  <2>3. bytes \in Seq(STRING) /\ Len(bytes) = d - c
    <3>1. \A i \in (c + 1)..d : y.wire[i] \in STRING
      <4>1. \A i \in (c + 1)..d : i \in 1..w
        <5> HIDE DEF w
        <5> QED BY <2>1, <2>2
      <4> QED BY <1>5, <4>1, ElementOfSeq
    <3>2. /\ SubSeq(y.wire, c + 1, d) \in Seq(STRING)
          /\ Len(SubSeq(y.wire, c + 1, d)) = IF c + 1 <= d THEN d - (c + 1) + 1 ELSE 0
      <4>1. c + 1 \in Int /\ d \in Int
        BY <2>2
      <4> QED BY <3>1, <4>1, SubSeqProperties
    <3> DEFINE q == Len(SubSeq(y.wire, c + 1, d))
    <3>3. q = IF c + 1 <= d THEN d - (c + 1) + 1 ELSE 0
      BY <3>2
    <3>4. c \in Nat /\ d \in Nat /\ c < d
      BY <2>2
    <3> HIDE DEF q, c, d
    <3>5. q = d - c
      BY ONLY <3>3, <3>4
    <3> QED BY <3>2, <3>5 DEF q
  <2>4. d - c # 0
    <3>1. c \in Nat /\ d \in Nat /\ c < d
      BY <1>2
    <3> HIDE DEF c, d
    <3> QED BY ONLY <3>1
  <2>5. Len(<<>>) = 0
    OBVIOUS
  <2> HIDE DEF bytes
  <2> QED BY <2>3, <2>4, <2>5
<1>7. parsed = Execute(http, bytes)
  <2>1. <<>> \o bytes = bytes
    <3> HIDE DEF bytes
    <3> QED BY <1>6, ConcatEmptySeq
  <2> QED BY <1>3, <1>5, <2>1
<1>8. /\ AtRest(Idle(parsed)) /\ IsParser(parsed)
      /\ Idle(parsed).complete = parsed.complete
  <2> HIDE DEF bytes
  <2> QED BY <1>1, <1>6, <1>7, AfterBytes
<1>9. IsParser(Idle(parsed))
  BY <1>8 DEF AtRest
<1>10. Called(y, c, d, k, parsed)
  <2>1. parsed = Execute(http, SubSeq(y.wire, c + 1, d))
    BY <1>7
  <2>2. /\ Stream(y) /\ c \in Nat /\ d \in Nat /\ c < d /\ d <= Len(y.wire) /\ Uncut(y, d)
    BY <1>2
  <2> HIDE DEF bytes, c, d, k
  <2> QED BY ONLY <1>1, <1>3, <1>4, <1>8, <1>9, <2>1, <2>2, CallDone
<1>11. ASSUME ~parsed.error PROVE buffer' = <<>>
  <2>1. buffer' = LeftOver(parsed, bytes)
    <3>1. buffer' = LeftOver(parsed, buffer \o SubSeq(Wire[session], read + 1, read'))
      BY DEF OnMessage
    <3>2. <<>> \o bytes = bytes
      <4> HIDE DEF bytes
      <4> QED BY <1>6, ConcatEmptySeq
    <3> QED BY <1>3, <1>5, <3>1, <3>2
  <2>2. parsed.used = d - c
    BY <1>10, <1>11 DEF Called
  <2>3. LeftOver(parsed, bytes) = SubSeq(bytes, (d - c) + 1, d - c)
    <3> HIDE DEF bytes
    <3> QED BY <1>6, <1>11, <2>2 DEF LeftOver
  <2>4. SubSeq(bytes, (d - c) + 1, d - c) = <<>>
    <3> DEFINE q == d - c
    <3>1. q \in Int
      <4>1. c \in Nat /\ d \in Nat
        BY <1>2
      <4> HIDE DEF c, d
      <4> QED BY <4>1
    <3> HIDE DEF bytes, q
    <3>2. q + 1 \in Int /\ q < q + 1
      BY <3>1
    <3>3. SubSeq(bytes, q + 1, q) = <<>>
      BY <3>1, <3>2, SubSeqEmpty
    <3> QED BY <3>3 DEF q
  <2> QED BY <2>1, <2>3, <2>4
<1> QED BY <1>8, <1>10, <1>11

(* A response is handled.                                                  *)
LEMMA OneIsHandled ==
  ASSUME ClientInv, NEW parsed, OnResponse(parsed)
  PROVE  /\ Len(handled) \in Nat /\ Len(handled') = Len(handled) + 1
         /\ handled'[Len(handled) + 1].response = parsed.message
         /\ \A j \in 1..Len(handled) : handled'[j] = handled[j]
         /\ conn' = "open" => conn = "open"
<1> DEFINE a == [send |-> cb, request |-> request, response |-> parsed.message]
           k == Len(handled)
<1>1. handled' = Append(handled, a) /\ (conn' = "open" => conn = "open")
  BY DEF OnResponse
<1>2. a.response = parsed.message
  OBVIOUS
<1>3. k \in Nat /\ handled = [j \in 1..k |-> handled[j]]
  BY DEF ClientInv, CallbackInv, HistoryInv
<1> HIDE DEF a
<1>4. /\ Len(handled') = k + 1 /\ handled'[k + 1] = a
      /\ \A j \in 1..k : handled'[j] = handled[j]
  BY <1>1, <1>3, Appended
<1> QED BY <1>1, <1>2, <1>3, <1>4

(* A read event while it is calm.                                          *)
LEMMA CalmRead ==
  ASSUME ClientInv, conn = "open", NEW n \in 1..(Len(Wire[session]) - read), OnMessage(n),
         whole', alone', calm, NEW y, IsWire(session, y), StreamInv(y)
  PROVE  StreamInv(y)'
<1> DEFINE parsed == Execute(http, buffer \o SubSeq(Wire[session], read + 1, read'))
           k == Len(handled)
           q == Idle(parsed)
<1>1. /\ Called(y, read, read', k, parsed) /\ IsParser(parsed) /\ AtRest(q)
      /\ ~parsed.error => buffer' = <<>>
  BY CalmCall
<1>2. /\ OnFailure(parsed) \/ OnIncomplete(parsed) \/ OnResponse(parsed)
      /\ session' = session
  BY DEF OnMessage
<1>3. /\ read' \in 0..Len(y.wire) /\ y.type = "response" /\ y.msgs = session
  BY ReadBrings DEF ClientInv
<1>4. SentAre(y) /\ CalmAt(y)
  BY DEF StreamInv
<1> HIDE DEF parsed
<1>5. /\ parsed.error \in BOOLEAN /\ parsed.complete \in BOOLEAN
      /\ q.message = parsed.message
  BY <1>1 DEF IsParser, Idle, Fields
<1>6. CASE OnFailure(parsed)
  <2>1. parsed.error /\ conn' = "closing" /\ UNCHANGED <<handled, calm>>
    BY <1>6 DEF OnFailure
  <2>2. Done(y, read') = 1..k /\ Blame(y, read')
    BY <1>1, <2>1 DEF Called
  <2>3. CalmAt(y)' /\ SentAre(y)'
    BY <1>2, <1>4, <2>1, <2>2 DEF CalmAt, CausedAt, SentAre
  <2> QED BY <1>3, <2>1, <2>3 DEF StreamInv
<1>7. CASE OnIncomplete(parsed)
  <2>1. ~parsed.error /\ ~parsed.complete /\ http' = q /\ UNCHANGED <<handled, calm, conn>>
    BY <1>7 DEF OnIncomplete
  <2>2. Done(y, read') = 1..k /\ Place(TRUE, Resume(q), y, read') /\ buffer' = <<>>
    BY <1>1, <1>5, <2>1 DEF Called
  <2>3. CalmAt(y)' /\ SentAre(y)'
    BY <1>2, <1>4, <2>1, <2>2 DEF CalmAt, SentAre
  <2> QED BY <1>3, <2>1, <2>3 DEF StreamInv
<1>8. CASE OnResponse(parsed)
  <2>1. ~parsed.error /\ parsed.complete
    BY <1>8 DEF OnResponse
  <2>2. /\ Done(y, read') = 1..(k + 1) /\ k + 1 \in 1..Len(y.msgs)
        /\ q.message = MessageOf(y.type, y.msgs[k + 1])
        /\ Place(TRUE, Resume(ResetMessage(q)), y, read')
        /\ q.state \in {"start", "dead"} /\ buffer' = <<>>
    BY <1>1, <1>5, <2>1 DEF Called
  <2>3. /\ k \in Nat /\ Len(handled') = k + 1 /\ handled'[k + 1].response = parsed.message
        /\ \A j \in 1..k : handled'[j] = handled[j]
    BY <1>8, OneIsHandled
  <2>4. SentNothing(parsed) = q /\ parsed.state \in {"start", "dead"}
    <3>1. q.state = parsed.state
      BY <1>1 DEF Idle, IsParser, Fields
    <3>2. parsed.error = FALSE
      BY <1>5, <2>1
    <3> QED BY <1>1, <2>2, <3>1, <3>2, NothingTold
  <2>5. http' = ResetMessage(q) /\ calm'
    BY <1>8, <2>4 DEF OnResponse, Sending
  <2>6. SentAre(y)'
    <3>1. \A j \in 1..(k + 1) : j \in 1..k \/ j = k + 1
      <4> HIDE DEF k
      <4> QED BY <2>3
    <3>2. parsed.message = ResponseOf(session[k + 1]) /\ k + 1 \in 1..Len(session)
      BY <1>3, <1>5, <2>2 DEF MessageOf
    <3> HIDE DEF k
    <3>3. ASSUME NEW j \in 1..(k + 1)
          PROVE  /\ j \in 1..Len(session)
                 /\ session[j].coding # "eof" => handled'[j].response = ResponseOf(session[j])
      BY <1>4, <2>3, <3>1, <3>2, <3>3 DEF SentAre, k
    <3>4. \A j \in 1..Len(session) : Len(session[j].body) <= 1
      BY <1>4 DEF SentAre
    <3> QED BY <1>2, <2>3, <3>3, <3>4 DEF SentAre, k
  <2>7. ASSUME conn' = "closing" PROVE SaysClose(session[k + 1])
    <3>1. WantsClose(parsed.message)
      BY <1>8, <2>7 DEF OnResponse
    <3>2. parsed.message = ResponseOf(session[k + 1])
      BY <1>3, <1>5, <2>2 DEF MessageOf
    <3> HIDE DEF k
    <3>3. parsed.message.headers = HeadersOf(session[k + 1])
      BY <3>2 DEF ResponseOf
    <3> QED BY <3>1, <3>3 DEF WantsClose, SaysClose
  <2>8. k + 1 \in 1..(k + 1)
    <3> HIDE DEF k
    <3> QED BY <2>3
  <2>9. CalmAt(y)'
    BY <1>2, <2>2, <2>3, <2>5, <2>7, <2>8 DEF CalmAt, CausedAt
  <2> QED BY <1>3, <2>5, <2>6, <2>9 DEF StreamInv
<1> QED BY <1>2, <1>6, <1>7, <1>8

(* A read event after a send in the middle of a response.                  *)
LEMMA TornRead ==
  ASSUME ClientInv, conn = "open", NEW n \in 1..(Len(Wire[session]) - read), OnMessage(n),
         whole', alone', calm = FALSE, NEW y, IsWire(session, y), StreamInv(y)
  PROVE  StreamInv(y)'
<1> DEFINE parsed == Execute(http, buffer \o SubSeq(Wire[session], read + 1, read'))
           k == Len(handled)
<1>1. /\ OnFailure(parsed) \/ OnIncomplete(parsed) \/ OnResponse(parsed)
      /\ session' = session
  BY DEF OnMessage
<1>2. /\ read' \in 0..Len(y.wire) /\ y.msgs = session /\ Stream(y)
      /\ read \in Nat /\ read' \in Nat /\ read < read' /\ read' <= Len(y.wire) /\ Uncut(y, read')
  BY ReadBrings DEF ClientInv
<1>3. SentAre(y) /\ TornAt(y)
  BY DEF StreamInv
<1>4. calm' = FALSE
  BY <1>1 DEF OnFailure, OnIncomplete, OnResponse, Sending
<1>5. read # Len(y.wire)
  <2> DEFINE w == Len(y.wire)
  <2>1. read' <= w
    BY <1>2
  <2> HIDE DEF w
  <2>2. read # w
    BY <1>2, <2>1
  <2> QED BY <2>2 DEF w
<1>6. /\ 1..k \subseteq Done(y, read)
      /\ http.error = TRUE \/ (AtTail(y, read) /\ k = Len(y.msgs) - 1)
  BY <1>3, <1>5 DEF TornAt
<1>7. 1..k \subseteq Done(y, read')
  BY <1>2, <1>6, DoneStays
<1>8. CASE http.error = TRUE
  <2>1. parsed.error
    BY <1>8 DEF Execute
  <2> HIDE DEF parsed
  <2>2. conn' = "closing" /\ UNCHANGED handled
    BY <1>1, <2>1 DEF OnFailure, OnIncomplete, OnResponse
  <2>3. SentAre(y)' /\ TornAt(y)'
    BY <1>1, <1>3, <1>7, <2>2 DEF SentAre, TornAt
  <2> QED BY <1>2, <1>4, <2>3 DEF StreamInv
<1>9. CASE AtTail(y, read) /\ k = Len(y.msgs) - 1
  <2>1. read' = Len(y.wire)
    BY <1>2, <1>9, TailRead
  <2>2. Runs(y)
    BY <1>9 DEF AtTail
  <2> HIDE DEF parsed
  <2>3. CASE ~OnResponse(parsed)
    <3>1. UNCHANGED handled
      BY <1>1, <2>3 DEF OnFailure, OnIncomplete
    <3>2. SentAre(y)' /\ TornAt(y)'
      BY <1>1, <1>3, <1>7, <2>1, <2>2, <3>1 DEF SentAre, TornAt
    <3> QED BY <1>2, <1>4, <3>2 DEF StreamInv
  <2>4. CASE OnResponse(parsed)
    <3>1. /\ k \in Nat /\ Len(handled') = k + 1
          /\ \A j \in 1..k : handled'[j] = handled[j]
      BY <2>4, OneIsHandled
    <3>2. k + 1 = Len(session) /\ Len(session) \in Nat /\ session[k + 1].coding = "eof"
      <4>1. Len(session) \in Nat /\ k = Len(session) - 1 /\ session[Len(session)].coding = "eof"
        BY <1>2, <1>9, <2>2 DEF Runs, Stream
      <4> DEFINE s == Len(session)
      <4>2. s \in Nat /\ k = s - 1
        BY <4>1
      <4> HIDE DEF k, s
      <4>3. k + 1 = s
        BY <4>2
      <4> QED BY <4>1, <4>3 DEF s
    <3>3. SentAre(y)'
      <4>1. \A j \in 1..(k + 1) : j \in 1..k \/ j = k + 1
        <5> HIDE DEF k
        <5> QED BY <3>1
      <4>2. k + 1 \in 1..Len(session)
        <5> HIDE DEF k
        <5>1. k + 1 \in 1..(k + 1)
          BY <3>1
        <5> QED BY <3>2, <5>1
      <4> HIDE DEF k
      <4>3. ASSUME NEW j \in 1..(k + 1)
            PROVE  /\ j \in 1..Len(session)
                   /\ session[j].coding # "eof" => handled'[j].response = ResponseOf(session[j])
        BY <1>3, <3>1, <3>2, <4>1, <4>2, <4>3 DEF SentAre, k
      <4>4. \A j \in 1..Len(session) : Len(session[j].body) <= 1
        BY <1>3 DEF SentAre
      <4> QED BY <1>1, <3>1, <4>3, <4>4 DEF SentAre, k
    <3>4. TornAt(y)'
      BY <1>2, <2>1, <2>2, <3>1, <3>2 DEF TornAt
    <3> QED BY <1>2, <1>4, <3>3, <3>4 DEF StreamInv
  <2> QED BY <2>3, <2>4
<1> QED BY <1>6, <1>8, <1>9

------------------------------------------------------------------------------
LEMMA ExactStep == ClientInv /\ ExactInv /\ [Next]_vars => ExactInv'
<1> SUFFICES ASSUME ClientInv, ExactInv, [Next]_vars PROVE ExactInv'
  OBVIOUS
<1>1. CASE OnConnected
  BY <1>1, ExactConnected
<1>2. CASE Send
  BY <1>2, ExactSend
<1>3. CASE conn = "open" /\ \E n \in 1..(Len(Wire[session]) - read) : OnMessage(n)
  <2>1. PICK n \in 1..(Len(Wire[session]) - read) : OnMessage(n)
    BY <1>3
  <2>2. session \in Sessions /\ session' = session /\ calm \in BOOLEAN
    BY <1>3, <2>1 DEF OnMessage, ClientInv, ParserInv
  <2>3. ASSUME whole', alone', NEW y, IsWire(session, y) PROVE StreamInv(y)'
    <3>1. whole /\ alone
      BY <2>1, <2>3 DEF OnMessage
    <3>2. StreamInv(y)
      BY <2>2, <2>3, <3>1 DEF ExactInv
    <3>3. CASE calm
      BY <1>3, <2>1, <2>3, <3>2, <3>3, CalmRead
    <3>4. CASE calm = FALSE
      BY <1>3, <2>1, <2>3, <3>2, <3>4, TornRead
    <3> QED BY <2>2, <3>3, <3>4
  <2>4. \A y : IsWire(session, y)' <=> IsWire(session, y)
    BY <2>2 DEF IsWire
  <2> QED BY <2>2, <2>3, <2>4 DEF ExactInv
<1>4. CASE OnDisconnected
  BY <1>4, ExactDisconnected
<1>5. CASE UNCHANGED vars
  <2>1. UNCHANGED <<session, read, buffer, http, conn, handled, whole, alone, calm>>
    BY <1>5 DEF vars, context, cuts
  <2>2. ASSUME NEW y PROVE StreamInv(y) => StreamInv(y)'
    BY <2>1 DEF StreamInv, SentAre, CalmAt, CausedAt, TornAt
  <2> QED BY <2>1, <2>2 DEF ExactInv, IsWire
<1> QED BY <1>1, <1>2, <1>3, <1>4, <1>5 DEF Next

LEMMA ExactInductive == Spec => [](ClientInv /\ ExactInv)
<1>1. Init => ClientInv /\ ExactInv
  BY ClientStart, ExactStart
<1>2. (ClientInv /\ ExactInv) /\ [Next]_vars => (ClientInv /\ ExactInv)'
  BY ClientStep, ExactStep
<1> QED BY <1>1, <1>2, PTL DEF Spec

(* The first k naturals.                                                   *)
LEMMA FirstCount ==
  ASSUME NEW k \in Nat
  PROVE  Cardinality(1..k) = k /\ IsFiniteSet(1..k)
<1>1. Cardinality(1..k) = (IF 1 > k THEN 0 ELSE k - 1 + 1) /\ IsFiniteSet(1..k)
  BY FS_Interval
<1> QED BY <1>1

LEMMA SentIsHandled == ClientInv /\ ExactInv => ResponsesAsSent
<1> SUFFICES ASSUME ClientInv, ExactInv, whole, alone
             PROVE  /\ Len(handled) <= Len(session)
                    /\ \A i \in DOMAIN handled :
                         session[i].coding # "eof" => handled[i].response = ResponseOf(session[i])
                    /\ calm => Len(handled) = Cardinality(Due)
                    /\ Len(handled) > Cardinality(Due) => \E m \in Range(session) : m.coding = "eof"
  BY DEF ResponsesAsSent
<1> DEFINE k == Len(handled)
<1>1. k \in Nat /\ DOMAIN handled = 1..k /\ calm \in BOOLEAN
  BY DEF ClientInv, CallbackInv, HistoryInv, ParserInv
<1>2. CASE session \notin Sessions
  <2>1. session = <<>> /\ handled = <<>>
    BY <1>2 DEF ExactInv
  <2>2. Len(<<>>) = 0 /\ DOMAIN <<>> = {}
    OBVIOUS
  <2>3. Due = {}
    BY <2>1, <2>2 DEF Due, Arrived
  <2>4. Cardinality({}) = 0
    BY FS_EmptySet
  <2> QED BY <2>1, <2>2, <2>3, <2>4
<1>3. CASE session \in Sessions
  <2>1. PICK y : IsWire(session, y)
    BY <1>3, SessionWire
  <2>2. StreamInv(y)
    BY <1>3, <2>1 DEF ExactInv
  <2>3. Due = Done(y, read) /\ y.msgs = session /\ DOMAIN session = 1..Len(session) /\ Len(session) \in Nat
    BY <1>3, <2>1, DueIsDone, WireKnown
  <2>4. SentAre(y)
    BY <2>2 DEF StreamInv
  <2>5. k <= Len(session)
    <3> DEFINE s == Len(session)
    <3>1. s \in Nat /\ \A i \in 1..k : i \in 1..s
      BY <2>3, <2>4 DEF SentAre
    <3> HIDE DEF k, s
    <3>2. k # 0 => k \in 1..s
      BY <1>1, <3>1
    <3> QED BY <1>1, <3>1, <3>2 DEF s
  <2>6. calm => k = Cardinality(Due)
    BY <1>1, <2>2, <2>3, FirstCount DEF StreamInv, CalmAt
  <2>7. ASSUME k > Cardinality(Due) PROVE \E m \in Range(session) : m.coding = "eof"
    <3>1. ~calm
      <4> DEFINE v == Cardinality(Due)
      <4>1. v # k
        <5> HIDE DEF k, v
        <5>1. k > v
          BY <2>7 DEF v
        <5> QED BY <1>1, <5>1
      <4> QED BY <2>6, <4>1
    <3>2. ~(1..k \subseteq Due)
      <4> SUFFICES ASSUME 1..k \subseteq Due PROVE FALSE
        OBVIOUS
      <4> DEFINE v == Cardinality(Due)
                 s == Len(session)
      <4>1. s \in Nat /\ Due \subseteq 1..s
        BY <2>3 DEF Done
      <4> HIDE DEF s
      <4>2. IsFiniteSet(Due) /\ v \in Nat
        BY <4>1, FirstCount, FS_Subset, FS_CardinalityType
      <4>3. k <= v
        BY <1>1, <4>2, FirstCount, FS_Subset
      <4>4. k > v
        BY <2>7
      <4> HIDE DEF k, v
      <4> QED BY <1>1, <4>2, <4>3, <4>4
    <3>3. Runs(y)
      BY <2>2, <2>3, <3>1, <3>2 DEF StreamInv, TornAt
    <3>4. Len(session) \in DOMAIN session /\ session[Len(session)].coding = "eof"
      BY <2>3, <3>3 DEF Runs
    <3> QED BY <3>4 DEF Range
  <2> QED BY <1>1, <2>4, <2>5, <2>6, <2>7 DEF SentAre
<1> QED BY <1>2, <1>3

(* For every set of sessions, every sequence of requests and every limit:  *)
(* while no read ends in a string or brings bytes of two responses, the    *)
(* client handles the responses as they were sent, in order and once each: *)
(* up to the first that closes the connection or whose head is too long,   *)
(* and after a send in the middle of one none but those that are due,      *)
(* unless the last runs to the end of the stream.                          *)
THEOREM ResponsesExact == Spec => []ResponsesAsSent
BY ExactInductive, SentIsHandled, PTL

(* The causes that ClosedForCause names.                                   *)
LEMMA CausesNamed == ClientInv /\ ExactInv => ClosedForCause
<1> SUFFICES ASSUME ClientInv, ExactInv, whole, alone, conn = "closing", calm
             PROVE  \E i \in DOMAIN session :
                      \/ /\ session[i].coding # "eof"
                         /\ \/ SaysClose(session[i]) /\ Ends[session][i] <= read
                            \/ Closing(session[i]) /\ Ends[session][i] < read
                      \/ ~HeadFits(i) /\ Carried(i) + read - Begin(i) > HTTP_MAX_HEADER_SIZE
  BY DEF ClosedForCause
<1>1. session \in Sessions /\ read \in Nat
  BY DEF ClientInv, ParserInv
<1>2. PICK y : IsWire(session, y)
  BY <1>1, SessionWire
<1>3. CausedAt(y)
  BY <1>1, <1>2 DEF ExactInv, StreamInv, CalmAt
<1>4. /\ Stream(y) /\ y.msgs = session /\ DOMAIN session = 1..Len(session) /\ Len(session) \in Nat
  BY <1>1, <1>2, WireKnown
<1>5. CASE \E i \in Done(y, read) : SaysClose(session[i])
  <2>1. PICK i \in Done(y, read) : SaysClose(session[i])
    BY <1>5
  <2>2. i \in DOMAIN session /\ session[i].coding # "eof" /\ y.off[i + 1] <= read
    BY <1>4 DEF Done
  <2>3. Ends[session][i] = y.off[i + 1]
    BY <1>1, <1>2, <2>2, ResponseAt
  <2> QED BY <2>1, <2>2, <2>3
<1>6. CASE Blame(y, read)
  <2>1. PICK i \in 1..Len(session) :
          \/ ~Fits(y, i) /\ Carry(y, i) + (read - y.off[i]) > HTTP_MAX_HEADER_SIZE
          \/ i > 1 /\ ~KeepsOpen(session[i - 1]) /\ read > y.off[i]
    BY <1>4, <1>6 DEF Blame
  <2>2. /\ Begin(i) = y.off[i] /\ Carried(i) = Carry(y, i) /\ (HeadFits(i) <=> Fits(y, i))
        /\ y.off[i] \in Nat /\ Carry(y, i) \in {0, 1} /\ i \in DOMAIN session
    BY <1>1, <1>2, <1>4, ResponseAt
  <2>3. CASE ~Fits(y, i) /\ Carry(y, i) + (read - y.off[i]) > HTTP_MAX_HEADER_SIZE
    <3> DEFINE b == y.off[i]
               c == Carry(y, i)
    <3>1. b \in Nat /\ c \in Nat /\ c + (read - b) > HTTP_MAX_HEADER_SIZE
      BY <2>2, <2>3
    <3> HIDE DEF b, c
    <3>2. c + read - b > HTTP_MAX_HEADER_SIZE
      BY <1>1, <3>1, HeaderSizeIsPositive, SMTT(30)
    <3> QED BY <2>2, <2>3, <3>2 DEF b, c
  <2>4. CASE i > 1 /\ ~KeepsOpen(session[i - 1]) /\ read > y.off[i]
    <3> DEFINE j == i - 1
    <3>1. j \in 1..Len(session) /\ j + 1 = i /\ j # Len(session)
      BY <1>4, <2>4, SMTT(30)
    <3> HIDE DEF j
    <3>2. Ends[session][j] = y.off[j + 1] /\ (Closing(session[j]) <=> ~KeepsOpen(session[j]))
      BY <1>1, <1>2, <1>4, <3>1, ResponseAt
    <3>3. session[j].coding # "eof"
      BY <1>1, <1>4, <3>1, SessionsAreResponses
    <3>4. Closing(session[j]) /\ y.off[j + 1] = y.off[i] /\ read > y.off[i]
      BY <2>4, <3>1, <3>2 DEF j
    <3>5. Ends[session][j] < read
      <4> DEFINE b == y.off[i]
      <4>1. b \in Nat /\ read > b /\ Ends[session][j] = b
        BY <2>2, <3>2, <3>4
      <4> HIDE DEF b
      <4> QED BY <1>1, <4>1
    <3> QED BY <1>4, <3>1, <3>3, <3>4, <3>5
  <2> QED BY <2>1, <2>3, <2>4
<1> QED BY <1>3, <1>5, <1>6 DEF CausedAt

(* HttpClient.cc:29 and 41: for every set of sessions, every sequence of   *)
(* requests and every limit, a client whose reads end in no string and     *)
(* bring bytes of one response each closes a connection only for one of    *)
(* the reasons that ClosedForCause names.                                  *)
THEOREM ClosedOnlyForCause == Spec => []ClosedForCause
BY ExactInductive, CausesNamed, PTL
==============================================================================
