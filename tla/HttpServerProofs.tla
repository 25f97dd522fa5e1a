--------------------------- MODULE HttpServerProofs ---------------------------
(***************************************************************************)
(* Proofs about HttpServer, for every set of sessions, every registered    *)
(* URL and every limit on the size of the headers.                         *)
(***************************************************************************)
EXTENDS HttpServer, FiniteSetTheorems, HttpParserProofs

(* An HttpResponse, and one that has been packaged and reset: of the last  *)
(* answer only the status is left in it.                                   *)
Response(version, status, headers, body) ==
  [method |-> "unset", url |-> <<>>, version |-> version, status |-> status,
   headers |-> headers, body |-> body]

Left(version, status) == Response(version, status, NoHeaders, <<>>)

------------------------------------------------------------------------------
(* What the steps of an answer write into the response.                    *)

LEMMA HeaderAppended ==
  ASSUME NEW v, NEW s, NEW hs, NEW b, NEW name, NEW value
  PROVE  AppendHeader(Response(v, s, hs, b), name, value)
           = Response(v, s, WithHeader(hs, name, value), b)
<1> DEFINE k == WithHeader(hs, name, value)
<1>1. AppendHeader(Response(v, s, hs, b), name, value)
        = [Response(v, s, hs, b) EXCEPT !.headers = k]
  BY DEF AppendHeader, Response
<1> HIDE DEF k
<1>2. [Response(v, s, hs, b) EXCEPT !.headers = k] = Response(v, s, k, b)
  BY DEF Response
<1> QED BY <1>1, <1>2 DEF k

LEMMA Refused ==
  ASSUME NEW v, NEW s, NEW hs, NEW b, NEW status
  PROVE  Refuse(Response(v, s, hs, b), status)
           = Response(v, status, WithHeader(hs, Connection, <<"Close">>), b)
<1>1. [Response(v, s, hs, b) EXCEPT !.status = status] = Response(v, status, hs, b)
  BY DEF Response
<1> QED BY <1>1, HeaderAppended DEF Refuse

LEMMA Paged ==
  ASSUME NEW v, NEW s, NEW hs, NEW b, NEW req
  PROVE  OnOther(req, Response(v, s, hs, b))
           = Response(v, "200", WithHeader(hs, <<"content-type">>, <<"text/html">>),
                      <<"page">> \o req.url \o req.body)
<1> DEFINE page == <<"page">> \o req.url \o req.body
<1>1. OnOther(req, Response(v, s, hs, b))
        = AppendHeader([Response(v, s, hs, b) EXCEPT !.status = "200", !.body = page],
                       <<"content-type">>, <<"text/html">>)
  BY Zenon DEF OnOther
<1> HIDE DEF page
<1>2. [Response(v, s, hs, b) EXCEPT !.status = "200", !.body = page] = Response(v, "200", hs, page)
  <2>1. [Response(v, s, hs, b) EXCEPT !.status = "200", !.body = page]
          = [[Response(v, s, hs, b) EXCEPT !.status = "200"] EXCEPT !.body = page]
    OBVIOUS
  <2>2. [Response(v, s, hs, b) EXCEPT !.status = "200"] = Response(v, "200", hs, b)
    BY DEF Response
  <2>3. [Response(v, "200", hs, b) EXCEPT !.body = page] = Response(v, "200", hs, page)
    BY DEF Response
  <2> QED BY <2>1, <2>2, <2>3
<1> QED BY <1>1, <1>2, HeaderAppended DEF page

(* The headers Acknowledge leaves in a response that had none.             *)
Ack(req) ==
  WithHeader(NoHeaders, Connection,
             IF Requested(req) # <<>> THEN Requested(req) ELSE <<"Keep-Alive">>)

(* What Handle makes of a response that was left by an earlier one: only   *)
(* the status of that one may show, and only for a registered URL.         *)
LEMMA HandledAlike ==
  ASSUME NEW req, NEW v, NEW s
  PROVE  /\ \E status, headers, body :
              Handle(req, Acknowledge(req, Left(v, s))) = Response(v, status, headers, body)
         /\ \A s2 : ~Registered(req) =>
              Handle(req, Acknowledge(req, Left(v, s))) = Handle(req, Acknowledge(req, Left(v, s2)))
<1> DEFINE r(st) == Response(v, st, Ack(req), <<>>)
<1>1. ASSUME NEW st PROVE Acknowledge(req, Left(v, st)) = r(st)
  BY HeaderAppended DEF Acknowledge, Left, Ack
<1>2. ASSUME NEW st PROVE
      /\ Refuse(r(st), "501") = Response(v, "501", WithHeader(Ack(req), Connection, <<"Close">>), <<>>)
      /\ Refuse(r(st), "404") = Response(v, "404", WithHeader(Ack(req), Connection, <<"Close">>), <<>>)
  BY Refused
<1>3. ASSUME NEW st PROVE
        OnOther(req, r(st)) = Response(v, "200", WithHeader(Ack(req), <<"content-type">>, <<"text/html">>),
                                       <<"page">> \o req.url \o req.body)
  BY Paged
<1> DEFINE x501 == Response(v, "501", WithHeader(Ack(req), Connection, <<"Close">>), <<>>)
           x404 == Response(v, "404", WithHeader(Ack(req), Connection, <<"Close">>), <<>>)
           x200 == Response(v, "200", WithHeader(Ack(req), <<"content-type">>, <<"text/html">>),
                                       <<"page">> \o req.url \o req.body)
<1> HIDE DEF r
<1>4. ASSUME NEW st PROVE
        Handle(req, r(st)) = IF req.method \notin {"GET", "POST"} THEN x501
                             ELSE IF Registered(req) THEN r(st)
                             ELSE IF cb THEN x200 ELSE x404
  BY <1>2, <1>3 DEF Handle, OnRegistered
<1>5. \E status, headers, body : Handle(req, r(s)) = Response(v, status, headers, body)
  BY <1>4 DEF r
<1>6. ASSUME NEW s2, ~Registered(req) PROVE Handle(req, r(s)) = Handle(req, r(s2))
  BY <1>4, <1>6
<1> QED BY <1>1, <1>5, <1>6

(* HttpContext::reset after the answer.                                    *)
LEMMA NothingKept ==
  ASSUME NEW v, NEW status, NEW headers, NEW body
  PROVE  ResetResponse(Response(v, status, headers, body)) = Left(v, status)
<1> DEFINE r == Response(v, status, headers, body)
<1>1. [r EXCEPT !.headers = NoHeaders, !.body = <<>>]
        = [[r EXCEPT !.headers = NoHeaders] EXCEPT !.body = <<>>]
  OBVIOUS
<1>2. [r EXCEPT !.headers = NoHeaders] = Response(v, status, NoHeaders, body)
  BY DEF Response
<1>3. [Response(v, status, NoHeaders, body) EXCEPT !.body = <<>>]
        = Response(v, status, NoHeaders, <<>>)
  BY DEF Response
<1> QED BY <1>1, <1>2, <1>3 DEF ResetResponse, Left

------------------------------------------------------------------------------
(* The inductive invariant.                                                *)

(* The connection, its Buffer and its parser between two read events.      *)
ParserInv ==
  /\ session \in Sessions
  /\ read \in 0..Len(Wire[session])
  /\ buffer \in Seq(STRING)
  /\ AtRest(http)
  /\ http.complete => http.error
  /\ buffer # <<>> => http.upgrade \/ http.error
  /\ http.error => conn = "closed"

(* The answer to a request that is not for a registered URL, by a context  *)
(* whose response has this version.                                        *)
Answer(version, req) == Handle(req, Acknowledge(req, Left(version, "200")))

(* The response is as reset leaves it, and each answer so far is what its  *)
(* own request makes of such a response.                                   *)
ResponseInv ==
  /\ \E status : response = Left(response.version, status)
  /\ answers = [i \in 1..Len(answers) |-> answers[i]] /\ Len(answers) \in Nat
  /\ \A i \in 1..Len(answers) :
       ~Registered(answers[i].request) =>
         answers[i].response = Answer(response.version, answers[i].request)

ServerInv == ParserInv /\ ResponseInv

------------------------------------------------------------------------------
LEMMA ServerStart == Init => ServerInv
<1> SUFFICES ASSUME Init PROVE ServerInv
  OBVIOUS
<1>1. /\ session \in Sessions /\ read = 0 /\ buffer = <<>> /\ http = NewParser("request")
      /\ answers = <<>>
      /\ \E garbage \in Indeterminate :
           response = [NewParser("response").message EXCEPT
                         !.version = garbage[1], !.status = garbage[2]]
  BY DEF Init
<1>2. Len(Wire[session]) \in Nat
  BY <1>1, WiresAreBytes, LenProperties
<1>3. ParserInv
  <2>1. AtRest(http) /\ http.complete = FALSE /\ http.error = FALSE
    BY <1>1, NewAtRest
  <2>2. read \in 0..Len(Wire[session]) /\ buffer \in Seq(STRING)
    BY <1>1, <1>2
  <2> QED BY <1>1, <2>1, <2>2 DEF ParserInv
<1>4. \E status : response = Left(response.version, status)
  <2>1. PICK g : response = [NewParser("response").message EXCEPT
                               !.version = g[1], !.status = g[2]]
    BY <1>1
  <2> DEFINE v == g[1]
             s == g[2]
             m == NewParser("response").message
  <2>2. m = Left("unset", "unset")
    BY DEF NewParser, Left, Response
  <2>3. response = [[m EXCEPT !.version = v] EXCEPT !.status = s]
    BY <2>1
  <2> HIDE DEF v, s, m
  <2>4. [m EXCEPT !.version = v] = Left(v, "unset")
    BY <2>2 DEF Left, Response
  <2>5. [Left(v, "unset") EXCEPT !.status = s] = Left(v, s)
    BY DEF Left, Response
  <2>6. response = Left(v, s) /\ Left(v, s).version = v
    BY <2>3, <2>4, <2>5 DEF Left, Response
  <2> QED BY <2>6
<1>5. ResponseInv
  BY <1>1, <1>4 DEF ResponseInv
<1> QED BY <1>3, <1>5 DEF ServerInv

(* A read event, for the parser.                                           *)
LEMMA ReadStep ==
  ASSUME ParserInv, NEW n \in 1..(Len(Wire[session]) - read), OnMessage(n)
  PROVE  ParserInv'
<1> DEFINE bytes == buffer \o SubSeq(Wire[session], read + 1, read + n)
           parsed == Execute(http, bytes)
<1>1. /\ session \in Sessions /\ read \in Nat /\ Len(Wire[session]) \in Nat
      /\ read + n <= Len(Wire[session]) /\ n \in Nat /\ n > 0 /\ Wire[session] \in Seq(STRING)
      /\ buffer \in Seq(STRING) /\ AtRest(http)
  BY WiresAreBytes, LenProperties DEF ParserInv
<1>2. /\ session' = session /\ read' = read + n /\ conn = "open"
      /\ buffer' = LeftOver(parsed, bytes)
      /\ OnFailure(parsed) \/ OnIncomplete(parsed) \/ OnRequest(parsed)
  BY DEF OnMessage
<1>3. bytes \in Seq(STRING) /\ bytes # <<>> /\ Len(bytes) \in Nat
  <2> DEFINE new == SubSeq(Wire[session], read + 1, read + n)
  <2>1. new \in Seq(STRING) /\ Len(new) = n
    BY <1>1, SubSeqProperties
  <2> HIDE DEF new
  <2>2. bytes \in Seq(STRING) /\ Len(bytes) = Len(buffer) + n /\ Len(buffer) \in Nat
    BY <1>1, <2>1, ConcatProperties, LenProperties DEF new
  <2> HIDE DEF bytes
  <2> QED BY <1>1, <2>2
<1> HIDE DEF bytes
<1>4. /\ AtRest(Idle(parsed)) /\ Idle(parsed).error = parsed.error
      /\ Idle(parsed).upgrade = parsed.upgrade /\ parsed.used \in Nat
      /\ LeftOver(parsed, bytes) # <<>> => parsed.error \/ parsed.upgrade
      /\ parsed.complete = Idle(parsed).complete
  BY <1>1, <1>3, AfterBytes
<1> HIDE DEF parsed
<1>5. buffer' \in Seq(STRING)
  <2>1. SubSeq(bytes, parsed.used + 1, Len(bytes)) \in Seq(STRING)
    BY <1>3, <1>4, SubSeqProperties
  <2> QED BY <1>2, <1>3, <2>1 DEF LeftOver
<1>6. read' \in 0..Len(Wire[session'])
  BY <1>1, <1>2
<1>7. CASE OnFailure(parsed)
  BY <1>1, <1>2, <1>4, <1>5, <1>6, <1>7 DEF OnFailure, ParserInv
<1>8. CASE OnIncomplete(parsed)
  BY <1>1, <1>2, <1>4, <1>5, <1>6, <1>8 DEF OnIncomplete, ParserInv
<1>9. CASE OnRequest(parsed)
  <2>1. http' = ResetMessage(Idle(parsed)) /\ ~parsed.error
    BY <1>9 DEF OnRequest
  <2>2. AtRest(http') /\ http'.complete = FALSE /\ http'.upgrade = parsed.upgrade /\ ~http'.error
    BY <1>4, <2>1, AfterReset
  <2> QED BY <1>1, <1>2, <1>4, <1>5, <1>6, <2>2, <1>9 DEF OnRequest, ParserInv
<1> QED BY <1>2, <1>7, <1>8, <1>9

(* A read event, for the response and the answers.                         *)
LEMMA AnswerStep ==
  ASSUME ResponseInv, NEW n, OnMessage(n)
  PROVE  ResponseInv'
<1> DEFINE parsed == Execute(http, buffer \o SubSeq(Wire[session], read + 1, read'))
           req == parsed.message
           res == Handle(req, Acknowledge(req, response))
           v == response.version
<1>1. /\ cb' = cb
      /\ UNCHANGED <<response, answers>>
         \/ /\ answers' = Append(answers, [request |-> req, response |-> res])
            /\ response' = ResetResponse(res)
  BY DEF OnMessage, OnFailure, OnIncomplete, OnRequest
<1>2. PICK s : response = Left(v, s)
  BY DEF ResponseInv
<1> HIDE DEF v
<1>3. \A w, r : Answer(w, r)' = Answer(w, r) /\ Registered(r)' = Registered(r)
  BY <1>1 DEF Answer, Handle, OnOther, Registered
<1> DEFINE a2 == answers'
           v2 == response'.version
<1>4. /\ ResponseInv' <=>
           /\ \E status : response' = Left(v2, status)
           /\ a2 = [i \in 1..Len(a2) |-> a2[i]] /\ Len(a2) \in Nat
           /\ \A i \in 1..Len(a2) :
                ~Registered(a2[i].request) => a2[i].response = Answer(v2, a2[i].request)
  BY <1>3 DEF ResponseInv
<1>5. CASE UNCHANGED <<response, answers>>
  BY <1>4, <1>5 DEF ResponseInv
<1>6. CASE /\ answers' = Append(answers, [request |-> req, response |-> res])
           /\ response' = ResetResponse(res)
  <2> HIDE DEF req
  <2>1. PICK status, headers, body : res = Response(v, status, headers, body)
    BY <1>2, HandledAlike
  <2>2. response' = Left(v, status) /\ v2 = v
    BY <1>6, <2>1, NothingKept DEF Left, Response
  <2>3. ~Registered(req) => res = Answer(v, req)
    BY <1>2, HandledAlike DEF Answer
  <2> HIDE DEF res
  <2>4. /\ Len(answers) \in Nat /\ Len(a2) = Len(answers) + 1
        /\ a2 = [i \in 1..Len(a2) |-> a2[i]]
        /\ \A i \in 1..Len(answers) : a2[i] = answers[i]
        /\ a2[Len(a2)] = [request |-> req, response |-> res]
    BY <1>6 DEF ResponseInv
  <2> HIDE DEF a2, v2
  <2>5. ASSUME NEW i \in 1..Len(a2), ~Registered(a2[i].request)
        PROVE  a2[i].response = Answer(v2, a2[i].request)
    <3>1. CASE i \in 1..Len(answers)
      BY <2>2, <2>4, <2>5, <3>1 DEF ResponseInv, v
    <3>2. CASE i = Len(a2)
      BY <2>2, <2>3, <2>4, <2>5, <3>2
    <3> QED BY <2>4, <3>1, <3>2
  <2> QED BY <1>4, <2>2, <2>4, <2>5
<1> QED BY <1>1, <1>5, <1>6

LEMMA ServerStep == ServerInv /\ [Next]_vars => ServerInv'
<1> SUFFICES ASSUME ServerInv, [Next]_vars PROVE ServerInv'
  OBVIOUS
<1>1. ParserInv /\ ResponseInv
  BY DEF ServerInv
<1>2. CASE \E n \in 1..(Len(Wire[session]) - read) : OnMessage(n)
  BY <1>1, <1>2, ReadStep, AnswerStep DEF ServerInv
<1>3. CASE PeerCloses
  BY <1>1, <1>3 DEF PeerCloses, ServerInv, ParserInv, ResponseInv, Registered, Answer, Handle, OnOther
<1>4. CASE UNCHANGED vars
  BY <1>1, <1>4 DEF vars, ServerInv, ParserInv, ResponseInv, Registered, Answer, Handle, OnOther
<1> QED BY <1>2, <1>3, <1>4 DEF Next

------------------------------------------------------------------------------
LEMMA ServerInductive == Spec => []ServerInv
BY ServerStart, ServerStep, PTL DEF Spec

(* The connection of an HttpServer between two read events: no complete    *)
(* request, no marked string, an empty Buffer unless for an upgrade or an  *)
(* error, a count within the limit, a response without a trace of the last *)
(* answer but its status; an error closes the connection.                  *)
THEOREM ServerTypes == Spec => []TypeOK
<1>1. ServerInv => TypeOK
  <2> SUFFICES ASSUME ServerInv PROVE TypeOK
    OBVIOUS
  <2>1. ParserInv /\ ResponseInv
    BY DEF ServerInv
  <2>2. PICK status : response = Left(response.version, status)
    BY <2>1 DEF ResponseInv
  <2>3. response.headers = NoHeaders /\ response.body = <<>>
    BY <2>2 DEF Left, Response
  <2>4. /\ http.mark = NoMark
        /\ ~http.error =>
             /\ http.headFieldTemp # <<>> => http.state \in {"field", "value_ws", "empty_value"}
             /\ http.nread <= HTTP_MAX_HEADER_SIZE
             /\ http.state = "chunk_start" => http.nread = 0
    BY <2>1 DEF ParserInv, AtRest, ParserState
  <2> QED BY <2>1, <2>3, <2>4 DEF TypeOK, ParserInv
<1> QED BY <1>1, ServerInductive, PTL

(* Two equal requests on one connection get equal answers, unless they are *)
(* for a registered URL: whatever was handled between them, and however    *)
(* the reads cut the stream.                                               *)
THEOREM SameAnswers == Spec => []SameAnswer
<1>1. ServerInv => SameAnswer
  <2> SUFFICES ASSUME ServerInv, NEW i \in DOMAIN answers, NEW j \in DOMAIN answers,
                      answers[i].request = answers[j].request, ~Registered(answers[i].request)
               PROVE  answers[i].response = answers[j].response
    BY DEF SameAnswer
  <2>1. i \in 1..Len(answers) /\ j \in 1..Len(answers)
    BY DEF ServerInv, ResponseInv
  <2> QED BY <2>1 DEF ServerInv, ResponseInv
<1> QED BY <1>1, ServerInductive, PTL

LEMMA RequestsAreGood ==
  ASSUME NEW m, IsRequest(m)
  PROVE  Good("request", m)
<1>1. GoodLines(m) /\ GoodBody(m)
  BY MessageLines DEF IsRequest
<1>2. m.url \in Seq(STRING) /\ Len(m.url) \in Nat \ {0} /\ DOMAIN m.url = 1..Len(m.url)
  BY LenProperties, EmptySeq DEF IsRequest
<1>3. m.url \in Seq(Piece)
  <2>1. STRING \subseteq Piece
    BY DEF Piece
  <2> QED BY <1>2, <2>1, SeqMonotonic
<1>4. GoodFirst("request", m)
  BY <1>2, <1>3 DEF GoodFirst, IsRequest, IsMessage
<1> QED BY <1>1, <1>4 DEF Good

------------------------------------------------------------------------------
(* The bytes of session s as a stream.                                     *)
IsWire(s, y) ==
  /\ Stream(y) /\ y.type = "request" /\ y.msgs = s /\ y.wire = Wire[s]
  /\ \A i \in 1..Len(s) : y.off[i + 1] = Ends[s][i]
  /\ \A i \in 1..Len(s) : /\ BodyAt(s[i], y.at[i]) = y.off[i] + Len(Bytes(RequestHead(s[i])))
                          /\ y.off[i + 1] = y.off[i] + Len(Bytes(RequestParts(s[i])))

LEMMA SessionBytes ==
  ASSUME NEW s \in Sessions
  PROVE  /\ MayCome("request", s) /\ DOMAIN s = 1..Len(s) /\ Len(s) \in Nat
         /\ Wire[s] = Bytes(PartsOfAll("request", s))
         /\ Cuts[s] = Harmful(PartsOfAll("request", s))
         /\ DOMAIN Ends[s] = DOMAIN s
         /\ \A i \in DOMAIN s : Ends[s][i] = Len(Bytes(PartsOfAll("request", SubSeq(s, 1, i))))
         /\ \A y : IsWire(s, y) <=> StreamOf("request", s, y)
<1>1. /\ s \in Seq(Range(s)) /\ DOMAIN s = 1..Len(s) /\ Len(s) \in Nat
      /\ \A i \in DOMAIN s : IsRequest(s[i])
  BY SessionsAreRequests, LenProperties
<1>2. \A i \in DOMAIN s : Good("request", s[i]) /\ s[i].coding # "eof"
  BY <1>1, RequestsAreGood DEF IsRequest
<1>3. \A q : FlattenSeq([k \in DOMAIN q |-> RequestParts(q[k])]) = PartsOfAll("request", q)
  BY DEF PartsOfAll, PartsOf
<1>4. Wire[s] = Bytes(PartsOfAll("request", s)) /\ Cuts[s] = Harmful(PartsOfAll("request", s))
  BY <1>3 DEF Wire, Cuts, AllParts
<1>5. /\ DOMAIN Ends[s] = DOMAIN s
      /\ \A i \in DOMAIN s : Ends[s][i] = Len(Bytes(PartsOfAll("request", SubSeq(s, 1, i))))
  BY <1>3 DEF Ends, AllParts
<1>6. MayCome("request", s)
  BY <1>1, <1>2 DEF MayCome
<1>7. \A y : IsWire(s, y) <=> StreamOf("request", s, y)
  BY <1>1, <1>4, <1>5 DEF IsWire, StreamOf, PartsOf, HeadOf
<1> QED BY <1>1, <1>4, <1>5, <1>6, <1>7

(* Every session has its stream: where each message lies in its bytes.     *)
LEMMA SessionWire ==
  ASSUME NEW s \in Sessions
  PROVE  \E y : IsWire(s, y)
<1>1. \E y : StreamOf("request", s, y)
  BY SessionBytes, StreamExists
<1> QED BY <1>1, SessionBytes

(* What a read that ends in no string does not cut.                        *)
LEMMA SessionUncut ==
  ASSUME NEW s \in Sessions, NEW y, IsWire(s, y), NEW p \in Nat, p \notin Cuts[s]
  PROVE  Uncut(y, p)
<1>1. /\ MayCome("request", s) /\ StreamOf("request", s, y)
      /\ p \notin Harmful(PartsOfAll("request", s))
  BY SessionBytes
<1> QED BY <1>1, StreamOfUncut

(* What the properties say of a request, and what its place in the stream  *)
(* is.                                                                     *)
LEMMA RequestAt ==
  ASSUME session \in Sessions, NEW y, IsWire(session, y), NEW i \in DOMAIN session
  PROVE  /\ i \in 1..Len(session) /\ Len(session) \in Nat /\ DOMAIN session = 1..Len(session)
         /\ Begin(i) = y.off[i] /\ Ends[session][i] = y.off[i + 1]
         /\ Carried(i) = Carry(y, i)
         /\ HeadFits(i) <=> Fits(y, i)
         /\ Closing(session[i]) <=> ~KeepsOpen(session[i])
         /\ IsRequest(session[i]) /\ y.off[i] \in Nat /\ Carry(y, i) \in {0, 1}
<1> DEFINE E(k) == Len(Bytes(PartsOfAll("request", SubSeq(session, 1, k))))
<1>1. /\ MayCome("request", session) /\ StreamOf("request", session, y)
      /\ DOMAIN session = 1..Len(session) /\ Len(session) \in Nat
      /\ \A k \in DOMAIN session : Ends[session][k] = E(k)
  BY SessionBytes
<1>2. IsRequest(session[i]) /\ IsMessage(session[i])
      /\ session[i].coding \in {"none", "eof", "length", "chunked"}
  BY SessionsAreRequests DEF IsRequest
<1>3. /\ y.off[i] = (IF i = 1 THEN 0 ELSE E(i - 1))
      /\ y.off[i] \in Nat /\ Carry(y, i) \in {0, 1}
      /\ Carry(y, i) = (IF i > 1 /\ session[i - 1].coding = "chunked" THEN 1 ELSE 0)
      /\ Fits(y, i) <=> Carry(y, i) + Len(Bytes(HeadOf("request", session[i]))) <= HTTP_MAX_HEADER_SIZE
      /\ Closing(session[i]) <=> ~KeepsOpen(session[i])
  BY <1>1, <1>2, MessageSaid
<1> HIDE DEF E
<1>4. Begin(i) = y.off[i]
  <2>1. i # 1 => i - 1 \in DOMAIN session
    BY <1>1
  <2> QED BY <1>1, <1>3, <2>1 DEF Begin
<1>5. Ends[session][i] = y.off[i + 1]
  BY <1>1 DEF IsWire
<1>6. HeadFits(i) <=> Fits(y, i)
  BY <1>3 DEF HeadFits, Carried, HeadOf
<1> QED BY <1>1, <1>2, <1>3, <1>4, <1>5, <1>6 DEF Carried

------------------------------------------------------------------------------
(* Bytes that follow each other.                                           *)
LEMMA SubSeqJoin ==
  ASSUME NEW S, NEW w \in Seq(S), NEW a \in Nat, NEW b \in Nat, NEW d \in Nat, a <= b, b <= d, d <= Len(w)
  PROVE  /\ SubSeq(w, a + 1, b) \o SubSeq(w, b + 1, d) = SubSeq(w, a + 1, d)
         /\ Len(SubSeq(w, a + 1, d)) = d - a /\ SubSeq(w, a + 1, d) \in Seq(S)
         /\ Len(SubSeq(w, a + 1, b)) = b - a
<1> DEFINE n == Len(w)
<1>1. n \in Nat /\ d <= n
  BY LenProperties
<1> HIDE DEF n
<1>2. ASSUME NEW p \in Nat, NEW q \in Nat, p <= q, q <= n
      PROVE  /\ SubSeq(w, p + 1, q) \in Seq(S) /\ Len(SubSeq(w, p + 1, q)) = q - p
             /\ \A k \in 1..(q - p) : SubSeq(w, p + 1, q)[k] = w[p + k]
  <2> DEFINE r == SubSeq(w, p + 1, q)
  <2>1. p + 1 \in 1..(n + 1) /\ q \in 0..n /\ q - (p + 1) + 1 = q - p
    BY <1>1, <1>2
  <2>2. /\ r \in Seq(S) /\ Len(r) = (IF p + 1 <= q THEN q - (p + 1) + 1 ELSE 0)
        /\ \A k \in 1..(q - (p + 1) + 1) : r[k] = w[(p + 1) + k - 1]
    BY <2>1, SubSeqProperties DEF n
  <2> HIDE DEF r
  <2>3. Len(r) = q - p
    BY <1>2, <2>1, <2>2
  <2>4. \A k \in 1..(q - p) : (p + 1) + k - 1 = p + k
    OBVIOUS
  <2>5. \A k \in 1..(q - p) : r[k] = w[p + k]
    BY <2>1, <2>2, <2>4
  <2> QED BY <2>2, <2>3, <2>5 DEF r
<1> DEFINE x == SubSeq(w, a + 1, b)
           z == SubSeq(w, b + 1, d)
           s == SubSeq(w, a + 1, d)
<1>3. b <= n /\ a <= d
  BY <1>1
<1>4. x \in Seq(S) /\ Len(x) = b - a /\ \A k \in 1..(b - a) : x[k] = w[a + k]
  BY <1>2, <1>3
<1>5. z \in Seq(S) /\ Len(z) = d - b /\ \A k \in 1..(d - b) : z[k] = w[b + k]
  BY <1>1, <1>2
<1>6. s \in Seq(S) /\ Len(s) = d - a /\ \A k \in 1..(d - a) : s[k] = w[a + k]
  BY <1>1, <1>2, <1>3
<1> HIDE DEF x, z, s
<1>7. /\ x \o z \in Seq(S) /\ Len(x \o z) = Len(x) + Len(z)
      /\ \A k \in 1..(Len(x) + Len(z)) : (x \o z)[k] = IF k <= Len(x) THEN x[k] ELSE z[k - Len(x)]
  BY <1>4, <1>5, ConcatProperties
<1>8. Len(x \o z) = d - a
  BY <1>4, <1>5, <1>7
<1>9. ASSUME NEW k \in 1..(d - a) PROVE (x \o z)[k] = s[k]
  <2>1. k \in 1..(Len(x) + Len(z))
    BY <1>4, <1>5
  <2>2. CASE k <= b - a
    <3>1. k \in 1..(b - a)
      BY <2>2
    <3> QED BY <1>4, <1>6, <1>7, <2>1, <3>1, <2>2
  <2>3. CASE ~(k <= b - a)
    <3> DEFINE j == k - (b - a)
    <3>1. j \in 1..(d - b) /\ b + j = a + k
      BY <2>3
    <3>2. (x \o z)[k] = z[j]
      BY <1>4, <1>7, <2>1, <2>3
    <3> HIDE DEF j
    <3> QED BY <1>5, <1>6, <3>1, <3>2
  <2> QED BY <2>2, <2>3
<1>10. x \o z = s
  BY <1>6, <1>7, <1>8, <1>9, SeqEqual
<1> QED BY <1>4, <1>6, <1>10 DEF x, z, s

(* What is left over of bytes of w.                                        *)
LEMMA SubSeqRest ==
  ASSUME NEW S, NEW w \in Seq(S), NEW a \in Nat, NEW d \in Nat, a <= d, d <= Len(w),
         NEW u \in 0..(d - a)
  PROVE  /\ SubSeq(SubSeq(w, a + 1, d), u + 1, Len(SubSeq(w, a + 1, d))) = SubSeq(w, (a + u) + 1, d)
         /\ Len(SubSeq(w, (a + u) + 1, d)) = d - (a + u)
<1> DEFINE s == SubSeq(w, a + 1, d)
           t == SubSeq(w, (a + u) + 1, d)
           n == d - a
           r == SubSeq(s, u + 1, n)
           b == a + u
<1>0. Len(w) \in Nat
  BY LenProperties
<1>1. s \in Seq(S) /\ Len(s) = n /\ n \in Nat /\ u \in Nat /\ u <= n /\ b \in Nat /\ b <= d /\ d - b = n - u
  <2>1. s \in Seq(S) /\ Len(s) = n
    BY SubSeqJoin
  <2> QED BY <2>1
<1>2. \A k \in 1..n : s[k] = w[a + k]
  <2> DEFINE m == Len(w)
  <2>1. m \in Nat /\ d <= m
    BY <1>0
  <2> HIDE DEF m
  <2>2. a + 1 \in 1..(m + 1) /\ d \in 0..m /\ d - (a + 1) + 1 = n
    BY <2>1
  <2>3. \A k \in 1..(d - (a + 1) + 1) : s[k] = w[(a + 1) + k - 1]
    BY <2>2, SubSeqProperties DEF m
  <2> HIDE DEF s
  <2>4. \A k \in 1..n : (a + 1) + k - 1 = a + k
    OBVIOUS
  <2> HIDE DEF n
  <2> QED BY <2>2, <2>3, <2>4
<1>3. /\ t \in Seq(S) /\ Len(t) = d - b /\ \A k \in 1..(d - b) : t[k] = w[b + k]
  <2> HIDE DEF b
  <2> DEFINE m == Len(w)
  <2>1. m \in Nat /\ d <= m
    BY <1>0
  <2> HIDE DEF m
  <2>2. b + 1 \in 1..(m + 1) /\ d \in 0..m /\ d - (b + 1) + 1 = d - b
    BY <1>1, <2>1
  <2>3. /\ SubSeq(w, b + 1, d) \in Seq(S) /\ Len(SubSeq(w, b + 1, d)) = (IF b + 1 <= d THEN d - (b + 1) + 1 ELSE 0)
        /\ \A k \in 1..(d - (b + 1) + 1) : SubSeq(w, b + 1, d)[k] = w[(b + 1) + k - 1]
    BY <2>2, SubSeqProperties DEF m
  <2>4. t = SubSeq(w, b + 1, d)
    BY DEF b
  <2> HIDE DEF t
  <2>5. \A k \in 1..(d - b) : (b + 1) + k - 1 = b + k
    BY <1>1
  <2>6. (IF b + 1 <= d THEN d - (b + 1) + 1 ELSE 0) = d - b
    BY <1>1
  <2> QED BY <2>2, <2>3, <2>4, <2>5, <2>6
<1> HIDE DEF s, t, n, b
<1>4. /\ r \in Seq(S) /\ Len(r) = n - u /\ \A k \in 1..(n - u) : r[k] = s[u + k]
  <2>1. u + 1 \in 1..(n + 1) /\ n \in 0..n /\ n - (u + 1) + 1 = n - u
    BY <1>1
  <2>2. /\ r \in Seq(S) /\ Len(r) = (IF u + 1 <= n THEN n - (u + 1) + 1 ELSE 0)
        /\ \A k \in 1..(n - (u + 1) + 1) : r[k] = s[(u + 1) + k - 1]
    BY <1>1, <2>1, SubSeqProperties
  <2> HIDE DEF r
  <2>3. \A k \in 1..(n - u) : (u + 1) + k - 1 = u + k
    BY <1>1
  <2>4. (IF u + 1 <= n THEN n - (u + 1) + 1 ELSE 0) = n - u
    BY <1>1
  <2> QED BY <2>1, <2>2, <2>3, <2>4
<1> HIDE DEF r
<1>5. ASSUME NEW k \in 1..(n - u) PROVE r[k] = t[k]
  <2>1. u + k \in 1..n /\ k \in 1..(d - b)
    BY <1>1
  <2>2. a + (u + k) = b + k
    BY <1>1 DEF b
  <2> QED BY <1>2, <1>3, <1>4, <2>1, <2>2
<1>6. r = t
  BY <1>1, <1>3, <1>4, <1>5, SeqEqual
<1> QED BY <1>1, <1>3, <1>6 DEF r, s, t, n, b

------------------------------------------------------------------------------
(* Wherever the reads end.                                                 *)

LEMMA PlaceIsFine ==
  ASSUME NEW y, Stream(y), NEW e \in BOOLEAN, NEW p \in Nat, NEW h,
         Place(e, h, y, p), h.nread <= HTTP_MAX_HEADER_SIZE
  PROVE  \E i \in 1..(Len(y.msgs) + 1) : FineUpTo(y, p, i)
<1> DEFINE n == Len(y.msgs)
<1>0. n \in Nat
  BY DEF Stream
<1>1. ASSUME NEW i \in 1..(n + 1), Between(e, h, y, p, i) PROVE FineUpTo(y, p, i)
  <2>1. p = y.off[i] /\ y.off[i] \in Nat
    BY <1>1 DEF Between, Stream
  <2>2. i > 1 => (\A j \in 1..((i - 1) - 1) : Fits(y, j) /\ KeepsOpen(y.msgs[j])) /\ Fits(y, i - 1)
    BY <1>1 DEF Between, Through
  <2>3. \A j \in 1..(i - 1) : Fits(y, j)
    <3> SUFFICES ASSUME NEW j \in 1..(i - 1) PROVE Fits(y, j)
      OBVIOUS
    <3>1. i > 1
      BY <1>0
    <3>2. j = i - 1 \/ j \in 1..((i - 1) - 1)
      BY <1>0
    <3> QED BY <2>2, <3>1, <3>2
  <2>4. \A j \in 1..(i - 2) : KeepsOpen(y.msgs[j])
    <3> SUFFICES ASSUME NEW j \in 1..(i - 2) PROVE KeepsOpen(y.msgs[j])
      OBVIOUS
    <3>1. i > 1 /\ j \in 1..((i - 1) - 1)
      BY <1>0
    <3> QED BY <2>2, <3>1
  <2>5. p <= y.off[i]
    BY <2>1
  <2> QED BY <2>3, <2>4, <2>5 DEF FineUpTo
<1>2. ASSUME NEW i \in 1..n, Through(y, i), p <= y.off[i + 1],
             Fits(y, i) \/ Carry(y, i) + (p - y.off[i]) <= HTTP_MAX_HEADER_SIZE
      PROVE  FineUpTo(y, p, i)
  <2>1. \A j \in 1..(i - 1) : Fits(y, j) /\ KeepsOpen(y.msgs[j])
    BY <1>2 DEF Through
  <2>2. (i > 1 => i - 1 \in 1..(i - 1)) /\ (\A j \in 1..(i - 2) : j \in 1..(i - 1)) /\ i <= n
    BY <1>0
  <2> QED BY <1>2, <2>1, <2>2 DEF FineUpTo
<1>3. ASSUME NEW i \in 1..n, InHead(e, h, y, p, i) PROVE FineUpTo(y, p, i)
  <2> DEFINE m == y.msgs[i]
             l == y.at[i]
  <2>1. /\ Good(y.type, m) /\ Laid(y.wire, y.type, m, l)
        /\ BodyAt(m, l) \in Nat /\ BodyAt(m, l) <= y.off[i + 1] /\ y.off[i + 1] \in Nat
    BY MessageSpot
  <2>2. Through(y, i) /\ HeadPlace(e, h, y.type, m, l, p) /\ h.nread = Carry(y, i) + (p - y.off[i])
    BY <1>3 DEF InHead
  <2> HIDE DEF m, l
  <2>3. p < BodyAt(m, l)
    BY <2>1, <2>2, HeadWithin
  <2>4. p <= y.off[i + 1]
    BY <2>1, <2>3
  <2> QED BY <1>2, <2>2, <2>4
<1>4. ASSUME NEW i \in 1..n, InBody(e, h, y, p, i) PROVE FineUpTo(y, p, i)
  <2> DEFINE m == y.msgs[i]
             l == y.at[i]
  <2>1. Good(y.type, m) /\ Laid(y.wire, y.type, m, l) /\ l.end = y.off[i + 1]
    BY MessageSpot
  <2>2. Through(y, i) /\ Fits(y, i) /\ BodyPlace(e, h, y.type, m, l, p)
    BY <1>4 DEF InBody
  <2> HIDE DEF m, l
  <2>3. p <= l.end
    BY <2>1, <2>2, BodyWithin
  <2> QED BY <1>2, <2>1, <2>2, <2>3
<1>5. \A i \in 1..n : i \in 1..(n + 1)
  BY <1>0
<1> QED BY <1>1, <1>3, <1>4, <1>5 DEF Place

(* Where the parser is without an error, there is no reason for one.       *)
LEMMA NotBlamed ==
  ASSUME NEW y, Stream(y), NEW e \in BOOLEAN, NEW p \in Nat, NEW h,
         Place(e, h, y, p), h.nread <= HTTP_MAX_HEADER_SIZE
  PROVE  ~Blame(y, p)
BY PlaceIsFine, FineNotBlamed

(* A call of http_parser_execute with the bytes c + 1 to d, wherever the   *)
(* reads before it have ended.                                             *)
LEMMA CallPlaces ==
  ASSUME NEW y, Stream(y), NEW c \in Nat, NEW d \in Nat, c < d, d <= Len(y.wire),
         NEW h, AtRest(h), h.error = FALSE, h.complete = FALSE, Place(FALSE, h, y, c)
  PROVE  LET g == Execute(h, SubSeq(y.wire, c + 1, d))
         IN  /\ g.error => Blame(y, d)
             /\ ~g.error => /\ g.used \in 1..(d - c)
                            /\ Place(FALSE, Idle(g), y, c + g.used) /\ ~Blame(y, c + g.used)
                            /\ g.complete => EndsIn(y, c, c + g.used)
<1> DEFINE r == Resume(h)
           bytes == SubSeq(y.wire, c + 1, d)
           f == FoldLeft(Advance, r, bytes)
           g == Execute(h, bytes)
<1>1. InLoop(r) /\ r.used = 0 /\ r.error = FALSE /\ r.stop = FALSE /\ r.nread = h.nread
      /\ r.complete = FALSE
      /\ Alike(FALSE, h, r)
  BY DEF Resume, AtRest, InLoop, IsParser, Fields, Pending, NoMark, Alike
<1> HIDE DEF r
<1>2. Place(FALSE, r, y, c)
  BY <1>1, PlaceAlike
<1>3. Running(FALSE, y, c, d - c, f)
  <2>1. Undivided(FALSE, y, c, d)
    BY DEF Undivided
  <2> QED BY <1>1, <1>2, <2>1, LoopPlaces
<1>4. bytes # <<>>
  <2>1. y.wire \in Seq(Piece) /\ Len(y.wire) \in Nat
    BY LenProperties DEF Stream
  <2> DEFINE n == Len(y.wire)
  <2>2. n \in Nat /\ d <= n
    BY <2>1
  <2> HIDE DEF n
  <2>3. c + 1 \in 1..(n + 1) /\ d \in 0..n /\ c + 1 <= d /\ d - (c + 1) + 1 = d - c /\ d - c # 0
    BY <2>2
  <2>4. Len(bytes) = d - c
    BY <2>1, <2>3, SubSeqProperties DEF n
  <2> HIDE DEF bytes
  <2> QED BY <2>3, <2>4
<1>5. g = ExecuteBytes(h, bytes)
  BY <1>4 DEF Execute
<1> HIDE DEF f, g
<1>6. /\ InLoop(f) /\ IsParser(f) /\ f.used \in Nat /\ d - c \in Nat /\ d - c >= 1 /\ c + (d - c) = d
      /\ {f.error, f.stop} \subseteq BOOLEAN
  BY <1>3 DEF Running, InLoop, IsParser
<1>7. f.error => Blame(y, d)
  BY <1>3, <1>6 DEF Running
<1>8. ~f.error => /\ f.used \in 1..(d - c) /\ Place(FALSE, f, y, c + f.used)
                  /\ (~f.stop => f.used = d - c) /\ (f.complete => EndsIn(y, c, c + f.used))
  <2> DEFINE k == d - c
  <2>1. k \in Nat /\ k >= 1
    BY <1>6
  <2> HIDE DEF k
  <2>2. Running(FALSE, y, c, k, f)
    BY <1>3 DEF k
  <2>4. ~f.error /\ f.complete => EndsIn(y, c, c + f.used)
    BY <2>2 DEF Running
  <2>3. ~f.error => f.used \in 1..k /\ Place(FALSE, f, y, c + f.used) /\ (~f.stop => f.used = k)
    <3> DEFINE u == f.used
    <3>1. ~f.error => u <= k /\ (k >= 1 => u >= 1) /\ (~f.stop => u = k) /\ Place(FALSE, f, y, c + u)
      BY <2>2 DEF Running
    <3>2. u \in Nat
      BY <1>6
    <3> HIDE DEF u
    <3>3. u <= k /\ u >= 1 => u \in 1..k
      BY ONLY <2>1, <3>2
    <3>4. ~f.error => u <= k /\ u >= 1 /\ (~f.stop => u = k) /\ Place(FALSE, f, y, c + u)
      BY ONLY <2>1, <3>1
    <3>5. ~f.error => u \in 1..k /\ (~f.stop => u = k) /\ Place(FALSE, f, y, c + u)
      BY ONLY <3>3, <3>4
    <3> QED BY <3>5 DEF u
  <2> QED BY <2>3, <2>4 DEF k
<1>9. ASSUME IsParser(g), Alike(FALSE, f, g), g.nread = f.nread, g.used = f.used, f.error = FALSE,
             g.complete = f.complete,
             f.nread <= HTTP_MAX_HEADER_SIZE
      PROVE  /\ g.used \in 1..(d - c)
             /\ Place(FALSE, Idle(g), y, c + g.used) /\ ~Blame(y, c + g.used)
             /\ g.complete => EndsIn(y, c, c + g.used)
  <2>1. Alike(FALSE, f, Idle(g)) /\ Idle(g).stop = FALSE /\ Idle(g).nread = f.nread
    BY <1>9 DEF Idle, IsParser, Fields, Alike
  <2>2. Place(FALSE, Idle(g), y, c + g.used)
    BY <1>8, <1>9, <2>1, PlaceAlike
  <2>3. c + g.used \in Nat
    BY <1>6, <1>9
  <2> QED BY <1>8, <1>9, <2>1, <2>2, <2>3, NotBlamed
<1>10. CASE f.error \/ f.stop
  <2>1. g = [f EXCEPT !.mark = NoMark]
    BY <1>5, <1>10 DEF ExecuteBytes, f, r
  <2>2. IsParser(g) /\ Alike(FALSE, f, g) /\ g.nread = f.nread /\ g.used = f.used /\ g.error = f.error
        /\ g.complete = f.complete
    BY <1>6, <2>1 DEF IsParser, Fields, Alike
  <2>3. CASE f.error
    BY <1>7, <2>2, <2>3 DEF g
  <2>4. CASE ~f.error
    <3>1. f.nread <= HTTP_MAX_HEADER_SIZE /\ f.error = FALSE
      BY <1>6, <1>10, <2>4 DEF InLoop
    <3> QED BY <1>9, <2>2, <3>1 DEF g
  <2> QED BY <2>3, <2>4
<1>11. CASE ~(f.error \/ f.stop) /\ Overflow(f)
  <2>1. Blame(y, d)
    BY <1>6, <1>8, <1>11, OverflowBlamed
  <2>2. g = Fail([f EXCEPT !.mark = NoMark])
    BY <1>5, <1>11 DEF ExecuteBytes, f, r
  <2>3. g.error = TRUE
    BY <1>6, <2>2 DEF Fail, IsParser, Fields
  <2> QED BY <2>1, <2>3 DEF g
<1>12. CASE ~(f.error \/ f.stop) /\ ~Overflow(f)
  <2>1. g = CallbackData(f)
    BY <1>5, <1>12 DEF ExecuteBytes, f, r
  <2>2. IsParser(g) /\ SameControl(f, g) /\ g.error = f.error /\ g.used = f.used /\ g.nread = f.nread
        /\ g.complete = f.complete
    BY <1>6, <2>1, CallbackControl, CallbackTurned
  <2>3. Alike(FALSE, f, g) /\ g.error = f.error
    BY <2>2 DEF SameControl, Alike
  <2>4. f.error = FALSE /\ f.nread <= HTTP_MAX_HEADER_SIZE
    BY <1>6, <1>12, HeaderSizeIsPositive DEF Overflow, IsParser
  <2> QED BY <1>9, <2>2, <2>3, <2>4 DEF g
<1> QED BY <1>10, <1>11, <1>12

------------------------------------------------------------------------------
(* Where the parser is in the bytes of the session: the Buffer holds what  *)
(* has arrived behind it.                                                  *)
Parsed == read - Len(buffer)

PlaceInv ==
  \A y : IsWire(session, y) =>
    /\ http.error => Blame(y, read)
    /\ ~http.error =>
         /\ Parsed \in 0..read /\ buffer = SubSeq(Wire[session], Parsed + 1, read)
         /\ Place(FALSE, http, y, Parsed) /\ ~Blame(y, Parsed)

(* A new connection is at the first byte of its stream.                    *)
LEMMA PlaceStart == Init => PlaceInv
<1> SUFFICES ASSUME Init, NEW y, IsWire(session, y)
             PROVE  /\ http.error => Blame(y, read)
                    /\ ~http.error =>
                         /\ Parsed \in 0..read /\ buffer = SubSeq(Wire[session], Parsed + 1, read)
                         /\ Place(FALSE, http, y, Parsed) /\ ~Blame(y, Parsed)
  BY DEF PlaceInv
<1>1. session \in Sessions /\ read = 0 /\ buffer = <<>> /\ http = NewParser("request")
  BY DEF Init
<1>2. http.error = FALSE
  BY <1>1 DEF NewParser
<1>3. Parsed = 0 /\ Parsed \in 0..read
  <2>1. Len(<<>>) = 0
    OBVIOUS
  <2>2. Len(buffer) = 0
    BY <1>1, <2>1
  <2>3. Parsed = 0 - 0
    BY <1>1, <2>2 DEF Parsed
  <2> QED BY <1>1, <2>3
<1>4. Stream(y) /\ y.type = "request"
  BY DEF IsWire
<1>5. Place(FALSE, http, y, 0) /\ http.nread <= HTTP_MAX_HEADER_SIZE
  BY <1>1, <1>4, AtTheBegin
<1>6. ~Blame(y, 0)
  BY <1>4, <1>5, NotBlamed
<1>7. SubSeq(Wire[session], 0 + 1, 0) = <<>>
  <2>1. Wire[session] \in Seq(STRING)
    BY <1>1, WiresAreBytes
  <2> QED BY <2>1, SubSeqEmpty
<1>8. buffer = SubSeq(Wire[session], Parsed + 1, read)
  BY <1>1, <1>3, <1>7
<1> QED BY <1>1, <1>2, <1>3, <1>5, <1>6, <1>8

(* What a read event gives the parser, and where that leaves it.           *)
LEMMA ReadPlaces ==
  ASSUME ParserInv, PlaceInv, NEW n \in 1..(Len(Wire[session]) - read), OnMessage(n),
         NEW y, IsWire(session, y)
  PROVE  LET bytes  == buffer \o SubSeq(Wire[session], read + 1, read')
             parsed == Execute(http, bytes)
         IN  /\ session' = session /\ read' = read + n /\ read' <= Len(Wire[session])
             /\ buffer' = LeftOver(parsed, bytes)
             /\ OnFailure(parsed) \/ OnIncomplete(parsed) \/ OnRequest(parsed)
             /\ Parsed \in Nat /\ read' \in Nat /\ Parsed < read' /\ bytes = SubSeq(y.wire, Parsed + 1, read')
             /\ AtRest(http) /\ http.error = FALSE /\ http.complete = FALSE
             /\ Stream(y) /\ read' <= Len(y.wire)
             /\ AtRest(Idle(parsed)) /\ IsParser(parsed)
             /\ parsed.error => Blame(y, read')
             /\ ~parsed.error =>
                  /\ parsed.used \in 1..(read' - Parsed)
                  /\ Place(FALSE, Idle(parsed), y, Parsed + parsed.used)
                  /\ ~Blame(y, Parsed + parsed.used)
                  /\ parsed.complete => EndsIn(y, Parsed, Parsed + parsed.used)
                  /\ buffer' = SubSeq(Wire[session], (Parsed + parsed.used) + 1, read')
                  /\ Len(buffer') = read' - (Parsed + parsed.used)
<1> DEFINE w == Wire[session]
           c == Parsed
           d == read + n
           bytes == buffer \o SubSeq(w, read + 1, d)
           parsed == Execute(http, bytes)
<1>1. /\ session \in Sessions /\ read \in Nat /\ Len(w) \in Nat /\ read' = d /\ d \in Nat /\ read < d
      /\ d <= Len(w) /\ w \in Seq(STRING) /\ w \in Seq(Piece) /\ AtRest(http)
      /\ session' = session
  <2>1. session \in Sessions /\ read \in Nat /\ w \in Seq(STRING) /\ AtRest(http) /\ Len(w) \in Nat
    BY WiresAreBytes, LenProperties DEF ParserInv
  <2>2. STRING \subseteq Piece
    BY DEF Piece
  <2>3. read' = d /\ read + n <= Len(w) /\ session' = session
    BY DEF OnMessage
  <2>4. w \in Seq(Piece)
    BY <2>1, <2>2, SeqMonotonic
  <2>5. d \in Nat /\ read < d /\ n \in Nat
    BY <2>1
  <2> QED BY <2>1, <2>3, <2>4, <2>5
<1>2. http.error = FALSE /\ http.complete = FALSE
  <2>1. conn = "open"
    BY DEF OnMessage
  <2> QED BY <2>1 DEF ParserInv, AtRest, IsParser
<1>3. /\ buffer' = LeftOver(parsed, bytes)
      /\ OnFailure(parsed) \/ OnIncomplete(parsed) \/ OnRequest(parsed)
  BY <1>1 DEF OnMessage
<1>4. /\ c \in 0..read /\ buffer = SubSeq(w, c + 1, read) /\ Place(FALSE, http, y, c)
  BY <1>2 DEF PlaceInv
<1>5. Stream(y) /\ y.wire = w /\ y.msgs = session
  BY DEF IsWire
<1> HIDE DEF w, c, d
<1>6. c \in Nat /\ c <= read /\ c < d
  BY <1>1, <1>4
<1>7. bytes = SubSeq(w, c + 1, d) /\ bytes \in Seq(STRING) /\ Len(bytes) = d - c
  <2>1. /\ SubSeq(w, c + 1, read) \o SubSeq(w, read + 1, d) = SubSeq(w, c + 1, d)
        /\ Len(SubSeq(w, c + 1, d)) = d - c /\ SubSeq(w, c + 1, d) \in Seq(STRING)
    <3>1. c \in Nat /\ read \in Nat /\ d \in Nat /\ c <= read /\ read <= d /\ d <= Len(w)
      BY <1>1, <1>6
    <3> QED BY <1>1, <3>1, SubSeqJoin
  <2> QED BY <1>4, <2>1
<1> HIDE DEF bytes
<1>8. bytes # <<>>
  <2>1. d - c # 0
    BY <1>1, <1>6
  <2>2. Len(<<>>) = 0
    OBVIOUS
  <2> QED BY ONLY <1>7, <2>1, <2>2
<1>9. AtRest(Idle(parsed)) /\ IsParser(parsed)
  BY <1>1, <1>7, <1>8, AfterBytes
<1>10. /\ parsed.error => Blame(y, d)
       /\ ~parsed.error =>
            /\ parsed.used \in 1..(d - c)
            /\ Place(FALSE, Idle(parsed), y, c + parsed.used) /\ ~Blame(y, c + parsed.used)
            /\ parsed.complete => EndsIn(y, c, c + parsed.used)
  BY <1>1, <1>2, <1>4, <1>5, <1>6, <1>7, CallPlaces
<1> HIDE DEF parsed
<1>11. ~parsed.error =>
          /\ buffer' = SubSeq(w, (c + parsed.used) + 1, d)
          /\ Len(buffer') = d - (c + parsed.used)
  <2> SUFFICES ASSUME ~parsed.error
               PROVE  /\ buffer' = SubSeq(w, (c + parsed.used) + 1, d)
                      /\ Len(buffer') = d - (c + parsed.used)
    OBVIOUS
  <2> DEFINE u == parsed.used
  <2>1. u \in 1..(d - c)
    BY <1>10
  <2>2. buffer' = SubSeq(bytes, u + 1, Len(bytes))
    BY <1>3 DEF LeftOver
  <2> HIDE DEF u
  <2>3. u \in 0..(d - c) /\ c <= d
    BY <1>1, <1>6, <2>1
  <2>4. /\ SubSeq(SubSeq(w, c + 1, d), u + 1, Len(SubSeq(w, c + 1, d))) = SubSeq(w, (c + u) + 1, d)
        /\ Len(SubSeq(w, (c + u) + 1, d)) = d - (c + u)
    BY <1>1, <1>6, <2>3, SubSeqRest
  <2> QED BY <1>7, <2>2, <2>4 DEF u
<1>12. d <= Len(y.wire) /\ bytes = SubSeq(y.wire, c + 1, d)
  BY <1>1, <1>5, <1>7
<1>13. bytes = buffer \o SubSeq(Wire[session], read + 1, read')
  BY <1>1 DEF bytes, w
<1> QED BY <1>1, <1>2, <1>3, <1>5, <1>6, <1>9, <1>10, <1>11, <1>12, <1>13 DEF parsed, w, c, d

(* Every step of the server leaves the parser at a place of its stream.    *)
LEMMA PlaceStep == ParserInv /\ PlaceInv /\ [Next]_vars => PlaceInv'
<1> SUFFICES ASSUME ParserInv, PlaceInv, [Next]_vars PROVE PlaceInv'
  OBVIOUS
<1>1. CASE \E n \in 1..(Len(Wire[session]) - read) : OnMessage(n)
  <2>1. PICK n \in 1..(Len(Wire[session]) - read) : OnMessage(n)
    BY <1>1
  <2> DEFINE parsed == Execute(http, buffer \o SubSeq(Wire[session], read + 1, read'))
  <2>2. ASSUME NEW y, IsWire(session, y)
        PROVE  /\ http'.error => Blame(y, read')
               /\ ~http'.error =>
                    /\ Parsed' \in 0..read' /\ buffer' = SubSeq(Wire[session'], Parsed' + 1, read')
                    /\ Place(FALSE, http', y, Parsed') /\ ~Blame(y, Parsed')
    <3>1. /\ session' = session
          /\ OnFailure(parsed) \/ OnIncomplete(parsed) \/ OnRequest(parsed)
          /\ Parsed \in Nat /\ read' \in Nat /\ Parsed < read'
          /\ AtRest(Idle(parsed)) /\ IsParser(parsed)
          /\ parsed.error => Blame(y, read')
          /\ ~parsed.error =>
               /\ parsed.used \in 1..(read' - Parsed)
               /\ Place(FALSE, Idle(parsed), y, Parsed + parsed.used)
               /\ ~Blame(y, Parsed + parsed.used)
               /\ buffer' = SubSeq(Wire[session], (Parsed + parsed.used) + 1, read')
               /\ Len(buffer') = read' - (Parsed + parsed.used)
      BY <2>1, <2>2, ReadPlaces
    <3> HIDE DEF parsed
    <3>2. Idle(parsed).error = parsed.error
      BY <3>1 DEF IsParser, Fields, Idle
    <3>3. CASE parsed.error
      <4>1. http' = Idle(parsed)
        BY <3>1, <3>3 DEF OnFailure, OnIncomplete, OnRequest
      <4> QED BY <3>1, <3>2, <3>3, <4>1
    <3>4. CASE ~parsed.error
      <4> DEFINE u == parsed.used
                 c == Parsed
      <4>1. u \in 1..(read' - c) /\ c \in Nat /\ Len(buffer') = read' - (c + u)
        BY <3>1, <3>4
      <4>2. Parsed' = read' - Len(buffer')
        BY DEF Parsed
      <4> DEFINE z == read'
                 b == Len(buffer')
      <4>22. u \in 1..(z - c) /\ c \in Nat /\ z \in Nat /\ b = z - (c + u) /\ Parsed' = z - b
        BY <3>1, <4>1, <4>2
      <4> HIDE DEF u, c, z, b
      <4>23. Parsed' = c + u /\ c + u \in 0..z
        BY ONLY <4>22
      <4>3. Parsed' = c + u /\ Parsed' \in 0..read'
        BY <4>23 DEF z
      <4>4. http' = Idle(parsed) \/ http' = ResetMessage(Idle(parsed))
        BY <3>1 DEF OnFailure, OnIncomplete, OnRequest
      <4>5. /\ Alike(FALSE, Idle(parsed), http') /\ http'.nread = Idle(parsed).nread
            /\ http'.stop = FALSE /\ http'.error = parsed.error
        <5>1. IsParser(Idle(parsed)) /\ Idle(parsed).stop = FALSE
          BY <3>1 DEF AtRest
        <5> DEFINE i == Idle(parsed)
        <5> HIDE DEF i
        <5>2. IsParser(i) /\ i.stop = FALSE /\ i.error = parsed.error /\ (http' = i \/ http' = ResetMessage(i))
          BY <3>2, <4>4, <5>1 DEF i
        <5>3. Alike(FALSE, i, http') /\ http'.nread = i.nread /\ http'.stop = FALSE /\ http'.error = parsed.error
          <6>1. CASE http' = i
            BY <5>2, <6>1 DEF Alike
          <6>2. CASE http' = ResetMessage(i)
            <7>1. \A f \in Fields \ {"message", "complete", "headFieldTemp"} : ResetMessage(i)[f] = i[f]
              BY <5>2 DEF ResetMessage, IsParser, Fields
            <7> QED BY <5>2, <6>2, <7>1 DEF Fields, Alike
          <6> QED BY <5>2, <6>1, <6>2
        <5> QED BY <5>3 DEF i
      <4>6. Place(FALSE, Idle(parsed), y, c + u) /\ ~Blame(y, c + u)
            /\ buffer' = SubSeq(Wire[session], (c + u) + 1, read')
        BY <3>1, <3>4 DEF c, u
      <4>7. Place(FALSE, http', y, c + u)
        BY <4>5, <4>6, PlaceAlike
      <4> QED BY <3>1, <3>4, <4>3, <4>5, <4>6, <4>7
    <3> QED BY <3>3, <3>4
  <2>3. session' = session
    BY <2>1 DEF OnMessage
  <2>4. \A y : IsWire(session, y)' <=> IsWire(session, y)
    BY <2>3 DEF IsWire
  <2> QED BY <2>2, <2>3, <2>4 DEF PlaceInv
<1>2. CASE PeerCloses
  BY <1>2 DEF PeerCloses, PlaceInv, Parsed, IsWire
<1>3. CASE UNCHANGED vars
  BY <1>3 DEF vars, PlaceInv, Parsed, IsWire
<1> QED BY <1>1, <1>2, <1>3 DEF Next

------------------------------------------------------------------------------
(* The invariants of both layers hold together.                            *)
LEMMA PlaceInductive == Spec => [](ServerInv /\ PlaceInv)
<1>1. Init => ServerInv /\ PlaceInv
  BY ServerStart, PlaceStart
<1>2. (ServerInv /\ PlaceInv) /\ [Next]_vars => (ServerInv /\ PlaceInv)'
  BY ServerStep, PlaceStep DEF ServerInv
<1> QED BY <1>1, <1>2, PTL DEF Spec

(* The reasons for an error that HeaderLimit names.                        *)
LEMMA ReasonsNamed ==
  ASSUME ParserInv, NEW y, IsWire(session, y)
  PROVE  Blame(y, read) <=> \E i \in DOMAIN session :
           \/ ~HeadFits(i) /\ Carried(i) + read - Begin(i) > HTTP_MAX_HEADER_SIZE
           \/ i > 1 /\ Closing(session[i - 1]) /\ read > Begin(i)
<1>1. session \in Sessions /\ read \in Nat /\ y.msgs = session /\ HTTP_MAX_HEADER_SIZE \in Nat
  <2>1. session \in Sessions
    BY DEF ParserInv
  <2>2. Len(Wire[session]) \in Nat
    BY <2>1, WiresAreBytes, LenProperties
  <2> QED BY <2>1, <2>2, HeaderSizeIsPositive DEF ParserInv, IsWire
<1>2. DOMAIN session = 1..Len(session)
  BY <1>1, SessionsAreRequests, LenProperties
<1>3. ASSUME NEW i \in DOMAIN session
      PROVE  /\ ~HeadFits(i) /\ Carried(i) + read - Begin(i) > HTTP_MAX_HEADER_SIZE
                <=> ~Fits(y, i) /\ Carry(y, i) + (read - y.off[i]) > HTTP_MAX_HEADER_SIZE
             /\ i > 1 /\ Closing(session[i - 1]) /\ read > Begin(i)
                <=> i > 1 /\ ~KeepsOpen(y.msgs[i - 1]) /\ read > y.off[i]
  <2>1. /\ Begin(i) = y.off[i] /\ Carried(i) = Carry(y, i) /\ (HeadFits(i) <=> Fits(y, i))
        /\ y.off[i] \in Nat /\ Carry(y, i) \in {0, 1} /\ Len(session) \in Nat /\ i \in 1..Len(session)
    BY <1>1, RequestAt
  <2>2. Carried(i) + read - Begin(i) = Carry(y, i) + (read - y.off[i])
    <3> DEFINE a == Carried(i)
               b == Begin(i)
               f == Carry(y, i)
               o == y.off[i]
    <3>1. a = f /\ b = o /\ o \in Nat /\ f \in {0, 1}
      BY <2>1
    <3> HIDE DEF a, b, f, o
    <3>2. a + read - b = f + (read - o)
      BY <1>1, <3>1
    <3> QED BY <3>2 DEF a, b, f, o
  <2>3. ASSUME i > 1 PROVE Closing(session[i - 1]) <=> ~KeepsOpen(y.msgs[i - 1])
    <3>1. i - 1 \in DOMAIN session
      BY <1>2, <2>1, <2>3
    <3> QED BY <1>1, <3>1, RequestAt
  <2>4. ~HeadFits(i) /\ Carried(i) + read - Begin(i) > HTTP_MAX_HEADER_SIZE
                <=> ~Fits(y, i) /\ Carry(y, i) + (read - y.off[i]) > HTTP_MAX_HEADER_SIZE
    BY <2>1, <2>2
  <2>5. i > 1 /\ Closing(session[i - 1]) /\ read > Begin(i)
                <=> i > 1 /\ ~KeepsOpen(y.msgs[i - 1]) /\ read > y.off[i]
    BY <2>1, <2>3
  <2> QED BY <2>4, <2>5
<1> QED BY <1>1, <1>2, <1>3 DEF Blame

(* Where the parser is in the stream decides whether it has failed.        *)
LEMMA LimitKept == ServerInv /\ PlaceInv => HeaderLimit
<1> SUFFICES ASSUME ServerInv, PlaceInv, http.error \/ buffer = <<>>
             PROVE  http.error <=> \E i \in DOMAIN session :
                      \/ ~HeadFits(i) /\ Carried(i) + read - Begin(i) > HTTP_MAX_HEADER_SIZE
                      \/ i > 1 /\ Closing(session[i - 1]) /\ read > Begin(i)
  BY DEF HeaderLimit
<1>1. ParserInv /\ session \in Sessions
  BY DEF ServerInv, ParserInv
<1>2. PICK y : IsWire(session, y)
  BY <1>1, SessionWire
<1>3. Blame(y, read) <=> \E i \in DOMAIN session :
        \/ ~HeadFits(i) /\ Carried(i) + read - Begin(i) > HTTP_MAX_HEADER_SIZE
        \/ i > 1 /\ Closing(session[i - 1]) /\ read > Begin(i)
  BY <1>1, <1>2, ReasonsNamed
<1>4. http.error => Blame(y, read)
  BY <1>2 DEF PlaceInv
<1>5. ASSUME ~http.error PROVE ~Blame(y, read)
  <2>1. ~Blame(y, Parsed)
    BY <1>2, <1>5 DEF PlaceInv
  <2>2. read \in Nat /\ buffer = <<>>
    <3>1. Len(Wire[session]) \in Nat
      BY <1>1, WiresAreBytes, LenProperties
    <3> QED BY <1>1, <1>5, <3>1 DEF ParserInv
  <2>3. Parsed = read
    <3>1. Len(<<>>) = 0
      OBVIOUS
    <3>2. Len(buffer) = 0
      BY <2>2, <3>1
    <3> QED BY <2>2, <3>2 DEF Parsed
  <2> QED BY <2>1, <2>3
<1>6. http.error \in BOOLEAN
  BY <1>1 DEF ParserInv, AtRest, IsParser
<1> QED BY <1>3, <1>4, <1>5, <1>6

(* http_parser.c:143: for every set of sessions, every cut of their bytes  *)
(* and every limit, the parser has failed if and only if more of one head  *)
(* has arrived than the limit allows, or a byte behind a request that      *)
(* closes the connection.                                                  *)
THEOREM ExactLimit == Spec => []HeaderLimit
BY PlaceInductive, LimitKept, PTL

------------------------------------------------------------------------------
(* How far a read event brings the parser.                                 *)
LEMMA ReadMoves ==
  ASSUME ParserInv, PlaceInv, NEW n \in 1..(Len(Wire[session]) - read), OnMessage(n),
         NEW y, IsWire(session, y)
  PROVE  LET parsed == Execute(http, buffer \o SubSeq(Wire[session], read + 1, read'))
         IN  /\ http' = Idle(parsed) \/ http' = ResetMessage(Idle(parsed))
             /\ http'.error = parsed.error /\ parsed.error \in BOOLEAN
             /\ ~parsed.error => Parsed' = Parsed + parsed.used
<1> DEFINE parsed == Execute(http, buffer \o SubSeq(Wire[session], read + 1, read'))
<1>1. /\ OnFailure(parsed) \/ OnIncomplete(parsed) \/ OnRequest(parsed)
      /\ Parsed \in Nat /\ read' \in Nat
      /\ AtRest(Idle(parsed)) /\ IsParser(parsed)
      /\ ~parsed.error => /\ parsed.used \in 1..(read' - Parsed)
                          /\ Len(buffer') = read' - (Parsed + parsed.used)
  BY ReadPlaces
<1> HIDE DEF parsed
<1>2. http' = Idle(parsed) \/ http' = ResetMessage(Idle(parsed))
  BY <1>1 DEF OnFailure, OnIncomplete, OnRequest
<1>3. http'.error = parsed.error
  <2> DEFINE i == Idle(parsed)
  <2>1. IsParser(i) /\ i.error = parsed.error
    BY <1>1 DEF Idle, IsParser, Fields
  <2>2. http' = i \/ http' = ResetMessage(i)
    BY <1>2
  <2> HIDE DEF i
  <2>3. ResetMessage(i).error = i.error
    BY <2>1 DEF ResetMessage, IsParser, Fields
  <2> QED BY <2>1, <2>2, <2>3
<1>4. ASSUME ~parsed.error PROVE Parsed' = Parsed + parsed.used
  <2> DEFINE u == parsed.used
             c == Parsed
             z == read'
             b == Len(buffer')
  <2>1. Parsed' = z - b
    BY DEF Parsed
  <2>2. u \in 1..(z - c) /\ c \in Nat /\ z \in Nat /\ b = z - (c + u)
    BY <1>1, <1>4
  <2> HIDE DEF u, c, z, b
  <2>3. Parsed' = c + u
    BY ONLY <2>1, <2>2
  <2> QED BY <2>3 DEF u, c
<1>5. parsed.error \in BOOLEAN
  BY <1>1 DEF IsParser
<1> QED BY <1>2, <1>3, <1>4, <1>5 DEF parsed

(* No read event in which the parser takes up a byte behind a request that *)
(* closes the connection is answered.                                      *)
LEMMA ClosedForGood ==
  ASSUME ServerInv, PlaceInv, NEW n \in 1..(Len(Wire[session]) - read), OnMessage(n),
         NEW i \in DOMAIN session, Closing(session[i]), Ends[session][i] < TakenUp'
  PROVE  answers' = answers
<1>1. ParserInv /\ session \in Sessions
  BY DEF ServerInv, ParserInv
<1>2. PICK y : IsWire(session, y)
  BY <1>1, SessionWire
<1> DEFINE parsed == Execute(http, buffer \o SubSeq(Wire[session], read + 1, read'))
           c == Parsed
           d == read'
           o == y.off[i + 1]
           s == Len(session)
<1>3. /\ OnFailure(parsed) \/ OnIncomplete(parsed) \/ OnRequest(parsed)
      /\ c \in Nat /\ d \in Nat /\ c < d /\ d <= Len(y.wire) /\ Stream(y)
      /\ ~parsed.error => parsed.used \in 1..(d - c) /\ ~Blame(y, c + parsed.used)
  BY <1>1, <1>2, ReadPlaces
<1>4. i \in 1..s /\ s \in Nat /\ Ends[session][i] = o /\ ~KeepsOpen(session[i])
  BY <1>1, <1>2, RequestAt
<1>5. y.msgs = session /\ y.off[s + 1] = Len(y.wire)
  BY <1>2, <1>3 DEF IsWire, Stream
<1>6. o \in Nat
  <2>1. i + 1 \in 1..(Len(y.msgs) + 1)
    BY <1>4, <1>5
  <2> QED BY <1>3, <2>1 DEF Stream
<1>7. http'.error = parsed.error /\ (~parsed.error => Parsed' = c + parsed.used)
  BY <1>1, <1>2, ReadMoves
<1> HIDE DEF parsed
<1>8. CASE parsed.error
  BY <1>3, <1>8 DEF OnFailure, OnIncomplete, OnRequest
<1>9. CASE ~parsed.error
  <2> DEFINE u == parsed.used
             p == c + u
             z == Len(y.wire)
  <2>1. u \in 1..(d - c) /\ ~Blame(y, p)
    BY <1>3, <1>9
  <2>2. TakenUp' = p
    BY <1>7, <1>9 DEF TakenUp, Parsed
  <2>3. o < p
    BY <1>4, <2>2
  <2>4. p <= z
    <3>1. u \in 1..(d - c) /\ c \in Nat /\ d \in Nat /\ d <= z /\ z \in Nat
      BY <1>2, <1>3, <1>5, <2>1, LenProperties DEF IsWire, Stream
    <3> HIDE DEF c, d, u, z
    <3> QED BY <3>1
  <2>5. p \in Nat
    <3>1. u \in 1..(d - c) /\ c \in Nat /\ d \in Nat
      BY <1>3, <2>1
    <3> HIDE DEF c, d, u
    <3> QED BY <3>1
  <2>6. CASE i = s
    <3>1. o = z
      BY <1>5, <2>6
    <3> HIDE DEF p, z, o
    <3> QED BY <1>6, <2>3, <2>4, <2>5, <3>1
  <2>7. CASE i # s
    <3> DEFINE i1 == i + 1
    <3>1. i1 \in 1..s /\ i1 > 1 /\ i1 - 1 = i
      BY <1>4, <2>7
    <3>2. p > y.off[i1]
      <4> HIDE DEF p
      <4>1. o = y.off[i1]
        OBVIOUS
      <4> HIDE DEF o, i1
      <4> QED BY <1>6, <2>3, <2>5, <4>1
    <3> HIDE DEF i1, p
    <3>3. Blame(y, p)
      BY <1>4, <1>5, <3>1, <3>2 DEF Blame
    <3> QED BY <2>1, <3>3
  <2> QED BY <2>6, <2>7
<1> QED BY <1>8, <1>9

(* The step of the property.                                               *)
LEMMA StepAfterClose ==
  ServerInv /\ PlaceInv /\ [Next]_vars =>
    [\A i \in DOMAIN session :
       Closing(session[i]) /\ Ends[session][i] < TakenUp' => answers' = answers]_vars
<1> SUFFICES ASSUME ServerInv, PlaceInv, [Next]_vars, NEW i \in DOMAIN session,
                    Closing(session[i]), Ends[session][i] < TakenUp'
             PROVE  answers' = answers
  OBVIOUS
<1>1. CASE \E n \in 1..(Len(Wire[session]) - read) : OnMessage(n)
  BY <1>1, ClosedForGood
<1>2. CASE PeerCloses
  BY <1>2 DEF PeerCloses
<1>3. CASE UNCHANGED vars
  BY <1>3 DEF vars
<1> QED BY <1>1, <1>2, <1>3 DEF Next

(* http_parser.c:722: for every set of sessions and every cut of their     *)
(* bytes, a read event in which the parser takes up anything behind a      *)
(* request that closes the connection is not answered.                     *)
THEOREM NothingHandledAfterClose == Spec => NothingAfterClose
<1>1. Spec => [][\A i \in DOMAIN session :
        Closing(session[i]) /\ Ends[session][i] < TakenUp' => answers' = answers]_vars
  BY PlaceInductive, StepAfterClose, PTL DEF Spec
<1> QED BY <1>1 DEF NothingAfterClose

(* No more requests are handled than have ended.                           *)
CountInv ==
  \A y : IsWire(session, y) =>
    /\ Len(answers) \in 0..Len(session)
    /\ ~http.error => y.off[Len(answers) + 1] <= Parsed

LEMMA CountStart == Init => CountInv
<1> SUFFICES ASSUME Init, NEW y, IsWire(session, y)
             PROVE  /\ Len(answers) \in 0..Len(session)
                    /\ ~http.error => y.off[Len(answers) + 1] <= Parsed
  BY DEF CountInv
<1>1. session \in Sessions /\ read = 0 /\ buffer = <<>> /\ answers = <<>>
  BY DEF Init
<1>2. Len(<<>>) = 0
  OBVIOUS
<1>3. Len(answers) = 0 /\ Len(buffer) = 0
  BY <1>1, <1>2
<1>4. Parsed = 0
  <2>1. Parsed = 0 - 0
    BY <1>1, <1>3 DEF Parsed
  <2> QED BY <2>1
<1>5. y.off[1] = 0
  BY DEF IsWire, Stream
<1>6. y.off[Len(answers) + 1] <= Parsed
  <2>1. Len(answers) + 1 = 1
    BY <1>3
  <2> QED BY <1>4, <1>5, <2>1
<1>7. Len(session) \in Nat
  BY <1>1, SessionsAreRequests, LenProperties
<1> QED BY <1>3, <1>6, <1>7

LEMMA CountStep == ServerInv /\ PlaceInv /\ CountInv /\ [Next]_vars => CountInv'
<1> SUFFICES ASSUME ServerInv, PlaceInv, CountInv, [Next]_vars PROVE CountInv'
  OBVIOUS
<1>1. CASE \E n \in 1..(Len(Wire[session]) - read) : OnMessage(n)
  <2>1. PICK n \in 1..(Len(Wire[session]) - read) : OnMessage(n)
    BY <1>1
  <2> DEFINE parsed == Execute(http, buffer \o SubSeq(Wire[session], read + 1, read'))
  <2>2. ASSUME NEW y, IsWire(session, y)
        PROVE  /\ Len(answers') \in 0..Len(session)
               /\ ~http'.error => y.off[Len(answers') + 1] <= Parsed'
    <3> DEFINE k == Len(answers)
               s == Len(session)
               c == Parsed
               u == parsed.used
    <3>1. ParserInv /\ k \in Nat /\ k \in 0..s /\ s \in Nat
      <4>1. ParserInv /\ k \in Nat
        BY DEF ServerInv, ResponseInv
      <4>2. Len(session) \in Nat
        BY <4>1, SessionsAreRequests, LenProperties DEF ParserInv
      <4> QED BY <2>2, <4>1, <4>2 DEF CountInv
    <3>2. /\ OnFailure(parsed) \/ OnIncomplete(parsed) \/ OnRequest(parsed)
          /\ c \in Nat /\ http.error = FALSE /\ Stream(y)
          /\ ~parsed.error => u \in 1..(read' - c) /\ (parsed.complete => EndsIn(y, c, c + u))
      BY <2>1, <2>2, <3>1, ReadPlaces
    <3>3. http'.error = parsed.error /\ parsed.error \in BOOLEAN /\ (~parsed.error => Parsed' = c + u)
      BY <2>1, <2>2, <3>1, ReadMoves
    <3> HIDE DEF parsed
    <3>4. y.off[k + 1] <= c /\ y.msgs = session
      BY <2>2, <3>2 DEF CountInv, IsWire
    <3>5. /\ \A i \in 1..(s + 1) : y.off[i] \in Nat
          /\ \A i, j \in 1..(s + 1) : i <= j => y.off[i] <= y.off[j]
      BY <3>2, <3>4 DEF Stream
    <3>6. CASE answers' = answers
      <4> DEFINE o == y.off[k + 1]
      <4>1. o \in Nat /\ o <= c
        <5>1. k + 1 \in 1..(s + 1)
          BY <3>1
        <5> QED BY <3>4, <3>5, <5>1
      <4>2. ASSUME ~http'.error PROVE o <= Parsed'
        <5>1. u \in 1..(read' - c) /\ Parsed' = c + u
          BY <3>2, <3>3, <4>2
        <5> HIDE DEF o, u, c
        <5>2. u \in Int /\ u >= 1
          BY <5>1
        <5>3. c \in Nat
          BY <3>2
        <5> QED BY ONLY <4>1, <5>1, <5>2, <5>3
      <4> QED BY <3>1, <3>6, <4>2
    <3>7. CASE OnRequest(parsed)
      <4>1. ~parsed.error /\ parsed.complete
            /\ answers' = Append(answers, [request |-> parsed.message,
                             response |-> Handle(parsed.message, Acknowledge(parsed.message, response))])
        BY <3>7 DEF OnRequest
      <4>2. Len(answers') = k + 1
        <5> DEFINE a == [request |-> parsed.message,
                         response |-> Handle(parsed.message, Acknowledge(parsed.message, response))]
        <5>1. answers = [j \in 1..k |-> answers[j]] /\ k \in Nat
          BY DEF ServerInv, ResponseInv
        <5>2. answers \in Seq({answers[j] : j \in 1..k} \cup {a})
          BY <5>1
        <5> HIDE DEF a
        <5>3. Len(Append(answers, a)) = Len(answers) + 1
          BY <5>2, AppendProperties
        <5> QED BY <4>1, <5>3 DEF a
      <4>3. PICK i \in 1..(s + 1) : i > 1 /\ c < y.off[i] /\ y.off[i] <= c + u
        BY <3>2, <3>4, <4>1 DEF EndsIn
      <4>4. i > k + 1
        <5> SUFFICES ASSUME i <= k + 1 PROVE FALSE
          BY <3>1
        <5> DEFINE k1 == k + 1
        <5>1. k1 \in 1..(s + 1) /\ i <= k1
          BY <3>1
        <5> DEFINE x == y.off[i]
                   w == y.off[k1]
        <5>2. x <= w /\ x \in Nat /\ w \in Nat /\ w <= c /\ c < x
          BY <3>4, <3>5, <4>3, <5>1
        <5> HIDE DEF x, w, c
        <5> QED BY <3>2, <5>2
      <4>5. /\ k + 1 \in 0..s /\ (k + 1) + 1 \in 1..(s + 1) /\ (k + 1) + 1 <= i
        BY <3>1, <4>4
      <4> DEFINE k2 == (k + 1) + 1
                 a == y.off[k2]
                 b == y.off[i]
                 e == c + u
      <4>6. a <= b /\ b <= e /\ a \in Nat /\ b \in Nat
        BY <3>5, <4>3, <4>5
      <4>7. e \in Nat
        <5>1. u \in 1..(read' - c) /\ c \in Nat
          BY <3>2, <4>1
        <5> HIDE DEF u, c
        <5>2. u \in Nat
          BY <5>1
        <5> QED BY <5>1, <5>2 DEF e
      <4> HIDE DEF a, b, e
      <4>8. a <= e
        BY <4>6, <4>7
      <4>9. y.off[k2] <= Parsed'
        BY <3>3, <4>1, <4>8 DEF a, e
      <4> HIDE DEF k2
      <4>10. Len(answers') + 1 = k2
        BY <4>2 DEF k2
      <4> QED BY <4>2, <4>5, <4>9, <4>10
    <3>8. OnFailure(parsed) \/ OnIncomplete(parsed) => answers' = answers
      BY DEF OnFailure, OnIncomplete
    <3> QED BY <3>2, <3>6, <3>7, <3>8
  <2>3. session' = session
    BY <2>1 DEF OnMessage
  <2>4. \A y : IsWire(session, y)' <=> IsWire(session, y)
    BY <2>3 DEF IsWire
  <2> QED BY <2>2, <2>3, <2>4 DEF CountInv
<1>2. CASE PeerCloses
  BY <1>2 DEF PeerCloses, CountInv, Parsed, IsWire
<1>3. CASE UNCHANGED vars
  BY <1>3 DEF vars, CountInv, Parsed, IsWire
<1> QED BY <1>1, <1>2, <1>3 DEF Next

------------------------------------------------------------------------------
(* What the property calls the requests that are to be handled.            *)
LEMMA HandledIsDone ==
  ASSUME session \in Sessions, NEW y, IsWire(session, y)
  PROVE  Handled = Done(y, read)
<1>1. /\ DOMAIN session = 1..Len(session) /\ Len(session) \in Nat /\ y.msgs = session
  <2>1. session \in Seq(Range(session))
    BY SessionsAreRequests
  <2> QED BY <2>1, LenProperties DEF IsWire
<1>2. ASSUME NEW i \in 1..Len(session)
      PROVE  /\ Ends[session][i] = y.off[i + 1]
             /\ HeadFits(i) <=> Fits(y, i)
             /\ Closing(session[i]) <=> ~KeepsOpen(session[i])
             /\ session[i].coding # "eof"
  BY <1>1, RequestAt DEF IsRequest
<1>3. ASSUME NEW i \in 1..Len(session)
      PROVE  i \in Handled <=> i \in Done(y, read)
  <2>1. (\A j \in 1..i : j \in 1..Len(session)) /\ (\A j \in 1..(i - 1) : j \in 1..Len(session))
    BY <1>1
  <2>2. i \in Arrived <=> y.off[i + 1] <= read
    BY <1>1, <1>2 DEF Arrived
  <2>3. (\A j \in 1..i : HeadFits(j)) <=> (\A j \in 1..i : Fits(y, j))
    BY <1>2, <2>1
  <2>4. (\A j \in 1..(i - 1) : ~Closing(session[j])) <=> (\A j \in 1..(i - 1) : KeepsOpen(y.msgs[j]))
    BY <1>1, <1>2, <2>1
  <2> QED BY <1>1, <1>2, <2>2, <2>3, <2>4 DEF Handled, Done
<1>4. Handled \subseteq 1..Len(session)
  BY <1>1 DEF Handled, Arrived
<1>5. Done(y, read) \subseteq 1..Len(session)
  BY <1>1 DEF Done
<1> QED BY <1>3, <1>4, <1>5

------------------------------------------------------------------------------
(* While no read has ended in a string or held bytes of two requests, the  *)
(* parser is exactly at the last byte that has arrived, and the requests   *)
(* that have ended are handled as they were sent.                          *)
ExactInv ==
  whole /\ alone => \A y : IsWire(session, y) =>
    /\ \A j \in 1..Len(session) : Len(session[j].body) <= 1
    /\ ~http.error => buffer = <<>> /\ Place(TRUE, Resume(http), y, read)
    /\ Done(y, read) = 1..Len(answers)
    /\ \A i \in 1..Len(answers) : answers[i].request = RequestOf(session[i])

LEMMA ExactStart == Init => ExactInv
<1> SUFFICES ASSUME Init, whole, NEW y, IsWire(session, y)
             PROVE  /\ \A j \in 1..Len(session) : Len(session[j].body) <= 1
                    /\ ~http.error => buffer = <<>> /\ Place(TRUE, Resume(http), y, read)
                    /\ Done(y, read) = 1..Len(answers)
                    /\ \A i \in 1..Len(answers) : answers[i].request = RequestOf(session[i])
  BY DEF ExactInv
<1>1. session \in Sessions /\ read = 0 /\ buffer = <<>> /\ answers = <<>> /\ http = NewParser("request")
      /\ whole = \A j \in DOMAIN session : Len(session[j].body) <= 1
  BY DEF Init
<1>2. Len(answers) = 0
  <2>1. Len(<<>>) = 0
    OBVIOUS
  <2> QED BY <1>1, <2>1
<1>3. \A j \in 1..Len(session) : Len(session[j].body) <= 1
  <2>1. DOMAIN session = 1..Len(session)
    BY <1>1, SessionsAreRequests, LenProperties
  <2> QED BY <1>1, <2>1
<1>4. Place(TRUE, Resume(http), y, 0) /\ Done(y, 0) = 1..0
  <2>1. Stream(y) /\ http = NewParser(y.type)
    BY <1>1 DEF IsWire
  <2> QED BY <2>1, NothingDone
<1>5. \A i \in 1..Len(answers) : answers[i].request = RequestOf(session[i])
  BY <1>2
<1> QED BY <1>1, <1>2, <1>3, <1>4, <1>5

------------------------------------------------------------------------------
(* A read event that cuts no string and holds bytes of one request.        *)
LEMMA ExactRead ==
  ASSUME ServerInv, PlaceInv, CountInv, ExactInv,
         NEW n \in 1..(Len(Wire[session]) - read), OnMessage(n), whole', alone',
         NEW y, IsWire(session, y)
  PROVE  /\ \A j \in 1..Len(session) : Len(session[j].body) <= 1
         /\ ~http'.error => buffer' = <<>> /\ Place(TRUE, Resume(http'), y, read')
         /\ Done(y, read') = 1..Len(answers')
         /\ \A i \in 1..Len(answers') : answers'[i].request = RequestOf(session[i])
<1> DEFINE parsed == Execute(http, buffer \o SubSeq(Wire[session], read + 1, read'))
           c == read
           d == read'
           k == Len(answers)
           q == Idle(parsed)
<1>1. /\ whole /\ alone /\ d \notin Cuts[session]
      /\ \A e \in Range(Ends[session]) : ~(c < e /\ e < d)
      /\ session' = session
  BY DEF OnMessage
<1>2. /\ ParserInv /\ session \in Sessions /\ k \in Nat
      /\ answers = [j \in 1..k |-> answers[j]]
  BY DEF ServerInv, ParserInv, ResponseInv
<1>3. /\ OnFailure(parsed) \/ OnIncomplete(parsed) \/ OnRequest(parsed)
      /\ Parsed \in Nat /\ d \in Nat /\ Parsed < d
      /\ buffer \o SubSeq(Wire[session], read + 1, read') = SubSeq(y.wire, Parsed + 1, d)
      /\ AtRest(http) /\ http.error = FALSE /\ http.complete = FALSE /\ Stream(y) /\ d <= Len(y.wire)
      /\ AtRest(Idle(parsed)) /\ IsParser(parsed)
      /\ ~parsed.error => Len(buffer') = d - (Parsed + parsed.used)
                          /\ buffer' = SubSeq(Wire[session], (Parsed + parsed.used) + 1, d)
  BY <1>2, ReadPlaces
<1>4. /\ \A j \in 1..Len(session) : Len(session[j].body) <= 1
      /\ buffer = <<>> /\ Place(TRUE, Resume(http), y, c)
      /\ Done(y, c) = 1..k
      /\ \A i \in 1..k : answers[i].request = RequestOf(session[i])
  BY <1>1, <1>3 DEF ExactInv
<1>5. Parsed = c /\ c \in Nat /\ c < d
  <2>1. Len(<<>>) = 0
    OBVIOUS
  <2>2. Len(buffer) = 0
    BY <1>4, <2>1
  <2>3. Len(Wire[session]) \in Nat
    BY <1>2, WiresAreBytes, LenProperties
  <2>4. c \in Nat
    BY <1>2, <2>3 DEF ParserInv
  <2>5. Parsed = c - 0
    BY <2>2 DEF Parsed
  <2> QED BY <1>3, <2>4, <2>5
<1>6. y.msgs = session /\ y.type = "request" /\ DOMAIN Ends[session] = 1..Len(session)
      /\ \A i \in 1..Len(session) : y.off[i + 1] = Ends[session][i]
  BY <1>2, SessionBytes DEF IsWire
<1>7. Undivided(TRUE, y, c, d)
  <2>1. \A i \in 1..Len(y.msgs) : ~(c < y.off[i + 1] /\ y.off[i + 1] < d)
    BY <1>1, <1>6 DEF Range
  <2>2. \A j \in 1..Len(y.msgs) : Len(y.msgs[j].body) <= 1
    BY <1>4, <1>6
  <2> QED BY <1>3, <1>5, <2>1, <2>2, OneMessage
<1>8. Uncut(y, d)
  BY <1>1, <1>2, <1>3, SessionUncut
<1>9. /\ IsParser(q) /\ q.complete = parsed.complete /\ q.message = parsed.message
      /\ parsed.complete \in BOOLEAN
  BY <1>3 DEF Idle, IsParser, Fields
<1>10. /\ ~parsed.error => parsed.used = d - c
       /\ parsed.error => Done(y, d) = 1..k
       /\ ~parsed.error /\ parsed.complete = FALSE =>
            Done(y, d) = 1..k /\ Place(TRUE, Resume(q), y, d)
       /\ ~parsed.error /\ parsed.complete = TRUE =>
            /\ Done(y, d) = 1..(k + 1) /\ k + 1 \in 1..Len(y.msgs)
            /\ q.message = MessageOf(y.type, y.msgs[k + 1])
            /\ Place(TRUE, Resume(ResetMessage(q)), y, d)
  <2>1. parsed = Execute(http, SubSeq(y.wire, c + 1, d))
    BY <1>3, <1>5
  <2>2. IsParser(Idle(parsed)) /\ Idle(parsed).complete = parsed.complete
    BY <1>9
  <2>3. /\ Stream(y) /\ c \in Nat /\ d \in Nat /\ c < d /\ d <= Len(y.wire) /\ k \in Nat
        /\ AtRest(http) /\ http.error = FALSE /\ http.complete = FALSE
        /\ Place(TRUE, Resume(http), y, c) /\ Done(y, c) = 1..k
    BY <1>2, <1>3, <1>4, <1>5
  <2> HIDE DEF parsed, c, d, k
  <2>4. Called(y, c, d, k, parsed)
    BY ONLY <1>7, <1>8, <2>1, <2>2, <2>3, CallDone
  <2> QED BY <2>4 DEF q, Called
<1>11. http'.error = parsed.error /\ parsed.error \in BOOLEAN
  BY <1>2, ReadMoves
<1> HIDE DEF parsed, c, d, q
<1>12. ASSUME ~parsed.error PROVE buffer' = <<>>
  <2> DEFINE u == parsed.used
             b == Len(buffer')
  <2>1. u = d - c /\ b = d - (c + u) /\ buffer' = SubSeq(Wire[session], (c + u) + 1, d)
    BY <1>3, <1>5, <1>10, <1>12
  <2> HIDE DEF u, b
  <2>2. c + u = d
    BY <1>3, <1>5, <2>1
  <2>3. Wire[session] \in Seq(STRING)
    BY <1>2, WiresAreBytes
  <2>4. SubSeq(Wire[session], d + 1, d) = <<>>
    BY <1>3, <2>3, SubSeqEmpty
  <2> QED BY <2>1, <2>2, <2>4
<1>13. CASE parsed.error
  <2>1. answers' = answers
    BY <1>3, <1>13 DEF OnFailure, OnIncomplete, OnRequest
  <2> QED BY <1>4, <1>10, <1>11, <1>13, <2>1 DEF d
<1>14. CASE ~parsed.error /\ parsed.complete = TRUE
  <2>1. OnRequest(parsed)
    BY <1>3, <1>14 DEF OnFailure, OnIncomplete
  <2> DEFINE a == [request |-> parsed.message,
                   response |-> Handle(parsed.message, Acknowledge(parsed.message, response))]
  <2>2. answers' = Append(answers, a) /\ http' = ResetMessage(q)
    BY <2>1 DEF OnRequest, q
  <2>3. a.request = RequestOf(session[k + 1])
    BY <1>6, <1>9, <1>10, <1>14 DEF MessageOf
  <2> HIDE DEF a
  <2>4. /\ Len(answers') = k + 1 /\ answers'[k + 1] = a
        /\ \A j \in 1..k : answers'[j] = answers[j]
    BY <1>2, <2>2, Appended
  <2>5. \A j \in 1..(k + 1) : answers'[j].request = RequestOf(session[j])
    <3>1. \A j \in 1..(k + 1) : j \in 1..k \/ j = k + 1
      BY <1>2
    <3> HIDE DEF k
    <3> QED BY <1>4, <2>3, <2>4, <3>1 DEF k
  <2> QED BY <1>4, <1>10, <1>12, <1>14, <2>2, <2>4, <2>5 DEF d
<1>15. CASE ~parsed.error /\ parsed.complete = FALSE
  <2>1. answers' = answers /\ http' = q
    BY <1>3, <1>15 DEF OnFailure, OnIncomplete, OnRequest, q
  <2> QED BY <1>4, <1>10, <1>12, <1>15, <2>1 DEF d
<1> QED BY <1>9, <1>11, <1>13, <1>14, <1>15

------------------------------------------------------------------------------
LEMMA ExactStep ==
  ServerInv /\ PlaceInv /\ CountInv /\ ExactInv /\ [Next]_vars => ExactInv'
<1> SUFFICES ASSUME ServerInv, PlaceInv, CountInv, ExactInv, [Next]_vars PROVE ExactInv'
  OBVIOUS
<1>1. CASE \E n \in 1..(Len(Wire[session]) - read) : OnMessage(n)
  <2>1. PICK n \in 1..(Len(Wire[session]) - read) : OnMessage(n)
    BY <1>1
  <2>2. ASSUME whole', alone', NEW y, IsWire(session, y)
        PROVE  /\ \A j \in 1..Len(session) : Len(session[j].body) <= 1
               /\ ~http'.error => buffer' = <<>> /\ Place(TRUE, Resume(http'), y, read')
               /\ Done(y, read') = 1..Len(answers')
               /\ \A i \in 1..Len(answers') : answers'[i].request = RequestOf(session[i])
    BY <2>1, <2>2, ExactRead
  <2>3. session' = session
    BY <2>1 DEF OnMessage
  <2>4. \A y : IsWire(session, y)' <=> IsWire(session, y)
    BY <2>3 DEF IsWire
  <2> QED BY <2>2, <2>3, <2>4 DEF ExactInv
<1>2. CASE PeerCloses
  BY <1>2 DEF PeerCloses, ExactInv, IsWire
<1>3. CASE UNCHANGED vars
  BY <1>3 DEF vars, ExactInv, IsWire
<1> QED BY <1>1, <1>2, <1>3 DEF Next

(* All four layers hold together.                                          *)
LEMMA ExactInductive == Spec => [](ServerInv /\ CountInv /\ ExactInv)
<1>1. Init => ServerInv /\ PlaceInv /\ CountInv /\ ExactInv
  BY ServerStart, PlaceStart, CountStart, ExactStart
<1>2. (ServerInv /\ PlaceInv /\ CountInv /\ ExactInv) /\ [Next]_vars
        => (ServerInv /\ PlaceInv /\ CountInv /\ ExactInv)'
  BY ServerStep, PlaceStep, CountStep, ExactStep DEF ServerInv
<1> QED BY <1>1, <1>2, PTL DEF Spec

LEMMA SentIsHandled == ServerInv /\ CountInv /\ ExactInv => RequestsAsSent
<1> SUFFICES ASSUME ServerInv, CountInv, ExactInv PROVE RequestsAsSent
  OBVIOUS
<1>1. session \in Sessions /\ Len(answers) \in Nat /\ answers = [j \in 1..Len(answers) |-> answers[j]]
  BY DEF ServerInv, ParserInv, ResponseInv
<1>2. PICK y : IsWire(session, y)
  BY <1>1, SessionWire
<1>3. Len(answers) <= Len(session)
  <2>1. Len(answers) \in 0..Len(session)
    BY <1>2 DEF CountInv
  <2>2. Len(session) \in Nat
    BY <1>1, SessionsAreRequests, LenProperties
  <2> QED BY <2>1, <2>2
<1>4. ASSUME whole, alone
      PROVE  /\ Len(answers) = Cardinality(Handled)
             /\ \A i \in DOMAIN answers : answers[i].request = RequestOf(session[i])
  <2>1. /\ Done(y, read) = 1..Len(answers)
        /\ \A i \in 1..Len(answers) : answers[i].request = RequestOf(session[i])
    BY <1>2, <1>4 DEF ExactInv
  <2>2. Handled = 1..Len(answers)
    BY <1>1, <1>2, <2>1, HandledIsDone
  <2> DEFINE k == Len(answers)
  <2>3. Cardinality(1..k) = k
    <3>1. k \in Nat
      BY <1>1
    <3> HIDE DEF k
    <3>2. Cardinality(1..k) = IF 1 > k THEN 0 ELSE k - 1 + 1
      BY <3>1, FS_Interval
    <3> QED BY <3>1, <3>2
  <2>4. DOMAIN answers = 1..k
    BY <1>1
  <2> QED BY <2>1, <2>2, <2>3, <2>4
<1> QED BY <1>3, <1>4 DEF RequestsAsSent

(* For every set of sessions, every registered URL and every limit: the    *)
(* server handles no more requests than were sent, and, while no read ends *)
(* in a string or brings bytes of two requests, exactly those that were    *)
(* sent, in order, up to the first that closes the connection or whose     *)
(* head is too long.                                                       *)
THEOREM ExactRequests == Spec => []RequestsAsSent
BY ExactInductive, SentIsHandled, PTL
==============================================================================
