------------------------------ MODULE HttpServer ------------------------------
(***************************************************************************)
(* One connection of an HttpServer: its HttpContext, that is a request     *)
(* parser and a response message that live as long as the connection, and  *)
(* the application's callbacks.                                            *)
(***************************************************************************)
EXTENDS HttpStream

CONSTANTS
  Sessions,               \* sequences of requests a peer may send
  GetBodies, PostBodies   \* getRequestCbs_, postRequestCbs_: URL |-> its body

VARIABLES
  session,                \* the requests this peer sends
  cb,                     \* cb_: is there a callback for the other URLs?
  read,                   \* bytes that have arrived
  buffer,                 \* what the parser has left in the input Buffer
  http,                   \* the request parser and its message
  response,               \* the HttpResponse of the context
  conn,                   \* "open" or "closed"
  answers,                \* history: requests handled, responses packaged
  whole,                  \* history: no read ended inside a string
  alone                   \* history: no read held bytes of two requests

vars == <<session, cb, read, buffer, http, response, conn, answers, whole, alone>>

Wire    == [s \in Sessions |-> Bytes(AllParts(s, RequestParts))]
Cuts    == [s \in Sessions |-> Harmful(AllParts(s, RequestParts))]
Ends    == [s \in Sessions |->
             [i \in DOMAIN s |-> Len(Bytes(AllParts(SubSeq(s, 1, i), RequestParts)))]]

ASSUME WiresAreBytes == \A s \in Sessions : Wire[s] \in Seq(STRING)

ASSUME SessionsAreRequests ==
  \A s \in Sessions : s \in Seq(Range(s)) /\ \A i \in DOMAIN s : IsRequest(s[i])

(* The version and the status of a new HttpResponse are indeterminate: two *)
(* outcomes, of which a client can read one.                               *)
Indeterminate == {<<"HTTP/1.1", "200">>, <<"garbage", "404">>}

------------------------------------------------------------------------------
(* The response.                                                           *)

AppendHeader(res, name, value) == [res EXCEPT !.headers = WithHeader(@, name, value)]

Requested(req) ==
  IF Connection \in DOMAIN req.headers THEN req.headers[Connection] ELSE <<>>

Acknowledge(req, res) ==
  AppendHeader(res, Connection,
               IF Requested(req) # <<>> THEN Requested(req) ELSE <<"Keep-Alive">>)

Registered(req) ==
  \/ req.method = "GET" /\ req.url \in DOMAIN GetBodies
  \/ req.method = "POST" /\ req.url \in DOMAIN PostBodies

(* A registered callback is given a second HttpResponse, named res as the  *)
(* one that is packaged, which is lost.                                    *)
OnRegistered(res) == res

(* The callback of test_http_server.cc: a page about the request.          *)
OnOther(req, res) ==
  AppendHeader([res EXCEPT !.status = "200", !.body = <<"page">> \o req.url \o req.body],
               <<"content-type">>, <<"text/html">>)

Refuse(res, status) ==
  AppendHeader([res EXCEPT !.status = status], Connection, <<"Close">>)

Handle(req, res) ==
  CASE req.method \notin {"GET", "POST"}                 -> Refuse(res, "501")
    [] req.method \in {"GET", "POST"} /\ Registered(req) -> OnRegistered(res)
    [] OTHER -> IF cb THEN OnOther(req, res) ELSE Refuse(res, "404")

(* Mutant: only the message that was parsed is reset.                      *)
KeepResponse(res) == res

(* HttpContext::reset, the response's part.                                *)
ResetResponse(res) == [res EXCEPT !.headers = NoHeaders, !.body = <<>>]

------------------------------------------------------------------------------
(* onConnection.                                                           *)
Init ==
  /\ session \in Sessions
  /\ cb \in BOOLEAN
  /\ read = 0
  /\ buffer = <<>>
  /\ http = NewParser("request")
  /\ \E garbage \in Indeterminate :
       response = [NewParser("response").message EXCEPT
                     !.version = garbage[1], !.status = garbage[2]]
  /\ conn = "open"
  /\ answers = <<>>
  /\ whole = \A i \in DOMAIN session : Len(session[i].body) <= 1
  /\ alone = TRUE

OnFailure(parsed) ==
  /\ parsed.error
  /\ conn' = "closed"
  /\ http' = Idle(parsed)
  /\ UNCHANGED <<response, answers>>

OnIncomplete(parsed) ==
  /\ ~parsed.error
  /\ ~parsed.complete
  /\ http' = Idle(parsed)
  /\ UNCHANGED <<conn, response, answers>>

OnRequest(parsed) ==
  /\ ~parsed.error
  /\ parsed.complete
  /\ LET req == parsed.message
         res == Handle(req, Acknowledge(req, response))
     IN  /\ answers' = Append(answers, [request |-> req, response |-> res])
         /\ response' = ResetResponse(res)
  /\ http' = ResetMessage(Idle(parsed))
  /\ UNCHANGED conn

(* A read event brings the next n bytes.                                   *)
OnMessage(n) ==
  /\ conn = "open"
  /\ read + n <= Len(Wire[session])
  /\ read' = read + n
  /\ whole' = (whole /\ read' \notin Cuts[session])
  /\ alone' = (alone /\ ~\E e \in Range(Ends[session]) : read < e /\ e < read')
  /\ LET bytes == buffer \o SubSeq(Wire[session], read + 1, read')
         parsed == Execute(http, bytes)
     IN  /\ buffer' = LeftOver(parsed, bytes)
         /\ OnFailure(parsed) \/ OnIncomplete(parsed) \/ OnRequest(parsed)
  /\ UNCHANGED <<session, cb>>

PeerCloses ==
  /\ conn = "open"
  /\ conn' = "closed"
  /\ UNCHANGED <<session, cb, read, buffer, http, response, answers, whole, alone>>

Next ==
  \/ \E n \in 1..(Len(Wire[session]) - read) : OnMessage(n)
  \/ PeerCloses

Spec == Init /\ [][Next]_vars
------------------------------------------------------------------------------
(* Between two read events no request is complete, no string is marked and *)
(* the Buffer is empty unless a request asked for an upgrade or the parser *)
(* has failed; a pending name is kept only where its value may follow; the *)
(* count starts again before each chunk, as http_parser asserts.           *)
TypeOK ==
  /\ session \in Sessions
  /\ read \in 0..Len(Wire[session])
  /\ http.mark = NoMark
  /\ http.complete => http.error
  /\ buffer # <<>> => http.upgrade \/ http.error
  /\ http.error => conn = "closed"
  /\ ~http.error =>
       /\ http.headFieldTemp # <<>> => http.state \in {"field", "value_ws", "empty_value"}
       /\ http.nread <= HTTP_MAX_HEADER_SIZE
       /\ http.state = "chunk_start" => http.nread = 0
  /\ response.headers = NoHeaders /\ response.body = <<>>

(* The requests of this connection, as they were sent.                     *)
Arrived == {i \in DOMAIN session : Ends[session][i] <= read}

(* Where request i begins.  The empty line that ends the chunks of a       *)
(* request is counted with the head of the next one.                       *)
Begin(i)   == IF i = 1 THEN 0 ELSE Ends[session][i - 1]
Carried(i) == IF i > 1 /\ session[i - 1].coding = "chunked" THEN 1 ELSE 0

HeadFits(i) ==
  Carried(i) + Len(Bytes(RequestHead(session[i]))) <= HTTP_MAX_HEADER_SIZE

(* The server handles no more requests than were sent.  If no read ends    *)
(* inside a string or brings bytes of two requests, it handles exactly the *)
(* requests that were sent, in order, up to and with the first that closes *)
(* the connection, and before the first whose head is too long: nothing of *)
(* one request, and nothing of where the reads ended, is left in the next. *)
Handled ==
  {i \in Arrived : /\ \A j \in 1..i : HeadFits(j)
                  /\ \A j \in 1..(i - 1) : ~Closing(session[j])}

RequestsAsSent ==
  /\ Len(answers) <= Len(session)
  /\ whole /\ alone =>
       /\ Len(answers) = Cardinality(Handled)
       /\ \A i \in DOMAIN answers : answers[i].request = RequestOf(session[i])

(* http_parser.c:143: wherever the reads end, the parser has failed if and *)
(* only if more of one head than the limit allows has arrived, or anything *)
(* behind a request that closes the connection.  No body counts, no head   *)
(* of an earlier request, and no way to cut a long name or value helps.    *)
(* What an upgrade has left in the Buffer counts when it is read.          *)
HeaderLimit ==
  http.error \/ buffer = <<>> =>
    (http.error <=> \E i \in DOMAIN session :
      \/ ~HeadFits(i) /\ Carried(i) + read - Begin(i) > HTTP_MAX_HEADER_SIZE
      \/ i > 1 /\ Closing(session[i - 1]) /\ read > Begin(i))

(* Wherever the reads end, and even if they bring several requests, a      *)
(* value is stored only under a name of its own header line: the name is   *)
(* an end of the line's name, the value a beginning of its value.          *)
ValuesKeepTheirNames ==
  \A i \in DOMAIN answers : \A name \in DOMAIN answers[i].request.headers :
    \E m \in Range(session) : \E line \in Range(HeaderLinesOf(m)) :
      /\ IsSuffix(name, line[1])
      /\ IsPrefix(answers[i].request.headers[name], line[2])

(* Two equal requests on one connection get equal answers, unless they are *)
(* for a registered URL: no answer carries anything of an earlier one.     *)
SameAnswer ==
  \A i, j \in DOMAIN answers :
    /\ answers[i].request = answers[j].request
    /\ ~Registered(answers[i].request)
    => answers[i].response = answers[j].response

Has(h, res) ==
  /\ h.complete
  /\ h.message.status = res.status
  /\ h.message.body = res.body
  /\ \A name \in DOMAIN res.headers : h.message.headers[name] = res.headers[name]

(* What package() writes, an HttpClient reads as that response, if the     *)
(* version it was left with is one: in one go if there is a body, but one  *)
(* without a body only when it is told the end of the stream.              *)
ClientReads ==
  \A i \in DOMAIN answers :
    LET res == answers[i].response
        h == Execute(NewParser("response"), PackageResponse(res))
    IN  res.version \in Version =>
          /\ h.complete <=> res.body # <<>>
          /\ Has(IF res.body # <<>> THEN h ELSE Execute(h, <<>>), res)

(* The bytes the parser has taken up: it leaves the rest in the Buffer if  *)
(* it stops for an upgrade, and all of it if it fails.                     *)
TakenUp == IF http.error THEN read ELSE read - Len(buffer)

(* http_parser.c:722: a read event in which the parser takes up anything   *)
(* behind a request that closes the connection is not answered: not by     *)
(* what is behind the request, and if one read brings both, not even by    *)
(* the answer to the request itself, which is lost.                        *)
NothingAfterClose ==
  [][\A i \in DOMAIN session :
       Closing(session[i]) /\ Ends[session][i] < TakenUp' => answers' = answers]_vars

(* test_http_server.cc:15: the answer for a registered URL has the body    *)
(* its callback has set.                                                   *)
RegisteredBody ==
  \A i \in DOMAIN answers :
    LET req == answers[i].request
    IN  req.method = "GET" /\ Registered(req) => answers[i].response.body = GetBodies[req.url]

(* http_parser.h:86: a string may come in any number of pieces, so where   *)
(* the reads end must not show in the requests of a session.  Left out are *)
(* sessions with a body of several pieces: one in chunks comes in several  *)
(* wherever the reads end.                                                 *)
CutsDoNotShow ==
  alone /\ (\A i \in DOMAIN session : Len(session[i].body) <= 1) =>
    \A i \in DOMAIN answers : answers[i].request = RequestOf(session[i])
==============================================================================
