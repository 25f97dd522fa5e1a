------------------------------ MODULE HttpClient ------------------------------
(***************************************************************************)
(* An HttpClient: its connection with the HttpContext (a response parser   *)
(* and the request of the last send), and the one callback, which belongs  *)
(* to the client and not to the connection.                                *)
(*                                                                         *)
(* send does not write the request: it runs the response parser on an      *)
(* empty Buffer.  The peer answers of its own accord, or not at all.       *)
(***************************************************************************)
EXTENDS HttpStream

CONSTANTS
  Sessions,               \* sequences of responses a peer may send
  Requests,               \* the messages of the first, second... call of send
  MaxConnects             \* bound: how often connect is called

ASSUME MaxConnectsIsNatural == MaxConnects \in Nat

ASSUME RequestsAreMessages ==
  /\ Requests \in Seq(Range(Requests))
  /\ \A k \in DOMAIN Requests : DOMAIN Requests[k] = DOMAIN NewParser("request").message

ASSUME SessionsAreResponses ==
  \A s \in Sessions :
    /\ s \in Seq(Range(s))
    /\ \A i \in DOMAIN s : IsResponse(s[i]) /\ (s[i].coding = "eof" => i = Len(s))

VARIABLES
  connects,               \* how often a connection was established
  session,                \* the responses the peer of this connection sends
  read,                   \* bytes that have arrived
  buffer,                 \* what the parser has left in the input Buffer
  http,                   \* the response parser and its message
  request,                \* the HttpRequest of the context
  cb,                     \* responseCb_: that of the cb-th send, 0 for none
  conn,                   \* "open", "closing" after forceClose, or "closed"
  handled,                \* history: the responses that onMessage took
  sends,                  \* history: when send was called
  whole,                  \* history: no read ended inside a string
  alone,                  \* history: no read held bytes of two responses
  calm                    \* history: no send in the middle of a response

context == <<buffer, http, request>>
cuts    == <<whole, alone, calm>>
vars    == <<connects, session, read, context, cb, conn, handled, sends, cuts>>

Wire    == [s \in Sessions |-> Bytes(AllParts(s, ResponseParts))]
Cuts    == [s \in Sessions |-> Harmful(AllParts(s, ResponseParts))]
Ends    == [s \in Sessions |->
             [i \in DOMAIN s |-> Len(Bytes(AllParts(SubSeq(s, 1, i), ResponseParts)))]]

ASSUME WiresAreBytes == \A s \in Sessions : Wire[s] \in Seq(STRING)

------------------------------------------------------------------------------
(* No connection has been made.                                            *)
Init ==
  /\ connects = 0
  /\ session = <<>>
  /\ read = 0
  /\ buffer = <<>>
  /\ http = NewParser("response")
  /\ request = NewParser("request").message
  /\ cb = 0
  /\ conn = "closed"
  /\ handled = <<>>
  /\ sends = <<>>
  /\ whole = TRUE
  /\ alone = TRUE
  /\ calm = TRUE

(* onConnection, connected: a new context; the callback is that of before. *)
OnConnected ==
  /\ conn = "closed"
  /\ connects < MaxConnects
  /\ connects' = connects + 1
  /\ session' \in Sessions
  /\ read' = 0
  /\ buffer' = <<>>
  /\ http' = NewParser("response")
  /\ request' = NewParser("request").message
  /\ conn' = "open"
  /\ handled' = <<>>
  /\ whole' = \A i \in DOMAIN session' : Len(session'[i].body) <= 1
  /\ alone' = TRUE
  /\ calm' = TRUE
  /\ UNCHANGED <<cb, sends>>

(* Mutant: a callback stays until it is called.                            *)
InstalledOnce(k) == IF cb = 0 THEN k ELSE cb

Installed(k) == k

(* send, with the parser in h: what it leaves in the client but the        *)
(* request, and what the parser makes of the empty Buffer.                 *)
Sending(h) ==
  /\ Len(sends) < Len(Requests)
  /\ cb' = Installed(Len(sends) + 1)
  /\ sends' = Append(sends, [connection |-> connects, after |-> Len(handled)])
  /\ calm' = (calm /\ h.state \in {"start", "dead"})

Stored == Requests[Len(sends) + 1]

SentNothing(h) == Idle(Execute(h, <<>>))

(* send, called between two events of the loop; while there is no          *)
(* connection it has none to get a context from.                           *)
Send ==
  /\ conn # "closed"
  /\ Sending(http)
  /\ request' = Stored
  /\ http' = SentNothing(http)
  /\ UNCHANGED <<connects, session, read, buffer, conn, handled, whole, alone>>

------------------------------------------------------------------------------
(* HttpContext::reset, the request's part.                                 *)
ResetRequest(req) == [req EXCEPT !.headers = NoHeaders, !.body = <<>>]

(* Mutant: only a response that says so keeps the connection.              *)
WantsCloseUnlessKept(res) ==
  ~(Connection \in DOMAIN res.headers /\ res.headers[Connection] = <<"Keep-Alive">>)

WantsClose(res) == Connection \in DOMAIN res.headers /\ res.headers[Connection] = <<"Close">>

OnFailure(parsed) ==
  /\ parsed.error
  /\ conn' = "closing"
  /\ http' = Idle(parsed)
  /\ UNCHANGED <<request, cb, handled, sends, calm>>

OnIncomplete(parsed) ==
  /\ ~parsed.error
  /\ ~parsed.complete
  /\ http' = Idle(parsed)
  /\ UNCHANGED <<request, cb, conn, handled, sends, calm>>

(* The callback may call send, as the last thing it does.                  *)
OnResponse(parsed) ==
  /\ ~parsed.error
  /\ parsed.complete
  /\ handled' = Append(handled, [send |-> cb, request |-> request,
                                 response |-> parsed.message])
  /\ \/ /\ request' = ResetRequest(request)
        /\ http' = ResetMessage(Idle(parsed))
        /\ UNCHANGED <<cb, sends, calm>>
     \/ /\ cb # 0
        /\ Sending(parsed)
        /\ request' = ResetRequest(Stored)
        /\ http' = ResetMessage(SentNothing(parsed))
  /\ conn' = IF WantsClose(parsed.message) THEN "closing" ELSE conn

(* A read event brings the next n bytes.                                   *)
OnMessage(n) ==
  /\ read + n <= Len(Wire[session])
  /\ read' = read + n
  /\ whole' = (whole /\ read' \notin Cuts[session])
  /\ alone' = (alone /\ ~\E e \in Range(Ends[session]) : read < e /\ e < read')
  /\ LET bytes == buffer \o SubSeq(Wire[session], read + 1, read')
         parsed == Execute(http, bytes)
     IN  /\ buffer' = LeftOver(parsed, bytes)
         /\ OnFailure(parsed) \/ OnIncomplete(parsed) \/ OnResponse(parsed)
  /\ UNCHANGED <<connects, session>>

(* onConnection, not connected: the peer has closed, or the functor of     *)
(* forceClose has run.  The context is gone, the callback is not.          *)
OnDisconnected ==
  /\ conn # "closed"
  /\ conn' = "closed"
  /\ UNCHANGED <<connects, session, read, context, cb, handled, sends, cuts>>

Next ==
  \/ OnConnected
  \/ Send
  \/ conn = "open" /\ \E n \in 1..(Len(Wire[session]) - read) : OnMessage(n)
  \/ OnDisconnected

Spec == Init /\ [][Next]_vars
------------------------------------------------------------------------------
(* Between two events no response is complete, unless a send has ended one *)
(* that the end of the stream would have ended; no string is marked, the   *)
(* Buffer is empty unless a response has switched the protocol, and the    *)
(* parser has failed only after a send in the middle of a response.        *)
TypeOK ==
  /\ connects \in 0..MaxConnects
  /\ cb \in 0..Len(sends)
  /\ \A i \in DOMAIN handled : handled[i].send \in 0..Len(sends)
  /\ conn = "open" =>
       /\ http.mark = NoMark
       /\ http.complete => http.state = "body_eof" /\ ~calm
       /\ buffer # <<>> => http.upgrade
       /\ http.error => ~calm
       /\ http.headFieldTemp # <<>> =>
            http.error \/ http.state \in {"field", "value_ws", "empty_value"}

Arrived == {i \in DOMAIN session : Ends[session][i] <= read}

(* Where response i begins.  The empty line that ends the chunks of a      *)
(* response is counted with the head of the next one.                      *)
Begin(i)   == IF i = 1 THEN 0 ELSE Ends[session][i - 1]
Carried(i) == IF i > 1 /\ session[i - 1].coding = "chunked" THEN 1 ELSE 0

HeadFits(i) ==
  Carried(i) + Len(Bytes(ResponseHead(session[i]))) <= HTTP_MAX_HEADER_SIZE

(* The responses that have arrived whole and say themselves where they     *)
(* end, up to and with the first that closes the connection, and before    *)
(* the first whose head is too long.                                       *)
Due ==
  {i \in Arrived : /\ session[i].coding # "eof"
                   /\ \A j \in 1..i : HeadFits(j)
                   /\ \A j \in 1..(i - 1) : ~Closing(session[j])}

(* If no read ends inside a string or brings bytes of two responses, what  *)
(* onMessage takes are the responses that were sent, in order and once     *)
(* each: all that are due, and with sends in between none but these unless *)
(* one runs to the end of the stream.                                      *)
ResponsesAsSent ==
  whole /\ alone =>
    /\ Len(handled) <= Len(session)
    /\ \A i \in DOMAIN handled :
         session[i].coding # "eof" => handled[i].response = ResponseOf(session[i])
    /\ calm => Len(handled) = Cardinality(Due)
    /\ Len(handled) > Cardinality(Due) => \E m \in Range(session) : m.coding = "eof"

(* A callback gets the request of its own send: if that send was made on   *)
(* this connection, the URL of it, and all of it if the send was not made  *)
(* inside another callback and no response has been handled since.         *)
OwnRequest ==
  \A i \in DOMAIN handled :
    LET k == handled[i].send
    IN  k # 0 /\ sends[k].connection = connects =>
          /\ handled[i].request.url = Requests[k].url
          /\ sends[k].after = i - 1 => handled[i].request = Requests[k]

(* The header that makes onMessage close the connection.                   *)
SaysClose(m) ==
  Connection \in DOMAIN HeadersOf(m) /\ HeadersOf(m)[Connection] = <<"Close">>

(* If no read ends inside a string or brings bytes of two responses, the   *)
(* client closes a connection only for a reason: a response that says so   *)
(* has been read, bytes have come behind one after which the parser takes  *)
(* none, more of a head than the limit allows has arrived, or send was     *)
(* called in the middle of a response.  (A cut in the name X-Connection    *)
(* leaves the name Connection.)                                            *)
ClosedForCause ==
  whole /\ alone /\ conn = "closing" =>
    \/ ~calm
    \/ \E i \in DOMAIN session :
         \/ /\ session[i].coding # "eof"
            /\ \/ SaysClose(session[i]) /\ Ends[session][i] <= read
               \/ Closing(session[i]) /\ Ends[session][i] < read
         \/ ~HeadFits(i) /\ Carried(i) + read - Begin(i) > HTTP_MAX_HEADER_SIZE
==============================================================================
