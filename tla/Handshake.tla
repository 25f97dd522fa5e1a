------------------------------- MODULE Handshake -------------------------------
(***************************************************************************)
(* A WebsocketClient and a WebsocketServer open a connection over a TCP    *)
(* stream in each direction, whose reads end anywhere, and then send       *)
(* frames.  Here the content of the messages counts; timers, callbacks and *)
(* the decoding of frames are WebsocketServer's and WebsocketClient's.     *)
(***************************************************************************)
EXTENDS HttpStream

CONSTANTS
  key_,                   \* the client's Sec-WebSocket-Key
  Frames                  \* the frames each side may send, in this order

(* The key is base64; frames come after the handshake and stand for        *)
(* themselves, so that none of them counts as a separator.                 *)
ASSUME KeyIsText ==
  key_ \in Seq(STRING) /\ key_ # <<>> /\ \A i \in DOMAIN key_ : IsText(key_[i])
ASSUME FramesAreOpaque ==
  Frames \in Seq(STRING) /\ \A i \in DOMAIN Frames : IsText(Frames[i])

VARIABLES
  client, server,         \* HTTP parser, input Buffer, handshaked_, forced close
  toServer, toClient,     \* bytes sent, harmful cuts in them, bytes arrived
  answered,               \* history: the key the server answered for, if any
  whole                   \* history: no read ended inside a string

vars == <<client, server, toServer, toClient, answered, whole>>

SecKey     == <<"Sec-WebSocket-Key">>
SecAccept  == <<"Sec-WebSocket-Accept">>
SecVersion == <<"Sec-WebSocket-Version">>
WebSocket  == <<"web", "socket">>

(* The digest of a key; different keys have different ones (external).     *)
getSecWebsocketAccept(key) == <<"digest">> \o key

(* WebsocketClient::sendHandshakeRequest.                                  *)
HandshakeRequest ==
  RequestParts([ method |-> "GET", url |-> <<"/">>, version |-> "HTTP/1.1",
                 headers |-> << <<Connection, Upgrade>>, <<Upgrade, WebSocket>>,
                                <<SecVersion, <<"13">>>>, <<SecKey, key_>> >>,
                 coding |-> "none", body |-> <<>> ])

(* Mutant: the empty line is missing.                                      *)
responseUnfinished(key) ==
  <<Plain(<<"HTTP/1.1", "sp", "101", "sp", "reason", "crlf">>)>>
    \o AllParts(<< <<Upgrade, WebSocket>>, <<Connection, Upgrade>>,
                   <<SecVersion, <<"13">>>>, <<SecAccept, getSecWebsocketAccept(key)>> >>,
                HeaderParts)

(* WebsocketServer::responseHandShake, and the other answer.               *)
responseHandShake(key) ==
  <<Plain(<<"HTTP/1.1", "sp", "101", "sp", "reason", "crlf">>)>>
    \o AllParts(<< <<Upgrade, WebSocket>>, <<Connection, Upgrade>>,
                   <<SecVersion, <<"13">>>>, <<SecAccept, getSecWebsocketAccept(key)>> >>,
                HeaderParts)
    \o <<Plain(<<"crlf">>)>>

BadRequest == <<Plain(<<"HTTP/1.1", "sp", "400", "sp", "reason", "crlf", "crlf">>)>>

(* For the provers, which know of no literal that it is a string.          *)
ASSUME WordsAreStrings ==
  {"/", "13", "digest", "Connection", "Up", "grade", "web", "socket", "Sec-WebSocket-Version",
   "Sec-WebSocket-Key", "Sec-WebSocket-Accept"} \subseteq STRING

(* The frames can be told from the handshake.                              *)
ASSUME FramesAreNoText ==
  Range(Frames) \cap
    (Range(Bytes(HandshakeRequest)) \cup Range(Bytes(responseHandShake(key_)))) = {}

------------------------------------------------------------------------------
GetHeader(m, name) == IF name \in DOMAIN m.headers THEN m.headers[name] ELSE <<>>

isHandShakeRequest(m) ==
  /\ m.method = "GET"
  /\ m.version = "HTTP/1.1"
  /\ GetHeader(m, Upgrade) = WebSocket
  /\ GetHeader(m, Connection) = Upgrade
  /\ GetHeader(m, SecVersion) = <<"13">>
  /\ GetHeader(m, SecKey) # <<>>

(* Mutant: the digest is not compared.                                     *)
validWithoutDigest(m) ==
  /\ m.version = "HTTP/1.1"
  /\ m.status = "101"
  /\ GetHeader(m, Connection) = Upgrade
  /\ GetHeader(m, Upgrade) = WebSocket

validHandleShakeResponse(m) ==
  /\ m.version = "HTTP/1.1"
  /\ m.status = "101"
  /\ GetHeader(m, Connection) = Upgrade
  /\ GetHeader(m, Upgrade) = WebSocket
  /\ GetHeader(m, SecAccept) = getSecWebsocketAccept(key_)

------------------------------------------------------------------------------
Endpoint(type) ==
  [http |-> NewParser(type), buffer |-> <<>>, handshaked |-> FALSE, closing |-> FALSE]

(* The next n bytes of a stream arrive.                                    *)
Arriving(stream, n) == SubSeq(stream.bytes, stream.read + 1, stream.read + n)

Arrive(stream, n) ==
  /\ n <= Len(stream.bytes) - stream.read
  /\ whole' = (whole /\ stream.read + n \notin stream.cuts)

Quiet == [bytes |-> <<>>, cuts |-> {}, read |-> 0]

(* TcpConnection::send.                                                    *)
Sent(stream, parts) ==
  [stream EXCEPT !.bytes = @ \o Bytes(parts),
                 !.cuts = @ \cup {Len(stream.bytes) + cut : cut \in Harmful(parts)}]

(* The parser takes its bytes from the Buffer.                             *)
Parsed(endpoint, bytes) ==
  LET h == Execute(endpoint.http, bytes)
  IN  [endpoint EXCEPT !.http = Idle(h), !.buffer = LeftOver(h, bytes),
                       !.closing = h.error]

(* onMessage of the server before the handshake.                           *)
ServerAwaits(e) ==
  /\ ~e.http.complete
  /\ server' = e
  /\ toClient' = IF e.closing THEN Sent(toClient, BadRequest) ELSE toClient
  /\ UNCHANGED answered

ServerRejects(e) ==
  /\ e.http.complete
  /\ ~isHandShakeRequest(e.http.message)
  /\ server' = [e EXCEPT !.closing = TRUE]
  /\ toClient' = Sent(toClient, BadRequest)
  /\ UNCHANGED answered

(* send drops the answer when a failure of the parser came first.          *)
ServerAccepts(e) ==
  LET key == GetHeader(e.http.message, SecKey)
  IN  /\ e.http.complete
      /\ isHandShakeRequest(e.http.message)
      /\ server' = [e EXCEPT !.handshaked = TRUE]
      /\ toClient' = Sent(toClient, IF e.closing THEN BadRequest ELSE responseHandShake(key))
      /\ answered' = key

ServerOnMessage(n) ==
  /\ ~server.closing
  /\ ~server.handshaked
  /\ Arrive(toServer, n)
  /\ LET e == Parsed(server, server.buffer \o Arriving(toServer, n))
     IN  ServerAwaits(e) \/ ServerRejects(e) \/ ServerAccepts(e)
  /\ toServer' = [toServer EXCEPT !.read = @ + n]
  /\ UNCHANGED client

(* onMessage of the client before the handshake.  A response that is not   *)
(* accepted stays in the HttpContext.                                      *)
ClientOnMessage(n) ==
  /\ ~client.closing
  /\ ~client.handshaked
  /\ Arrive(toClient, n)
  /\ LET e == Parsed(client, client.buffer \o Arriving(toClient, n))
     IN  client' = [e EXCEPT !.handshaked =
                      e.http.complete /\ validHandleShakeResponse(e.http.message)]
  /\ toClient' = [toClient EXCEPT !.read = @ + n]
  /\ UNCHANGED <<server, toServer, answered>>

(* After it the bytes in the Buffer are those decode is given.             *)
ServerOnFrames(n) ==
  /\ ~server.closing
  /\ server.handshaked
  /\ Arrive(toServer, n)
  /\ server' = [server EXCEPT !.buffer = @ \o Arriving(toServer, n)]
  /\ toServer' = [toServer EXCEPT !.read = @ + n]
  /\ UNCHANGED <<client, toClient, answered>>

ClientOnFrames(n) ==
  /\ ~client.closing
  /\ client.handshaked
  /\ Arrive(toClient, n)
  /\ client' = [client EXCEPT !.buffer = @ \o Arriving(toClient, n)]
  /\ toClient' = [toClient EXCEPT !.read = @ + n]
  /\ UNCHANGED <<server, toServer, answered>>

(* The bytes of frames among others.                                       *)
FramesIn(bytes) ==
  FlattenSeq([i \in DOMAIN bytes |-> IF bytes[i] \in Range(Frames) THEN <<bytes[i]>> ELSE <<>>])

SendFrame(stream) ==
  \E i \in DOMAIN Frames :
    /\ i = Len(FramesIn(stream.bytes)) + 1
    /\ stream' = Sent(stream, <<Plain(<<Frames[i]>>)>>)

ServerSends ==
  /\ server.handshaked /\ ~server.closing
  /\ SendFrame(toClient)
  /\ UNCHANGED <<client, server, toServer, answered, whole>>

ClientSends ==
  /\ client.handshaked /\ ~client.closing
  /\ SendFrame(toServer)
  /\ UNCHANGED <<client, server, toClient, answered, whole>>

------------------------------------------------------------------------------
Init ==
  /\ client = Endpoint("response")
  /\ server = Endpoint("request")
  /\ toServer = Sent(Quiet, HandshakeRequest)
  /\ toClient = Quiet
  /\ answered = <<>>
  /\ whole = TRUE

ServerReads ==
  \E n \in 1..(Len(toServer.bytes) - toServer.read) :
    ServerOnMessage(n) \/ ServerOnFrames(n)

ClientReads ==
  \E n \in 1..(Len(toClient.bytes) - toClient.read) :
    ClientOnMessage(n) \/ ClientOnFrames(n)

Next == ServerReads \/ ClientReads \/ ServerSends \/ ClientSends

(* The bytes that were sent arrive and are read in the end, unless the     *)
(* connection is closed: TCP delivers and both loops run.                  *)
Delivered(endpoint, stream) == endpoint.closing \/ stream.read = Len(stream.bytes)

Fairness == []<>Delivered(server, toServer) /\ []<>Delivered(client, toClient)

Spec == Init /\ [][Next]_vars /\ Fairness
------------------------------------------------------------------------------
(* The bytes of frames that have arrived.                                  *)
FramesArrived(stream) == FramesIn(SubSeq(stream.bytes, 1, stream.read))

(* Before the handshake a read leaves something in the Buffer only behind  *)
(* a message that asked for the upgrade and was not accepted, or after the *)
(* parser failed.                                                          *)
TypeOK ==
  /\ toServer.read <= Len(toServer.bytes)
  /\ toClient.read <= Len(toClient.bytes)
  /\ \A e \in {client, server} :
       e.buffer # <<>> => e.handshaked \/ e.closing \/ (e.http.complete /\ e.http.upgrade)

(* A client that takes the connection for open has a server that does, and *)
(* that answered the key the client sent: wherever the reads ended.        *)
Agreement ==
  client.handshaked =>
    server.handshaked /\ ~server.closing /\ answered = key_

(* What decode is given on each side are the frames of the other, none     *)
(* lost to the HTTP parser and no byte of a message among them: also those *)
(* that came in one read with the end of the handshake.                    *)
FramesKept ==
  /\ server.handshaked => server.buffer = FramesArrived(toServer)
  /\ client.handshaked => client.buffer = FramesArrived(toClient)

(* The limit, 80 KB in the code, has room for the two messages.            *)
HandshakeFits ==
  /\ Len(Bytes(HandshakeRequest)) <= HTTP_MAX_HEADER_SIZE
  /\ Len(Bytes(responseHandShake(key_))) <= HTTP_MAX_HEADER_SIZE

(* If the messages fit and no read ends inside a string, the client's      *)
(* parser does not fail and each side is upgraded by the read that brings  *)
(* the end of the other's message.                                         *)
Established ==
  HandshakeFits /\ whole =>
    /\ ~client.closing
    /\ toServer.read >= Len(Bytes(HandshakeRequest)) <=> server.handshaked
    /\ toClient.read >= Len(Bytes(responseHandShake(key_))) <=> client.handshaked

(* The messages do not fit, or a read ends inside a string, or the         *)
(* connection becomes open on both sides: neither waits for the other for  *)
(* ever.                                                                   *)
Opens == <>(~HandshakeFits \/ ~whole \/ (client.handshaked /\ server.handshaked))
==============================================================================
