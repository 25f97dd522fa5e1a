# muduo-websocket in TLA+

A verification project for the WebSocket server, client and HTTP code that this repository
adds to the muduo network library. The modules are translated from the C++ sources;
`PROJECT.json` maps every definition to the lines it stands for. muduo itself (event loop,
`TcpConnection`, `TimerQueue`, `Buffer`) is not in the repository and is modelled only as far
as the code uses it.

## The system

| component | state | operations | hard behaviours |
|---|---|---|---|
| **Frame decoder** `WebsocketContext::decode` | `state_`, `reqData_` (two header bytes, extended length size, length, mask key, payload), the read index of the input `Buffer` | `decode` on every read event, `reset` after a frame | resumed anywhere in a frame; one object reused for all frames; lengths of three classes and their limit |
| **Frame encoder** `WebsocketData`, `encode`, `getFrame` | the same object, filled by setters | `sendText`, `sendBinary`, ping, pong | class boundaries, byte order, masking |
| **WebSocket server** `WebsocketServer`, `TcpConnContext`, `WebsocketConnection` | per connection: one timer id, `handshaked_`, HTTP or frame parser, the `WebsocketConnection` | `onConnection`, `onMessage`, `sendPingTimer`, `responsePingTimer`, the application's calls | timers racing reads in one loop iteration; a close that is queued while handlers go on; application calls from callbacks and after the end |
| **WebSocket client** `WebsocketClient` | the same context, its key | `onConnection`, `onMessage` | a response that never comes or is invalid; no timer after the handshake |
| **HTTP assembly** `HttpParser`, `HttpContext`, `HttpMessage` | headers, body, `complete_`, a pending header name | callbacks of `http_parser`, `package`, `reset` | strings delivered in pieces, pipelined requests, state kept between messages |
| **HTTP server** `HttpServer` | an `HttpContext` per connection, callbacks by URL | `onMessage` | the response object that is packaged is not always the one filled in |
| **HTTP client** `HttpClient` | an `HttpContext` per connection; one callback for all of them | `onConnection`, `onMessage`, `send` | sends between and inside callbacks, responses nobody asked for, responses without a length |
| **http_parser** | vendored state machine | `http_parser_execute` | contract of its callbacks |
| **Handshake key and digest** `base64.h`, `sha1.h` | the round buffer of `calc` | `getSecWebsocketKey`, `getSecWebsocketAccept` | lengths of the last block, tails, 32-bit words |
| **Byte order** `netEndian.h`, the converters of `WebsocketContext.h` | none | `hton16`..`ntoh64` | masks and shifts of the swaps, two kinds of host |

How they interact. muduo's loop thread calls `onConnection` and `onMessage` of an endpoint and
the functors its timers were armed with. `onMessage` gives the input `Buffer` to the HTTP
parser until a handshake is complete and to `decode` afterwards, at most one message per call,
and calls the application's callbacks from inside. Everything an endpoint keeps for a
connection hangs on `TcpConnection::getContext()`, which is replaced by `NULL` when the
connection goes down: each timer must be cancelled first, since its functor casts that context
or holds a raw pointer to the connection. `forceClose` only queues the close for the end of
the loop iteration: the connection is `disconnecting` until then, `send` drops what it is
given, and timers and reads of the same iteration are still handled. A send from another thread
checks the state there and queues its bytes as a functor, which runs when the state may have
changed.

What makes each part correct:

* decoder: for every cut of the byte stream it hands over exactly the frames of the stream;
* encoder: what it writes decodes to what was sent; it announces the length it has;
* server: one timer at a time and never a stale one; one HTTP answer, no frame before it; the
  callbacks in order; a PONG is not lost; a silent peer is closed;
* client: the same order of callbacks; the connection is upgraded or closed;
* HTTP: a message does not depend on how it was cut; no message leaks into the next; the client
  takes every response once and closes only for a reason;
* key and digest: the answer is the one the protocol prescribes, whatever the length of the key;
* byte order: what one host writes, any other reads.

## Modules

```
FrameFormat <- FrameReader          what decoding promises (abstract)
FrameFormat <- WebsocketContext     decode, reset; implements FrameReader
NetEndian                           byte swaps, and integers as bytes in memory
FrameFormat + NetEndian <- FrameEncoder
                                    setters, reset, encode, getFrame
WebsocketContext + FrameEncoder <- FrameChannel
                                    the two joined by TCP
Sha1 + Base64 <- AcceptKey          a handshake's key and its answer
WebsocketSession                    what an endpoint promises its application (abstract)
Connection                          a muduo connection, its loop, the application's calls
Connection <- WebsocketServer       one server connection; implements WebsocketSession
Connection <- WebsocketClient       one client connection; implements WebsocketSession
HttpParser <- HttpStream            http_parser with its callbacks; a peer's byte stream
HttpStream <- HttpServer            one HTTP connection
HttpStream <- HttpClient            an HTTP client and its connections
HttpStream <- Handshake             WebSocket client and server joined by two streams
*Proofs                             theorems
MC*                                 instances for TLC
```

**FrameFormat** holds the constants and bit fields of `namespace frame`. Bytes are integers
0..255. `Ntoh64` gives the value of a length only when `TooLong` is false: a length with a high
byte set exceeds the limit whatever its other bytes, which keeps TLC's integers in range.

**FrameReader** is the decoder's abstract specification. The frame at an offset is defined
from the bytes alone; one read event either refuses the frame (its opcode or its length is
known and bad), hands it over whole, or waits.

**WebsocketContext** is the decoder. The peer's bytes are fixed in the initial state; a read
event appends any number of them and runs the loop of `decode` to its exit. `dec` holds
`state_`, the fields of `reqData_` and the read index. There is one operator per parser state;
`Needed` is what the `break`s test. The mask key keeps its bytes over `reset`, as in the code
(before the first masked frame it is uninitialised in the code and never read: `<<>>` here, so
that reading it would be an error of the run). `start`, `delivered` and `open` are what
`onMessage` makes of the result.

**NetEndian** has an integer of 16, 32 or 64 bits as the sequence of its bytes. The swaps are
their shifts, masks and ors; `Stored` and `Loaded` are the two members of a converter union on a
host that is little-endian or not. So what the code does on either kind of host is written once.

**FrameEncoder** translates the setters with their `|=`. The masking key and the byte order of
the host are inputs. **FrameChannel** sends frames through the decoder: the bytes of `getFrame`,
those of one `WebsocketData` that is reset before each frame (its interface allows that; no code of the
repository sends so), or only the header of a long frame,
so that lengths up to 4194304 can be announced. `Sendable` is what the application and the endpoints can
ask it to send; `PeerStreams` are the streams that result, which are among those of the decoder.

**Sha1**, **Base64** and **AcceptKey** are the way from a key to its answer. A 32-bit word is the
set of its bits that are 1, so the operations on bits are operations on sets, and `Plus` finds
its carries by a quantifier. `calc` is two actions, `FullBlock` and `LastBlock`, with the round
buffer as state, which holds anything at first; `blocks` remembers what `innerHash` was given.
base64's loops are given by the positions they read and write.

**Connection** is what the two endpoints share. `tcp` is `TcpConnection::state_`, the queued
close, and the set of things sent; `loop` is the part of the timer queue that belongs to the
connection; `handled` says which of the two channels (socket, timer queue) was handled in this
loop iteration; `rx` is the input Buffer in whole frames: by `ReaderImplemented` the cut of the
bytes does not matter, only how many frames a read completes. Its operators are muduo's calls
(`ForceClose`, `Send`, `RunAfter`, `Cancel`), the entry of `onMessage` (`Receive`) and what an
application may do with its `WebsocketConnection` (`React`).

**WebsocketServer** is one connection of the server; `ctx` is its `TcpConnContext`.
`RunFunctors` is the end of an iteration, where a queued close is executed.

| action | code |
|---|---|
| `Establish`, `Disconnect` | `WebsocketServer::onConnection` |
| `HttpPending`, `HttpRejected`, `HandShake` | `onMessage` before the handshake, `onHandleShake` |
| `OnNoFrame`, `OnRefused`, `OnPing`, `OnPong`, `OnData`, `OnClose` | `onMessage` after it |
| `HandshakeTimeout`, `SendPingTimer`, `ResponsePingTimer` | the functors given to `runAfter` |
| `UserSend`, `UserForceClose`, `React` | `WebsocketConnection`, called at any time or from a callback |
| `OtherThreadSends`, `RunPosted` | the same from another thread: the checks there, the bytes later in the loop |
| `PeerCloses`, `RunFunctors` | muduo |

The parameter `ok` of the HTTP actions says whether the parser succeeded. It may have failed
while a request is complete: `complete_` and the headers survive into the bytes that follow a
request in the same read, and `onMessage` does not return after the failure.

**WebsocketClient** is one connection of the client, with the same context but one timer, which
is cancelled by the upgrade and not replaced.

| action | code |
|---|---|
| `Establish` | `WebsocketClient::onConnection`, with `sendHandshakeRequest` |
| `Disconnect` | `onConnection`, connection down: `ReportedPhase` is `setConnected(false)`, `ReportClose` the callback |
| `NoUpgrade`, `Upgrade` | `onMessage` before the handshake; `validHandleShakeResponse` is the choice between them |
| `OnNoFrame`, `OnRefused`, `OnPing`, `OnPong`, `OnData`, `OnClose` | `onMessage` after it |
| `HandshakeTimeout` | `forceClose`, given to `runAfter` |
| `UserActs`, `OtherThreadSends` | the application |
| `PeerCloses`, `RunPosted`, `RunFunctors` | muduo |

**WebsocketSession** is the abstract specification of the callbacks: open once, messages, close
once. Server and client are both shown to implement it, with `ctx.wsConn` as its `phase`.

**HttpParser** translates `http_parser_execute` with the callbacks that `HttpParser.h` gives it,
one operator per state of `http_parser` (states that differ only in the characters they accept
are one). Its unit is the piece: a separator, a method, a version, a status code, a digit, or a
part of a string. A string is the sequence of its pieces, so a read can end inside it, and
`CallbackData` then delivers what is there, as the code does at the end of a call. The values of `Connection`
and `Transfer-Encoding` are lists: `ListPiece` is what one more piece does to the search for the tokens,
with the blanks and commas around them as the code takes them. A body's
pieces count as one byte each, and so do those of a head against `HTTP_MAX_HEADER_SIZE`: `nread` is
the parser's count, which `CountAgain` sets to 0 where the code does. Left out: which characters a
string may contain, folded header lines, chunk parameters, other methods and status codes.

**HttpStream** is the peer: messages as sequences of parts, and `Harmful`, the offsets at which
the end of a read divides a string.

**HttpServer** is one connection of `HttpServer`: `http` is the request parser of its
`HttpContext`, `response` the context's `HttpResponse`. `OnFailure`, `OnIncomplete` and
`OnRequest` are the branches of `onMessage`. The version and status of a new `HttpResponse` are
uninitialised in the code (`response.version` is never set): a choice of two outcomes.

**HttpClient** is an `HttpClient` over several connections. `request` is the request of the
`HttpContext`, `cb` the `responseCb_` of the client (the number of the send that installed it),
which survives the connection. A session is any sequence of responses. `send` is modelled as it is
written: it stores the request, runs the response parser on an empty `Buffer` (`SentNothing`, which
is `ExecuteEof`) and writes nothing, so the peer sends its responses of its own accord. It may be
called at any time, and as the last thing a callback does.

| action | code |
|---|---|
| `OnConnected`, `OnDisconnected` | `HttpClient::onConnection` |
| `Send` | `HttpClient::send` |
| `OnMessage` with `OnFailure`, `OnIncomplete`, `OnResponse` | `HttpClient::onMessage`, `HttpContext::reset` |

**Handshake** joins `WebsocketClient` and `WebsocketServer` by a stream in each direction. Here the
headers, the key and the bytes behind the HTTP messages count, which the endpoint modules
abstract to a choice; timers and callbacks are left to those. Different keys have different
digests.

| action | code |
|---|---|
| `ServerOnMessage` with `ServerAwaits`, `ServerRejects`, `ServerAccepts` | `WebsocketServer::onMessage` before the handshake, `onHandleShake` |
| `ClientOnMessage` | `WebsocketClient::onMessage` before the handshake |
| `ServerOnFrames`, `ClientOnFrames` | `onMessage` after it: the bytes `decode` is given |
| `ServerSends`, `ClientSends` | the application |

`whole` and `alone` are history variables that tell how the reads fell: no string divided, no
read with bytes of two messages; `calm` tells that no send came in the middle of a response. Properties
that the code keeps only then say so; those that it keeps for every cut do not mention them.

## Runs

| run | shows | bounds |
|---|---|---|
| `decoder` | `TypeOK`, `Resumable`, `ImplementsReader`: the decoder's memory between reads is right and it implements the reader | streams of two frames of a foreign encoder: all three length forms, also with values that did not need them, empty and masked, RSV bits, then refused opcodes, lengths one above the limit and at it, unfinished frames; every cut |
| `channel` | `RoundTrip`: what is sent is received, also from a reused `WebsocketData`, which is no sender of the repository; `LengthAgreed`: the length announced is the length read | two frames of three payloads, two keys, masked or not; single frames of 125, 126 and 256 bytes; headers for both ends of each length class up to the limit, and for values whose bytes all differ; both byte orders; every cut |
| `accept_key` | `TypeOK`, `Padded`, `Answered`, `EncodingInverts` | keys of random bytes; foreign keys of every length up to 94, which put the end of the string before, at and behind the 56th byte of a block and at its end, over one to three blocks; known digests, the example of RFC 6455 among them |
| `server` | `TypeOK`, `Watched`, `Wire`, `PongPending`, `ImplementsSession`; `HandshakeOrClose`, `Reclaimed`: it is upgraded or closed, and a silent peer is closed | 4 frames, up to 2 per read |
| `client` | `TypeOK`, `Guarded`, `Told`, `ImplementsSession`; `HandshakeOrClose`, `CloseCompletes`: the counterparts for the client | 4 frames, up to 2 per read |
| `http_server` | `TypeOK`, `RequestsAsSent`, `HeaderLimit`, `ValuesKeepTheirNames`, `SameAnswer`, `ClientReads`, `NothingAfterClose` | thirteen connections of one to three requests: no body, with a length, in no chunk, in one and in two; keep-alive and close of both versions, also in lists with blanks around their tokens, and close together with an upgrade; divided names, URLs and values; answers with and without a body; heads of the limit (24 pieces), of one piece more, and of the limit behind chunks; every cut |
| `http_client` | `TypeOK`, `ResponsesAsSent`, `OwnRequest`, `ClosedForCause` | two connections, two sends at any time, eight peers with one or two responses: with a length, in chunks, up to the end of the stream, kept and closed in both spellings and by the version; a name that a cut can make `Connection`; a head of the limit (20 pieces) behind chunks, where it is one too many; every cut |
| `handshake` | `TypeOK`, `Agreement`, `FramesKept`, `Established`, `Opens` | a key of two pieces, two frames each way, every cut of both streams |
| `cut_strings` | finding: what is stored of a string depends on where the reads end | as `http_server`; sessions without bodies of several chunks |
| `registered_body` | finding: the answer of a registered callback is not the one sent | as `http_server` |
| `no_pong` | finding: a connection whose PONG was received is closed for want of it | 2 frames |
| `open_unanswered` | finding: a connection is reported open although its 101 was dropped | 1 frame |

Why the bounds are enough. The decoder starts every frame from the state `Reset` leaves, so two
frames show what one leaves for the next; all branches on the length are taken. In the server four
frames allow PING, PONG, data and one frame behind them in the Buffer, and every handler to follow
every other, and the same holds of the client; the timers re-arm any number of times within that
bound. The timer id grows only with frames and timers, so no further bound is needed. An HTTP
connection carries from one request to the next only what `reset` leaves, so two requests show
every leak and three show that one survives a request in between; the HTTP client adds the
callback, which survives a connection: two connections. The digest carries `result` and `w` from
one block to the next: one to three blocks show each case. Deadlock is not checked: a
connection that is down, and a stream that has been read, have no next step.

The liveness properties of the endpoints assume weak fairness of `Establish`, the timers
(`TimerFires`, `HandshakeTimeout`) and `RunFunctors`: muduo's loop never stops, handles expired
timers and runs queued functors in every iteration. Nothing is assumed of the peer or the
application. The peer sends at most `MaxFrames` frames: a peer that goes on answering is kept, as
it should be. After the upgrade the client has no timer, so there is no counterpart of
`Reclaimed`: it never notices a server that disappears, and promises only that a close that was
forced is completed.

`Handshake` assumes that the bytes sent are read in the end unless the connection is closed: TCP
delivers them and both loops run. The assumption is stated on the state (`[]<>Delivered`) and not
on the actions: it says no more than weak fairness of the two reads with the largest `n` would.

## Findings

* One frame is decoded per read event. A PONG that arrived together with an earlier frame is left
  in the Buffer, and the response timer closes the connection although the PONG is there.
* `onHeaderField`, `onHeaderValue`, `onBody` and `onUrl` store the piece they are given in place
  of what is there. `http_parser` delivers a string in several pieces when a read ends inside it,
  and a body in one piece per chunk, so part of it is lost: what came before the last piece of a URL, a
  name or a body (all of it, if the read ends right behind the string and the last piece is empty), what
  came after the first of a value. The trace of `cut_strings` is a read that ends right behind the URL. What
  remains true is `ValuesKeepTheirNames`.
* The callback registered for a URL fills in a second `HttpResponse` that hides the one of the
  context; the context's is packaged, with no body and the status it was left with (at first an
  uninitialised one).
* When the close was already forced in the loop iteration in which a handshake request is read
  (handshake timer, or a failure of the parser), the handler still answers and reports the
  connection: the answer is dropped and the application sees an open connection for which no 101
  was sent.

Three more things the models show that have no run of their own: `MAX_PAYLOAD_LENGTH` is `2 << 21`,
4M, where its comment says 2M (`LengthAgreed` is checked up to the limit the code has); the empty
line that ends a chunked message is counted with the head of the next one, which may therefore be
two bytes shorter than the limit of `http_parser.c:143` (`Carried`); and
`HttpClient::send` writes nothing (no statement of the repository says what it should write).

## Proofs

All theorems hold for every value of the constants, under assumptions that TLC evaluates in the
runs:

| assumption | says |
|---|---|
| `StreamsAreBytes` | the decoder is given byte sequences, of any length and content |
| `OutboxesAreSendable`, `LengthsWithinLimit`, `PeerStreamsExpected` | an outbox holds what `sendText`, `sendBinary` and the control frames can be given, up to `MAX_PAYLOAD_LENGTH`; the decoder's peer may be the encoder |
| `BoundsAreNaturals`, `MaxConnectsIsNatural` | the bounds of the endpoints and of the HTTP client |
| `RandomBytesAreBytes`, `ForeignKeysAreHeaders` | any random bytes, any key that fits into a header |
| `WiresAreBytes`, `RequestsAreMessages`, `HeaderSizeIsPositive` | an HTTP peer sends any finite sequence of pieces; the application sends messages; the limit on headers is not 0 |
| `SessionsAreRequests`, `SessionsAreResponses`, `DigitsAreSpelled` | a session is a sequence of requests as `IsRequest` describes them, or of responses (`IsResponse`), any number of them; URL, header names and values are any strings without the separators that end them, and no line is `Content-Length` or `Transfer-Encoding` but the one the body calls for (`IsLine`, `IsMessage`); a body has a `Content-Length` or chunks of at most nine pieces each, so that a length is one digit; only the last response may run to the end of the stream; the piece for a digit is what `ToString` makes of it |
| `KeyIsText`, `FramesAreOpaque` | the key is base64, so none of its pieces is a separator of HTTP, and not empty; a frame stands for itself |
| `FramesAreNoText` | no piece of a frame is a piece of the two handshake messages: this is how `FramesArrived` tells the frames in a stream from the message before them, no restriction on what a frame holds |
| `WordsAreStrings` | the literals of the handshake are strings, which the provers do not know |

`FrameChannelProofs`, on the decoder: `TypeCorrect`, `AlwaysResumable`, `ReaderImplemented`. The inductive
invariant is `IInv == TypeOK /\ Resumable`. `Resumable` has to say, for each parser state, how
much of the frame has left the Buffer and which fields agree with those bytes: with less, the
turn that follows could not be shown to read the right length or key. Inside the loop the
weaker `Reached` holds of the object after every turn: one lemma per parser state
(`BasicHeaderTurn` ... `ApplicationTurn`), each with the growth of `Rank`, gives `LoopExit` (four
turns are enough). `Verdict` turns the exit of the loop into the reader's three cases. `SameFormat`,
`SameMask` and `SameFrame` identify the reader's reading of a frame with the decoder's.

`FrameChannelProofs`, on both directions: `HostsAgreeOnTheWire`, `FrameReadsBack`, `FramesComeThrough`,
`LengthsComeThrough`. Four layers, each cited by the next:

1. the byte order: what each term of a swap is (`MovedRight`, `MovedLeft`), and so what is written
   on one host is read on any other;
2. one frame: the setters (`Filled`), the two header bytes (`FirstHeaderByte`, `SecondHeaderByte`), the
   length field (`LengthFieldBytes`), where each part is (`GetFrameBytes`) and masking twice
   (`XorTwice`) give `FrameReadsBack`: the reader, at any offset of any stream that holds the bytes of
   a frame there, finds its length, opcode and payload;
3. the bytes of an outbox: `BytesOf` is a fold over the frames. `FlattenLast` and `FoldUnfold` say what
   one more element adds; `FramePlace` finds frame *i* at the end of those before it; `ReusedBytes`
   says that a `WebsocketData` that is reset before each frame writes what new ones would;
4. the channel: the inductive invariant `ChannelInv` is the decoder's `IInv` with `delivered` and
   `start` tied to the outbox: the messages are those of the first frames, and `start` the length of
   the bytes of those. A read event then hands over the next frame of the outbox (`FramesStep`), or
   the announced length (`HeaderStep`).

`WebsocketServerProofs`: `TypeCorrect`, `AlwaysWatched`, `WireOrdered`, `PongKept`,
`SessionImplemented`, `CallsOrdered`. The inductive invariant adds `Phase` to the checked ones:
it ties `wsConn` to the handshake and to the context's life. `CallsOrdered` is an invariant of
`WebsocketSession` (`CallOrderInit`, `CallOrderStep`) carried over by the refinement.

`WebsocketClientProofs`: `TypeCorrect`, `AlwaysGuarded`, `AlwaysTold`, `SessionImplemented`. The
invariant adds a `Phase` of its own: the request is the first thing sent, which the last part
of `Told` needs. `TcpStep` collects what any number of `send` and `forceClose` can do, so that
a handler's proof is about its timer, its frame and its callback only.

`HttpParserProofs` has the lemmas that the HTTP theorems and those of the handshake rest on. One
lemma per state handler (`StartReqTurned` ... `ChunkDataAlmostDoneTurned`) says that a turn of
`http_parser_execute` leaves a parser of the right shape, moves forward or ends the call, and keeps
what ties the marks, the pending header name and `complete_` to the state. `TurnTurned` joins them,
`LoopResult` carries them through the loop, and `AfterBytes` and `AfterReset` say that the parser is
`AtRest` again between two reads: no mark is left, what was not consumed is what an upgrade or an
error leaves.

The second part says where in its message a parser is. `Laid` says at which offsets the first line,
each header line, each chunk and the end of a message stand, and `StreamFound` that what the peer
sends is so laid out. `HeadPlace` and `BodyPlace` say, for every state of the parser, at which of
those offsets it can be and what it then remembers (`Place` is that for a stream of messages, with
the count of the head), and, if nothing was cut (`e`), what it has stored. `HeadTurn` and `BodyTurn`
show, state by state, that a turn goes from place to place; `AdvancePlace` adds the count and the
limit, `CallPlaces` a whole call. `Blame` says why a parser may fail; `NotBlamed` (of
`HttpServerProofs`, as is `CallPlaces`) that at a place there is no such reason. For a call that
cuts nothing (`Undivided`) `CallExact` adds that the parser stops where a message ends, and that
what it has then stored is that message (`RequestOf`, `ResponseOf`).

`HttpServerProofs`: `ServerTypes`, `SameAnswers`, `ExactLimit`, `NothingHandledAfterClose`,
`ExactRequests`. The invariant is `ParserInv /\ ResponseInv /\ PlaceInv`. `PlaceInv` puts the
parser, behind the bytes that are not in the Buffer, at its place of the session, or gives the
reason for its failure. So a parser without an error has no reason for one, and one with an error
has: that is `HeaderLimit`. A parser behind a request that closes has no place but the one of the
state `dead`, from which every byte fails; and a call that fails answers nothing, so a read that
takes up a byte behind such a request is not answered, even if it brought the request itself
(`NothingAfterClose`). `RequestsAsSent` needs two invariants more. `CountInv`: the requests that
were answered have ended among the bytes that are not in the Buffer, so there are no more answers
than requests. `ExactInv`: while no read has cut a string or brought bytes of two requests, nothing
is left in the Buffer, the parser has stored exactly what its place says, the requests that have
ended and were owed an answer (`Done`) are those answered, and each answer is to the request as it
was sent (`ExactRead` is the step). `HandledIsDone` identifies `Done` with `Handled` of the
property. Equal answers are a fact about two steps far apart; `ResponseInv` makes one of each: the
response is always as `reset` leaves it (only the version, which nothing sets, and the status of the
last answer are still there), and each answer given is what its own request makes of such a
response.

`HttpClientProofs`: `ClientTypes`, `RequestsStayOwn`, `ResponsesExact`, `ClosedOnlyForCause`. The invariant is
`ParserInv /\ CallbackInv /\ ExactInv`. `OwnRequest` looks at the moment a response is handled; that it holds
there needs `ContextInv`, what the context's request is at every moment after a send (all of the request
until a response is handled, its URL until the connection ends), and `HistoryInv`, that the record of
sends and responses grows in order.

`ExactInv` is about the connections on which no read has cut a string or brought bytes of two
responses. While no send has come in the middle of a response (`CalmAt`) the parser is at its place
of the stream with nothing in the Buffer, and as many responses were handled as are whole (`Done`);
a connection being closed has a cause. After such a send (`TornAt`) the parser has failed, unless it
stood in a body that runs to the end of the stream (`TailPlace`): `SentNothing` then completes that
response, which is handled with the next bytes, and these end the stream (`TailRead`). So a send can
add at most the last response, and only that one may be taken before its end. `NothingTold` says
what `send` does to a parser in each state; `CalmRead`, `TornRead` and `ExactSend` are the steps.
`ClosedForCause` speaks of these connections only: a cut in the name `X-Connection` can leave the
name `Connection`, and the client then closes for a response that never said so.

`HandshakeProofs`: `HandshakeTypes`, `HandshakeAgreement`, `HandshakeFramesKept`,
`HandshakeEstablished`. The inductive invariant `IInv` has `Agreement` and what it follows from. The
first part of the module relates a parser to the bytes it was given. `HeaderLine` says that a name
and a value stand in them as in a header line: the name ends before a `:`, the value begins behind
it after white space and goes on in the same line. `Entries` says that every stored header stands
there so, or has an empty value, and that the status is a piece of those bytes; `NamePending` and
the two marks are what has to be known, byte by byte, to store the next one. `TurnReads` shows that
every turn keeps them (`...Kept` for the states that store nothing, `...Reads` for those of a header
line), `LoopReads` and `CallReads` that a call does, wherever its bytes begin and end. With them the
invariant says:

* `Listening`: before its handshake an endpoint's parser has been given the bytes of its stream up to
  what is in the Buffer, and holds only what it read in them (`Entries`, `NamePending`). `ParsedListens` is
  the step, for either side and any number of bytes; `ListensOn` says that what the peer sends later
  does not disturb it.
* `Answers`: until the server accepts, no `101` is in the client's stream; when it has, the answer in it
  names a beginning of the key. That the server can have read nothing else is `KeyRead`.

The client accepts only with the status `101`, so the server has accepted; and with a digest that it
has read in the stream, so (`ResponseRead`) the digest of all of its key begins the one the server
wrote, which is that of a beginning of the key: both are the whole key. The bytes of the two
messages are worked out from `FlattenSeq` (`RequestLaid`, `ResponseLaid`): `LineStands` says that
the name of the header stands before a `:` at one place only, and the value behind it; `ReadOff`
that whatever `HeaderLine` finds under that name is a beginning of the value.

The second part of the module takes each of the two messages for a stream of one message
(`RequestCarried`, `AnswerCarried`), in which `Place` says where the parser is. The message asks for
an upgrade (`FourUpgrade`), so the call that reaches its end stops there and leaves what follows,
whatever that is (`UpgradeCall`); a client that has refused a complete response finds nothing better
in the frames behind it (`DeafStays`). `Hears` says this of an endpoint before its handshake, with
what it has stored as long as `whole` holds (`UpgradeExact`), and `IsOpen` of one after it: its
decoder is given the bytes of its stream from the end of the message on. `ReadInv`, which is `IInv`
with these for both endpoints, is inductive (`ReadStep`). `FramesKept` follows because what stands
there are the frames sent (`OpenFrames`), `Established` because an endpoint that is still waiting is
before the end of the message, and one that is open is behind it. The limit must have room for the
two messages (`HandshakeFits`); otherwise the parser fails.

`AcceptKeyProofs`: `TypeCorrect`, `MessagePadded`, `EncodingsReadBack`, `EncodingInverse` (for byte
strings of every length). The invariant ties `blocks` to `currentBlock`: each block that was hashed is
the padded message at its place.

Induction over data. The theorems of the library that state it take an operator as a parameter and
cannot be used. Where a fold or a loop is followed (`FlattenSeq`, `FoldLeft`, the turns of the
parser) the induction is over a set of naturals that contains 0 and successors (`NatSetInduction`), and
the existence of the recursive function (`FlatExists`, `FoldExists`, `RunExists`) is proved with it.

Only model-checked:

* `Answered`: the values of the digest are computed by 80 rounds.
* `ValuesKeepTheirNames`, `ClientReads`.
* `HandshakeOrClose`, `Reclaimed`, `CloseCompletes`, `Opens`: liveness (fairness, ENABLED) is outside
  what the prover does.

## Not modelled

* The data race on the plain `bool connected_` and on `TcpConnection::state_` when another thread
  sends: the check reads the current value.
* `printRawData`, logging, the intervals as numbers: a timer may expire at any time after it was
  armed. The quality of the random numbers behind keys and masks.
* The details of `http_parser` named above, and its entry points that nothing calls.
* `package` for a request, which has no caller, and headers that the application sets itself when
  it fills in a response (a `Content-Length` of its own would be sent twice).
* The example programs and the build files.

In `Handshake` digests of different keys differ by assumption; that the digest is SHA-1 is
`AcceptKey`'s part.

## Plan

Done: decoder, encoder, byte order, the two endpoints with calls from other threads, the HTTP
parser, server and client, the handshake, key and digest. Next:

1. Several frames per read as bytes: `WebsocketServer` on top of `WebsocketContext` instead of whole
   frames, to close the gap that `ReaderImplemented` bridges by argument.
2. `HttpClient` joined to `HttpServer`, should `send` come to write its request.
3. Proofs: `ValuesKeepTheirNames` from `Place` and an invariant on what a parser is about to store;
   `ClientReads` from `Place` of the stream that is one packaged response.
