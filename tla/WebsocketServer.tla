--------------------------- MODULE WebsocketServer ---------------------------
(***************************************************************************)
(* One connection of a WebsocketServer: the TcpConnContext the server      *)
(* keeps in it, the handlers of its socket and of its timers, and what the *)
(* application does from its callbacks or at any other time.               *)
(***************************************************************************)
EXTENDS Connection

VARIABLES
  ctx,                    \* TcpConnContext, alive while the connection holds it
  calls,                  \* history: callbacks made to the application
  ponged                  \* history: a PONG arrived since the last PING timer

vars == <<tcp, loop, handled, ctx, rx, received, calls, ponged>>

(* What goes out: the two HTTP responses, control frames, and the frames   *)
(* of sendText and sendBinary.                                             *)
Item == {"101", "400", "PING", "PONG", "DATA"}

TimerKind == {"handshake", "ping", "response"}

AwaitsPong == \E t \in loop.timers : t.kind = "response"

(* A read event that completes the frames of chunk.                        *)
ReadEvent(chunk) ==
  /\ Receive(chunk)
  /\ ponged' = (ponged \/ (AwaitsPong /\ \E i \in 1..Len(chunk) : chunk[i] = "PONG"))

------------------------------------------------------------------------------
(* Mutant: no handshake timer.                                             *)
EstablishUnwatched ==
  /\ tcp.state = "connecting"
  /\ tcp' = [tcp EXCEPT !.state = "connected"]
  /\ ctx' = [ctx EXCEPT !.alive = TRUE]
  /\ UNCHANGED <<loop, handled, rx, received, calls, ponged>>

(* Mutant: the constructor of TcpConnContext leaves timerId_ uninitialized.*)
EstablishUninitialized ==
  /\ tcp.state = "connecting"
  /\ tcp' = [tcp EXCEPT !.state = "connected"]
  /\ loop' = RunAfter(loop, "handshake")
  /\ \E garbage \in 0..2 : ctx' = [ctx EXCEPT !.alive = TRUE, !.timerId = garbage]
  /\ UNCHANGED <<handled, rx, received, calls, ponged>>

(* onConnection with the connection up: the handshake timer.               *)
Establish ==
  /\ tcp.state = "connecting"
  /\ tcp' = [tcp EXCEPT !.state = "connected"]
  /\ loop' = RunAfter(loop, "handshake")
  /\ ctx' = [ctx EXCEPT !.alive = TRUE, !.timerId = loop.next]
  /\ UNCHANGED <<handled, rx, received, calls, ponged>>

(* Mutant: the end of a connection is always reported.                     *)
AnnouncedAlways == TRUE

(* The application hears of the end only after a handshake.                *)
Announced == ctx.handshaked

(* TcpConnection::handleClose and onConnection with the connection down.   *)
Disconnect(closing) ==
  /\ tcp' = [tcp EXCEPT !.state = "disconnected", !.closing = closing]
  /\ loop' = Cancel(loop, ctx.timerId)
  /\ ctx' = [ctx EXCEPT !.alive = FALSE, !.wsConn = IF Announced THEN "down" ELSE @]
  /\ calls' = IF Announced THEN Append(calls, "close") ELSE calls
  /\ UNCHANGED <<rx, received, ponged>>

(* The peer closed: a read of 0 bytes.                                     *)
PeerCloses == Readable /\ Disconnect(tcp.closing)

(* The end of a loop iteration; forceCloseInLoop does nothing when the     *)
(* connection went down earlier in it.                                     *)
RunFunctors ==
  /\ handled # {} \/ tcp.closing
  /\ handled' = {}
  /\ IF tcp.closing /\ Live(tcp)
     THEN Disconnect(FALSE)
     ELSE /\ tcp' = [tcp EXCEPT !.closing = FALSE]
          /\ UNCHANGED <<loop, ctx, rx, received, calls, ponged>>

------------------------------------------------------------------------------
(* onMessage before the handshake.  The HTTP parser may fail on bytes that *)
(* follow a complete request, and the handler does not return after the    *)
(* failure.                                                                *)

(* Mutant: the connection is left open after the 400 response.             *)
AfterParserOpen(ok) == IF ok THEN tcp ELSE Send(tcp, "400")

AfterParser(ok) == IF ok THEN tcp ELSE ForceClose(Send(tcp, "400"))

(* No request is complete yet.                                             *)
HttpPending(ok) ==
  /\ ~ctx.handshaked
  /\ ReadEvent(<<>>)
  /\ tcp' = AfterParser(ok)
  /\ UNCHANGED <<loop, ctx, rx, calls>>

(* isHandShakeRequest is false.                                            *)
HttpRejected(ok) ==
  /\ ~ctx.handshaked
  /\ ReadEvent(<<>>)
  /\ tcp' = ForceClose(Send(AfterParser(ok), "400"))
  /\ UNCHANGED <<loop, ctx, rx, calls>>

(* Mutant: the pending timer is not cancelled.                             *)
RestartPingOnly ==
  /\ loop' = RunAfter(loop, "ping")
  /\ ctx' = [ctx EXCEPT !.timerId = loop.next]

(* cancel, runAfter(pingInterval_), setTimerId.                            *)
RestartPing ==
  /\ loop' = RunAfter(Cancel(loop, ctx.timerId), "ping")
  /\ ctx' = [ctx EXCEPT !.timerId = loop.next]

(* The request is a handshake; the frames of chunk that follow it in the   *)
(* same read stay in the Buffer.  After a failure of the parser nothing of *)
(* the Buffer is ever read again.                                          *)
HandShake(ok, chunk, reaction) ==
  /\ ~ctx.handshaked
  /\ ok \/ chunk = <<>>
  /\ ReadEvent(chunk)
  /\ tcp' = React(Send(AfterParser(ok), "101"), reaction)
  /\ loop' = RunAfter(Cancel(loop, ctx.timerId), "ping")
  /\ ctx' = [ctx EXCEPT !.timerId = loop.next, !.handshaked = TRUE, !.wsConn = "up"]
  /\ calls' = Append(calls, "open")
  /\ rx' = chunk

------------------------------------------------------------------------------
(* onMessage after the handshake: it decodes and dispatches at most the    *)
(* first frame of the Buffer and leaves the others to later read events.   *)

OnNoFrame(chunk) ==
  /\ Frames(chunk) = <<>>
  /\ UNCHANGED <<tcp, loop, ctx, rx, calls>>

OnRefused(chunk) ==
  /\ Frames(chunk) # <<>>
  /\ Head(Frames(chunk)) = "BAD"
  /\ rx' = Frames(chunk)
  /\ tcp' = ForceClose(tcp)
  /\ UNCHANGED <<loop, ctx, calls>>

First(opcodes, chunk) ==
  /\ Frames(chunk) # <<>>
  /\ Head(Frames(chunk)) \in opcodes
  /\ rx' = Tail(Frames(chunk))

OnPing(chunk) ==
  /\ First({"PING"}, chunk)
  /\ tcp' = Send(tcp, "PONG")
  /\ UNCHANGED <<loop, ctx, calls>>

(* Mutant: a PONG is ignored, as the client does.                          *)
OnPongIgnored(chunk) ==
  /\ First({"PONG"}, chunk)
  /\ UNCHANGED <<tcp, loop, ctx, calls>>

OnPong(chunk) ==
  /\ First({"PONG"}, chunk)
  /\ RestartPing
  /\ UNCHANGED <<tcp, calls>>

OnData(chunk, reaction) ==
  /\ First({"TEXT", "BINARY"}, chunk)
  /\ RestartPing
  /\ calls' = Append(calls, Head(Frames(chunk)))
  /\ tcp' = React(tcp, reaction)

OnClose(chunk) ==
  /\ First({"CLOSE"}, chunk)
  /\ tcp' = ForceClose(tcp)
  /\ UNCHANGED <<loop, ctx, calls>>

OnFrame(chunk) ==
  /\ ctx.handshaked
  /\ ReadEvent(chunk)
  /\ \/ OnNoFrame(chunk)
     \/ OnRefused(chunk)
     \/ OnPing(chunk)
     \/ OnPong(chunk)
     \/ \E reaction \in Reaction : OnData(chunk, reaction)
     \/ OnClose(chunk)

------------------------------------------------------------------------------
(* The timers.                                                             *)

(* TcpConnection::forceClose, armed by onConnection.                       *)
HandshakeTimeout(t) ==
  /\ Expires(t, "handshake")
  /\ loop' = Cancel(loop, t.id)
  /\ tcp' = ForceClose(tcp)
  /\ UNCHANGED <<ctx, rx, received, calls, ponged>>

(* Mutant: no timer waits for the PONG.                                    *)
SendPingOnly(t) ==
  /\ Expires(t, "ping")
  /\ loop' = Cancel(loop, t.id)
  /\ tcp' = Send(tcp, "PING")
  /\ ponged' = FALSE
  /\ UNCHANGED <<ctx, rx, received, calls>>

SendPingTimer(t) ==
  /\ Expires(t, "ping")
  /\ loop' = RunAfter(Cancel(loop, t.id), "response")
  /\ ctx' = [ctx EXCEPT !.timerId = loop.next]
  /\ tcp' = Send(tcp, "PING")
  /\ ponged' = FALSE
  /\ UNCHANGED <<rx, received, calls>>

ResponsePingTimer(t) ==
  /\ Expires(t, "response")
  /\ loop' = Cancel(loop, t.id)
  /\ tcp' = ForceClose(tcp)
  /\ UNCHANGED <<ctx, rx, received, calls, ponged>>

TimerFires ==
  \E t \in loop.timers : HandshakeTimeout(t) \/ SendPingTimer(t) \/ ResponsePingTimer(t)

(* The application holds the WebsocketConnection and uses it when it likes.*)
UserSend ==
  /\ ctx.wsConn # "null"
  /\ tcp' = Send(tcp, "DATA")
  /\ UNCHANGED <<loop, handled, ctx, rx, received, calls, ponged>>

UserForceClose ==
  /\ ctx.wsConn # "null"
  /\ tcp' = ForceClose(tcp)
  /\ UNCHANGED <<loop, handled, ctx, rx, received, calls, ponged>>

(* The application sends from a thread that is not the connection's loop.  *)
OtherThreadSends ==
  /\ ctx.wsConn # "null"
  /\ tcp' = Post(tcp)
  /\ UNCHANGED <<loop, handled, ctx, rx, received, calls, ponged>>

(* The functor of such a send, before or after a close that was forced.    *)
RunPosted ==
  /\ tcp.posted
  /\ tcp' = SendInLoop(tcp)
  /\ UNCHANGED <<loop, handled, ctx, rx, received, calls, ponged>>

------------------------------------------------------------------------------
Init ==
  /\ tcp = [state |-> "connecting", closing |-> FALSE, posted |-> FALSE, sent |-> {}]
  /\ loop = [timers |-> {}, next |-> 1]
  /\ handled = {}
  /\ ctx = [alive |-> FALSE, timerId |-> 0, handshaked |-> FALSE, wsConn |-> "null"]
  /\ rx = <<>>
  /\ received = 0
  /\ calls = <<>>
  /\ ponged = FALSE

OnMessage ==
  \/ \E ok \in BOOLEAN : HttpPending(ok) \/ HttpRejected(ok)
  \/ \E ok \in BOOLEAN, chunk \in Chunk, reaction \in Reaction :
       HandShake(ok, chunk, reaction)
  \/ \E chunk \in Chunk : OnFrame(chunk)

Next ==
  \/ Establish
  \/ OnMessage
  \/ TimerFires
  \/ PeerCloses
  \/ RunFunctors
  \/ UserSend
  \/ UserForceClose
  \/ OtherThreadSends
  \/ RunPosted

(* The loop keeps running: an accepted connection is established, expired  *)
(* timers are handled, every iteration ends.  Nothing is assumed of the    *)
(* peer or of the application.                                             *)
Fairness == WF_vars(Establish) /\ WF_vars(TimerFires) /\ WF_vars(RunFunctors)

Spec == Init /\ [][Next]_vars /\ Fairness
------------------------------------------------------------------------------
Session == INSTANCE WebsocketSession WITH phase <- ctx.wsConn

(* Every variable has its type; the TimerId kept in the context is one     *)
(* runAfter has already returned, and no frame is counted twice.           *)
TypeOK ==
  /\ tcp \in [state : TcpState, closing : BOOLEAN, posted : BOOLEAN,
               sent : SUBSET Item]
  /\ loop \in [timers : SUBSET [id : Nat, kind : TimerKind], next : Nat]
  /\ handled \subseteq {"socket", "timer"}
  /\ ctx \in [alive : BOOLEAN, timerId : Nat, handshaked : BOOLEAN,
               wsConn : {"null", "up", "down"}]
  /\ ctx.timerId < loop.next
  /\ rx \in Seq(Frame)
  /\ Len(rx) <= received /\ received <= MaxFrames
  /\ received \in Nat
  /\ calls \in Seq(Session!Call)
  /\ ponged \in BOOLEAN

(* A connection has at most one timer and it is the one the context can    *)
(* cancel; a connected one is never without; the timer is of the phase the *)
(* connection is in; none outlives the context its callback would cast.    *)
(* Every handler that re-arms must cancel the right one for this to hold.  *)
Watched ==
  /\ \A t \in loop.timers : t.id = ctx.timerId
  /\ \A t, u \in loop.timers : t = u
  /\ \A t \in loop.timers : t.kind = "handshake" <=> ~ctx.handshaked
  /\ tcp.state = "connected" => loop.timers # {}
  /\ loop.timers # {} => ctx.alive
  /\ ctx.alive <=> Live(tcp)

(* On the wire a frame is only ever sent after the 101 response, a         *)
(* connection gets one of 101 and 400, and while it is connected the       *)
(* handshake is recorded exactly when 101 was sent: whatever the parser,   *)
(* the timers and the application do in one loop iteration.                *)
Wire ==
  /\ tcp.sent \cap {"PING", "PONG", "DATA"} # {} => "101" \in tcp.sent
  /\ ~({"101", "400"} \subseteq tcp.sent)
  /\ tcp.state = "connected" =>
       "400" \notin tcp.sent /\ (ctx.handshaked <=> "101" \in tcp.sent)

(* While the server waits for a PONG, one that arrived since the PING is   *)
(* still in the Buffer: no PONG is taken out without ending the wait.      *)
PongPending ==
  AwaitsPong /\ ponged => \E i \in 1..Len(rx) : rx[i] = "PONG"

(* The callbacks of onConnection and onMessage keep the order of the       *)
(* session: open once, messages, close once.                               *)
ImplementsSession == Session!Spec

(* WebsocketServer.cc:23: a connection is upgraded or closed in time,      *)
(* whatever its peer does.                                                 *)
HandshakeOrClose ==
  tcp.state = "connected" ~> (ctx.handshaked \/ tcp.state = "disconnected")

(* A peer that stops sending (it sends at most MaxFrames frames, and       *)
(* partial ones for ever) is disconnected in the end, the application is   *)
(* told if it knew the connection, and no timer is left.                   *)
Reclaimed ==
  tcp.state # "disconnected" ~>
    /\ tcp.state = "disconnected"
    /\ ctx.wsConn # "up"
    /\ loop.timers = {}

(* WebsocketServer.cc:140: the response timer closes connections from      *)
(* which no PONG was received.                                             *)
ClosedForNoPong ==
  [][\A t \in loop.timers : ResponsePingTimer(t) => ~ponged]_vars

(* test_server.cc:10: a WebsocketConnection that is connected is an open   *)
(* websocket connection, so its handshake has been answered.               *)
OpenIsUpgraded == ctx.wsConn = "up" => "101" \in tcp.sent
==============================================================================
