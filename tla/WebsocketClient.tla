--------------------------- MODULE WebsocketClient ---------------------------
(***************************************************************************)
(* The connection of a WebsocketClient: the same TcpConnContext, but one   *)
(* timer only, which guards the handshake and is not replaced after it.    *)
(***************************************************************************)
EXTENDS Connection

VARIABLES
  ctx,                    \* TcpConnContext, alive while the connection holds it
  calls                   \* history: callbacks made to the application

vars == <<tcp, loop, handled, ctx, rx, received, calls>>

(* What goes out: the handshake request, PONGs and the application's data. *)
Item == {"REQUEST", "PONG", "DATA"}

------------------------------------------------------------------------------
(* Mutant: the timer is not armed.                                         *)
EstablishUnguarded ==
  /\ tcp.state = "connecting"
  /\ tcp' = Send([tcp EXCEPT !.state = "connected"], "REQUEST")
  /\ ctx' = [ctx EXCEPT !.alive = TRUE]
  /\ UNCHANGED <<loop, handled, rx, received, calls>>

(* Mutant: the constructor of TcpConnContext leaves timerId_ uninitialized.*)
EstablishUninitialized ==
  /\ tcp.state = "connecting"
  /\ tcp' = Send([tcp EXCEPT !.state = "connected"], "REQUEST")
  /\ loop' = RunAfter(loop, "handshake")
  /\ \E garbage \in 0..2 : ctx' = [ctx EXCEPT !.alive = TRUE, !.timerId = garbage]
  /\ UNCHANGED <<handled, rx, received, calls>>

(* onConnection with the connection up: the request, then the timer.       *)
Establish ==
  /\ tcp.state = "connecting"
  /\ tcp' = Send([tcp EXCEPT !.state = "connected"], "REQUEST")
  /\ loop' = RunAfter(loop, "handshake")
  /\ ctx' = [ctx EXCEPT !.alive = TRUE, !.timerId = loop.next]
  /\ UNCHANGED <<handled, rx, received, calls>>

(* Mutant: setConnected(false) is missing.                                 *)
ReportedPhaseKept(phase) == phase

(* setConnected(false), for a WebsocketConnection that was created.        *)
ReportedPhase(phase) == IF ctx.handshaked THEN "down" ELSE phase

(* Mutant: the end of a connection is always reported.                     *)
ReportCloseAlways(log) == Append(log, "close")

(* Mutant: the end of a connection is never reported.                      *)
ReportCloseNever(log) == log

ReportClose(log) == IF ctx.handshaked THEN Append(log, "close") ELSE log

(* TcpConnection::handleClose and onConnection with the connection down.   *)
Disconnect(closing) ==
  /\ tcp' = [tcp EXCEPT !.state = "disconnected", !.closing = closing]
  /\ loop' = Cancel(loop, ctx.timerId)
  /\ ctx' = [ctx EXCEPT !.alive = FALSE, !.wsConn = ReportedPhase(@)]
  /\ calls' = ReportClose(calls)
  /\ UNCHANGED <<rx, received>>

PeerCloses == Readable /\ Disconnect(tcp.closing)

RunFunctors ==
  /\ handled # {} \/ tcp.closing
  /\ handled' = {}
  /\ IF tcp.closing /\ Live(tcp)
     THEN Disconnect(FALSE)
     ELSE /\ tcp' = [tcp EXCEPT !.closing = FALSE]
          /\ UNCHANGED <<loop, ctx, rx, received, calls>>

------------------------------------------------------------------------------
(* onMessage before the handshake; ok is the result of the HTTP parser.    *)

AfterParser(ok) == IF ok THEN tcp ELSE ForceClose(tcp)

(* No response is complete, or it is not valid: the client waits for more  *)
(* bytes, or for the timer.                                                *)
NoUpgrade(ok) ==
  /\ ~ctx.handshaked
  /\ Receive(<<>>)
  /\ tcp' = AfterParser(ok)
  /\ UNCHANGED <<loop, ctx, rx, calls>>

(* Mutant: the handshake timer goes on running.                            *)
EndHandshakeTimerNot == loop

EndHandshakeTimer == Cancel(loop, ctx.timerId)

(* A valid response; the frames of chunk that follow it in the same read   *)
(* stay in the Buffer.  After a failure of the parser nothing of the       *)
(* Buffer is ever read again.                                              *)
Upgrade(ok, chunk, reaction) ==
  /\ ~ctx.handshaked
  /\ ok \/ chunk = <<>>
  /\ Receive(chunk)
  /\ tcp' = React(AfterParser(ok), reaction)
  /\ loop' = EndHandshakeTimer
  /\ ctx' = [ctx EXCEPT !.handshaked = TRUE, !.wsConn = "up"]
  /\ calls' = Append(calls, "open")
  /\ rx' = chunk

------------------------------------------------------------------------------
(* onMessage after the handshake: at most the first frame of the Buffer.   *)

OnNoFrame(chunk) ==
  /\ Frames(chunk) = <<>>
  /\ UNCHANGED <<tcp, rx, calls>>

OnRefused(chunk) ==
  /\ Frames(chunk) # <<>>
  /\ Head(Frames(chunk)) = "BAD"
  /\ rx' = Frames(chunk)
  /\ tcp' = ForceClose(tcp)
  /\ UNCHANGED calls

First(opcodes, chunk) ==
  /\ Frames(chunk) # <<>>
  /\ Head(Frames(chunk)) \in opcodes
  /\ rx' = Tail(Frames(chunk))

OnPing(chunk) ==
  /\ First({"PING"}, chunk)
  /\ tcp' = Send(tcp, "PONG")
  /\ UNCHANGED calls

OnPong(chunk) ==
  /\ First({"PONG"}, chunk)
  /\ UNCHANGED <<tcp, calls>>

OnData(chunk, reaction) ==
  /\ First({"TEXT", "BINARY"}, chunk)
  /\ calls' = Append(calls, Head(Frames(chunk)))
  /\ tcp' = React(tcp, reaction)

OnClose(chunk) ==
  /\ First({"CLOSE"}, chunk)
  /\ tcp' = ForceClose(tcp)
  /\ UNCHANGED calls

OnFrame(chunk) ==
  /\ ctx.handshaked
  /\ Receive(chunk)
  /\ UNCHANGED <<loop, ctx>>
  /\ \/ OnNoFrame(chunk)
     \/ OnRefused(chunk)
     \/ OnPing(chunk)
     \/ OnPong(chunk)
     \/ \E reaction \in Reaction : OnData(chunk, reaction)
     \/ OnClose(chunk)

------------------------------------------------------------------------------
(* TcpConnection::forceClose, armed by onConnection.                       *)
HandshakeTimeout ==
  \E t \in loop.timers :
    /\ Expires(t, "handshake")
    /\ loop' = Cancel(loop, t.id)
    /\ tcp' = ForceClose(tcp)
    /\ UNCHANGED <<ctx, rx, received, calls>>

(* The application holds the WebsocketConnection and uses it when it likes.*)
UserActs ==
  /\ ctx.wsConn # "null"
  /\ tcp' \in {Send(tcp, "DATA"), ForceClose(tcp)}
  /\ UNCHANGED <<loop, handled, ctx, rx, received, calls>>

(* The application sends from a thread that is not the connection's loop.  *)
OtherThreadSends ==
  /\ ctx.wsConn # "null"
  /\ tcp' = Post(tcp)
  /\ UNCHANGED <<loop, handled, ctx, rx, received, calls>>

(* The functor of such a send, before or after a close that was forced.    *)
RunPosted ==
  /\ tcp.posted
  /\ tcp' = SendInLoop(tcp)
  /\ UNCHANGED <<loop, handled, ctx, rx, received, calls>>

------------------------------------------------------------------------------
Init ==
  /\ tcp = [state |-> "connecting", closing |-> FALSE, posted |-> FALSE, sent |-> {}]
  /\ loop = [timers |-> {}, next |-> 1]
  /\ handled = {}
  /\ ctx = [alive |-> FALSE, timerId |-> 0, handshaked |-> FALSE, wsConn |-> "null"]
  /\ rx = <<>>
  /\ received = 0
  /\ calls = <<>>

OnMessage ==
  \/ \E ok \in BOOLEAN : NoUpgrade(ok)
  \/ \E ok \in BOOLEAN, chunk \in Chunk, reaction \in Reaction :
       Upgrade(ok, chunk, reaction)
  \/ \E chunk \in Chunk : OnFrame(chunk)

Next ==
  \/ Establish
  \/ OnMessage
  \/ HandshakeTimeout
  \/ PeerCloses
  \/ RunFunctors
  \/ UserActs
  \/ OtherThreadSends
  \/ RunPosted

(* As for the server: the loop keeps running.                              *)
Fairness == WF_vars(Establish) /\ WF_vars(HandshakeTimeout) /\ WF_vars(RunFunctors)

Spec == Init /\ [][Next]_vars /\ Fairness
------------------------------------------------------------------------------
Session == INSTANCE WebsocketSession WITH phase <- ctx.wsConn

(* Every variable has its type; the TimerId kept in the context is one     *)
(* runAfter has already returned.                                          *)
TypeOK ==
  /\ tcp \in [state : TcpState, closing : BOOLEAN, posted : BOOLEAN,
               sent : SUBSET Item]
  /\ loop \in [timers : SUBSET [id : Nat, kind : {"handshake"}], next : Nat]
  /\ handled \subseteq {"socket", "timer"}
  /\ ctx \in [alive : BOOLEAN, timerId : Nat, handshaked : BOOLEAN,
               wsConn : {"null", "up", "down"}]
  /\ ctx.timerId < loop.next
  /\ rx \in Seq(Frame)
  /\ Len(rx) <= received /\ received <= MaxFrames
  /\ received \in Nat
  /\ calls \in Seq(Session!Call)

(* The handshake timer is there while a connected client waits for the     *)
(* response, can be cancelled through the context, never runs once the     *)
(* application has the connection, and never outlives the context.         *)
Guarded ==
  /\ \A t \in loop.timers : t.id = ctx.timerId
  /\ tcp.state = "connected" => (loop.timers = {} <=> ctx.handshaked)
  /\ loop.timers # {} => ctx.alive /\ ~ctx.handshaked
  /\ ctx.alive <=> Live(tcp)

(* WebsocketConnection::connected() tells the truth: it is there from the  *)
(* upgrade on, up exactly as long as the TCP connection is, and no frame   *)
(* was sent before it.                                                     *)
Told ==
  /\ ctx.wsConn = "up" <=> ctx.handshaked /\ Live(tcp)
  /\ ctx.wsConn = "down" <=> ctx.handshaked /\ ~Live(tcp)
  /\ tcp.sent \cap {"PONG", "DATA"} # {} => ctx.handshaked /\ "REQUEST" \in tcp.sent

(* The callbacks of onConnection and onMessage keep the order of the       *)
(* session: open once, messages, close once.                               *)
ImplementsSession == Session!Spec

(* WebsocketClient.cc:16: a connection is upgraded or closed in time,      *)
(* whatever the server does; an invalid response does not stop the timer.  *)
HandshakeOrClose ==
  tcp.state = "connected" ~> (ctx.handshaked \/ tcp.state = "disconnected")

(* A close that was forced, by the timer, by a bad frame or by the         *)
(* application, is carried out and reported if the connection was.         *)
CloseCompletes ==
  tcp.state = "disconnecting" ~>
    /\ tcp.state = "disconnected"
    /\ ctx.wsConn # "up"
    /\ ctx.handshaked => calls[Len(calls)] = "close"
==============================================================================
