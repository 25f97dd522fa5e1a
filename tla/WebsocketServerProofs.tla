------------------------ MODULE WebsocketServerProofs ------------------------
(***************************************************************************)
(* For every bound on the peer's frames: the server's type invariant, the  *)
(* timer discipline, the order on the wire, the fate of a PONG, and the    *)
(* refinement of the session promised to the application.                  *)
(***************************************************************************)
EXTENDS WebsocketServer, SequenceTheorems, TLAPS

(* The flags of the context and of the WebsocketConnection agree with the  *)
(* TCP state: what the other invariants need to be inductive.              *)
Phase ==
  /\ ctx.handshaked <=> ctx.wsConn # "null"
  /\ tcp.state = "connecting" => ~ctx.handshaked /\ tcp.sent = {}
  /\ Live(tcp) /\ ctx.handshaked => ctx.wsConn = "up"
  /\ tcp.posted => "101" \in tcp.sent

IInv == TypeOK /\ Phase /\ Watched /\ Wire /\ PongPending

------------------------------------------------------------------------------
(* Sequences of frames.                                                    *)

LEMMA ChunkType ==
  ASSUME NEW chunk \in Chunk
  PROVE  chunk \in Seq(Frame) /\ Len(chunk) \in Nat
BY BoundsAreNaturals, SeqDef, LenProperties DEF Chunk

LEMMA FramesType ==
  ASSUME TypeOK, NEW chunk \in Chunk
  PROVE  /\ Frames(chunk) \in Seq(Frame)
         /\ Len(Frames(chunk)) = Len(rx) + Len(chunk)
         /\ \A i \in 1..Len(rx) : Frames(chunk)[i] = rx[i]
         /\ \A i \in 1..Len(chunk) : Frames(chunk)[Len(rx) + i] = chunk[i]
<1>1. chunk \in Seq(Frame) /\ rx \in Seq(Frame)
  BY ChunkType DEF TypeOK
<1>2. /\ rx \o chunk \in Seq(Frame)
      /\ Len(rx \o chunk) = Len(rx) + Len(chunk)
      /\ \A i \in 1..(Len(rx) + Len(chunk)) :
           (rx \o chunk)[i] = IF i <= Len(rx) THEN rx[i] ELSE chunk[i - Len(rx)]
  BY <1>1, ConcatProperties
<1>3. Len(rx) \in Nat /\ Len(chunk) \in Nat
  BY <1>1, LenProperties
<1> QED BY <1>2, <1>3 DEF Frames

LEMMA CallsGrow ==
  ASSUME TypeOK, NEW call \in Session!Call
  PROVE  Append(calls, call) \in Seq(Session!Call)
BY DEF TypeOK

(* ForceClose, Send and the reaction of a callback: the connection they    *)
(* return.                                                                 *)
Tcp == [state : TcpState, closing : BOOLEAN, posted : BOOLEAN, sent : SUBSET Item]

LEMMA ForceCloseEffect ==
  ASSUME NEW t \in Tcp
  PROVE  /\ ForceClose(t) \in Tcp
         /\ ForceClose(t).sent = t.sent
         /\ ForceClose(t).posted = t.posted
         /\ Live(ForceClose(t)) <=> Live(t)
         /\ ForceClose(t).state # "connected"
         /\ ForceClose(t).state = "connecting" <=> t.state = "connecting"
BY DEF Tcp, ForceClose, Live, TcpState

LEMMA SendEffect ==
  ASSUME NEW t \in Tcp, NEW item \in Item
  PROVE  /\ Send(t, item) \in Tcp
         /\ Send(t, item).state = t.state
         /\ Send(t, item).posted = t.posted
         /\ Live(Send(t, item)) <=> Live(t)
         /\ Send(t, item).sent =
              IF t.state = "connected" THEN t.sent \cup {item} ELSE t.sent
BY DEF Tcp, Send, Live

LEMMA ReactEffect ==
  ASSUME NEW t \in Tcp, NEW reaction \in Reaction
  PROVE  /\ React(t, reaction) \in Tcp
         /\ Live(React(t, reaction)) <=> Live(t)
         /\ React(t, reaction).posted = t.posted
         /\ React(t, reaction).state = "connected" => t.state = "connected"
         /\ React(t, reaction).state = "connecting" <=> t.state = "connecting"
         /\ \/ React(t, reaction).sent = t.sent
            \/ /\ React(t, reaction).sent = t.sent \cup {"DATA"}
               /\ t.state = "connected"
<1>1. CASE reaction = "none"
  BY <1>1 DEF React
<1>2. CASE reaction = "send"
  BY <1>2, SendEffect DEF React, Item
<1>3. CASE reaction = "close"
  BY <1>3, ForceCloseEffect DEF React
<1> QED BY <1>1, <1>2, <1>3 DEF Reaction

LEMMA AfterParserEffect ==
  ASSUME TypeOK, NEW ok \in BOOLEAN
  PROVE  /\ AfterParser(ok) \in Tcp
         /\ Live(AfterParser(ok)) <=> Live(tcp)
         /\ AfterParser(ok).posted = tcp.posted
         /\ AfterParser(ok).state = "connecting" <=> tcp.state = "connecting"
         /\ \/ AfterParser(ok) = tcp
            \/ /\ AfterParser(ok).state # "connected"
               /\ AfterParser(ok).sent =
                    IF tcp.state = "connected" THEN tcp.sent \cup {"400"} ELSE tcp.sent
<1>1. tcp \in Tcp
  BY DEF TypeOK, Tcp
<1>2. CASE ok
  BY <1>1, <1>2 DEF AfterParser
<1>3. CASE ~ok
  <2>1. /\ Send(tcp, "400") \in Tcp
        /\ Send(tcp, "400").state = tcp.state
        /\ Send(tcp, "400").posted = tcp.posted
        /\ Live(Send(tcp, "400")) <=> Live(tcp)
        /\ Send(tcp, "400").sent =
             IF tcp.state = "connected" THEN tcp.sent \cup {"400"} ELSE tcp.sent
    BY <1>1, SendEffect DEF Item
  <2>2. AfterParser(ok) = ForceClose(Send(tcp, "400"))
    BY <1>3 DEF AfterParser
  <2> QED BY <2>1, <2>2, ForceCloseEffect
<1> QED BY <1>2, <1>3

(* Under Watched, cancelling the context's timer leaves none, and arming   *)
(* another one leaves just that.                                           *)
LEMMA CancelEffect ==
  ASSUME TypeOK, Watched
  PROVE  Cancel(loop, ctx.timerId) = [timers |-> {}, next |-> loop.next]
<1>1. loop = [timers |-> loop.timers, next |-> loop.next]
  BY DEF TypeOK
<1>2. {t \in loop.timers : t.id # ctx.timerId} = {}
  BY DEF Watched
<1> QED BY <1>1, <1>2 DEF Cancel

LEMMA CancelOneEffect ==
  ASSUME TypeOK, Watched, NEW t \in loop.timers
  PROVE  Cancel(loop, t.id) = [timers |-> {}, next |-> loop.next]
BY CancelEffect DEF Watched

LEMMA RearmEffect ==
  ASSUME NEW next, NEW kind
  PROVE  RunAfter([timers |-> {}, next |-> next], kind)
           = [timers |-> {[id |-> next, kind |-> kind]}, next |-> next + 1]
BY DEF RunAfter

(* What a read event does to the counters.                                 *)
LEMMA ReadEventEffect ==
  ASSUME TypeOK, Watched, NEW chunk \in Chunk, ReadEvent(chunk)
  PROVE  /\ received' = received + Len(chunk)
         /\ received' \in Nat /\ received' <= MaxFrames
         /\ handled' \subseteq {"socket", "timer"}
         /\ ponged' \in BOOLEAN
         /\ Live(tcp) /\ ctx.alive
<1>1. Len(chunk) \in Nat
  BY ChunkType
<1> QED BY <1>1 DEF ReadEvent, Receive, Readable, TypeOK, Watched

LEMMA EmptyChunk == /\ <<>> \in Chunk
                    /\ Len(<<>>) = 0
<1>1. <<>> \in [1..0 -> Frame] /\ 0 \in 0..MaxChunk
  BY BoundsAreNaturals
<1> QED BY <1>1 DEF Chunk

------------------------------------------------------------------------------
(* The invariant holds at first and every step keeps it.                   *)

LEMMA InitInv == Init => IInv
<1> SUFFICES ASSUME Init PROVE IInv
  OBVIOUS
<1> USE DEF Init
<1>1. TypeOK
  <2>1. <<>> \in Seq(Frame) /\ Len(rx) = 0 /\ <<>> \in Seq(Session!Call)
    BY EmptySeq
  <2>2. /\ tcp \in [state : TcpState, closing : BOOLEAN, posted : BOOLEAN,
                    sent : SUBSET Item]
        /\ loop \in [timers : SUBSET [id : Nat, kind : TimerKind], next : Nat]
        /\ ctx.timerId < loop.next
    BY DEF TcpState
  <2>3. ctx \in [alive : BOOLEAN, timerId : Nat, handshaked : BOOLEAN,
                 wsConn : {"null", "up", "down"}]
    OBVIOUS
  <2>4. Len(rx) <= received /\ received <= MaxFrames /\ received \in Nat
    BY <2>1, BoundsAreNaturals
  <2>5. rx \in Seq(Frame) /\ calls \in Seq(Session!Call)
    BY <2>1
  <2>6. handled \subseteq {"socket", "timer"} /\ ponged \in BOOLEAN
    OBVIOUS
  <2> QED BY <2>2, <2>3, <2>4, <2>5, <2>6 DEF TypeOK
<1>2. Phase /\ Watched /\ Wire /\ PongPending
  BY DEF Phase, Watched, Wire, PongPending, Live, AwaitsPong
<1> QED BY <1>1, <1>2 DEF IInv

(* A handler that re-arms leaves one timer, the context's, of its kind.    *)
Rearmed(kind) ==
  /\ loop' = [timers |-> {[id |-> loop.next, kind |-> kind]}, next |-> loop.next + 1]
  /\ ctx'.timerId = loop.next

Context == [alive : BOOLEAN, timerId : Nat, handshaked : BOOLEAN,
            wsConn : {"null", "up", "down"}]

LEMMA RearmedType ==
  ASSUME TypeOK, NEW kind \in TimerKind, Rearmed(kind)
  PROVE  /\ loop' \in [timers : SUBSET [id : Nat, kind : TimerKind], next : Nat]
         /\ ctx'.timerId < loop'.next
<1>1. loop.next \in Nat
  BY DEF TypeOK
<1>2. [id |-> loop.next, kind |-> kind] \in [id : Nat, kind : TimerKind]
  BY <1>1
<1>3. loop.next < loop.next + 1 /\ loop.next + 1 \in Nat
  BY <1>1
<1> QED BY <1>2, <1>3 DEF Rearmed

LEMMA RearmedWatched ==
  ASSUME TypeOK, NEW kind \in TimerKind, Rearmed(kind),
         (kind = "handshake") <=> ~ctx'.handshaked,
         ctx'.alive, Live(tcp)'
  PROVE  Watched'
<1>1. loop'.timers = {[id |-> loop.next, kind |-> kind]}
  BY DEF Rearmed
<1>2. \A t \in loop'.timers : t.id = ctx'.timerId /\ t.kind = kind
  BY <1>1 DEF Rearmed
<1> QED BY <1>1, <1>2 DEF Watched

LEMMA EstablishStep == IInv /\ Establish => IInv'
<1> SUFFICES ASSUME IInv, Establish PROVE IInv'
  OBVIOUS
<1> USE DEF IInv
<1>1. /\ tcp \in Tcp /\ tcp.state = "connecting"
      /\ tcp' = [tcp EXCEPT !.state = "connected"]
  BY DEF Establish, TypeOK, Tcp
<1>2. /\ tcp' \in Tcp /\ tcp'.state = "connected" /\ tcp'.sent = {}
      /\ ~tcp'.posted /\ ~ctx.handshaked
  BY <1>1 DEF Tcp, TcpState, Phase
<1>3. ctx \in Context /\ loop.next \in Nat
  BY DEF TypeOK, Context
<1>4. /\ ctx' \in Context /\ ctx'.alive /\ ctx'.timerId = loop.next
      /\ ~ctx'.handshaked /\ ctx'.wsConn = ctx.wsConn
  BY <1>2, <1>3 DEF Establish, Context
<1>5. Rearmed("handshake")
  <2>1. loop = [timers |-> {}, next |-> loop.next]
    BY <1>1 DEF TypeOK, Watched, Live
  <2> QED BY <2>1, <1>4, RearmEffect DEF Establish, Rearmed
<1>6. UNCHANGED <<handled, rx, received, calls, ponged>>
  BY DEF Establish
<1>7. TypeOK'
  BY <1>2, <1>4, <1>5, <1>6, RearmedType DEF TypeOK, Tcp, Context, TimerKind
<1>8. Phase'
  BY <1>2, <1>4 DEF Phase, Live
<1>9. Watched'
  BY <1>2, <1>4, <1>5, RearmedWatched DEF Live, TimerKind
<1>10. Wire'
  BY <1>2, <1>4 DEF Wire
<1>11. PongPending'
  BY <1>5 DEF PongPending, AwaitsPong, Rearmed
<1> QED BY <1>7, <1>8, <1>9, <1>10, <1>11

------------------------------------------------------------------------------
(* Steps that only use send and forceClose: what they can make of the      *)
(* TcpConnection.                                                          *)

MayTalk == tcp.posted \/ (tcp.state = "connected" /\ ctx.handshaked)

TcpStep ==
  /\ tcp' \in Tcp
  /\ tcp'.posted => MayTalk
  /\ Live(tcp') <=> Live(tcp)
  /\ tcp'.state = "connected" => tcp.state = "connected"
  /\ tcp'.state = "connecting" => tcp.state = "connecting" /\ tcp'.sent = tcp.sent
  /\ \/ tcp'.sent = tcp.sent
     \/ /\ MayTalk
        /\ \E item \in {"PING", "PONG", "DATA"} : tcp'.sent = tcp.sent \cup {item}
     \/ /\ tcp.state = "connected" /\ ~ctx.handshaked /\ tcp'.state # "connected"
        /\ tcp'.sent = tcp.sent \cup {"400"}

LEMMA ForceCloseIsTcpStep ==
  ASSUME TypeOK, tcp' = ForceClose(tcp)
  PROVE  TcpStep /\ tcp'.state # "connected"
<1>1. tcp \in Tcp
  BY DEF TypeOK, Tcp
<1> QED BY <1>1, ForceCloseEffect DEF TcpStep, MayTalk

LEMMA SendIsTcpStep ==
  ASSUME TypeOK, ctx.handshaked, NEW item \in {"PING", "PONG", "DATA"},
         tcp' = Send(tcp, item)
  PROVE  TcpStep /\ tcp'.state = tcp.state
<1>1. tcp \in Tcp /\ item \in Item
  BY DEF TypeOK, Tcp, Item
<1>2. /\ tcp' \in Tcp /\ tcp'.state = tcp.state /\ (Live(tcp') <=> Live(tcp))
      /\ tcp'.posted = tcp.posted
      /\ tcp'.sent = IF tcp.state = "connected" THEN tcp.sent \cup {item} ELSE tcp.sent
  BY <1>1, SendEffect
<1> QED BY <1>2 DEF TcpStep, MayTalk

LEMMA ReactIsTcpStep ==
  ASSUME TypeOK, ctx.handshaked, NEW reaction \in Reaction,
         tcp' = React(tcp, reaction)
  PROVE  TcpStep
<1>1. tcp \in Tcp
  BY DEF TypeOK, Tcp
<1>2. /\ tcp' \in Tcp /\ (Live(tcp') <=> Live(tcp)) /\ tcp'.posted = tcp.posted
      /\ tcp'.state = "connected" => tcp.state = "connected"
      /\ tcp'.state = "connecting" <=> tcp.state = "connecting"
      /\ \/ tcp'.sent = tcp.sent
         \/ tcp'.sent = tcp.sent \cup {"DATA"} /\ tcp.state = "connected"
  BY <1>1, ReactEffect
<1> QED BY <1>2 DEF TcpStep, MayTalk

LEMMA ParserIsTcpStep ==
  ASSUME TypeOK, ~ctx.handshaked, NEW ok \in BOOLEAN,
         \/ tcp' = AfterParser(ok)
         \/ tcp' = ForceClose(Send(AfterParser(ok), "400"))
  PROVE  TcpStep
<1>1. tcp \in Tcp
  BY DEF TypeOK, Tcp
<1> DEFINE t == AfterParser(ok)
<1>2. /\ t \in Tcp /\ (Live(t) <=> Live(tcp)) /\ t.posted = tcp.posted
      /\ t.state = "connecting" <=> tcp.state = "connecting"
      /\ \/ t = tcp
         \/ /\ t.state # "connected"
            /\ t.sent = IF tcp.state = "connected" THEN tcp.sent \cup {"400"}
                        ELSE tcp.sent
  BY AfterParserEffect
<1>3. CASE tcp' = t
  BY <1>2, <1>3 DEF TcpStep, MayTalk
<1>4. CASE tcp' = ForceClose(Send(t, "400"))
  <2> DEFINE u == Send(t, "400")
  <2>1. /\ u \in Tcp /\ u.state = t.state /\ (Live(u) <=> Live(t)) /\ u.posted = t.posted
        /\ u.sent = IF t.state = "connected" THEN t.sent \cup {"400"} ELSE t.sent
    BY <1>2, SendEffect DEF Item
  <2>2. /\ tcp' \in Tcp /\ tcp'.sent = u.sent /\ (Live(tcp') <=> Live(u))
        /\ tcp'.posted = u.posted
        /\ tcp'.state # "connected"
        /\ tcp'.state = "connecting" <=> u.state = "connecting"
    BY <1>4, <2>1, ForceCloseEffect
  <2> QED BY <1>2, <2>1, <2>2 DEF TcpStep, MayTalk
<1> QED BY <1>3, <1>4

(* Nothing but the connection changed: the invariants that do not depend   *)
(* on the Buffer are kept.                                                 *)
LEMMA TcpStepWire ==
  ASSUME IInv, TcpStep, ctx'.handshaked = ctx.handshaked
  PROVE  Wire'
BY DEF IInv, TcpStep, MayTalk, Wire, Phase

LEMMA TcpStepPhase ==
  ASSUME IInv, TcpStep, ctx'.handshaked = ctx.handshaked, ctx'.wsConn = ctx.wsConn
  PROVE  Phase'
BY DEF IInv, TcpStep, MayTalk, Phase, Wire, Live

LEMMA TcpStepWatched ==
  ASSUME IInv, TcpStep, UNCHANGED <<loop, ctx>>
  PROVE  Watched'
BY DEF IInv, TcpStep, Watched, Live

------------------------------------------------------------------------------
(* Steps that move frames: a read event, and the frame First takes.        *)

Buffered(sequence) == \E i \in 1..Len(sequence) : sequence[i] = "PONG"

LEMMA FirstEffect ==
  ASSUME TypeOK, NEW opcodes, NEW chunk \in Chunk, First(opcodes, chunk)
  PROVE  /\ Frames(chunk) \in Seq(Frame) /\ Frames(chunk) # <<>>
         /\ Head(Frames(chunk)) \in opcodes
         /\ rx' \in Seq(Frame)
         /\ Len(rx') = Len(Frames(chunk)) - 1
         /\ Len(Frames(chunk)) = Len(rx) + Len(chunk)
         /\ "PONG" \notin opcodes /\ Buffered(Frames(chunk)) => Buffered(rx')
<1> DEFINE f == Frames(chunk)
<1>1. f \in Seq(Frame) /\ f # <<>> /\ Len(f) = Len(rx) + Len(chunk)
  BY FramesType DEF First
<1>2. /\ Tail(f) \in Seq(Frame) /\ Len(Tail(f)) = Len(f) - 1
      /\ \A i \in 1..Len(Tail(f)) : Tail(f)[i] = f[i + 1]
  BY <1>1, HeadTailProperties
<1>3. rx' = Tail(f) /\ Head(f) \in opcodes /\ Len(f) \in Nat
  BY <1>1, LenProperties DEF First
<1>4. ASSUME "PONG" \notin opcodes, NEW i \in 1..Len(f), f[i] = "PONG"
      PROVE  Buffered(rx')
  <2>1. Head(f) = f[1]
    BY <1>1
  <2>2. i - 1 \in 1..Len(Tail(f)) /\ Tail(f)[i - 1] = f[i]
    BY <1>2, <1>3, <1>4, <2>1
  <2> QED BY <1>3, <1>4, <2>2 DEF Buffered
<1> QED BY <1>1, <1>2, <1>3, <1>4 DEF Buffered

(* If a PONG arrived during the wait, before this read event or with it,   *)
(* it is in the Buffer when the first frame is looked at.                  *)
LEMMA PongIsBuffered ==
  ASSUME TypeOK, PongPending, NEW chunk \in Chunk, ReadEvent(chunk),
         AwaitsPong, ponged'
  PROVE  Buffered(Frames(chunk))
<1>1. /\ Len(Frames(chunk)) = Len(rx) + Len(chunk)
      /\ \A i \in 1..Len(rx) : Frames(chunk)[i] = rx[i]
      /\ \A i \in 1..Len(chunk) : Frames(chunk)[Len(rx) + i] = chunk[i]
  BY FramesType
<1>2. Len(rx) \in Nat /\ Len(chunk) \in Nat
  BY ChunkType, LenProperties DEF TypeOK
<1>3. CASE ponged
  <2>1. PICK i \in 1..Len(rx) : rx[i] = "PONG"
    BY <1>3 DEF PongPending
  <2>2. i \in 1..Len(Frames(chunk)) /\ Frames(chunk)[i] = "PONG"
    BY <1>1, <1>2, <2>1
  <2> QED BY <2>2 DEF Buffered
<1>4. CASE \E i \in 1..Len(chunk) : chunk[i] = "PONG"
  <2>1. PICK i \in 1..Len(chunk) : chunk[i] = "PONG"
    BY <1>4
  <2>2. /\ Len(rx) + i \in 1..Len(Frames(chunk))
        /\ Frames(chunk)[Len(rx) + i] = "PONG"
    BY <1>1, <1>2, <2>1
  <2> QED BY <2>2 DEF Buffered
<1> QED BY <1>3, <1>4 DEF ReadEvent

(* A read event that leaves the timers alone and takes at most a frame     *)
(* that is no PONG out of the Buffer.                                      *)
LEMMA ReadKeepsPong ==
  ASSUME TypeOK, PongPending, NEW chunk \in Chunk, ReadEvent(chunk), UNCHANGED loop,
         Buffered(Frames(chunk)) => Buffered(rx')
  PROVE  PongPending'
<1>1. AwaitsPong' <=> AwaitsPong
  BY DEF AwaitsPong
<1> QED BY <1>1, PongIsBuffered DEF PongPending, Buffered

------------------------------------------------------------------------------
(* onMessage.                                                              *)

LEMMA HttpStep ==
  ASSUME IInv, NEW ok \in BOOLEAN, HttpPending(ok) \/ HttpRejected(ok)
  PROVE  IInv'
<1> USE DEF IInv
<1>1. /\ ~ctx.handshaked /\ ReadEvent(<<>>) /\ UNCHANGED <<loop, ctx, rx, calls>>
      /\ \/ tcp' = AfterParser(ok)
         \/ tcp' = ForceClose(Send(AfterParser(ok), "400"))
  BY DEF HttpPending, HttpRejected
<1>2. TcpStep
  BY <1>1, ParserIsTcpStep
<1>3. TypeOK'
  <2>1. received' = received /\ handled' \subseteq {"socket", "timer"} /\ ponged' \in BOOLEAN
    BY <1>1, EmptyChunk, ReadEventEffect DEF TypeOK
  <2> QED BY <1>1, <1>2, <2>1 DEF TypeOK, TcpStep, Tcp
<1>4. Phase' /\ Watched' /\ Wire'
  BY <1>1, <1>2, TcpStepPhase, TcpStepWatched, TcpStepWire
<1>5. PongPending'
  <2>1. Frames(<<>>) = rx
    BY ConcatEmptySeq DEF Frames, TypeOK
  <2> QED BY <1>1, <2>1, EmptyChunk, ReadKeepsPong DEF Buffered
<1> QED BY <1>3, <1>4, <1>5

(* The frames after which only send and forceClose are called.             *)
LEMMA QuietFrameStep ==
  ASSUME IInv, NEW chunk \in Chunk, ctx.handshaked, ReadEvent(chunk),
         OnNoFrame(chunk) \/ OnRefused(chunk) \/ OnPing(chunk) \/ OnClose(chunk)
  PROVE  IInv'
<1> USE DEF IInv
<1>1. UNCHANGED <<loop, ctx, calls>>
  BY DEF OnNoFrame, OnRefused, OnPing, OnClose
<1>2. TcpStep
  <2>1. CASE OnNoFrame(chunk)
    BY <2>1 DEF OnNoFrame, TcpStep, MayTalk, TypeOK, Tcp
  <2>2. CASE OnRefused(chunk) \/ OnClose(chunk)
    BY <2>2, ForceCloseIsTcpStep DEF OnRefused, OnClose
  <2>3. CASE OnPing(chunk)
    BY <2>3, SendIsTcpStep DEF OnPing
  <2> QED BY <2>1, <2>2, <2>3
<1>3. /\ rx' \in Seq(Frame) /\ Len(rx') <= Len(rx) + Len(chunk)
      /\ Buffered(Frames(chunk)) => Buffered(rx')
  <2>1. Len(rx) \in Nat /\ Len(chunk) \in Nat
    BY ChunkType, LenProperties DEF TypeOK
  <2>2. CASE OnNoFrame(chunk)
    <3>1. Len(Frames(chunk)) = 0 /\ rx' = rx
      BY <2>2, EmptySeq DEF OnNoFrame
    <3> QED BY <2>1, <3>1 DEF Buffered, TypeOK
  <2>3. CASE OnRefused(chunk)
    BY <2>1, <2>3, FramesType DEF OnRefused
  <2>4. CASE OnPing(chunk) \/ OnClose(chunk)
    <3>1. First({"PING"}, chunk) \/ First({"CLOSE"}, chunk)
      BY <2>4 DEF OnPing, OnClose
    <3> QED BY <2>1, <3>1, FirstEffect
  <2> QED BY <2>2, <2>3, <2>4
<1>4. TypeOK'
  <2>1. /\ received' = received + Len(chunk) /\ received' \in Nat
        /\ received' <= MaxFrames /\ handled' \subseteq {"socket", "timer"}
        /\ ponged' \in BOOLEAN
    BY ReadEventEffect
  <2>2. Len(rx') <= received'
    BY <1>3, <2>1, ChunkType, LenProperties DEF TypeOK
  <2> QED BY <1>1, <1>2, <1>3, <2>1, <2>2 DEF TypeOK, TcpStep, Tcp
<1>5. Phase' /\ Watched' /\ Wire'
  BY <1>1, <1>2, TcpStepPhase, TcpStepWatched, TcpStepWire
<1>6. PongPending'
  BY <1>1, <1>3, ReadKeepsPong
<1> QED BY <1>4, <1>5, <1>6

LEMMA RestartPingEffect ==
  ASSUME TypeOK, Watched, RestartPing
  PROVE  /\ Rearmed("ping")
         /\ ctx' \in Context /\ ctx'.alive = ctx.alive
         /\ ctx'.handshaked = ctx.handshaked /\ ctx'.wsConn = ctx.wsConn
<1>1. ctx \in Context /\ loop.next \in Nat
  BY DEF TypeOK, Context
<1>2. loop' = RunAfter([timers |-> {}, next |-> loop.next], "ping")
  BY CancelEffect DEF RestartPing
<1> QED BY <1>1, <1>2, RearmEffect DEF RestartPing, Rearmed, Context

(* The frames that restart the ping timer.                                 *)
LEMMA RestartingFrameStep ==
  ASSUME IInv, NEW chunk \in Chunk, ctx.handshaked, ReadEvent(chunk),
         NEW reaction \in Reaction, OnPong(chunk) \/ OnData(chunk, reaction)
  PROVE  IInv'
<1> USE DEF IInv
<1>1. RestartPing /\ (First({"PONG"}, chunk) \/ First({"TEXT", "BINARY"}, chunk))
  BY DEF OnPong, OnData
<1>2. /\ Rearmed("ping") /\ ctx' \in Context /\ ctx'.alive = ctx.alive
      /\ ctx'.handshaked = ctx.handshaked /\ ctx'.wsConn = ctx.wsConn
  BY <1>1, RestartPingEffect
<1>3. TcpStep
  <2>1. CASE OnPong(chunk)
    BY <2>1 DEF OnPong, TcpStep, MayTalk, TypeOK, Tcp
  <2>2. CASE OnData(chunk, reaction)
    BY <2>2, ReactIsTcpStep DEF OnData
  <2> QED BY <2>1, <2>2
<1>4. /\ received' = received + Len(chunk) /\ received' \in Nat
      /\ received' <= MaxFrames /\ handled' \subseteq {"socket", "timer"}
      /\ ponged' \in BOOLEAN /\ Live(tcp) /\ ctx.alive
  BY ReadEventEffect
<1>5. TypeOK'
  <2>1. rx' \in Seq(Frame) /\ Len(rx') = Len(rx) + Len(chunk) - 1
    BY <1>1, FirstEffect
  <2>2. Len(rx') <= received'
    BY <1>4, <2>1, ChunkType, LenProperties DEF TypeOK
  <2>3. calls' \in Seq(Session!Call)
    <3>1. CASE OnPong(chunk)
      BY <3>1 DEF OnPong, TypeOK
    <3>2. CASE OnData(chunk, reaction)
      <4>1. Head(Frames(chunk)) \in Session!Call
        BY <3>2 DEF OnData, First, Session!Call, Session!Message
      <4> QED BY <3>2, <4>1, CallsGrow DEF OnData
    <3> QED BY <3>1, <3>2
  <2>4. /\ loop' \in [timers : SUBSET [id : Nat, kind : TimerKind], next : Nat]
        /\ ctx'.timerId < loop'.next
    BY <1>2, RearmedType DEF TimerKind
  <2> QED BY <1>2, <1>3, <1>4, <2>1, <2>2, <2>3, <2>4 DEF TypeOK, TcpStep, Tcp, Context
<1>6. Watched'
  BY <1>2, <1>3, <1>4, RearmedWatched DEF TcpStep, TimerKind
<1>7. Phase' /\ Wire'
  BY <1>2, <1>3, TcpStepPhase, TcpStepWire
<1>8. PongPending'
  BY <1>2 DEF PongPending, AwaitsPong, Rearmed
<1> QED BY <1>5, <1>6, <1>7, <1>8

LEMMA HandShakeStep ==
  ASSUME IInv, NEW ok \in BOOLEAN, NEW chunk \in Chunk, NEW reaction \in Reaction,
         HandShake(ok, chunk, reaction)
  PROVE  IInv'
<1> USE DEF IInv
<1> DEFINE t == Send(AfterParser(ok), "101")
<1>1. ~ctx.handshaked /\ ReadEvent(chunk) /\ tcp' = React(t, reaction) /\ rx' = chunk
  BY DEF HandShake
<1>2. /\ received' = received + Len(chunk) /\ received' \in Nat
      /\ received' <= MaxFrames /\ handled' \subseteq {"socket", "timer"}
      /\ ponged' \in BOOLEAN /\ Live(tcp) /\ ctx.alive
  BY <1>1, ReadEventEffect
<1>3. ctx \in Context /\ loop.next \in Nat /\ tcp \in Tcp
  BY DEF TypeOK, Context, Tcp
<1>4. /\ ctx' \in Context /\ ctx'.alive /\ ctx'.handshaked /\ ctx'.wsConn = "up"
      /\ ctx'.timerId = loop.next
  BY <1>2, <1>3 DEF HandShake, Context
<1>5. Rearmed("ping")
  <2>1. loop' = RunAfter([timers |-> {}, next |-> loop.next], "ping")
    BY CancelEffect DEF HandShake
  <2> QED BY <1>4, <2>1, RearmEffect DEF Rearmed
<1>6. /\ tcp' \in Tcp /\ Live(tcp') /\ tcp'.state # "connecting"
      /\ tcp'.posted = tcp.posted
      /\ \/ /\ tcp'.state # "connected"
            /\ \/ tcp'.sent = tcp.sent
               \/ tcp'.sent = tcp.sent \cup {"400"} /\ tcp.state = "connected"
         \/ /\ tcp.state = "connected"
            /\ \/ tcp'.sent = tcp.sent \cup {"101"}
               \/ tcp'.sent = tcp.sent \cup {"101", "DATA"}
  <2> DEFINE a == AfterParser(ok)
  <2>1. /\ a \in Tcp /\ (Live(a) <=> Live(tcp)) /\ a.posted = tcp.posted
        /\ a.state = "connecting" <=> tcp.state = "connecting"
        /\ \/ a = tcp
           \/ /\ a.state # "connected"
              /\ a.sent = IF tcp.state = "connected" THEN tcp.sent \cup {"400"}
                          ELSE tcp.sent
    BY <1>3, AfterParserEffect
  <2>2. /\ t \in Tcp /\ t.state = a.state /\ (Live(t) <=> Live(a)) /\ t.posted = a.posted
        /\ t.sent = IF a.state = "connected" THEN a.sent \cup {"101"} ELSE a.sent
    BY <2>1, SendEffect DEF Item
  <2>3. /\ tcp' \in Tcp /\ (Live(tcp') <=> Live(t)) /\ tcp'.posted = t.posted
        /\ tcp'.state = "connected" => t.state = "connected"
        /\ tcp'.state = "connecting" <=> t.state = "connecting"
        /\ \/ tcp'.sent = t.sent
           \/ tcp'.sent = t.sent \cup {"DATA"} /\ t.state = "connected"
    BY <1>1, <2>2, ReactEffect
  <2>4. tcp.state # "connecting"
    BY <1>2 DEF Live
  <2>5. CASE a.state = "connected"
    <3>1. a = tcp /\ t.sent = tcp.sent \cup {"101"}
      BY <2>1, <2>2, <2>5
    <3>2. \/ tcp'.sent = tcp.sent \cup {"101"}
          \/ tcp'.sent = tcp.sent \cup {"101", "DATA"}
      BY <2>3, <3>1
    <3> QED BY <1>2, <2>1, <2>2, <2>3, <2>4, <2>5, <3>1, <3>2
  <2>6. CASE a.state # "connected"
    BY <1>2, <2>1, <2>2, <2>3, <2>4, <2>6
  <2> QED BY <2>5, <2>6
<1>7. TypeOK'
  <2>1. rx' \in Seq(Frame) /\ Len(rx') <= received'
    BY <1>1, <1>2, ChunkType DEF TypeOK
  <2>2. calls' \in Seq(Session!Call)
    BY CallsGrow DEF HandShake, Session!Call
  <2>3. /\ loop' \in [timers : SUBSET [id : Nat, kind : TimerKind], next : Nat]
        /\ ctx'.timerId < loop'.next
    BY <1>5, RearmedType DEF TimerKind
  <2> QED BY <1>2, <1>4, <1>6, <2>1, <2>2, <2>3 DEF TypeOK, Tcp, Context
<1>8. Phase'
  BY <1>4, <1>6 DEF Phase
<1>9. Watched'
  BY <1>4, <1>5, <1>6, RearmedWatched DEF TimerKind
<1>10. Wire'
  BY <1>1, <1>4, <1>6 DEF Wire
<1>11. PongPending'
  BY <1>5 DEF PongPending, AwaitsPong, Rearmed
<1> QED BY <1>7, <1>8, <1>9, <1>10, <1>11

LEMMA OnMessageStep == IInv /\ OnMessage => IInv'
<1> SUFFICES ASSUME IInv, OnMessage PROVE IInv'
  OBVIOUS
<1>1. ASSUME NEW ok \in BOOLEAN, HttpPending(ok) \/ HttpRejected(ok) PROVE IInv'
  BY <1>1, HttpStep
<1>2. ASSUME NEW ok \in BOOLEAN, NEW chunk \in Chunk, NEW reaction \in Reaction,
             HandShake(ok, chunk, reaction)
      PROVE  IInv'
  BY <1>2, HandShakeStep
<1>3. ASSUME NEW chunk \in Chunk, OnFrame(chunk) PROVE IInv'
  <2>1. ctx.handshaked /\ ReadEvent(chunk)
    BY <1>3 DEF OnFrame
  <2>2. CASE OnNoFrame(chunk) \/ OnRefused(chunk) \/ OnPing(chunk) \/ OnClose(chunk)
    BY <2>1, <2>2, QuietFrameStep
  <2>3. CASE OnPong(chunk)
    BY <2>1, <2>3, RestartingFrameStep DEF Reaction
  <2>4. CASE \E reaction \in Reaction : OnData(chunk, reaction)
    BY <2>1, <2>4, RestartingFrameStep
  <2> QED BY <1>3, <2>2, <2>3, <2>4 DEF OnFrame
<1> QED BY <1>1, <1>2, <1>3 DEF OnMessage

------------------------------------------------------------------------------
(* Timers, the end of the connection, and the application.                 *)

LEMMA TimeoutStep ==
  ASSUME IInv, NEW t \in loop.timers, HandshakeTimeout(t) \/ ResponsePingTimer(t)
  PROVE  IInv'
<1> USE DEF IInv
<1>1. /\ tcp' = ForceClose(tcp) /\ loop' = Cancel(loop, t.id)
      /\ handled' = handled \cup {"timer"}
      /\ UNCHANGED <<ctx, rx, received, calls, ponged>>
  BY DEF HandshakeTimeout, ResponsePingTimer, Expires
<1>2. loop' = [timers |-> {}, next |-> loop.next]
  BY <1>1, CancelOneEffect
<1>3. TcpStep /\ tcp'.state # "connected"
  BY <1>1, ForceCloseIsTcpStep
<1>4. TypeOK'
  BY <1>1, <1>2, <1>3 DEF TypeOK, TcpStep, Tcp
<1>5. Phase' /\ Wire'
  BY <1>1, <1>3, TcpStepPhase, TcpStepWire
<1>6. Watched'
  BY <1>1, <1>2, <1>3 DEF Watched, TcpStep, Live
<1>7. PongPending'
  BY <1>2 DEF PongPending, AwaitsPong
<1> QED BY <1>4, <1>5, <1>6, <1>7

LEMMA SendPingStep ==
  ASSUME IInv, NEW t \in loop.timers, SendPingTimer(t)
  PROVE  IInv'
<1> USE DEF IInv
<1>1. /\ tcp' = Send(tcp, "PING") /\ ponged' = FALSE /\ UNCHANGED <<rx, received, calls>>
      /\ handled' = handled \cup {"timer"} /\ t.kind = "ping"
  BY DEF SendPingTimer, Expires
<1>2. ctx.handshaked /\ ctx.alive /\ Live(tcp)
  BY <1>1 DEF Watched
<1>3. TcpStep
  BY <1>1, <1>2, SendIsTcpStep
<1>4. ctx \in Context /\ loop.next \in Nat
  BY DEF TypeOK, Context
<1>5. /\ ctx' \in Context /\ ctx'.alive = ctx.alive /\ ctx'.timerId = loop.next
      /\ ctx'.handshaked = ctx.handshaked /\ ctx'.wsConn = ctx.wsConn
  BY <1>4 DEF SendPingTimer, Context
<1>6. Rearmed("response")
  <2>1. loop' = RunAfter([timers |-> {}, next |-> loop.next], "response")
    BY CancelOneEffect DEF SendPingTimer
  <2> QED BY <1>5, <2>1, RearmEffect DEF Rearmed
<1>7. TypeOK'
  <2>1. /\ loop' \in [timers : SUBSET [id : Nat, kind : TimerKind], next : Nat]
        /\ ctx'.timerId < loop'.next
    BY <1>6, RearmedType DEF TimerKind
  <2> QED BY <1>1, <1>3, <1>5, <2>1 DEF TypeOK, TcpStep, Tcp, Context
<1>8. Phase' /\ Wire'
  BY <1>3, <1>5, TcpStepPhase, TcpStepWire
<1>9. Watched'
  BY <1>2, <1>3, <1>5, <1>6, RearmedWatched DEF TcpStep, TimerKind
<1>10. PongPending'
  BY <1>1 DEF PongPending
<1> QED BY <1>7, <1>8, <1>9, <1>10

LEMMA DisconnectStep ==
  ASSUME IInv, NEW closing \in BOOLEAN, Live(tcp), Disconnect(closing),
         handled' \subseteq {"socket", "timer"}
  PROVE  IInv'
<1> USE DEF IInv, Disconnect, Announced
<1>1. tcp \in Tcp /\ ctx \in Context
  BY DEF TypeOK, Tcp, Context
<1>2. /\ tcp' \in Tcp /\ tcp'.state = "disconnected" /\ tcp'.sent = tcp.sent
      /\ tcp'.posted = tcp.posted
  BY <1>1 DEF Tcp, TcpState
<1>3. /\ ctx' \in Context /\ ~ctx'.alive /\ ctx'.timerId = ctx.timerId
      /\ ctx'.handshaked = ctx.handshaked
      /\ ctx'.wsConn = IF ctx.handshaked THEN "down" ELSE ctx.wsConn
  BY <1>1 DEF Context
<1>4. loop' = [timers |-> {}, next |-> loop.next]
  BY CancelEffect
<1>5. TypeOK'
  <2>1. calls' \in Seq(Session!Call)
    BY CallsGrow DEF TypeOK, Session!Call
  <2> QED BY <1>2, <1>3, <1>4, <2>1 DEF TypeOK, Tcp, Context
<1>6. Phase'
  BY <1>2, <1>3 DEF Phase, Live
<1>7. Watched'
  BY <1>2, <1>3, <1>4 DEF Watched, Live
<1>8. Wire'
  BY <1>2 DEF Wire
<1>9. PongPending'
  BY <1>4 DEF PongPending, AwaitsPong
<1> QED BY <1>5, <1>6, <1>7, <1>8, <1>9

LEMMA RunFunctorsStep == IInv /\ RunFunctors => IInv'
<1> SUFFICES ASSUME IInv, RunFunctors PROVE IInv'
  OBVIOUS
<1> USE DEF IInv
<1>1. handled' = {}
  BY DEF RunFunctors
<1>2. CASE tcp.closing /\ Live(tcp)
  BY <1>1, <1>2, DisconnectStep DEF RunFunctors
<1>3. CASE ~(tcp.closing /\ Live(tcp))
  <2>1. /\ tcp' = [tcp EXCEPT !.closing = FALSE]
        /\ UNCHANGED <<loop, ctx, rx, received, calls, ponged>>
    BY <1>3 DEF RunFunctors
  <2>2. TcpStep
    <3>1. tcp \in Tcp
      BY DEF TypeOK, Tcp
    <3>2. /\ tcp' \in Tcp /\ tcp'.state = tcp.state /\ tcp'.sent = tcp.sent
          /\ tcp'.posted = tcp.posted
      BY <2>1, <3>1 DEF Tcp
    <3> QED BY <3>2 DEF TcpStep, MayTalk, Live
  <2>3. TypeOK'
    BY <1>1, <2>1, <2>2 DEF TypeOK, TcpStep, Tcp
  <2>4. Phase' /\ Watched' /\ Wire'
    BY <2>1, <2>2, TcpStepPhase, TcpStepWatched, TcpStepWire
  <2>5. PongPending'
    BY <2>1 DEF PongPending, AwaitsPong
  <2> QED BY <2>3, <2>4, <2>5
<1> QED BY <1>2, <1>3

(* The application, in the loop's thread or in another.                    *)
UserActs == UserSend \/ UserForceClose \/ OtherThreadSends

LEMMA UserStep == IInv /\ (UserActs \/ RunPosted) => IInv'
<1> SUFFICES ASSUME IInv, UserActs \/ RunPosted PROVE IInv'
  OBVIOUS
<1> USE DEF IInv
<1>1. UNCHANGED <<loop, handled, ctx, rx, received, calls, ponged>>
  BY DEF UserActs, UserSend, UserForceClose, OtherThreadSends, RunPosted
<1>2. TcpStep
  <2>1. CASE UserSend
    BY <2>1, SendIsTcpStep DEF UserSend, Phase
  <2>2. CASE UserForceClose
    BY <2>2, ForceCloseIsTcpStep DEF UserForceClose
  <2>3. tcp \in Tcp
    BY DEF TypeOK, Tcp
  <2>4. CASE OtherThreadSends
    BY <2>3, <2>4 DEF OtherThreadSends, Post, Phase, TcpStep, MayTalk, Tcp, Live
  <2>5. CASE RunPosted
    <3>1. /\ tcp.posted /\ "DATA" \in Item
          /\ tcp' = [tcp EXCEPT !.posted = FALSE,
                                !.sent = IF Live(tcp) THEN @ \cup {"DATA"} ELSE @]
      BY <2>5 DEF RunPosted, SendInLoop, Item
    <3>2. /\ tcp' \in Tcp /\ tcp'.state = tcp.state /\ ~tcp'.posted
          /\ tcp'.sent = tcp.sent \/ tcp'.sent = tcp.sent \cup {"DATA"}
      BY <2>3, <3>1 DEF Tcp
    <3>3. tcp.state # "connecting"
      BY <3>1 DEF Phase
    <3> QED BY <3>1, <3>2, <3>3 DEF TcpStep, MayTalk, Live
  <2> QED BY <2>1, <2>2, <2>4, <2>5 DEF UserActs
<1>3. TypeOK'
  BY <1>1, <1>2 DEF TypeOK, TcpStep, Tcp
<1>4. Phase' /\ Watched' /\ Wire'
  BY <1>1, <1>2, TcpStepPhase, TcpStepWatched, TcpStepWire
<1>5. PongPending'
  BY <1>1 DEF PongPending, AwaitsPong
<1> QED BY <1>3, <1>4, <1>5

LEMMA StepInv == IInv /\ [Next]_vars => IInv'
<1> SUFFICES ASSUME IInv, [Next]_vars PROVE IInv'
  OBVIOUS
<1>1. CASE Establish
  BY <1>1, EstablishStep
<1>2. CASE OnMessage
  BY <1>2, OnMessageStep
<1>3. CASE TimerFires
  <2>1. PICK t \in loop.timers :
          HandshakeTimeout(t) \/ SendPingTimer(t) \/ ResponsePingTimer(t)
    BY <1>3 DEF TimerFires
  <2> QED BY <2>1, TimeoutStep, SendPingStep
<1>4. CASE PeerCloses
  <2>1. /\ Live(tcp) /\ Disconnect(tcp.closing)
        /\ tcp.closing \in BOOLEAN /\ handled' \subseteq {"socket", "timer"}
    BY <1>4 DEF PeerCloses, Readable, IInv, TypeOK
  <2> QED BY <2>1, DisconnectStep
<1>5. CASE RunFunctors
  BY <1>5, RunFunctorsStep
<1>6. CASE UserActs \/ RunPosted
  BY <1>6, UserStep
<1>7. CASE UNCHANGED vars
  BY <1>7 DEF vars, IInv, TypeOK, Phase, Watched, Wire, PongPending, Live, AwaitsPong
<1> QED BY <1>1, <1>2, <1>3, <1>4, <1>5, <1>6, <1>7 DEF Next, UserActs

(* The inductive invariant.                                                *)
LEMMA Invariance == Spec => []IInv
BY InitInv, StepInv, PTL DEF Spec

------------------------------------------------------------------------------
(* The theorems.                                                           *)

(* Type correctness, for every bound on the frames.                        *)
THEOREM TypeCorrect == Spec => []TypeOK
BY Invariance, PTL DEF IInv

(* Every connected connection is watched by the one timer its context can  *)
(* cancel, and no timer survives the connection.                           *)
THEOREM AlwaysWatched == Spec => []Watched
BY Invariance, PTL DEF IInv

(* Frames follow the 101 response, and 101 excludes 400.                   *)
THEOREM WireOrdered == Spec => []Wire
BY Invariance, PTL DEF IInv

(* A PONG received during the wait is not lost, only delayed.              *)
THEOREM PongKept == Spec => []PongPending
BY Invariance, PTL DEF IInv

------------------------------------------------------------------------------
(* The server implements the session.                                      *)

SessionStep == [Session!Next]_<<ctx.wsConn, calls>>

LEMMA SessionInit == Init => Session!Init
BY DEF Init, Session!Init

(* With neither the report nor the log changed the session stutters.       *)
LEMMA Unreported ==
  ASSUME ctx'.wsConn = ctx.wsConn, calls' = calls
  PROVE  SessionStep
BY DEF SessionStep

LEMMA DisconnectReports ==
  ASSUME IInv, NEW closing, Live(tcp), Disconnect(closing)
  PROVE  SessionStep
<1>1. ctx \in Context
  BY DEF IInv, TypeOK, Context
<1>2. CASE ctx.handshaked
  <2>1. ctx.wsConn = "up" /\ ctx'.wsConn = "down" /\ calls' = Append(calls, "close")
    BY <1>1, <1>2 DEF IInv, Phase, Disconnect, Announced, Context
  <2> QED BY <2>1 DEF SessionStep, Session!Next, Session!Close
<1>3. CASE ~ctx.handshaked
  <2>1. ctx'.wsConn = ctx.wsConn /\ calls' = calls
    BY <1>1, <1>3 DEF Disconnect, Announced, Context
  <2> QED BY <2>1, Unreported
<1> QED BY <1>2, <1>3

LEMMA OnMessageReports ==
  ASSUME IInv, OnMessage
  PROVE  SessionStep
<1>1. ctx \in Context
  BY DEF IInv, TypeOK, Context
<1>2. ASSUME NEW ok \in BOOLEAN, HttpPending(ok) \/ HttpRejected(ok) PROVE SessionStep
  BY <1>2, Unreported DEF HttpPending, HttpRejected
<1>3. ASSUME NEW ok, NEW chunk, NEW reaction, HandShake(ok, chunk, reaction)
      PROVE  SessionStep
  <2>1. ctx.wsConn = "null" /\ ctx'.wsConn = "up" /\ calls' = Append(calls, "open")
    BY <1>1, <1>3 DEF HandShake, IInv, Phase, Context
  <2> QED BY <2>1 DEF SessionStep, Session!Next, Session!Open
<1>4. ASSUME NEW chunk, OnFrame(chunk) PROVE SessionStep
  <2>1. ctx.wsConn = "up"
    BY <1>4 DEF OnFrame, ReadEvent, Receive, Readable, IInv, Phase
  <2>2. ASSUME RestartPing PROVE ctx'.wsConn = ctx.wsConn
    BY <1>1, <2>2 DEF RestartPing, Context
  <2>3. CASE OnNoFrame(chunk) \/ OnRefused(chunk) \/ OnPing(chunk) \/ OnClose(chunk)
    BY <2>3, Unreported DEF OnNoFrame, OnRefused, OnPing, OnClose
  <2>4. CASE OnPong(chunk)
    BY <2>2, <2>4, Unreported DEF OnPong
  <2>5. ASSUME NEW reaction, OnData(chunk, reaction) PROVE SessionStep
    <3>1. PICK message \in Session!Message : calls' = Append(calls, message)
      BY <2>5 DEF OnData, First, Session!Message
    <3>2. Session!Deliver(message)
      BY <2>1, <2>2, <2>5, <3>1 DEF OnData, Session!Deliver
    <3> QED BY <3>2 DEF SessionStep, Session!Next
  <2> QED BY <1>4, <2>3, <2>4, <2>5 DEF OnFrame
<1> QED BY <1>2, <1>3, <1>4 DEF OnMessage

LEMMA NextReports == IInv /\ [Next]_vars => SessionStep
<1> SUFFICES ASSUME IInv, [Next]_vars PROVE SessionStep
  OBVIOUS
<1>1. ctx \in Context
  BY DEF IInv, TypeOK, Context
<1>2. CASE Establish
  BY <1>1, <1>2, Unreported DEF Establish, Context
<1>3. CASE OnMessage
  BY <1>3, OnMessageReports
<1>4. CASE TimerFires
  <2>1. ctx'.wsConn = ctx.wsConn /\ calls' = calls
    BY <1>1, <1>4 DEF TimerFires, HandshakeTimeout, SendPingTimer, ResponsePingTimer, Context
  <2> QED BY <2>1, Unreported
<1>5. CASE PeerCloses
  BY <1>5, DisconnectReports DEF PeerCloses, Readable
<1>6. CASE RunFunctors
  BY <1>6, DisconnectReports, Unreported DEF RunFunctors
<1>7. CASE UserActs \/ RunPosted \/ UNCHANGED vars
  BY <1>7, Unreported
  DEF UserActs, UserSend, UserForceClose, OtherThreadSends, RunPosted, vars
<1> QED BY <1>2, <1>3, <1>4, <1>5, <1>6, <1>7 DEF Next, UserActs

(* The callbacks of every connection are a session.                        *)
THEOREM SessionImplemented == Spec => ImplementsSession
<1>1. Init => Session!Init
  BY SessionInit
<1>2. IInv /\ [Next]_vars => [Session!Next]_Session!vars
  BY NextReports DEF SessionStep, Session!vars
<1> QED BY <1>1, <1>2, Invariance, PTL DEF Spec, ImplementsSession, Session!Spec

------------------------------------------------------------------------------
(* The shape of the callback log that every session has.                   *)

LEMMA CallOrderInit == Session!Init => Session!CallOrder
BY DEF Session!Init, Session!CallOrder

LEMMA CallOrderStep == Session!CallOrder /\ [Session!Next]_(Session!vars) => Session!CallOrder'
<1> SUFFICES ASSUME Session!CallOrder, [Session!Next]_(Session!vars) PROVE Session!CallOrder'
  OBVIOUS
<1> USE DEF Session!CallOrder
<1>1. ASSUME NEW call \in Session!Call, calls' = Append(calls, call)
      PROVE  /\ calls' \in Seq(Session!Call) /\ Len(calls') = Len(calls) + 1
             /\ Len(calls) \in Nat /\ calls' # <<>>
             /\ \A i \in 1..Len(calls) : calls'[i] = calls[i]
             /\ calls'[Len(calls) + 1] = call
  BY <1>1
<1>2. (calls = <<>>) <=> (Len(calls) = 0)
  OBVIOUS
<1>3. CASE Session!Open
  <2>1. /\ calls = <<>> /\ ctx'.wsConn = "up" /\ calls' = Append(calls, "open")
        /\ "open" \in Session!Call
    BY <1>3 DEF Session!Open, Session!Call
  <2> QED BY <1>1, <2>1
<1>4. ASSUME NEW message \in Session!Message, Session!Deliver(message) PROVE Session!CallOrder'
  <2>1. /\ calls # <<>> /\ ctx.wsConn = "up" /\ ctx'.wsConn = "up"
        /\ calls' = Append(calls, message) /\ message \in Session!Call
        /\ message # "open" /\ message # "close"
    BY <1>4 DEF Session!Deliver, Session!Call, Session!Message
  <2>2. Len(calls) >= 1
    BY <1>2, <2>1
  <2> QED BY <1>1, <2>1, <2>2
<1>5. CASE Session!Close
  <2>1. /\ calls # <<>> /\ ctx.wsConn = "up" /\ ctx'.wsConn = "down"
        /\ calls' = Append(calls, "close") /\ "close" \in Session!Call
    BY <1>5 DEF Session!Close, Session!Call
  <2>2. Len(calls) >= 1
    BY <1>2, <2>1
  <2> QED BY <1>1, <2>1, <2>2
<1>6. CASE UNCHANGED Session!vars
  BY <1>6 DEF Session!vars
<1> QED BY <1>3, <1>4, <1>5, <1>6 DEF Session!Next

(* So the callbacks of every connection are in order: "open" first and     *)
(* once, "close" last and once, and never the one without the other before *)
(* it.                                                                     *)
THEOREM CallsOrdered == Spec => []Session!CallOrder
<1>1. Spec => Session!Spec
  BY SessionImplemented DEF ImplementsSession
<1> QED BY <1>1, CallOrderInit, CallOrderStep, PTL DEF Session!Spec
==============================================================================
