------------------------ MODULE WebsocketClientProofs ------------------------
(***************************************************************************)
(* For every bound on the server's frames: the client's type invariant,    *)
(* the life of its handshake timer, what connected() tells, and the        *)
(* refinement of the session promised to the application.                  *)
(***************************************************************************)
EXTENDS WebsocketClient, SequenceTheorems, TLAPS

(* The request is the first thing sent, and nothing happens before; other  *)
(* threads have the connection once it is upgraded.                        *)
Phase ==
  /\ tcp.state = "connecting" => ~ctx.handshaked /\ tcp.sent = {}
  /\ Live(tcp) => "REQUEST" \in tcp.sent
  /\ tcp.posted => ctx.handshaked

IInv == TypeOK /\ Phase /\ Guarded /\ Told

Tcp == [state : TcpState, closing : BOOLEAN, posted : BOOLEAN, sent : SUBSET Item]

Loop == [timers : SUBSET [id : Nat, kind : {"handshake"}], next : Nat]

Context == [alive : BOOLEAN, timerId : Nat, handshaked : BOOLEAN,
            wsConn : {"null", "up", "down"}]

------------------------------------------------------------------------------
(* Sequences of frames.                                                    *)

LEMMA ChunkType ==
  ASSUME NEW chunk \in Chunk
  PROVE  chunk \in Seq(Frame) /\ Len(chunk) \in Nat
BY BoundsAreNaturals, SeqDef, LenProperties DEF Chunk

LEMMA EmptyChunk == <<>> \in Chunk /\ Len(<<>>) = 0
<1>1. <<>> \in [1..0 -> Frame] /\ 0 \in 0..MaxChunk
  BY BoundsAreNaturals
<1> QED BY <1>1 DEF Chunk

LEMMA FramesType ==
  ASSUME TypeOK, NEW chunk \in Chunk
  PROVE  Frames(chunk) \in Seq(Frame) /\ Len(Frames(chunk)) = Len(rx) + Len(chunk)
<1>1. chunk \in Seq(Frame) /\ rx \in Seq(Frame)
  BY ChunkType DEF TypeOK
<1> QED BY <1>1, ConcatProperties DEF Frames

LEMMA FirstEffect ==
  ASSUME TypeOK, NEW opcodes, NEW chunk \in Chunk, First(opcodes, chunk)
  PROVE  /\ Head(Frames(chunk)) \in opcodes
         /\ rx' \in Seq(Frame)
         /\ Len(rx') = Len(rx) + Len(chunk) - 1
<1>1. Frames(chunk) \in Seq(Frame) /\ Frames(chunk) # <<>>
  BY FramesType DEF First
<1>2. /\ Tail(Frames(chunk)) \in Seq(Frame)
      /\ Len(Tail(Frames(chunk))) = Len(Frames(chunk)) - 1
  BY <1>1, HeadTailProperties
<1>3. Len(Frames(chunk)) = Len(rx) + Len(chunk)
  BY FramesType
<1>4. rx' = Tail(Frames(chunk)) /\ Head(Frames(chunk)) \in opcodes
  BY DEF First
<1> QED BY <1>2, <1>3, <1>4

(* What a read event does to the counters.                                 *)
LEMMA ReceiveEffect ==
  ASSUME TypeOK, NEW chunk \in Chunk, Receive(chunk)
  PROVE  /\ received' = received + Len(chunk)
         /\ received' \in Nat /\ received' <= MaxFrames
         /\ handled' \subseteq {"socket", "timer"}
         /\ Live(tcp)
<1>1. Len(chunk) \in Nat
  BY ChunkType
<1> QED BY <1>1 DEF Receive, Readable, TypeOK

LEMMA CallsGrow ==
  ASSUME TypeOK, NEW call \in Session!Call
  PROVE  Append(calls, call) \in Seq(Session!Call)
BY DEF TypeOK

------------------------------------------------------------------------------
(* The connection that ForceClose, Send and React return.                  *)

LEMMA ForceCloseEffect ==
  ASSUME NEW t \in Tcp
  PROVE  /\ ForceClose(t) \in Tcp
         /\ ForceClose(t).sent = t.sent
         /\ ForceClose(t).posted = t.posted
         /\ Live(ForceClose(t)) <=> Live(t)
         /\ ForceClose(t).state # "connected"
         /\ ForceClose(t).state = "connecting" <=> t.state = "connecting"
BY DEF Tcp, ForceClose, Live, TcpState

LEMMA SendEffect ==
  ASSUME NEW t \in Tcp, NEW item \in Item
  PROVE  /\ Send(t, item) \in Tcp
         /\ Send(t, item).state = t.state
         /\ Send(t, item).posted = t.posted
         /\ Live(Send(t, item)) <=> Live(t)
         /\ Send(t, item).sent =
              IF t.state = "connected" THEN t.sent \cup {item} ELSE t.sent
BY DEF Tcp, Send, Live

LEMMA ReactEffect ==
  ASSUME NEW t \in Tcp, NEW reaction \in Reaction
  PROVE  /\ React(t, reaction) \in Tcp
         /\ Live(React(t, reaction)) <=> Live(t)
         /\ React(t, reaction).posted = t.posted
         /\ React(t, reaction).state = "connected" => t.state = "connected"
         /\ React(t, reaction).state = "connecting" <=> t.state = "connecting"
         /\ \/ React(t, reaction).sent = t.sent
            \/ /\ React(t, reaction).sent = t.sent \cup {"DATA"}
               /\ t.state = "connected"
<1>1. CASE reaction = "none"
  BY <1>1 DEF React
<1>2. CASE reaction = "send"
  BY <1>2, SendEffect DEF React, Item
<1>3. CASE reaction = "close"
  BY <1>3, ForceCloseEffect DEF React
<1> QED BY <1>1, <1>2, <1>3 DEF Reaction

(* What a step that only sends or forces the close makes of the connection *)
(* (mayTalk: frames may be sent).                                          *)
TcpStep(mayTalk) ==
  /\ tcp' \in Tcp
  /\ tcp'.posted => tcp.posted \/ mayTalk
  /\ Live(tcp') <=> Live(tcp)
  /\ tcp'.state = "connected" => tcp.state = "connected"
  /\ tcp'.state = "connecting" <=> tcp.state = "connecting"
  /\ \/ tcp'.sent = tcp.sent
     \/ /\ mayTalk /\ Live(tcp)
        /\ \E item \in {"PONG", "DATA"} : tcp'.sent = tcp.sent \cup {item}

LEMMA ForceCloseIsTcpStep ==
  ASSUME TypeOK, NEW mayTalk, tcp' = ForceClose(tcp)
  PROVE  TcpStep(mayTalk) /\ tcp'.state # "connected"
<1>1. tcp \in Tcp
  BY DEF TypeOK, Tcp
<1> QED BY <1>1, ForceCloseEffect DEF TcpStep

LEMMA SendIsTcpStep ==
  ASSUME TypeOK, NEW item \in {"PONG", "DATA"}, tcp' = Send(tcp, item)
  PROVE  TcpStep(TRUE)
<1>1. tcp \in Tcp /\ item \in Item
  BY DEF TypeOK, Tcp, Item
<1>2. /\ tcp' \in Tcp /\ tcp'.state = tcp.state /\ (Live(tcp') <=> Live(tcp))
      /\ tcp'.posted = tcp.posted
      /\ tcp'.sent = IF tcp.state = "connected" THEN tcp.sent \cup {item} ELSE tcp.sent
  BY <1>1, SendEffect
<1> QED BY <1>2 DEF TcpStep, Live

LEMMA ReactIsTcpStep ==
  ASSUME TypeOK, NEW reaction \in Reaction, tcp' = React(tcp, reaction)
  PROVE  TcpStep(TRUE)
<1>1. tcp \in Tcp
  BY DEF TypeOK, Tcp
<1>2. /\ tcp' \in Tcp /\ (Live(tcp') <=> Live(tcp)) /\ tcp'.posted = tcp.posted
      /\ tcp'.state = "connected" => tcp.state = "connected"
      /\ tcp'.state = "connecting" <=> tcp.state = "connecting"
      /\ \/ tcp'.sent = tcp.sent
         \/ tcp'.sent = tcp.sent \cup {"DATA"} /\ tcp.state = "connected"
  BY <1>1, ReactEffect
<1> QED BY <1>2 DEF TcpStep, Live

(* Such a step keeps the invariants when it leaves the context alone.      *)
LEMMA TcpStepKeeps ==
  ASSUME IInv, TcpStep(ctx.handshaked), UNCHANGED <<loop, ctx>>
  PROVE  Phase' /\ Guarded' /\ Told'
<1>1. Phase'
  BY DEF IInv, TcpStep, Phase
<1>2. Guarded'
  BY DEF IInv, TcpStep, Guarded, Live
<1>3. Told'
  BY DEF IInv, TcpStep, Told, Phase
<1> QED BY <1>1, <1>2, <1>3

(* Under Guarded, cancelling the context's timer leaves none.              *)
LEMMA CancelEffect ==
  ASSUME TypeOK, Guarded
  PROVE  Cancel(loop, ctx.timerId) = [timers |-> {}, next |-> loop.next]
<1>1. loop = [timers |-> loop.timers, next |-> loop.next]
  BY DEF TypeOK
<1>2. {t \in loop.timers : t.id # ctx.timerId} = {}
  BY DEF Guarded
<1> QED BY <1>1, <1>2 DEF Cancel

------------------------------------------------------------------------------
(* The invariant holds at first and every step keeps it.                   *)

LEMMA InitInv == Init => IInv
<1> SUFFICES ASSUME Init PROVE IInv
  OBVIOUS
<1> USE DEF Init
<1>1. TypeOK
  <2>1. <<>> \in Seq(Frame) /\ Len(rx) = 0 /\ <<>> \in Seq(Session!Call)
    BY EmptySeq
  <2>2. /\ tcp \in [state : TcpState, closing : BOOLEAN, posted : BOOLEAN,
                    sent : SUBSET Item]
        /\ loop \in [timers : SUBSET [id : Nat, kind : {"handshake"}], next : Nat]
        /\ ctx.timerId < loop.next
    BY DEF TcpState
  <2>3. ctx \in [alive : BOOLEAN, timerId : Nat, handshaked : BOOLEAN,
                 wsConn : {"null", "up", "down"}]
    OBVIOUS
  <2>4. Len(rx) <= received /\ received <= MaxFrames /\ received \in Nat
    BY <2>1, BoundsAreNaturals
  <2>5. rx \in Seq(Frame) /\ calls \in Seq(Session!Call)
    BY <2>1
  <2> QED BY <2>2, <2>3, <2>4, <2>5 DEF TypeOK
<1>2. Phase /\ Guarded /\ Told
  BY DEF Phase, Guarded, Told, Live
<1> QED BY <1>1, <1>2 DEF IInv

LEMMA EstablishStep == IInv /\ Establish => IInv'
<1> SUFFICES ASSUME IInv, Establish PROVE IInv'
  OBVIOUS
<1> USE DEF IInv
<1>1. /\ tcp \in Tcp /\ tcp.state = "connecting" /\ tcp.sent = {}
      /\ ~ctx.handshaked /\ ctx \in Context /\ loop.next \in Nat
  BY DEF Establish, TypeOK, Phase, Tcp, Context
<1>2. /\ tcp' \in Tcp /\ tcp'.state = "connected" /\ tcp'.sent = {"REQUEST"}
      /\ tcp'.posted = FALSE
  <2> DEFINE t == [tcp EXCEPT !.state = "connected"]
  <2>1. t \in Tcp /\ t.state = "connected" /\ t.sent = {} /\ t.posted = FALSE
    BY <1>1 DEF Tcp, TcpState, Phase
  <2>2. tcp' = Send(t, "REQUEST") /\ "REQUEST" \in Item
    BY DEF Establish, Item
  <2> HIDE DEF t
  <2> QED BY <2>1, <2>2, SendEffect
<1>3. /\ ctx' \in Context /\ ctx'.alive /\ ctx'.timerId = loop.next
      /\ ~ctx'.handshaked /\ ctx'.wsConn = ctx.wsConn
  BY <1>1 DEF Establish, Context
<1>4. /\ loop' \in Loop /\ loop'.next = loop.next + 1
      /\ loop'.timers = {[id |-> loop.next, kind |-> "handshake"]}
  <2>1. loop.timers = {}
    BY <1>1 DEF Guarded, Live
  <2>2. loop' = [timers |-> {[id |-> loop.next, kind |-> "handshake"]},
                 next |-> loop.next + 1]
    BY <2>1 DEF Establish, RunAfter
  <2>3. [id |-> loop.next, kind |-> "handshake"] \in [id : Nat, kind : {"handshake"}]
    BY <1>1
  <2> QED BY <1>1, <2>2, <2>3 DEF Loop
<1>5. UNCHANGED <<handled, rx, received, calls>>
  BY DEF Establish
<1>6. TypeOK'
  BY <1>1, <1>2, <1>3, <1>4, <1>5 DEF TypeOK, Tcp, Context, Loop
<1>7. Phase' /\ Told'
  BY <1>1, <1>2, <1>3 DEF Phase, Told, Live
<1>8. Guarded'
  <2>1. loop'.timers # {} /\ \A t \in loop'.timers : t.id = ctx'.timerId
    BY <1>3, <1>4
  <2> QED BY <1>2, <1>3, <2>1 DEF Guarded, Live
<1> QED BY <1>6, <1>7, <1>8

LEMMA NoUpgradeStep ==
  ASSUME IInv, NEW ok \in BOOLEAN, NoUpgrade(ok)
  PROVE  IInv'
<1> USE DEF IInv
<1>1. /\ Receive(<<>>) /\ tcp' = AfterParser(ok)
      /\ UNCHANGED <<loop, ctx, rx, calls>>
  BY DEF NoUpgrade
<1>2. TcpStep(ctx.handshaked)
  <2>1. CASE ok
    BY <1>1, <2>1 DEF AfterParser, TcpStep, TypeOK, Tcp
  <2>2. CASE ~ok
    BY <1>1, <2>2, ForceCloseIsTcpStep DEF AfterParser
  <2> QED BY <2>1, <2>2
<1>3. received' = received /\ handled' \subseteq {"socket", "timer"}
  BY <1>1, EmptyChunk, ReceiveEffect DEF TypeOK
<1>4. TypeOK'
  BY <1>1, <1>2, <1>3 DEF TypeOK, TcpStep, Tcp
<1> QED BY <1>1, <1>2, <1>4, TcpStepKeeps

LEMMA UpgradeStep ==
  ASSUME IInv, NEW ok \in BOOLEAN, NEW chunk \in Chunk, NEW reaction \in Reaction,
         Upgrade(ok, chunk, reaction)
  PROVE  IInv'
<1> USE DEF IInv
<1>1. ~ctx.handshaked /\ Receive(chunk) /\ rx' = chunk /\ calls' = Append(calls, "open")
  BY DEF Upgrade
<1>2. /\ received' = received + Len(chunk) /\ received' \in Nat
      /\ received' <= MaxFrames /\ handled' \subseteq {"socket", "timer"}
      /\ Live(tcp) /\ ctx.alive
  BY <1>1, ReceiveEffect DEF Guarded
<1>3. ctx \in Context /\ tcp \in Tcp
  BY DEF TypeOK, Context, Tcp
<1>4. /\ ctx' \in Context /\ ctx'.alive /\ ctx'.handshaked /\ ctx'.wsConn = "up"
      /\ ctx'.timerId = ctx.timerId
  BY <1>2, <1>3 DEF Upgrade, Context
<1>5. loop' = [timers |-> {}, next |-> loop.next]
  BY CancelEffect DEF Upgrade, EndHandshakeTimer
<1>6. /\ tcp' \in Tcp /\ Live(tcp') /\ tcp'.state # "connecting"
      /\ tcp'.sent = tcp.sent \/ tcp'.sent = tcp.sent \cup {"DATA"}
  <2> DEFINE a == AfterParser(ok)
  <2>1. a \in Tcp /\ Live(a) /\ a.state # "connecting" /\ a.sent = tcp.sent
    <3>1. tcp.state # "connecting"
      BY <1>2 DEF Live
    <3> QED BY <1>2, <1>3, <3>1, ForceCloseEffect DEF AfterParser
  <2>2. tcp' = React(a, reaction)
    BY DEF Upgrade
  <2> HIDE DEF a
  <2> QED BY <2>1, <2>2, ReactEffect
<1>7. TypeOK'
  <2>1. rx' \in Seq(Frame) /\ Len(rx') <= received'
    BY <1>1, <1>2, ChunkType DEF TypeOK
  <2>2. calls' \in Seq(Session!Call)
    BY <1>1, CallsGrow DEF Session!Call
  <2> QED BY <1>2, <1>4, <1>5, <1>6, <2>1, <2>2 DEF TypeOK, Tcp, Context
<1>8. Phase' /\ Told'
  BY <1>2, <1>4, <1>6 DEF Phase, Told
<1>9. Guarded'
  BY <1>4, <1>5, <1>6 DEF Guarded
<1> QED BY <1>7, <1>8, <1>9

LEMMA OnFrameStep ==
  ASSUME IInv, NEW chunk \in Chunk, OnFrame(chunk)
  PROVE  IInv'
<1> USE DEF IInv
<1>1. ctx.handshaked /\ Receive(chunk) /\ UNCHANGED <<loop, ctx>>
  BY DEF OnFrame
<1>2. /\ received' = received + Len(chunk) /\ received' \in Nat
      /\ received' <= MaxFrames /\ handled' \subseteq {"socket", "timer"}
  BY <1>1, ReceiveEffect
<1>3. Len(rx) \in Nat /\ Len(chunk) \in Nat /\ Len(rx) <= received
  BY ChunkType, LenProperties DEF TypeOK
<1>4. calls' \in Seq(Session!Call)
  <2>1. calls \in Seq(Session!Call)
    BY DEF TypeOK
  <2>2. ASSUME NEW reaction, OnData(chunk, reaction) PROVE calls' \in Seq(Session!Call)
    <3>1. Head(Frames(chunk)) \in Session!Call
      BY <2>2 DEF OnData, First, Session!Call, Session!Message
    <3> QED BY <2>2, <3>1, CallsGrow DEF OnData
  <2> QED BY <2>1, <2>2 DEF OnFrame, OnNoFrame, OnRefused, OnPing, OnPong, OnClose
<1>5. rx' \in Seq(Frame) /\ Len(rx') <= Len(rx) + Len(chunk)
  <2>1. CASE rx' = Frames(chunk)
    BY <1>3, <2>1, FramesType
  <2>2. CASE rx' = rx
    BY <1>3, <2>2 DEF TypeOK
  <2>3. ASSUME NEW opcodes, First(opcodes, chunk)
        PROVE  rx' \in Seq(Frame) /\ Len(rx') <= Len(rx) + Len(chunk)
    BY <1>3, <2>3, FirstEffect
  <2> QED
    BY <2>1, <2>2, <2>3
    DEF OnFrame, OnNoFrame, OnRefused, OnPing, OnPong, OnData, OnClose
<1>6. TcpStep(TRUE)
  <2>1. CASE UNCHANGED tcp
    BY <2>1 DEF TcpStep, TypeOK, Tcp
  <2>2. CASE tcp' = ForceClose(tcp)
    BY <2>2, ForceCloseIsTcpStep
  <2>3. CASE tcp' = Send(tcp, "PONG")
    BY <2>3, SendIsTcpStep
  <2>4. CASE \E reaction \in Reaction : tcp' = React(tcp, reaction)
    BY <2>4, ReactIsTcpStep
  <2> QED
    BY <2>1, <2>2, <2>3, <2>4
    DEF OnFrame, OnNoFrame, OnRefused, OnPing, OnPong, OnData, OnClose
<1>7. TypeOK'
  <2>1. Len(rx') <= received'
    BY <1>2, <1>3, <1>5, LenProperties DEF TypeOK
  <2> QED BY <1>1, <1>2, <1>4, <1>5, <1>6, <2>1 DEF TypeOK, TcpStep, Tcp
<1>8. Phase' /\ Guarded' /\ Told'
  BY <1>1, <1>6, TcpStepKeeps DEF TcpStep
<1> QED BY <1>7, <1>8

LEMMA TimeoutStep == IInv /\ HandshakeTimeout => IInv'
<1> SUFFICES ASSUME IInv, HandshakeTimeout PROVE IInv'
  OBVIOUS
<1> USE DEF IInv
<1>1. PICK t \in loop.timers :
        /\ tcp' = ForceClose(tcp) /\ loop' = Cancel(loop, t.id)
        /\ handled' = handled \cup {"timer"}
        /\ UNCHANGED <<ctx, rx, received, calls>>
  BY DEF HandshakeTimeout, Expires
<1>2. loop' = [timers |-> {}, next |-> loop.next]
  BY <1>1, CancelEffect DEF Guarded
<1>3. TcpStep(ctx.handshaked) /\ tcp'.state # "connected"
  BY <1>1, ForceCloseIsTcpStep
<1>4. TypeOK'
  BY <1>1, <1>2, <1>3 DEF TypeOK, TcpStep, Tcp
<1>5. Phase' /\ Told'
  BY <1>1, <1>3 DEF TcpStep, Phase, Told
<1>6. Guarded'
  BY <1>1, <1>2, <1>3 DEF Guarded, TcpStep
<1> QED BY <1>4, <1>5, <1>6

LEMMA DisconnectStep ==
  ASSUME IInv, NEW closing \in BOOLEAN, Live(tcp), Disconnect(closing),
         handled' \subseteq {"socket", "timer"}
  PROVE  IInv'
<1> USE DEF IInv
<1>1. tcp \in Tcp /\ ctx \in Context
  BY DEF TypeOK, Tcp, Context
<1>2. /\ tcp' \in Tcp /\ tcp'.state = "disconnected" /\ tcp'.sent = tcp.sent
      /\ tcp'.posted = tcp.posted
  BY <1>1 DEF Disconnect, Tcp, TcpState
<1>3. /\ ctx' \in Context /\ ~ctx'.alive /\ ctx'.timerId = ctx.timerId
      /\ ctx'.handshaked = ctx.handshaked
      /\ ctx'.wsConn = IF ctx.handshaked THEN "down" ELSE ctx.wsConn
  BY <1>1 DEF Disconnect, ReportedPhase, Context
<1>4. loop' = [timers |-> {}, next |-> loop.next]
  BY CancelEffect DEF Disconnect
<1>5. TypeOK'
  <2>1. calls' \in Seq(Session!Call) /\ UNCHANGED <<rx, received>>
    BY CallsGrow DEF Disconnect, ReportClose, TypeOK, Session!Call
  <2> QED BY <1>2, <1>3, <1>4, <2>1 DEF TypeOK, Tcp, Context
<1>6. Phase' /\ Told'
  BY <1>2, <1>3 DEF Phase, Told, Live
<1>7. Guarded'
  BY <1>2, <1>3, <1>4 DEF Guarded, Live
<1> QED BY <1>5, <1>6, <1>7

LEMMA RunFunctorsStep == IInv /\ RunFunctors => IInv'
<1> SUFFICES ASSUME IInv, RunFunctors PROVE IInv'
  OBVIOUS
<1> USE DEF IInv
<1>1. handled' = {}
  BY DEF RunFunctors
<1>2. CASE tcp.closing /\ Live(tcp)
  BY <1>1, <1>2, DisconnectStep DEF RunFunctors
<1>3. CASE ~(tcp.closing /\ Live(tcp))
  <2>1. /\ tcp' = [tcp EXCEPT !.closing = FALSE]
        /\ UNCHANGED <<loop, ctx, rx, received, calls>>
    BY <1>3 DEF RunFunctors
  <2>2. TcpStep(ctx.handshaked)
    <3>1. tcp \in Tcp
      BY DEF TypeOK, Tcp
    <3>2. /\ tcp' \in Tcp /\ tcp'.state = tcp.state /\ tcp'.sent = tcp.sent
          /\ tcp'.posted = tcp.posted
      BY <2>1, <3>1 DEF Tcp
    <3> QED BY <3>2 DEF TcpStep, Live
  <2>3. TypeOK'
    BY <1>1, <2>1, <2>2 DEF TypeOK, TcpStep, Tcp
  <2> QED BY <2>1, <2>2, <2>3, TcpStepKeeps
<1> QED BY <1>2, <1>3

(* The application, in the loop's thread or in another.                    *)
ApplicationStep == UserActs \/ OtherThreadSends \/ RunPosted

LEMMA UserStep == IInv /\ ApplicationStep => IInv'
<1> SUFFICES ASSUME IInv, ApplicationStep PROVE IInv'
  OBVIOUS
<1> USE DEF IInv
<1>1. UNCHANGED <<loop, handled, ctx, rx, received, calls>> /\ ctx.handshaked
  BY DEF ApplicationStep, UserActs, OtherThreadSends, RunPosted, Told, Phase, TypeOK
<1>2. TcpStep(TRUE)
  <2>1. CASE UserActs
    BY <2>1, SendIsTcpStep, ForceCloseIsTcpStep DEF UserActs
  <2>2. tcp \in Tcp
    BY DEF TypeOK, Tcp
  <2>3. CASE OtherThreadSends
    BY <2>2, <2>3 DEF OtherThreadSends, Post, TcpStep, Tcp, Live
  <2>4. CASE RunPosted
    <3>1. /\ "DATA" \in Item
          /\ tcp' = [tcp EXCEPT !.posted = FALSE,
                                !.sent = IF Live(tcp) THEN @ \cup {"DATA"} ELSE @]
      BY <2>4 DEF RunPosted, SendInLoop, Item
    <3>2. /\ tcp' \in Tcp /\ tcp'.state = tcp.state /\ tcp'.posted = FALSE
          /\ tcp'.sent = IF Live(tcp) THEN tcp.sent \cup {"DATA"} ELSE tcp.sent
      BY <2>2, <3>1 DEF Tcp
    <3> QED BY <3>2 DEF TcpStep, Live
  <2> QED BY <2>1, <2>3, <2>4 DEF ApplicationStep
<1>3. TypeOK'
  BY <1>1, <1>2 DEF TypeOK, TcpStep, Tcp
<1>4. TcpStep(ctx.handshaked)
  BY <1>1, <1>2 DEF TcpStep
<1> QED BY <1>1, <1>3, <1>4, TcpStepKeeps

LEMMA StepInv == IInv /\ [Next]_vars => IInv'
<1> SUFFICES ASSUME IInv, [Next]_vars PROVE IInv'
  OBVIOUS
<1>1. CASE Establish
  BY <1>1, EstablishStep
<1>2. CASE OnMessage
  BY <1>2, NoUpgradeStep, UpgradeStep, OnFrameStep DEF OnMessage
<1>3. CASE HandshakeTimeout
  BY <1>3, TimeoutStep
<1>4. CASE PeerCloses
  <2>1. /\ Live(tcp) /\ Disconnect(tcp.closing)
        /\ tcp.closing \in BOOLEAN /\ handled' \subseteq {"socket", "timer"}
    BY <1>4 DEF PeerCloses, Readable, IInv, TypeOK
  <2> QED BY <2>1, DisconnectStep
<1>5. CASE RunFunctors
  BY <1>5, RunFunctorsStep
<1>6. CASE ApplicationStep
  BY <1>6, UserStep
<1>7. CASE UNCHANGED vars
  BY <1>7 DEF vars, IInv, TypeOK, Phase, Guarded, Told, Live
<1> QED BY <1>1, <1>2, <1>3, <1>4, <1>5, <1>6, <1>7 DEF Next, ApplicationStep

(* The inductive invariant.                                                *)
LEMMA Invariance == Spec => []IInv
BY InitInv, StepInv, PTL DEF Spec

------------------------------------------------------------------------------
(* The theorems.                                                           *)

(* Type correctness of a client connection, for every bound on the frames. *)
THEOREM TypeCorrect == Spec => []TypeOK
BY Invariance, PTL DEF IInv

(* The handshake timer is there as long as the response is awaited, and    *)
(* never survives the upgrade or the connection.                           *)
THEOREM AlwaysGuarded == Spec => []Guarded
BY Invariance, PTL DEF IInv

(* connected() tells the truth, and no frame precedes the upgrade.         *)
THEOREM AlwaysTold == Spec => []Told
BY Invariance, PTL DEF IInv

------------------------------------------------------------------------------
(* The client implements the session.                                      *)

SessionStep == [Session!Next]_<<ctx.wsConn, calls>>

LEMMA SessionInit == Init => Session!Init
BY DEF Init, Session!Init

(* With neither the report nor the log changed the session stutters.       *)
LEMMA Unreported ==
  ASSUME ctx'.wsConn = ctx.wsConn, calls' = calls
  PROVE  SessionStep
BY DEF SessionStep

LEMMA DisconnectReports ==
  ASSUME IInv, NEW closing, Live(tcp), Disconnect(closing)
  PROVE  SessionStep
<1>1. ctx \in Context
  BY DEF IInv, TypeOK, Context
<1>2. CASE ctx.handshaked
  <2>1. ctx.wsConn = "up" /\ ctx'.wsConn = "down" /\ calls' = Append(calls, "close")
    BY <1>1, <1>2 DEF IInv, Told, Disconnect, ReportedPhase, ReportClose, Context
  <2> QED BY <2>1 DEF SessionStep, Session!Next, Session!Close
<1>3. CASE ~ctx.handshaked
  <2>1. ctx'.wsConn = ctx.wsConn /\ calls' = calls
    BY <1>1, <1>3 DEF Disconnect, ReportedPhase, ReportClose, Context
  <2> QED BY <2>1, Unreported
<1> QED BY <1>2, <1>3

LEMMA OnMessageReports ==
  ASSUME IInv, OnMessage
  PROVE  SessionStep
<1>1. ctx \in Context
  BY DEF IInv, TypeOK, Context
<1>2. ASSUME NEW ok, NoUpgrade(ok) PROVE SessionStep
  BY <1>2, Unreported DEF NoUpgrade
<1>3. ASSUME NEW ok, NEW chunk, NEW reaction, Upgrade(ok, chunk, reaction)
      PROVE  SessionStep
  <2>1. ctx.wsConn = "null" /\ ctx'.wsConn = "up" /\ calls' = Append(calls, "open")
    BY <1>1, <1>3 DEF Upgrade, IInv, Told, Context
  <2> QED BY <2>1 DEF SessionStep, Session!Next, Session!Open
<1>4. ASSUME NEW chunk, OnFrame(chunk) PROVE SessionStep
  <2>1. ctx.wsConn = "up" /\ ctx' = ctx
    BY <1>4 DEF OnFrame, Receive, Readable, IInv, Told
  <2>2. CASE calls' = calls
    BY <2>1, <2>2, Unreported
  <2>3. ASSUME NEW reaction, OnData(chunk, reaction) PROVE SessionStep
    <3>1. PICK message \in Session!Message : calls' = Append(calls, message)
      BY <2>3 DEF OnData, First, Session!Message
    <3> QED BY <2>1, <3>1 DEF SessionStep, Session!Next, Session!Deliver
  <2> QED BY <1>4, <2>2, <2>3 DEF OnFrame, OnNoFrame, OnRefused, OnPing, OnPong, OnClose
<1> QED BY <1>2, <1>3, <1>4 DEF OnMessage

LEMMA NextReports == IInv /\ [Next]_vars => SessionStep
<1> SUFFICES ASSUME IInv, [Next]_vars PROVE SessionStep
  OBVIOUS
<1>1. CASE OnMessage
  BY <1>1, OnMessageReports
<1>2. CASE Establish
  <2>1. ctx'.wsConn = ctx.wsConn /\ calls' = calls
    BY <1>2 DEF Establish, IInv, TypeOK
  <2> QED BY <2>1, Unreported
<1>3. CASE HandshakeTimeout \/ ApplicationStep \/ UNCHANGED vars
  BY <1>3, Unreported
  DEF HandshakeTimeout, ApplicationStep, UserActs, OtherThreadSends, RunPosted, vars
<1>4. CASE PeerCloses
  BY <1>4, DisconnectReports DEF PeerCloses, Readable
<1>5. CASE RunFunctors
  BY <1>5, DisconnectReports, Unreported DEF RunFunctors
<1> QED BY <1>1, <1>2, <1>3, <1>4, <1>5 DEF Next, ApplicationStep

(* The client implements WebsocketSession: open once, messages, close once.*)
THEOREM SessionImplemented == Spec => ImplementsSession
<1>1. Init => Session!Init
  BY SessionInit
<1>2. IInv /\ [Next]_vars => [Session!Next]_(Session!vars)
  BY NextReports DEF SessionStep, Session!vars
<1> QED BY <1>1, <1>2, Invariance, PTL DEF Spec, ImplementsSession, Session!Spec
==============================================================================
