------------------------------ MODULE Connection ------------------------------
(***************************************************************************)
(* What both endpoints see of one muduo TcpConnection and of its EventLoop *)
(* (external: modelled from how the handlers use them), and the            *)
(* WebsocketConnection the application uses it through.                    *)
(*                                                                         *)
(* In each iteration the loop handles the socket of the connection and the *)
(* timer queue at most once each, in either order, and runs the queued     *)
(* functors at the end.  The input Buffer holds whole frames (FrameReader: *)
(* one is taken per read event, whatever the cut); a read that completes   *)
(* no frame brings the chunk <<>>.                                         *)
(***************************************************************************)
EXTENDS Integers, Sequences

CONSTANTS
  MaxFrames,              \* bound on the frames the peer sends
  MaxChunk                \* bound on the frames one read event brings

ASSUME BoundsAreNaturals == MaxFrames \in Nat /\ MaxChunk \in Nat

VARIABLES
  tcp,                    \* TcpConnection: state_, a queued close, a send that
                          \* another thread has begun, items sent
  loop,                   \* the connection's entries in the loop's TimerQueue
  handled,                \* channels handled in this loop iteration
  rx,                     \* frames in the input Buffer
  received                \* history: number of frames that reached the Buffer

(* A frame by its opcode; BAD is one that decode refuses.                  *)
Frame == {"PING", "PONG", "TEXT", "BINARY", "CLOSE", "BAD"}

Chunk == UNION {[1..n -> Frame] : n \in 0..MaxChunk}

TcpState == {"connecting", "connected", "disconnecting", "disconnected"}

Live(t) == t.state \in {"connected", "disconnecting"}

(* TcpConnection::forceClose queues the close for the end of the iteration.*)
ForceClose(t) ==
  IF Live(t) THEN [t EXCEPT !.state = "disconnecting", !.closing = TRUE] ELSE t

(* TcpConnection::send drops everything once a close was forced.           *)
Send(t, item) ==
  IF t.state = "connected" THEN [t EXCEPT !.sent = @ \cup {item}] ELSE t

(* TcpConnection::send in another thread checks the state and queues the   *)
(* bytes; the functor finds what the loop has made of the state meanwhile. *)
Post(t) == IF t.state = "connected" THEN [t EXCEPT !.posted = TRUE] ELSE t

SendInLoop(t) ==
  [t EXCEPT !.posted = FALSE, !.sent = IF Live(t) THEN @ \cup {"DATA"} ELSE @]

(* EventLoop::runAfter; the new TimerId is l.next.                         *)
RunAfter(l, kind) ==
  [timers |-> l.timers \cup {[id |-> l.next, kind |-> kind]}, next |-> l.next + 1]

Cancel(l, id) == [l EXCEPT !.timers = {t \in @ : t.id # id}]

(* A timer of this kind expires.  It is one-shot, and the timer queue is   *)
(* handled once per iteration.                                             *)
Expires(t, kind) ==
  /\ t \in loop.timers
  /\ t.kind = kind
  /\ "timer" \notin handled
  /\ handled' = handled \cup {"timer"}

Readable ==
  /\ Live(tcp)
  /\ "socket" \notin handled
  /\ handled' = handled \cup {"socket"}

(* A read event; the frames it completes follow those left in the Buffer.  *)
Receive(chunk) ==
  /\ Readable
  /\ received + Len(chunk) <= MaxFrames
  /\ received' = received + Len(chunk)

Frames(chunk) == rx \o chunk

------------------------------------------------------------------------------
(* What an application callback may do with its WebsocketConnection.       *)
Reaction == {"none", "send", "close"}

React(t, reaction) ==
  CASE reaction = "none"  -> t
    [] reaction = "send"  -> Send(t, "DATA")
    [] reaction = "close" -> ForceClose(t)
==============================================================================
