--------------------------- MODULE WebsocketSession ---------------------------
(***************************************************************************)
(* What an endpoint promises to the application through its callbacks, for *)
(* one TCP connection: the WebsocketConnection is reported open at most    *)
(* once, messages are handed over only between that report and the report  *)
(* that it is closed, and nothing follows the latter.                      *)
(***************************************************************************)
EXTENDS Naturals, Sequences

VARIABLES
  phase,                  \* what WebsocketConnection::connected() tells
  calls                   \* the callbacks made so far, in order

vars == <<phase, calls>>

Message == {"TEXT", "BINARY"}

Call == Message \cup {"open", "close"}

Init ==
  /\ phase = "null"
  /\ calls = <<>>

Open ==
  /\ phase = "null"
  /\ phase' = "up"
  /\ calls' = Append(calls, "open")

Deliver(message) ==
  /\ phase = "up"
  /\ calls' = Append(calls, message)
  /\ UNCHANGED phase

Close ==
  /\ phase = "up"
  /\ phase' = "down"
  /\ calls' = Append(calls, "close")

Next == Open \/ Close \/ \E message \in Message : Deliver(message)

Spec == Init /\ [][Next]_vars
------------------------------------------------------------------------------
(* The log of one connection: empty, or one "open" that comes first and at *)
(* most one "close" that comes last, there exactly when phase is "down".   *)
CallOrder ==
  /\ calls \in Seq(Call)
  /\ phase = "null" <=> calls = <<>>
  /\ \A i \in 1..Len(calls) :
       /\ calls[i] = "open" <=> i = 1
       /\ calls[i] = "close" <=> i = Len(calls) /\ phase = "down"
==============================================================================
