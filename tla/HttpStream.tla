------------------------------ MODULE HttpStream ------------------------------
(***************************************************************************)
(* The byte stream of an HTTP peer (external), as TCP delivers it: the     *)
(* messages one behind the other, in reads that end anywhere.              *)
(*                                                                         *)
(* A message is a sequence of parts.  What a cut does depends on the part  *)
(* it falls into: see Harmful.                                             *)
(***************************************************************************)
EXTENDS HttpParser

Plain(text) == [kind |-> "plain", text |-> text]
Name(text)  == [kind |-> "name", text |-> text]
Whole(text) == [kind |-> "whole", text |-> text]

HeaderParts(header) ==
  <<Name(header[1]), Plain(<<":", "sp">>), Whole(header[2]), Plain(<<"crlf">>)>>

ChunkParts(chunk) ==
  <<Plain(<<ToString(Len(chunk)), "crlf">>), Whole(chunk), Plain(<<"crlf">>)>>

AllParts(items, ToParts(_)) == FlattenSeq([i \in DOMAIN items |-> ToParts(items[i])])

(* The header lines: those of the message and the one its body asks for.   *)
HeaderLinesOf(m) ==
  m.headers \o
    CASE m.coding \in {"none", "eof"} -> <<>>
      [] m.coding = "length"  -> << <<ContentLength, <<ToString(Len(m.body[1]))>> >> >>
      [] m.coding = "chunked" -> << <<TransferEncoding, Chunked>> >>

HeadEnd(m) == AllParts(HeaderLinesOf(m), HeaderParts) \o <<Plain(<<"crlf">>)>>

RequestHead(m) ==
  <<Plain(<<m.method, "sp">>), Name(m.url), Plain(<<"sp", m.version, "crlf">>)>>
    \o HeadEnd(m)

ResponseHead(m) ==
  <<Plain(<<m.version, "sp", m.status, "sp", "reason", "crlf">>)>> \o HeadEnd(m)

(* No body, a body up to the end of the stream, with its length, or in     *)
(* chunks.                                                                 *)
BodyParts(m) ==
  CASE m.coding = "none"    -> <<>>
    [] m.coding = "eof"     -> <<Whole(FlattenSeq(m.body))>>
    [] m.coding = "length"  -> <<Whole(m.body[1])>>
    [] m.coding = "chunked" ->
         AllParts(m.body, ChunkParts) \o <<Plain(<<"0", "crlf", "crlf">>)>>

RequestParts(m)  == RequestHead(m) \o BodyParts(m)
ResponseParts(m) == ResponseHead(m) \o BodyParts(m)

(* The messages a peer may send: the strings are of pieces that may stand  *)
(* in them, a number is one digit, and the length of the body is said once *)
(* and in one way.                                                         *)
IsLine(line) ==
  /\ line[1] \in Seq(STRING) /\ line[1] # <<>> /\ \A i \in DOMAIN line[1] : IsText(line[1][i])
  /\ line[1] \notin {ContentLength, TransferEncoding}
  /\ line[2] \in Seq(STRING) /\ \A i \in DOMAIN line[2] : line[2][i] # "crlf"
  /\ line[2] # <<>> => line[2][1] # "sp"

IsMessage(m) ==
  /\ m.version \in Version
  /\ m.headers \in Seq(Range(m.headers)) /\ \A i \in DOMAIN m.headers : IsLine(m.headers[i])
  /\ m.body \in Seq(Seq(STRING))
  /\ m.coding = "none"    => m.body = <<>>
  /\ m.coding = "length"  => Len(m.body) = 1 /\ Len(m.body[1]) <= 9
  /\ m.coding = "chunked" => \A i \in DOMAIN m.body : Len(m.body[i]) \in 1..9

IsRequest(m) ==
  /\ IsMessage(m) /\ m.coding \in {"none", "length", "chunked"}
  /\ m.method \in Method
  /\ m.url \in Seq(STRING) /\ m.url # <<>> /\ IsText(m.url[1])
  /\ \A i \in DOMAIN m.url : m.url[i] \notin {"sp", "crlf"}

(* Only the responses with status 1xx end with their head.                 *)
IsResponse(m) ==
  /\ IsMessage(m) /\ m.coding \in {"none", "eof", "length", "chunked"}
  /\ m.status \in Status
  /\ m.coding = "none" <=> m.status \in {"100", "101"}

(* A message after which the parser takes no other: one of a version that  *)
(* keeps the connection says close, one of another version not keep-alive. *)
Closing(m) ==
  LET values == {[i \in DOMAIN line[2] |-> Lower(line[2][i])] :
                   line \in {l \in Range(m.headers) : l[1] = Connection}}
  IN  IF m.version = "HTTP/1.1"
      THEN \E v \in values : Lists(v, <<"close">>)
      ELSE ~\E v \in values : Lists(v, <<"keep-alive">>)

(* What a message without cuts should be read as: of lines with one name,  *)
(* the last.                                                               *)
HeadersUpTo(m, n) ==
  LET lines == HeaderLinesOf(m)
  IN  [name \in {lines[i][1] : i \in 1..n} |-> lines[Max({i \in 1..n : lines[i][1] = name})][2]]

HeadersOf(m) == HeadersUpTo(m, Len(HeaderLinesOf(m)))

RequestOf(m) ==
  [ method |-> m.method, url |-> m.url, version |-> m.version, status |-> "unset",
    headers |-> HeadersOf(m), body |-> FlattenSeq(m.body) ]

ResponseOf(m) ==
  [ method |-> "unset", url |-> <<>>, version |-> m.version, status |-> m.status,
    headers |-> HeadersOf(m), body |-> FlattenSeq(m.body) ]

------------------------------------------------------------------------------
Bytes(parts) == FlattenSeq([i \in DOMAIN parts |-> parts[i].text])

(* The number of bytes before part i.                                      *)
Start(parts, i) == Len(Bytes(SubSeq(parts, 1, i - 1)))

(* The offsets at which the end of a read cuts a string that is delivered  *)
(* in pieces: inside or right behind a URL or a header name, inside a      *)
(* value or a body.                                                        *)
Harmful(parts) ==
  UNION { LET size == Len(parts[i].text)
              last == CASE parts[i].kind = "plain" -> 0
                        [] parts[i].kind = "name"  -> size
                        [] parts[i].kind = "whole" -> size - 1
          IN  {Start(parts, i) + j : j \in 1..last} : i \in DOMAIN parts }
==============================================================================
