----------------------------- MODULE MCHttpClient -----------------------------
(***************************************************************************)
(* Instances of HttpClient: responses with every kind of body, of headers  *)
(* and of end, one or two on a connection, and sends with a request of     *)
(* headers and body.  A 404 of HttpServer has no length.                   *)
(***************************************************************************)
EXTENDS HttpClient

Response(status, version, headers, coding, body) ==
  [status |-> status, version |-> version, headers |-> headers, coding |-> coding, body |-> body]

Ok      == Response("200", "HTTP/1.1", <<>>, "length", << <<"a", "b">> >>)
Empty   == Response("200", "HTTP/1.1", <<>>, "length", << <<>> >>)
Named   == Response("200", "HTTP/1.1", << << <<"X-", "A">>, <<"1", "2">> >> >>, "length", << <<>> >>)
Chunk   == Response("200", "HTTP/1.1", <<>>, "chunked", << <<"a">> >>)
Close   == Response("200", "HTTP/1.1", << << Connection, <<"Close">> >> >>, "length", << <<"c">> >>)
Small   == Response("200", "HTTP/1.1", << << Connection, <<"close">> >> >>, "length", << <<>> >>)
Foreign == Response("200", "HTTP/1.1", << << <<"X-", "Connection">>, <<"Close">> >> >>,
                    "length", << <<>> >>)
Older   == Response("200", "HTTP/1.0", <<>>, "length", << <<>> >>)
Refused == Response("404", "HTTP/1.1", << << Connection, <<"Close">> >> >>, "eof", <<>>)
Until   == Response("200", "HTTP/1.1", <<>>, "eof", << <<"a", "b">> >>)

(* A head of exactly the limit, which behind chunks is one too many.       *)
Fit == Response("100", "HTTP/1.1",
                << << <<"A">>, [i \in 1..(HTTP_MAX_HEADER_SIZE - 11) |-> "1"]>> >>, "none", <<>>)

MCSessions ==
  { <<Ok, Named>>, <<Chunk, Fit>>, <<Close, Empty>>, <<Small, Empty>>, <<Older, Empty>>,
    <<Foreign, Empty>>, <<Refused>>, <<Until>> }

ARequest(url) ==
  [NewParser("request").message EXCEPT
     !.method = "POST", !.url = url, !.version = "HTTP/1.1",
     !.headers = << "X-" >> :> <<"1">>, !.body = <<"a">>]

MCRequests == << ARequest(<<"/1">>), ARequest(<<"/2">>) >>
==============================================================================
