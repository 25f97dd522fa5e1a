----------------------------- MODULE MCHttpServer -----------------------------
(***************************************************************************)
(* Instances of HttpServer: requests with every kind of body, of headers   *)
(* and of end, two or three on a connection; /hello has a callback.        *)
(***************************************************************************)
EXTENDS HttpServer

Request(method, url, version, headers, coding, body) ==
  [method |-> method, url |-> url, version |-> version, headers |-> headers,
   coding |-> coding, body |-> body]

Get    == Request("GET", <<"/x">>, "HTTP/1.1", <<>>, "none", <<>>)
Hello  == Request("GET", <<"/hello">>, "HTTP/1.1", <<>>, "none", <<>>)
Put    == Request("PUT", <<"/x">>, "HTTP/1.1", <<>>, "none", <<>>)
Named  == Request("GET", <<"/x", "y">>, "HTTP/1.1",
                  << << <<"X-", "A">>, <<"1", "2">> >> >>, "none", <<>>)
Post   == Request("POST", <<"/x">>, "HTTP/1.1", <<>>, "length", << <<"a", "b">> >>)
Chunk  == Request("POST", <<"/x">>, "HTTP/1.1", <<>>, "chunked", << <<"a", "b">> >>)
Chunks == Request("POST", <<"/x">>, "HTTP/1.1", <<>>, "chunked", << <<"a">>, <<"b">> >>)
Empty  == Request("POST", <<"/x">>, "HTTP/1.1", <<>>, "chunked", <<>>)
Close  == Request("GET", <<"/x">>, "HTTP/1.1",
                  << << Connection, <<"keep-alive", ",", "close">> >> >>, "none", <<>>)
Old    == Request("GET", <<"/x">>, "HTTP/1.0",
                  << << Connection, <<"keep-alive">> >> >>, "none", <<>>)
Switch == Request("GET", <<"/x">>, "HTTP/1.1",
                  << <<Connection, Upgrade>>, <<Upgrade, <<"h2c">> >> >>, "none", <<>>)
Quit   == Request("PUT", <<"/x">>, "HTTP/1.1",
                  << <<Connection, <<"close", "sp", ",", "sp">> \o Upgrade>>,
                     <<Upgrade, <<"h2c">> >> >>, "none", <<>>)
Older  == Request("GET", <<"/x">>, "HTTP/1.0", <<>>, "none", <<>>)

(* Heads of exactly the limit, and of one more.                            *)
Long(size) == Request("GET", <<"/x">>, "HTTP/1.1",
                  << << <<"A">>, [i \in 1..(size - 11) |-> "1"]>> >>, "none", <<>>)
Fit  == Long(HTTP_MAX_HEADER_SIZE)
Wide == Long(HTTP_MAX_HEADER_SIZE + 1)

MCSessions ==
  { <<Put, Get, Put>>, <<Hello, Get, Hello>>, <<Named, Post>>, <<Post, Get>>,
    <<Close, Get>>, <<Old, Older, Get>>, <<Chunk, Get>>, <<Chunks>>,
    <<Fit>>, <<Get, Wide>>, <<Empty, Fit>>, <<Switch, Older>>, <<Quit, Put>> }

MCGetBodies == << "/hello" >> :> <<"hello">>
MCPostBodies == NoHeaders
==============================================================================
