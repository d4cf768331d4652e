----------------------------- MODULE MCDispatch -----------------------------
(* Small servers for Dispatch: three URIs, two endpoints, two global       *)
(* handlers, at most two middlewares.                                      *)
EXTENDS Dispatch

CONSTANT Kinds      \* what kinds of handler endpoint 1 may have

Uris == {"a", "b", "c"}

Handler(name, kind, filters, chain, callback) ==
  [name |-> name, kind |-> kind, filters |-> filters, canHandle |-> Uris,
   chain |-> chain, callback |-> callback]

Endpoint(uris, method, h) == [uris |-> uris, method |-> method, handler |-> h]

\* Endpoint 1 serves "b" with each kind of handler, with a filter or without; endpoint 2
\* takes what is posted to "b" or "c"; global handler 1 refuses "c"; the rewrite sends "a"
\* to "b", and the server's filter refuses "c"; global handler 2 serves files.
Server(kind, method, filters, callback, busy) ==
  [rewrites |-> IF busy THEN <<[from |-> "a", to |-> "b", filter |-> Uris]>> ELSE <<>>,
   filters |-> IF busy THEN <<{"a", "b"}>> ELSE <<>>,
   chain |-> IF busy THEN <<"log", "cors">> ELSE <<>>,
   endpoints |-> << Endpoint({"b"}, method, Handler("e1", kind, filters, <<"function">>, callback)),
                    Endpoint({"b", "c"}, "POST", Handler("e2", "web", <<>>, <<>>, FALSE)) >>,
   handlers |-> << Handler("g1", "web", <<{"a", "b"}>>, <<"auth">>, TRUE),
                   Handler("g2", "static", <<>>, <<"auth">>, FALSE) >>,
   fallback |-> Handler("fallback", "web", <<>>, <<>>, TRUE)]

MCServers ==
  {Server(kind, method, filters, callback, busy) :
     kind \in Kinds, method \in {"GET", "ANY"}, filters \in {<<>>, <<{"a", "c"}>>},
     callback \in BOOLEAN, busy \in BOOLEAN}

Request(u, m, big, auth, origin) ==
  [uri |-> u, method |-> m, tooBigFor |-> big, auth |-> auth, origin |-> origin]

MCRequests ==
  {Request(u, m, {}, TRUE, FALSE) : u \in Uris, m \in {"GET", "POST"}}
    \cup {Request(u, "POST", {"web", "json"}, TRUE, FALSE) : u \in {"a", "b"}}
    \cup {Request("b", "POST", {"web", "json", "upload"}, TRUE, FALSE),
          Request("a", "OPTIONS", {}, TRUE, TRUE), Request("a", "GET", {}, FALSE, FALSE),
          Request("c", "GET", {}, FALSE, FALSE)}

=============================================================================
