------------------------------ MODULE Dispatch ------------------------------
(***************************************************************************)
(* How one request finds the handler that answers it: the URL rewrites,    *)
(* the server's filters and middleware, the endpoints, the global handlers *)
(* and the fallback (PsychicHttpServer.cpp, PsychicEndpoint.cpp,           *)
(* PsychicHandler.cpp, PsychicMiddlewareChain.cpp), and how each kind of   *)
(* handler turns the outcome into responses and a return value.            *)
(*                                                                         *)
(* A URI is a name; an endpoint's pattern is the set of names it matches,  *)
(* a filter the set of names it lets through.  A callback of the           *)
(* application answers, fails, or passes (returns HTTPD_404_NOT_FOUND      *)
(* without an answer).  "trail" records what ran: <<owner, i>> is the i-th *)
(* middleware of "server" or of a handler, <<handler, 0>> its              *)
(* handleRequest.  "sent" records who gave an answer.                      *)
(***************************************************************************)
EXTENDS Integers, Sequences, SequencesExt, FiniteSets

CONSTANTS
  Servers,      \* the configurations: rewrites, filters, chain, endpoints, handlers, fallback
  Requests,     \* what a client may send: uri, method, tooBigFor, auth, origin
  MaxRequests,  \* bound: requests on one connection
  None

\* What can be asked for an answer in a configuration
Handlers(s) ==
  {s.endpoints[i].handler : i \in DOMAIN s.endpoints} \cup Range(s.handlers) \cup {s.fallback}

IsList(s) == s \in Seq(Range(s))

\* The server answers 404 itself; no handler has its name.
ASSUME ServersAssumption ==
  \A s \in Servers :
    /\ IsList(s.rewrites) /\ IsList(s.chain) /\ IsList(s.endpoints) /\ IsList(s.handlers)
    /\ \A h \in Handlers(s) : IsList(h.chain) /\ h.name # "404"
ASSUME NoneAssumption == \A s \in Servers : None \notin Handlers(s)
ASSUME MaxRequestsAssumption == MaxRequests \in Nat

VARIABLES
  server,       \* the configuration, fixed before start()
  wire,         \* the request as esp-idf received it
  at,           \* where the dispatching task is
  pos,          \* loop variable of the list being walked
  tried,        \* loop variable of the global handlers
  caller,       \* who called PsychicHandler::process
  handler,      \* the handler being processed
  uri,          \* _uri of the PsychicRequest object in use
  ret,          \* the value last returned
  sent,         \* answers given to this request, by whom
  trail,        \* what ran for this request, in order
  session,      \* httpd_req_t::sess_ctx of the connection
  sessions,     \* SessionData objects that exist
  served,       \* requests taken on this connection
  file          \* _file of the static file handlers: <<handler, uri it was opened for>>

vars == <<server, wire, at, pos, tried, caller, handler, uri, ret, sent, trail,
          session, sessions, served, file>>

Places == {"idle", "rewrite", "filter", "chain", "endpoints", "handlers", "fallback",
           "admit", "handlerChain", "handle", "returned", "done"}
Callers == {"callback", "endpoint", "global", "fallback"}
Returns == {"ok", "fail", "404", "invalid"}

TypeOK ==
  /\ server \in Servers /\ wire \in Requests \cup {None}
  /\ at \in Places /\ pos \in Nat \ {0} /\ tried \in Nat \ {0}
  /\ caller \in Callers \cup {None}
  /\ ret \in Returns \cup {None}
  /\ session \in 0 .. MaxRequests /\ sessions \subseteq 1 .. 3 * MaxRequests
  /\ served \in 0 .. MaxRequests
  /\ \A f, g \in file : f[1] = g[1] => f = g
  /\ Len(sent) <= 2

Init ==
  /\ server \in Servers
  /\ wire = None /\ at = "idle" /\ pos = 1 /\ tried = 1
  /\ caller = None /\ handler = None /\ uri = None /\ ret = None
  /\ sent = <<>> /\ trail = <<>>
  /\ session = 0 /\ sessions = {} /\ served = 0 /\ file = {}

-----------------------------------------------------------------------------
(* Helpers                                                                 *)

\* (a bug) every request object makes a SessionData of its own
NewRequestFreshSession(r) ==
  /\ uri' = r.uri
  /\ LET new == CHOOSE s \in 1 .. Cardinality(sessions) + 1 : s \notin sessions
     IN  session' = new /\ sessions' = sessions \cup {new}

\* PsychicRequest's constructor: the object starts from the URI on the wire and
\* takes over the connection's SessionData, or makes the first one.
NewRequest(r) ==
  /\ uri' = r.uri
  /\ IF session # 0
       THEN UNCHANGED <<session, sessions>>
       ELSE LET new == CHOOSE s \in 1 .. Cardinality(sessions) + 1 : s \notin sessions
            IN  session' = new /\ sessions' = sessions \cup {new}

\* (a bug) the method is not compared
MethodFitsAny(e, m) == TRUE
MethodFits(e, m) == e.method \in {m, "ANY"}
Matches(e, u) == u \in e.uris
Fits(e, u, m) == Matches(e, u) /\ MethodFits(e, m)

PassesFilters(filters, u) == \A i \in 1 .. Len(filters) : u \in filters[i]

\* canHandle(): a static file handler takes GET only.
CanHandle(h, u, m) == u \in h.canHandle /\ (h.kind = "static" => m = "GET")

\* filter() and canHandle()
Accepts(h, u, m) == PassesFilters(h.filters, u) /\ CanHandle(h, u, m)

\* CorsMiddleware answers a preflight request itself.
Preflight == wire.origin /\ wire.method = "OPTIONS"

\* What a middleware may do: call next(), or answer itself.
CallsNext(m) ==
  CASE m = "auth" -> wire.auth
    [] m = "cors" -> ~Preflight
    [] OTHER -> TRUE
Answers(m) == m = "function" \/ ~CallsNext(m)

Goto(place) == at' = place /\ pos' = 1
Done(value) == Goto("done") /\ ret' = value
Return(value) == Goto("returned") /\ ret' = value
Send(who) == sent' = Append(sent, who)

Process(h, who) == handler' = h /\ caller' = who /\ Goto("admit")

Dispatching == <<server, wire, served, file>>

\* _file after the handler's file has been closed.
Closed(h) == {f \in file : f[1] # h.name}

-----------------------------------------------------------------------------
(* esp-idf hands over a request                                            *)

Fresh(r) ==
  /\ at = "idle" \/ (at = "done" /\ ret = "ok")   \* esp-idf closes on a failure
  /\ served < MaxRequests
  /\ served' = served + 1 /\ wire' = r
  /\ NewRequest(r)
  /\ sent' = <<>> /\ trail' = <<>> /\ ret' = None /\ tried' = 1
  /\ UNCHANGED <<server, file>>

\* Only websocket endpoints are registered with esp-idf itself; they match their
\* own URI and GET, and their request object skips rewrites, the server's filters and chain.
Direct(e, r) == e.handler.kind = "ws" /\ r.uri \in e.uris /\ r.method = "GET"
IsDirect(r) == \E i \in 1 .. Len(server.endpoints) : Direct(server.endpoints[i], r)

RequestCallback(r) ==
  /\ Fresh(r)
  /\ \E i \in 1 .. Len(server.endpoints) :
       /\ Direct(server.endpoints[i], r)
       /\ \A j \in 1 .. i - 1 : ~Direct(server.endpoints[j], r)
       /\ Process(server.endpoints[i].handler, "callback")

RequestHandler(r) ==
  /\ Fresh(r) /\ ~IsDirect(r)
  /\ Goto("rewrite")
  /\ UNCHANGED <<caller, handler>>

\* The connection goes down: esp-idf frees the session through free_ctx.
Disconnect ==
  /\ at = "done"
  /\ Goto("idle")
  /\ sessions' = sessions \ {session} /\ session' = 0
  /\ wire' = None /\ uri' = None /\ ret' = None /\ sent' = <<>> /\ trail' = <<>>
  /\ handler' = None /\ caller' = None /\ tried' = 1
  /\ UNCHANGED <<server, served, file>>

-----------------------------------------------------------------------------
(* PsychicHttpServer::requestHandler                                       *)

RewriteFits(i) ==
  /\ i <= Len(server.rewrites)
  /\ server.rewrites[i].from = uri /\ uri \in server.rewrites[i].filter

\* The first rewrite that fits changes the URI; then the loop ends.
RewriteRequest ==
  /\ at = "rewrite"
  /\ uri' = IF \E i \in 1 .. Len(server.rewrites) : RewriteFits(i)
              THEN server.rewrites[CHOOSE i \in 1 .. Len(server.rewrites) :
                     RewriteFits(i) /\ \A j \in 1 .. i - 1 : ~RewriteFits(j)].to
              ELSE uri
  /\ Goto("filter")
  /\ UNCHANGED <<tried, caller, handler, ret, sent, trail, session, sessions, Dispatching>>

\* (a bug) the refusal is sent, and the request goes on
ServerFilterGoesOn ==
  /\ at = "filter"
  /\ Goto("chain")
  /\ IF PassesFilters(server.filters, uri) THEN UNCHANGED sent ELSE Send("filter")
  /\ UNCHANGED <<ret, tried, caller, handler, uri, trail, session, sessions, Dispatching>>

ServerFilter ==
  /\ at = "filter"
  /\ IF PassesFilters(server.filters, uri)
       THEN Goto("chain") /\ UNCHANGED <<ret, sent>>
       ELSE Send("filter") /\ Done("ok")
  /\ UNCHANGED <<tried, caller, handler, uri, trail, session, sessions, Dispatching>>

\* One call of runChain's next(): the middleware runs and goes on or answers.
ServerMiddleware ==
  /\ at = "chain" /\ pos <= Len(server.chain)
  /\ trail' = Append(trail, <<"server", pos>>)
  /\ \/ /\ CallsNext(server.chain[pos])
        /\ pos' = pos + 1
        /\ UNCHANGED <<at, ret, sent>>
     \/ /\ Answers(server.chain[pos])
        /\ Send("middleware") /\ Done("ok")
  /\ UNCHANGED <<tried, caller, handler, uri, session, sessions, Dispatching>>

ServerChainEnds ==
  /\ at = "chain" /\ pos > Len(server.chain)
  /\ Goto("endpoints")
  /\ UNCHANGED <<tried, caller, handler, uri, ret, sent, trail, session, sessions, Dispatching>>

\* _process, first loop: the first endpoint of this URI and method decides.
TryEndpoint ==
  /\ at = "endpoints" /\ pos <= Len(server.endpoints)
  /\ IF Fits(server.endpoints[pos], uri, wire.method)
       THEN Process(server.endpoints[pos].handler, "endpoint")
       ELSE pos' = pos + 1 /\ UNCHANGED <<at, caller, handler>>
  /\ UNCHANGED <<tried, uri, ret, sent, trail, session, sessions, Dispatching>>

NoEndpoint ==
  /\ at = "endpoints" /\ pos > Len(server.endpoints)
  /\ Goto("handlers") /\ tried' = 1
  /\ UNCHANGED <<caller, handler, uri, ret, sent, trail, session, sessions, Dispatching>>

\* _process, second loop: the global handlers, until one does not return 404.
TryHandler ==
  /\ at = "handlers"
  /\ IF tried <= Len(server.handlers)
       THEN Process(server.handlers[tried], "global")
       ELSE Goto("fallback") /\ UNCHANGED <<caller, handler>>
  /\ UNCHANGED <<tried, uri, ret, sent, trail, session, sessions, Dispatching>>

\* notFoundHandler: a new request object, and the default endpoint's handler.
NotFoundHandler ==
  /\ at = "fallback"
  /\ NewRequest(wire)
  /\ Process(server.fallback, "fallback")
  /\ UNCHANGED <<tried, ret, sent, trail, Dispatching>>

-----------------------------------------------------------------------------
(* PsychicHandler::process                                                 *)

\* (a bug) the file that an earlier request has left open is kept
OpenFileOnce ==
  file' = IF \E f \in file : f[1] = handler.name
            THEN file ELSE file \cup {<<handler.name, uri>>}

\* canHandle() of a static file handler opens the file that handleRequest() will
\* send; a file left open before is closed by the assignment.
OpenFile == file' = Closed(handler) \cup {<<handler.name, uri>>}

\* A URI that a static file handler cannot handle is not its own or not found;
\* looking for it in vain closes a file that was left open.
Admit ==
  /\ at = "admit"
  /\ IF Accepts(handler, uri, wire.method)
       THEN /\ Goto("handlerChain") /\ UNCHANGED ret
            /\ IF handler.kind = "static" THEN OpenFile ELSE UNCHANGED file
       ELSE Return("404") /\ file' \in {file, Closed(handler)}
  /\ UNCHANGED <<tried, caller, handler, uri, sent, trail, session, sessions,
                 server, wire, served>>

HandlerMiddleware ==
  /\ at = "handlerChain" /\ pos <= Len(handler.chain)
  /\ trail' = Append(trail, <<handler.name, pos>>)
  /\ \/ /\ CallsNext(handler.chain[pos])
        /\ pos' = pos + 1
        /\ UNCHANGED <<at, ret, sent>>
     \/ /\ Answers(handler.chain[pos])
        /\ Send("middleware") /\ Return("ok")
  /\ UNCHANGED <<tried, caller, handler, uri, session, sessions, Dispatching>>

HandlerChainEnds ==
  /\ at = "handlerChain" /\ pos > Len(handler.chain)
  /\ trail' = Append(trail, <<handler.name, 0>>)
  /\ Goto("handle")
  /\ UNCHANGED <<tried, caller, handler, uri, ret, sent, session, sessions, Dispatching>>

Handling(kind) == at = "handle" /\ handler.kind = kind

\* maxRequestBodySize and maxUploadSize: the kinds of handler the body is too large for
TooBig == handler.kind \in wire.tooBigFor

\* The application's callback: it answers, fails without an answer, or passes.
Callback(before) ==
  \/ sent' = Append(before, handler.name) /\ Return("ok")
  \/ sent' = before /\ Return("fail")
  \/ sent' = before /\ Return("404")

\* PsychicWebHandler::handleRequest; loaded: did loadBody() return ESP_OK?
HandleWeb(loaded) ==
  /\ Handling("web")
  /\ IF TooBig THEN Send(handler.name) /\ Return("fail")
     ELSE IF ~loaded THEN Send(handler.name) /\ Return("ok")
     ELSE IF handler.callback THEN Callback(sent)
     ELSE Return("ok") /\ UNCHANGED sent
  /\ UNCHANGED <<tried, caller, handler, uri, trail, session, sessions, Dispatching>>

\* PsychicJsonHandler::handleRequest runs the web handler for its side effects and
\* drops its result; without a loaded body there is nothing to deserialize.
HandleJson(loaded, valid) ==
  /\ Handling("json")
  /\ LET refused == TooBig \/ ~loaded
         base == IF refused THEN Append(sent, handler.name) ELSE sent
     IN  IF handler.callback /\ valid /\ ~refused
           THEN Callback(base)
           ELSE sent' = Append(base, handler.name) /\ Return("ok")
  /\ UNCHANGED <<tried, caller, handler, uri, trail, session, sessions, Dispatching>>

\* PsychicUploadHandler::handleRequest; received: what the two upload loops return.
HandleUpload(received) ==
  /\ Handling("upload")
  /\ IF TooBig THEN Send(handler.name) /\ Return("ok")
     ELSE IF received # "ok" THEN Send(handler.name) /\ Return(received)
     ELSE IF handler.callback THEN Callback(sent)
     ELSE Send(handler.name) /\ Return("ok")
  /\ UNCHANGED <<tried, caller, handler, uri, trail, session, sessions, Dispatching>>

\* PsychicStaticFileHandler::handleRequest: 304, whose result is dropped, or the file.
HandleStatic(value) ==
  /\ Handling("static")
  /\ Send(handler.name) /\ Return(value)
  /\ file' = Closed(handler)
  /\ UNCHANGED <<tried, caller, handler, uri, trail, session, sessions, server, wire, served>>

\* A websocket handshake was answered by esp-idf before the handler runs.
HandleWs(value) ==
  /\ Handling("ws")
  /\ Return(value)
  /\ UNCHANGED <<tried, caller, handler, uri, sent, trail, session, sessions, Dispatching>>

-----------------------------------------------------------------------------
(* What each caller does with the value it gets back                       *)

\* PsychicEndpoint::requestCallback: a refusal starts over in requestHandler.
CallbackReturns ==
  /\ at = "returned" /\ caller = "callback"
  /\ IF ret = "404" THEN NewRequest(wire) /\ Goto("rewrite") /\ UNCHANGED <<ret, sent>>
     ELSE IF ret = "invalid"
       THEN Send("error") /\ Done("ok") /\ UNCHANGED <<uri, session, sessions>>
     ELSE Done(ret) /\ UNCHANGED <<uri, sent, session, sessions>>
  /\ UNCHANGED <<tried, caller, handler, trail, Dispatching>>

\* _process returns what the endpoint returned, whatever it is.
EndpointReturns ==
  /\ at = "returned" /\ caller = "endpoint"
  /\ IF ret = "404" THEN Goto("fallback") /\ UNCHANGED ret ELSE Done(ret)
  /\ UNCHANGED <<tried, caller, handler, uri, sent, trail, session, sessions, Dispatching>>

\* (a bug) the loop over the global handlers does not move on
HandlerReturnsStuck ==
  /\ at = "returned" /\ caller = "global"
  /\ IF ret = "404" THEN Goto("handlers") /\ UNCHANGED ret ELSE Done(ret)
  /\ UNCHANGED <<tried, caller, handler, uri, sent, trail, session, sessions, Dispatching>>

HandlerReturns ==
  /\ at = "returned" /\ caller = "global"
  /\ IF ret = "404"
       THEN Goto("handlers") /\ tried' = tried + 1 /\ UNCHANGED ret
       ELSE Done(ret) /\ UNCHANGED tried
  /\ UNCHANGED <<caller, handler, uri, sent, trail, session, sessions, Dispatching>>

FallbackReturns ==
  /\ at = "returned" /\ caller = "fallback"
  /\ IF ret = "404" THEN Send("404") /\ Done("ok") ELSE Done(ret) /\ UNCHANGED sent
  /\ UNCHANGED <<tried, caller, handler, uri, trail, session, sessions, Dispatching>>

Step ==
  \/ RewriteRequest \/ ServerFilter \/ ServerMiddleware \/ ServerChainEnds
  \/ TryEndpoint \/ NoEndpoint \/ TryHandler \/ NotFoundHandler
  \/ Admit \/ HandlerMiddleware \/ HandlerChainEnds
  \/ \E loaded \in BOOLEAN : HandleWeb(loaded)
  \/ \E loaded, valid \in BOOLEAN : HandleJson(loaded, valid)
  \/ \E received \in {"ok", "fail", "invalid"} : HandleUpload(received)
  \/ \E value \in {"ok", "fail"} : HandleStatic(value) \/ HandleWs(value)
  \/ CallbackReturns \/ EndpointReturns \/ HandlerReturns \/ FallbackReturns

Next ==
  \/ \E r \in Requests : RequestCallback(r) \/ RequestHandler(r)
  \/ Step
  \/ Disconnect

Spec == Init /\ [][Next]_vars

\* The dispatching task runs on as long as it has something to do.
FairSpec == Spec /\ WF_vars(Step)

-----------------------------------------------------------------------------
(* Properties                                                              *)

\* What one handler contributes to the trail: nothing when it refuses, else its
\* middlewares in order and then its handleRequest.
Visit(h, u, m) ==
  IF Accepts(h, u, m)
    THEN [i \in 1 .. Len(h.chain) |-> <<h.name, i>>] \o <<<<h.name, 0>>>>
    ELSE <<>>

FirstFit(S) == CHOOSE i \in S : \A j \in S : i <= j
Rewriting(s, r) == {i \in 1 .. Len(s.rewrites) :
                      s.rewrites[i].from = r.uri /\ r.uri \in s.rewrites[i].filter}
Rewritten(s, r) ==
  IF Rewriting(s, r) = {} THEN r.uri ELSE s.rewrites[FirstFit(Rewriting(s, r))].to
Passes(s, r) == PassesFilters(s.filters, Rewritten(s, r))
Directs(s, r) == {i \in 1 .. Len(s.endpoints) : Direct(s.endpoints[i], r)}
Claims(s, r) == {i \in 1 .. Len(s.endpoints) :
                   Rewritten(s, r) \in s.endpoints[i].uris
                     /\ s.endpoints[i].method \in {r.method, "ANY"}}

\* The visits of request r to server s, when all who are asked pass: to the endpoint that
\* esp-idf calls itself, to the first k middlewares of the server, to the first k of the global
\* handlers, and to whoever the request is routed to.
DirectVisit(s, r) ==
  IF Directs(s, r) = {} THEN <<>>
  ELSE Visit(s.endpoints[FirstFit(Directs(s, r))].handler, r.uri, r.method)
ServerVisits(k) == [i \in 1 .. k |-> <<"server", i>>]
HandlerVisits(s, r, k) ==
  FlattenSeq([i \in 1 .. k |-> Visit(s.handlers[i], Rewritten(s, r), r.method)])
RoutedVisits(s, r) ==
  IF Claims(s, r) # {}
    THEN Visit(s.endpoints[FirstFit(Claims(s, r))].handler, Rewritten(s, r), r.method)
    ELSE HandlerVisits(s, r, Len(s.handlers))

\* Everyone who may be asked, in the order they are asked, when all of them pass.
Itinerary(s, r) ==
  DirectVisit(s, r) \o
    (IF Passes(s, r)
       THEN ServerVisits(Len(s.chain)) \o (RoutedVisits(s, r) \o Visit(s.fallback, r.uri, r.method))
       ELSE <<>>)

\* A request visits the middlewares and handlers of its itinerary and no others, in
\* that order, skipping nobody: in particular no handleRequest runs behind a filter
\* that refused or a middleware that was not entered, and the server's own 404 is
\* sent only when everyone on the itinerary has passed.
TrailAsRouted ==
  wire # None =>
    /\ IsPrefix(trail, Itinerary(server, wire))
    /\ at = "done" /\ sent = <<"404">> => trail = Itinerary(server, wire)

\* Where a request ended: the kind of the last handler that ran.
Unanswering(h) == h.kind = "ws" \/ (h.kind = "web" /\ ~h.callback)

\* A finished request that is reported as successful has been answered exactly once,
\* and none is ever answered twice.  Not covered: the JSON handler, which drops the
\* result of the web handler it runs first and answers again, a websocket, whose
\* handshake esp-idf answers, and a web handler without a callback.
AnswersOnce ==
  /\ Len(sent) > 1 => handler # None /\ handler.kind = "json"
  /\ at = "done" /\ ret = "ok" /\ ~(handler # None /\ Unanswering(handler)) => sent # <<>>

\* The state has its types; and up to three request objects are made for one request and several requests share a
\* connection, but a connection has one SessionData, and it goes with the connection.
OneSession == TypeOK /\ sessions = IF session = 0 THEN {} ELSE {session}

\* A static file handler keeps its open file between canHandle() and handleRequest(),
\* over its middlewares, and a middleware that answers leaves it open: what the next
\* request is sent is nevertheless the file of that request.
FileOfRequest ==
  at = "handle" /\ handler.kind = "static" => <<handler.name, uri>> \in file

\* Every request that is taken comes to an end, whichever handlers pass.
Finishes == (wire # None /\ at # "done") ~> (at \in {"done", "idle"})

=============================================================================
