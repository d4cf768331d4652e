----------------------------- MODULE Lifecycle -----------------------------
(***************************************************************************)
(* A PsychicHttpServer as the application builds it and starts it: on()    *)
(* and removeEndpoint() at any time, start(), stop(), restart(), reset().  *)
(*                                                                         *)
(* PsychicHttp matches URIs itself: it registers with esp_http_server one  *)
(* handler for "*" per method.  Only WebSocket endpoints need an entry of  *)
(* their own there; they are listed in _esp_idf_endpoints and registered,  *)
(* with a pointer to the endpoint as user_ctx, each time the server starts.*)
(*                                                                         *)
(* PsychicHttpsServer overrides how esp-idf's server is started and        *)
(* stopped, with a configuration of its own.                               *)
(*                                                                         *)
(* The calls are those of one task, between two requests.                  *)
(***************************************************************************)
EXTENDS Integers, Sequences, Functions, FiniteSets, Lists

CONSTANTS
  Endpoints,  \* PsychicEndpoint objects
  Uris,       \* the URIs of endpoints; Star is not one of them
  Star,       \* "*", which esp_http_server matches with every URI
  Get,        \* HTTP_GET, the method of a WebSocket handshake
  Methods,    \* the methods, Get among them
  AnyMethod,  \* HTTP_ANY, which is not a method of esp_http_server
  Supported,  \* the methods a server has when it is made, a sequence
  Kinds,      \* builds: "plain", "tls", "oldTls" (esp-idf before 5.0.2)
  TlsLimit,   \* max_uri_handlers of a new TLS server
  None

ASSUME MethodsAssumption == Get \in Methods /\ AnyMethod \notin Methods
ASSUME UrisAssumption == Star \notin Uris
ASSUME SupportedAssumption == Supported \in Seq(Methods)
ASSUME NoneAssumption ==
  None \notin Endpoints \cup [uri: Uris, method: Methods \cup {AnyMethod}, ws: BOOLEAN, live: BOOLEAN]
ASSUME KindsAssumption == Kinds \subseteq {"plain", "tls", "oldTls"} /\ TlsLimit \in Nat

VARIABLES
  kind,       \* the build
  running,    \* _running
  object,     \* endpoint |-> what it was made with, or None; live until deleted
  endpoints,  \* _endpoints
  native,     \* _esp_idf_endpoints; their method is Get
  methods,    \* supported_methods
  limit,      \* config.max_uri_handlers
  tlsLimit,   \* ssl_config.httpd.max_uri_handlers
  table       \* the handlers esp_http_server has, in the order it asks them

vars == <<kind, running, object, endpoints, native, methods, limit, tlsLimit, table>>

Objects == [uri: Uris, method: Methods \cup {AnyMethod}, ws: BOOLEAN, live: BOOLEAN]

Live(e) == object[e] # None /\ object[e].live

TypeOK ==
  /\ kind \in Kinds
  /\ running \in BOOLEAN
  /\ object \in [Endpoints -> Objects \cup {None}]
  /\ endpoints \in Seq(Endpoints)
  /\ native \in Seq([uri: Uris, ctx: Endpoints])
  /\ methods \in Seq(Methods)
  /\ limit \in Nat /\ tlsLimit \in Nat
  /\ table \in Seq([uri: Uris \cup {Star}, method: Methods, ctx: Endpoints \cup {None}])

\* The constructor and the member initialisers.
Init ==
  /\ kind \in Kinds
  /\ running = FALSE
  /\ object = [e \in Endpoints |-> None]
  /\ endpoints = <<>>
  /\ native = <<>>
  /\ methods = Supported
  /\ limit = 0 /\ tlsLimit = TlsLimit
  /\ table = <<>>

-----------------------------------------------------------------------------
(* esp_http_server. *)

\* httpd_register_uri_handler refuses what an earlier entry matches already,
\* and refuses everything once the table is full.
Register(max, tbl, entry) ==
  IF \/ Len(tbl) >= max
     \/ \E r \in Range(tbl) : r.uri \in {entry.uri, Star} /\ r.method = entry.method
  THEN tbl
  ELSE Append(tbl, entry)

\* httpd_register_uri_handler for one entry after the other, from an empty table.
RegisterAll(max, entries) ==
  LET tbl[i \in 0 .. Len(entries)] ==
        IF i = 0 THEN <<>> ELSE Register(max, tbl[i - 1], entries[i])
  IN  tbl[Len(entries)]

\* httpd_unregister_uri_handler, for each of a set of URIs and methods.
Unregister(tbl, pairs) == Without(tbl, {r \in Range(tbl) : <<r.uri, r.method>> \in pairs})

-----------------------------------------------------------------------------
(* on() and removeEndpoint(). *)

\* Every form of on() ends here.  On a running server neither a WebSocket
\* endpoint nor a new method is registered before the next start.
On(e, uri, method, ws) ==
  /\ object[e] = None
  /\ object' = [object EXCEPT ![e] = [uri |-> uri, method |-> method, ws |-> ws, live |-> TRUE]]
  /\ native' = IF ws THEN Append(native, [uri |-> uri, ctx |-> e]) ELSE native
  /\ methods' = IF method \notin Range(methods) \cup {AnyMethod}
                THEN Append(methods, method) ELSE methods
  /\ endpoints' = Append(endpoints, e)
  /\ UNCHANGED <<kind, running, limit, tlsLimit, table>>

\* OwnEntries as they would be without the comparison of the URIs.
AllEntries(e) == {n \in Range(native) : object[e].method = Get}

\* The listed entries removeEndpoint takes for the endpoint's own: those of
\* its URI, if its method is the one all of them are registered with.
OwnEntries(e) ==
  {n \in Range(native) : n.uri = object[e].uri /\ object[e].method = Get}

\* RemoveEndpoint as it would be if a running server kept its registration.
RemoveEndpointListed(e) ==
  /\ e \in Range(endpoints)
  /\ native' = Without(native, OwnEntries(e))
  /\ endpoints' = Without(endpoints, {e})
  /\ object' = [object EXCEPT ![e].live = FALSE]
  /\ UNCHANGED <<kind, running, methods, limit, tlsLimit, table>>

\* RemoveEndpoint as it would be if the list kept what is unregistered, and
\* the next start registered it again.
RemoveEndpointUnlisted(e) ==
  /\ e \in Range(endpoints)
  /\ table' = IF running
              THEN Unregister(table, {<<n.uri, Get>> : n \in OwnEntries(e)})
              ELSE table
  /\ endpoints' = Without(endpoints, {e})
  /\ object' = [object EXCEPT ![e].live = FALSE]
  /\ UNCHANGED <<kind, running, native, methods, limit, tlsLimit>>

\* The endpoint goes from the lists and, if the server runs, from esp_http_server,
\* and is deleted.
RemoveEndpoint(e) ==
  /\ e \in Range(endpoints)
  /\ native' = Without(native, OwnEntries(e))
  /\ table' = IF running
              THEN Unregister(table, {<<n.uri, Get>> : n \in OwnEntries(e)})
              ELSE table
  /\ endpoints' = Without(endpoints, {e})
  /\ object' = [object EXCEPT ![e].live = FALSE]
  /\ UNCHANGED <<kind, running, methods, limit, tlsLimit>>

-----------------------------------------------------------------------------
(* start(), stop(), restart(), reset(). *)

\* HandlersNeeded as it would be if the listed entries were forgotten.
MethodsOnly == Len(methods)

\* "one URI handler for each http_method", and one for each listed entry.
HandlersNeeded == Len(methods) + Len(native)

NativeEntries ==
  [i \in DOMAIN native |-> [uri |-> native[i].uri, method |-> Get, ctx |-> native[i].ctx]]

MetaEntries ==
  [i \in DOMAIN methods |-> [uri |-> Star, method |-> methods[i], ctx |-> None]]

\* StartServer as it would be if a TLS server kept the limit it was made with.
StartServerUnsynced == limit' = HandlersNeeded /\ UNCHANGED tlsLimit

\* The limit goes into the configuration the server is started with.
StartServer ==
  /\ limit' = HandlersNeeded
  /\ tlsLimit' = IF kind = "plain" THEN tlsLimit ELSE limit'

MaxHandlers == IF kind = "plain" THEN limit' ELSE tlsLimit'

\* httpd_start makes an empty table; the specific entries go in before the
\* ones for every URI.
Started ==
  /\ StartServer
  /\ table' = RegisterAll(MaxHandlers, NativeEntries \o MetaEntries)
  /\ running' = TRUE

\* There is no network, or httpd_start fails.
NotStarted ==
  /\ StartServer \/ UNCHANGED <<limit, tlsLimit>>
  /\ table' = <<>>
  /\ running' = FALSE

Start ==
  /\ ~running
  /\ Started \/ NotStarted
  /\ UNCHANGED <<kind, object, endpoints, native, methods>>

\* What stop() asks esp_http_server to forget before it stops it.
Forgotten ==
  {<<n.uri, Get>> : n \in Range(native)} \cup {<<Star, m>> : m \in Range(methods)}

\* esp-idf fails to stop: the server runs on without the handlers.  Before esp-idf 5.0.2
\* a TLS server does not learn of it.
NotStopped ==
  /\ running
  /\ running' = (kind # "oldTls")
  /\ table' = Unregister(table, Forgotten)

\* httpd_stop ends the task and frees the table.
Stopped ==
  /\ running
  /\ running' = FALSE
  /\ table' = <<>>

Stop ==
  /\ Stopped \/ NotStopped
  /\ UNCHANGED <<kind, object, endpoints, native, methods, limit, tlsLimit>>

\* stop(), unless it fails, then start().
Restart ==
  /\ \/ NotStopped /\ running' /\ UNCHANGED <<limit, tlsLimit>>
     \/ Started
     \/ NotStarted
  /\ UNCHANGED <<kind, object, endpoints, native, methods>>

\* Every endpoint is deleted and the lists are emptied.
Emptied ==
  /\ object' = [e \in Endpoints |->
                  IF e \in Range(endpoints) THEN [object[e] EXCEPT !.live = FALSE] ELSE object[e]]
  /\ endpoints' = <<>>
  /\ native' = <<>>

\* stop(), whose result is not looked at.  supported_methods stays.
Reset ==
  /\ Stopped \/ NotStopped \/ (~running /\ UNCHANGED <<running, table>>)
  /\ Emptied
  /\ UNCHANGED <<kind, methods, limit, tlsLimit>>

\* The server is deleted and another is made.  The destructor does not stop it: the
\* application has done so.
Destroy ==
  /\ ~running
  /\ Emptied
  /\ methods' = Supported /\ limit' = 0 /\ tlsLimit' = TlsLimit
  /\ UNCHANGED <<kind, running, table>>

Next ==
  \/ \E e \in Endpoints, uri \in Uris, method \in Methods \cup {AnyMethod}, ws \in BOOLEAN :
       On(e, uri, method, ws)
  \/ \E e \in Endpoints : RemoveEndpoint(e)
  \/ Start \/ Stop \/ Restart \/ Reset \/ Destroy

Spec == Init /\ [][Next]_vars

-----------------------------------------------------------------------------
(* What must hold. *)

\* No request is handed to an endpoint that has been deleted: neither the
\* server's own list nor esp_http_server has a pointer to one.  A WebSocket
\* endpoint made for another method than HTTP_GET is the exception: its entry
\* is registered with HTTP_GET all the same, and removeEndpoint(), which
\* compares the methods, leaves it with its user_ctx dangling.
PointersLive ==
  /\ \A e \in Range(endpoints) : Live(e)
  /\ \A n \in Range(native) : Live(n.ctx) \/ object[n.ctx].method # Get
  /\ \A r \in Range(table) :
       r.ctx # None => Live(r.ctx) \/ object[r.ctx].method # Get

\* The state has its types, and the lists name everything esp_http_server has, whatever was added and
\* removed since the start: stop() leaves no handler registered, also when
\* httpd_stop() fails after it.
AllForgotten == TypeOK /\ \A r \in Range(table) : <<r.uri, r.method>> \in Forgotten

\* Starting registers everything, in an order in which the esp_http_server
\* finds the specific entries first and refuses none: the limit computed by
\* start() leaves room for all ("unlimited endpoints", CHANGELOG.md:179).
StartRegistersAll ==
  [][(\E r \in Range(table') : r \notin Range(table))
       => /\ \A n \in Range(native') : \E r \in Range(table') :
               r.uri = n.uri /\ r.method = Get /\ r.ctx # None
          /\ \A m \in Range(methods') : \E r \in Range(table') :
               r.uri = Star /\ r.method = m]_vars

\* The only endpoint there has been for a URI.
Alone(e) == \A o \in Endpoints \ {e} : object[o] # None => object[o].uri # object[e].uri

\* A WebSocket endpoint with a URI of its own is listed for as long as it
\* lives, whatever becomes of the others: the next start has it again.
StaysListed ==
  \A e \in Range(endpoints) :
    object[e].ws /\ Alone(e) => [uri |-> object[e].uri, ctx |-> e] \in Range(native)

=============================================================================
