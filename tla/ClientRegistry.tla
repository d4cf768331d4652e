--------------------------- MODULE ClientRegistry ---------------------------
(***************************************************************************)
(* Who holds a pointer to a PsychicClient, and for how long.  The server   *)
(* makes one for each session and deletes it when the session closes; each *)
(* handler keeps a list of the clients it has seen; an EventSource or      *)
(* WebSocket handler hangs an object of its own (the buddy) on the         *)
(* client's _friend.  The server and its streams tell the application of   *)
(* clients that come and go with onOpen and onClose.  Sessions and requests run on the httpd task;         *)
(* eventSource.send(), sendAll() and getClient() may be called from any    *)
(* task and take no lock.                                                  *)
(*                                                                         *)
(* Each task has a stack of the calls it is in, the innermost first:       *)
(* user callbacks may call back into the library.                          *)
(***************************************************************************)
EXTENDS Naturals, FiniteSets, Sequences, Functions, Lists

CONSTANTS
  AppTasks,      \* tasks of the application
  Httpd,         \* the task of esp_http_server
  Sockets,       \* descriptors
  Clients,       \* PsychicClient objects
  Handlers,      \* PsychicHandler objects
  Endpoints,     \* those attached to an endpoint of the server's _endpoints
  EventSources,  \* those that are a PsychicEventSource
  WebSockets,    \* those that are a PsychicWebSocketHandler
  Servers,       \* the servers to look at: which of the handlers take requests,
                 \* which application tasks call them, and whether the application's
                 \* onOpen and onClose broadcast
  MaxDepth,      \* bound on the calls in one another
  MaxFailed,     \* bound on the clients one broadcast finds failed: a client
                 \* that comes back while it runs joins the end of the list
  None

Tasks == AppTasks \cup {Httpd}
Streams == EventSources \cup WebSockets

ASSUME HandlersAssumption ==
  /\ Endpoints \subseteq Handlers
  /\ Streams \subseteq Endpoints
  /\ EventSources \cap WebSockets = {}
ASSUME TasksAssumption == Httpd \notin AppTasks
ASSUME BoundsAssumption ==
  /\ Servers \subseteq [handlers: SUBSET Handlers, tasks: SUBSET AppTasks, sends: BOOLEAN]
  /\ MaxDepth \in Nat \ {0} /\ MaxFailed \in Nat \ {0}
ASSUME NoneAssumption == None \notin Sockets \cup Clients \cup Handlers

VARIABLES
  server,  \* one of the Servers
  open,    \* the sockets that have a session
  reg,     \* the server's _clients
  sock,    \* client |-> its socket, None once the object is deleted
  list,    \* handler |-> its _clients, in order
  friend,  \* client |-> the stream whose buddy its _friend points to, or None
  buddies, \* the buddies that exist, as <<client, stream>>
  stack,   \* task |-> the calls it is in
  heard,   \* <<client, handler>>, or <<client, None>> for the server: onOpen called,
           \* onClose not yet since
  stray,   \* onOpen was called for a client open, or onClose for one not open,
           \* other than from the onClose of the same client
  fault    \* the handler whose code has used freed memory or a null pointer, or None

vars == <<server, open, reg, sock, list, friend, buddies, stack, heard, stray, fault>>

Calls == [op: {"close", "drop", "send", "use"},
          h: Handlers \cup {None},
          c: Clients \cup {None},
          at: {"visit", "told", "notify", "remove", "node", "use", "next", "clean"},
          todo: SUBSET Endpoints,
          failed: Seq(Clients)]

Call(op, at, h, c) ==
  [op |-> op, at |-> at, h |-> h, c |-> c, todo |-> {}, failed |-> <<>>]

Live(c) == sock[c] # None

TypeOK ==
  /\ server \in Servers
  /\ open \subseteq Sockets
  /\ reg \subseteq Clients
  /\ sock \in [Clients -> Sockets \cup {None}]
  /\ list \in [Handlers -> Seq(Clients)]
  /\ friend \in [Clients -> Streams \cup {None}]
  /\ buddies \subseteq Clients \X Streams
  /\ stack \in [Tasks -> Seq(Calls)]
  /\ heard \subseteq Clients \X (Handlers \cup {None})
  /\ stray \in BOOLEAN
  /\ fault \in Handlers \cup {None}

Init ==
  /\ server \in Servers
  /\ open = {}
  /\ reg = {}
  /\ sock = [c \in Clients |-> None]
  /\ list = [h \in Handlers |-> <<>>]
  /\ friend = [c \in Clients |-> None]
  /\ buddies = {}
  /\ stack = [t \in Tasks |-> <<>>]
  /\ heard = {}
  /\ stray = FALSE
  /\ fault = None

-----------------------------------------------------------------------------

Idle(t) == fault = None /\ stack[t] = <<>>

In(t, op, at) ==
  fault = None /\ stack[t] # <<>> /\ Head(stack[t]).op = op /\ Head(stack[t]).at = at

Top(t) == Head(stack[t])

Become(t, call) == stack' = [stack EXCEPT ![t] = <<call>> \o Tail(@)]
Push(t, caller, call) == stack' = [stack EXCEPT ![t] = <<call, caller>> \o Tail(@)]
Pop(t) == stack' = [stack EXCEPT ![t] = Tail(@)]

Crash(h) == fault' = h /\ UNCHANGED <<server, open, reg, sock, list, friend, buddies, stack, heard, stray>>

Holds(h, c) == c \in Range(list[h])

\* PsychicHandler::getClient compares socket() of one entry after the other:
\* it reads a deleted client if there is one before the entry it looks for.
ScanFaults(h, c) ==
  \E k \in DOMAIN list[h] :
    ~Live(list[h][k]) /\ \A j \in 1 .. k : list[h][j] # c

\* The calls a user callback of handler h makes before it returns to `call`.
CallBack(t, h, call) ==
  \/ Become(t, call)
  \/ /\ server.sends /\ Len(stack[t]) < MaxDepth
     /\ h \in Streams /\ list'[h] # <<>>
     /\ Push(t, call, Call("send", "node", h, Head(list'[h])))

\* A name no call in progress refers to.  A handler's list may: the allocator
\* hands out an address again whatever still points to it.
Fresh(c) ==
  /\ ~Live(c)
  /\ \A t \in Tasks : \A k \in DOMAIN stack[t] :
       c # stack[t][k].c /\ c \notin Range(stack[t][k].failed)

-----------------------------------------------------------------------------
(* The httpd task: sessions and requests. *)

\* PsychicHttpServer::getClient
GetClient(s) == {c \in reg : sock[c] = s}

\* new PsychicClient, and PsychicHttpServer::addClient
AddClient(s, c) ==
  /\ Fresh(c)
  /\ reg' = reg \cup {c}
  /\ sock' = [sock EXCEPT ![c] = s]
  /\ friend' = [friend EXCEPT ![c] = None]

\* The server's own onOpen or onClose may send to the clients of a stream.
Broadcasts == {<<>>} \cup
  {<<Call("send", "node", h, Head(list[h]))>> : h \in {h \in Streams : server.sends /\ list[h] # <<>>}}

\* PsychicHttpServer::openCallback: the client of this socket, if there still is one, or
\* a new one; then the server's onOpen
OpenSession(s, c) ==
  /\ Idle(Httpd)
  /\ s \notin open
  /\ open' = open \cup {s}
  /\ IF GetClient(s) # {}
     THEN c \in GetClient(s) /\ UNCHANGED <<reg, sock, friend>>
     ELSE AddClient(s, c)
  /\ heard' = heard \cup {<<c, None>>}
  /\ stray' = (stray \/ <<c, None>> \in heard)
  /\ \E calls \in Broadcasts : stack' = [stack EXCEPT ![Httpd] = calls]
  /\ UNCHANGED <<server, list, buddies, fault>>

\* NewClient as it would be if the handler did not look for the client first.
NewClientAlways(h, c) ==
  /\ Idle(Httpd) /\ h \in server.handlers
  /\ c \in reg /\ sock[c] \in open
  /\ h \notin Streams /\ Len(list[h]) < 3
  /\ list' = [list EXCEPT ![h] = Append(@, c)]
  /\ heard' = heard \cup {<<c, h>>}
  /\ stray' = (stray \/ <<c, h>> \in heard)
  /\ UNCHANGED <<server, open, reg, sock, friend, buddies, stack, fault>>

\* handleRequest up to checkForNewClient and openCallback, for a client the
\* handler has not seen.  A client it knows changes nothing here.  A session
\* streams to one handler: what it started there never ends.
NewClient(h, c) ==
  /\ Idle(Httpd) /\ h \in server.handlers
  /\ c \in reg /\ sock[c] \in open
  /\ h \in Streams => friend[c] = None
  /\ ~ScanFaults(h, c) /\ ~Holds(h, c)
  /\ list' = [list EXCEPT ![h] = Append(@, c)]
  /\ IF h \in Streams
     THEN friend' = [friend EXCEPT ![c] = h] /\ buddies' = buddies \cup {<<c, h>>}
     ELSE UNCHANGED <<friend, buddies>>
  /\ heard' = heard \cup {<<c, h>>}
  /\ stray' = (stray \/ <<c, h>> \in heard)
  /\ \/ UNCHANGED stack
     \/ /\ server.sends /\ h \in Streams
        /\ stack' = [stack EXCEPT ![Httpd] = <<Call("send", "node", h, Head(list'[h]))>>]
  /\ UNCHANGED <<server, open, reg, sock, fault>>

\* The same request when the handler's list holds a client that is gone.
RequestFaults(h, c) ==
  /\ Idle(Httpd) /\ h \in server.handlers
  /\ c \in reg /\ sock[c] \in open
  /\ ScanFaults(h, c)
  /\ Crash(h)

\* CloseSession as it would be if the handlers were not asked.
CloseSessionSilently(s) ==
  /\ Idle(Httpd)
  /\ s \in open
  /\ \E c \in GetClient(s) :
       stack' = [stack EXCEPT ![Httpd] = <<Call("close", "visit", None, c)>>]
  /\ UNCHANGED <<server, open, reg, sock, list, friend, buddies, heard, stray, fault>>

\* PsychicHttpServer::closeCallback: every endpoint's handler is asked first.
CloseSession(s) ==
  /\ Idle(Httpd)
  /\ s \in open
  /\ \E c \in GetClient(s) :
       stack' = [stack EXCEPT ![Httpd] =
                   <<[Call("close", "visit", None, c) EXCEPT !.todo = Endpoints \cap server.handlers]>>]
  /\ UNCHANGED <<server, open, reg, sock, list, friend, buddies, heard, stray, fault>>

\* checkForClosedClient of one endpoint's handler.
VisitEndpoint(h) ==
  /\ In(Httpd, "close", "visit")
  /\ h \in Top(Httpd).todo
  /\ LET c == Top(Httpd).c
         rest == [Top(Httpd) EXCEPT !.todo = @ \ {h}]
     IN  IF Holds(h, c)
         THEN Push(Httpd, rest, Call("drop", "notify", h, c))
         ELSE Become(Httpd, rest)
  /\ UNCHANGED <<server, open, reg, sock, list, friend, buddies, heard, stray, fault>>

\* The server's own onClose, when all endpoints have been asked
TellServer ==
  /\ In(Httpd, "close", "visit")
  /\ Top(Httpd).todo = {}
  /\ LET call == [Top(Httpd) EXCEPT !.at = "told"] IN
       /\ heard' = heard \ {<<call.c, None>>}
       /\ stray' = (stray \/ <<call.c, None>> \notin heard)
       /\ \E calls \in Broadcasts : stack' = [stack EXCEPT ![Httpd] = Append(calls, call)]
  /\ UNCHANGED <<server, open, reg, sock, list, friend, buddies, fault>>

\* DeleteClient as it would be if the server's list kept the pointer.
DeleteClientListed ==
  /\ In(Httpd, "close", "told")
  /\ open' = open \ {sock[Top(Httpd).c]}
  /\ sock' = [sock EXCEPT ![Top(Httpd).c] = None]
  /\ Pop(Httpd)
  /\ UNCHANGED <<server, reg, list, friend, buddies, heard, stray, fault>>

\* PsychicHttpServer::removeClient
Forget(c) == reg' = reg \ {c} /\ sock' = [sock EXCEPT ![c] = None]

\* The server forgets and deletes the client; close(sockfd).
DeleteClient ==
  /\ In(Httpd, "close", "told")
  /\ open' = open \ {sock[Top(Httpd).c]}
  /\ Forget(Top(Httpd).c)
  /\ Pop(Httpd)
  /\ UNCHANGED <<server, list, friend, buddies, heard, stray, fault>>

-----------------------------------------------------------------------------
(* closeCallback and removeClient of one handler, called by the server for  *)
(* a closed session and by PsychicEventSource::send for a failed client.    *)

\* An outer call of t is inside the onClose of the same client.
Closing(t, h, c) ==
  \E k \in 2 .. Len(stack[t]) :
    stack[t][k].op = "drop" /\ stack[t][k].h = h /\ stack[t][k].c = c

\* closeCallback: a stream looks its buddy up again and, if it is gone, calls
\* nobody.  The application's onClose may send to the others.
NotifyClose(t) ==
  /\ In(t, "drop", "notify")
  /\ LET h == Top(t).h
         c == Top(t).c
         told == c \in reg /\ Holds(h, c) /\ (h \in Streams => friend[c] = h)
         rest == [Top(t) EXCEPT !.at = "remove"]
     IN  \/ Live(c) /\ told /\ heard' = heard \ {<<c, h>>}
            /\ stray' = (stray \/ (<<c, h>> \notin heard /\ ~Closing(t, h, c)))
            /\ UNCHANGED <<server, open, reg, sock, list, friend, buddies, fault>>
            /\ CallBack(t, h, rest)
         \/ Live(c) /\ ~told /\ Become(t, rest)
            /\ UNCHANGED <<server, open, reg, sock, list, friend, buddies, heard, stray, fault>>
         \/ ~Live(c) /\ Crash(h)

\* removeClient: a stream deletes the buddy, every handler forgets the client.
RemoveClient(t) ==
  /\ In(t, "drop", "remove")
  /\ LET h == Top(t).h
         c == Top(t).c
     IN  \/ /\ Live(c)
            /\ list' = [list EXCEPT ![h] = Without(@, {c})]
            /\ IF friend[c] = h
               THEN friend' = [friend EXCEPT ![c] = None] /\ buddies' = buddies \ {<<c, h>>}
               ELSE UNCHANGED <<friend, buddies>>
            /\ Pop(t)
            /\ UNCHANGED <<server, open, reg, sock, heard, stray, fault>>
         \/ ~Live(c) /\ Crash(h)

-----------------------------------------------------------------------------
(* Broadcasts: PsychicEventSource::send and PsychicWebSocketHandler::       *)
(* sendAll, from any task, and the lookup the README tells applications to  *)
(* use instead of keeping a pointer.                                        *)

\* The loop over _clients begins.
StartSend(t, h) ==
  /\ Idle(t) /\ t \in server.tasks \cup {Httpd}
  /\ h \in Streams /\ list[h] # <<>>
  /\ stack' = [stack EXCEPT ![t] = <<Call("send", "node", h, Head(list[h]))>>]
  /\ UNCHANGED <<server, open, reg, sock, list, friend, buddies, heard, stray, fault>>

\* At a list node: it must still be there, and its client, to read _friend.
\* A WebSocket handler skips a client without a buddy; an EventSource does not
\* look.
VisitNode(t) ==
  /\ In(t, "send", "node")
  /\ LET h == Top(t).h
         c == Top(t).c
         safe == Holds(h, c) /\ Live(c) /\ (friend[c] = h \/ h \in WebSockets)
     IN  \/ /\ safe
            /\ Become(t, [Top(t) EXCEPT !.at = IF friend[c] = h THEN "use" ELSE "next"])
            /\ UNCHANGED <<server, open, reg, sock, list, friend, buddies, heard, stray, fault>>
         \/ ~safe /\ Crash(h)

\* sendEvent or sendMessage on the buddy.  sendEvent tries again while the
\* socket times out; when it fails, send() notes the client.  A failure of
\* sendMessage concerns nobody else.
UseBuddy(t) ==
  /\ In(t, "send", "use")
  /\ LET h == Top(t).h
         c == Top(t).c
         next == [Top(t) EXCEPT !.at = "next"]
     IN  \/ /\ <<c, h>> \in buddies
            /\ Become(t, next)
            /\ UNCHANGED <<server, open, reg, sock, list, friend, buddies, heard, stray, fault>>
         \/ /\ <<c, h>> \in buddies
            /\ h \in EventSources /\ Len(Top(t).failed) < MaxFailed
            /\ Become(t, [next EXCEPT !.failed = Append(@, c)])
            /\ UNCHANGED <<server, open, reg, sock, list, friend, buddies, heard, stray, fault>>
         \/ <<c, h>> \notin buddies /\ Crash(h)

\* ++it: the node is read for its successor.
NextNode(t) ==
  /\ In(t, "send", "next")
  /\ LET h == Top(t).h
         c == Top(t).c
     IN  \/ \E k \in DOMAIN list[h] :
              /\ list[h][k] = c
              /\ IF k < Len(list[h])
                 THEN Become(t, [Top(t) EXCEPT !.at = "node", !.c = list[h][k + 1]])
                 ELSE Become(t, [Top(t) EXCEPT !.at = "clean"])
              /\ UNCHANGED <<server, open, reg, sock, list, friend, buddies, heard, stray, fault>>
         \/ ~Holds(h, c) /\ Crash(h)

\* The second loop: closeCallback and removeClient for each failed client.
CleanUp(t) ==
  /\ In(t, "send", "clean")
  /\ IF Top(t).failed = <<>>
     THEN Pop(t)
     ELSE Push(t, [Top(t) EXCEPT !.failed = Tail(@)],
               Call("drop", "notify", Top(t).h, Head(Top(t).failed)))
  /\ UNCHANGED <<server, open, reg, sock, list, friend, buddies, heard, stray, fault>>

\* An application task finds a client by its socket with getClient().
LookUp(t, h, c) ==
  /\ Idle(t) /\ t \in server.tasks
  /\ h \in Streams
  /\ c \in reg /\ ~ScanFaults(h, c) /\ Holds(h, c) /\ friend[c] = h
  /\ stack' = [stack EXCEPT ![t] = <<Call("use", "use", h, c)>>]
  /\ UNCHANGED <<server, open, reg, sock, list, friend, buddies, heard, stray, fault>>

\* It then sends on the object it got.
UseFound(t) ==
  /\ In(t, "use", "use")
  /\ IF <<Top(t).c, Top(t).h>> \in buddies
     THEN /\ Pop(t)
          /\ UNCHANGED <<server, open, reg, sock, list, friend, buddies, heard, stray, fault>>
     ELSE Crash(Top(t).h)

\* Nothing is said of what follows a use of freed memory.
Faulted == fault # None /\ UNCHANGED vars

HttpdStep ==
  \/ \E s \in Sockets, c \in Clients : OpenSession(s, c)
  \/ \E h \in Handlers, c \in Clients : NewClient(h, c) \/ RequestFaults(h, c)
  \/ \E s \in Sockets : CloseSession(s)
  \/ \E h \in Endpoints : VisitEndpoint(h)
  \/ TellServer \/ DeleteClient

CallStep(t) ==
  \/ NotifyClose(t) \/ RemoveClient(t)
  \/ VisitNode(t) \/ UseBuddy(t) \/ NextNode(t) \/ CleanUp(t) \/ UseFound(t)

Next ==
  \/ HttpdStep
  \/ \E t \in Tasks : CallStep(t)
  \/ \E t \in Tasks, h \in Streams : StartSend(t, h)
  \/ \E t \in AppTasks, h \in Streams, c \in Clients : LookUp(t, h, c)
  \/ Faulted

Spec == Init /\ [][Next]_vars

-----------------------------------------------------------------------------
(* What must hold. *)

\* A session has one client record, and no other session's requests find it.
OneClientPerSession ==
  /\ reg = {c \in Clients : Live(c)}
  /\ \A c, d \in reg : sock[c] = sock[d] => c = d
  /\ open = {sock[c] : c \in reg}

\* A buddy exists exactly while its handler lists its client and the client
\* points to it: none leaks, and no broadcast meets a client without one.
BuddyOwned ==
  /\ \A h \in Streams : \A c \in Range(list[h]) : friend[c] = h /\ <<c, h>> \in buddies
  /\ \A b \in buddies : Holds(b[2], b[1])

\* The calls are all made by the httpd task: the library takes no lock.
HttpdAlone == server.tasks = {}

\* On the httpd task, and from inside onOpen and onClose, the three records of who is
\* there agree: the server's clients with the sessions, the streams' buddies with
\* their lists.  (The types hold whoever calls.)
RecordsAgree == TypeOK /\ (HttpdAlone => OneClientPerSession /\ BuddyOwned)

\* checkForClosedClient reaches every endpoint before the server deletes the
\* client, so no endpoint's handler is left with a pointer to freed memory, whatever
\* the application's tasks do.
NoStaleClient ==
  \A h \in Endpoints : \A c \in Range(list[h]) : c \in reg /\ Live(c)

\* The same of every handler the server calls, the default one included.
\* PsychicHttpServer.cpp:603: "give our handlers a chance to handle a disconnect first".
NoStaleClientAnywhere ==
  \A h \in Handlers : \A c \in Range(list[h]) : Live(c)

\* A call is removing the client from the handler, and may be telling the application.
BeingDropped(h, c) ==
  \E t \in Tasks : \E k \in DOMAIN stack[t] :
    stack[t][k].op = "drop" /\ stack[t][k].h = h /\ stack[t][k].c = c

\* The server has told the application that it is about to delete the client.
BeingDeleted(c) ==
  \E k \in DOMAIN stack[Httpd] : stack[Httpd][k].at = "told" /\ stack[Httpd][k].c = c

\* The application hears onOpen and onClose of a client in turn, and onClose
\* once for each client that leaves (README.md:643-644), but for an onClose
\* that sends to the others: the client is still listed then, its send fails
\* and onClose is called for it again, inside the first (PsychicHandler.cpp:58).
\* What the application so believes is what the handlers' lists and the
\* server's hold, but for clients it is being told of.
CallbacksAgree ==
  HttpdAlone =>
  /\ ~stray
  /\ \A h \in Endpoints, c \in Clients :
       BeingDropped(h, c) \/ (<<c, h>> \in heard <=> Holds(h, c))
  /\ \A c \in Clients : <<c, None>> \in heard <=> c \in reg /\ ~BeingDeleted(c)

\* No endpoint's handler uses a client, a buddy or a list node that has been deleted,
\* however calls and callbacks nest, unless an application task calls as well.
NoUseAfterFree == fault \in Endpoints => ~HttpdAlone

=============================================================================
