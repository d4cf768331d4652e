-------------------------- MODULE MCClientRegistry --------------------------
(***************************************************************************)
(* Small instances of ClientRegistry.  Clients and sockets are             *)
(* interchangeable.                                                        *)
(***************************************************************************)
EXTENDS ClientRegistry, TLC

CONSTANTS a1, dflt, web, es, ws

Server(handlers, tasks, sends) == [handlers |-> handlers, tasks |-> tasks, sends |-> sends]

\* A web handler, an EventSource and a WebSocket handler whose callbacks send; the
\* default handler beside an EventSource; the same with a task of the application.
MCServers ==
  {Server({web, es, ws}, {}, TRUE), Server({dflt, es}, {}, FALSE), Server({dflt, es}, {a1}, FALSE)}

\* A handler the server's closeCallback does not know.
DefaultServers == {Server({dflt, web}, {}, FALSE)}

ClientSymmetry == Permutations(Clients) \cup Permutations(Sockets)

=============================================================================
