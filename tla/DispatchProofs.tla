--------------------------- MODULE DispatchProofs ---------------------------
(***************************************************************************)
(* Proofs about Dispatch, for any configuration and any requests: whoever  *)
(* runs for a request is who the routing rules name, in their order; a     *)
(* successful request has been answered, once; a connection has one        *)
(* session; a static file handler sends the file of the request.           *)
(***************************************************************************)
EXTENDS Dispatch, ListsProofs

-----------------------------------------------------------------------------
(* The inductive invariant. *)

Processing == at \in {"admit", "handlerChain", "handle", "returned"}

\* What a connection has while a request is dispatched: the one session, and a request.
Connected ==
  /\ server \in Servers
  /\ at \in Places /\ pos \in Nat \ {0} /\ tried \in Nat \ {0}
  /\ caller \in Callers \cup {None} /\ ret \in Returns \cup {None}
  /\ served \in 0 .. MaxRequests
  /\ at = "idle" => session = 0 /\ sessions = {} /\ wire = None
  /\ at # "idle" => session = 1 /\ sessions = {1} /\ wire \in Requests /\ served > 0

\* The handler being processed is the one its caller is to call, with the URI it is called for:
\* for request r to server s, caller c is at its t-th handler.
CalledBy(s, r, c, t, h, u) ==
  /\ c \in Callers
  /\ c = "callback" =>
       Directs(s, r) # {} /\ h = s.endpoints[FirstFit(Directs(s, r))].handler /\ u = r.uri
  /\ c = "endpoint" =>
       /\ Passes(s, r) /\ Claims(s, r) # {}
       /\ h = s.endpoints[FirstFit(Claims(s, r))].handler /\ u = Rewritten(s, r)
  /\ c = "global" =>
       /\ Passes(s, r) /\ Claims(s, r) = {} /\ t \in 1 .. Len(s.handlers)
       /\ h = s.handlers[t] /\ u = Rewritten(s, r)
  /\ c = "fallback" => Passes(s, r) /\ h = s.fallback /\ u = r.uri

Called == Processing => CalledBy(server, wire, caller, tried, handler, uri)

\* Who has been asked before, and the visits in the handler up to its k-th middleware
ServerAsked(s, r) == DirectVisit(s, r) \o ServerVisits(Len(s.chain))

AskedBefore(s, r, c, t) ==
  IF c = "callback" THEN <<>>
  ELSE IF c = "endpoint" THEN ServerAsked(s, r)
  ELSE IF c = "global" THEN ServerAsked(s, r) \o HandlerVisits(s, r, t - 1)
  ELSE ServerAsked(s, r) \o RoutedVisits(s, r)

ChainVisits(h, k) == [i \in 1 .. k |-> <<h.name, i>>]

\* How far along its itinerary a request is: before a handler is found
Routing ==
  /\ at = "rewrite" => trail = DirectVisit(server, wire) /\ uri = wire.uri
  /\ at = "filter" => trail = DirectVisit(server, wire) /\ uri = Rewritten(server, wire)
  /\ at = "chain" =>
       /\ Passes(server, wire) /\ uri = Rewritten(server, wire)
       /\ pos <= Len(server.chain) + 1
       /\ trail = DirectVisit(server, wire) \o ServerVisits(pos - 1)
  /\ at = "endpoints" =>
       /\ Passes(server, wire) /\ uri = Rewritten(server, wire)
       /\ trail = ServerAsked(server, wire)
       /\ \A i \in 1 .. pos - 1 : i \notin Claims(server, wire)
  /\ at = "handlers" =>
       /\ Passes(server, wire) /\ uri = Rewritten(server, wire)
       /\ Claims(server, wire) = {} /\ tried <= Len(server.handlers) + 1
       /\ trail = ServerAsked(server, wire) \o HandlerVisits(server, wire, tried - 1)
  /\ at = "fallback" =>
       Passes(server, wire) /\ trail = ServerAsked(server, wire) \o RoutedVisits(server, wire)

\* In a handler, and behind it
Visiting ==
  LET before == AskedBefore(server, wire, caller, tried)
      whole == before \o Visit(handler, uri, wire.method) IN
  /\ at = "admit" => trail = before
  /\ at = "handlerChain" =>
       /\ Accepts(handler, uri, wire.method) /\ pos <= Len(handler.chain) + 1
       /\ trail = before \o ChainVisits(handler, pos - 1)
  /\ at = "handle" => trail = whole
  /\ at = "returned" => IsPrefix(trail, whole) /\ (ret = "404" => trail = whole)

Routed ==
  at = "done" =>
    /\ IsPrefix(trail, Itinerary(server, wire))
    /\ sent = <<"404">> => trail = Itinerary(server, wire)

\* What has been answered: nothing before a handler returns or a middleware answers, and
\* nothing by a handler that passes.
Answered ==
  /\ at \notin {"returned", "done"} => sent = <<>>
  /\ sent = <<>> \/ (\E x : sent = <<x>>) \/ (handler.kind = "json" /\ \E x, y : sent = <<x, y>>)
  /\ Len(sent) > 1 => handler # None
  /\ at = "returned" =>
       /\ ret = "404" => sent = <<>>
       /\ ret = "ok" => sent # <<>> \/ Unanswering(handler)
       /\ ret = "invalid" => handler.kind = "upload"
       /\ sent # <<"404">>
  /\ at = "done" /\ ret = "ok" => sent # <<>> \/ (handler # None /\ Unanswering(handler))

\* The file is open from canHandle() to handleRequest().
FileOpen ==
  /\ \A f \in file : f = <<f[1], f[2]>>
  /\ \A f, g \in file : f[1] = g[1] => f = g
  /\ at \in {"handlerChain", "handle"} /\ handler.kind = "static" => <<handler.name, uri>> \in file

\* Who may be on a trail
Names == {h.name : h \in UNION {Handlers(s) : s \in Servers}}
Hops == ({"server"} \cup Names) \X Nat

Way == trail \in Seq(Hops) /\ Called /\ Routing /\ Visiting /\ Routed

Inv == Connected /\ Way /\ Answered /\ FileOpen

-----------------------------------------------------------------------------

\* The least of a set of positions is there, and there is one.
LEMMA FirstFitProperties ==
  ASSUME NEW n, NEW S, S \subseteq 1 .. n
  PROVE  /\ S # {} => FirstFit(S) \in S /\ \A j \in S : FirstFit(S) <= j
         /\ \A i \in S : (\A j \in S : i <= j) => i = FirstFit(S)
<1>1. \A j \in S : j \in Nat
  OBVIOUS
<1>2. ASSUME S # {} PROVE \E i \in S : \A j \in S : i <= j
  <2>1. S \subseteq Nat
    BY <1>1
  <2> QED
    BY <1>2, <2>1, LeastNat
<1>3. ASSUME S # {} PROVE FirstFit(S) \in S /\ \A j \in S : FirstFit(S) <= j
  BY <1>2, <1>3 DEF FirstFit
<1>4. ASSUME NEW i \in S, \A j \in S : i <= j PROVE i = FirstFit(S)
  <2>1. PICK f : f = FirstFit(S)
    OBVIOUS
  <2>2. f \in S /\ f <= i /\ i <= f
    BY <1>3, <1>4, <2>1
  <2>3. f \in Nat /\ i \in Nat
    BY <1>1, <2>2
  <2> QED
    BY <2>1, <2>2, <2>3
<1> QED
  BY <1>3, <1>4

-----------------------------------------------------------------------------
(* The visits. *)

\* The lists of a configuration, and the handlers that are in them
LEMMA ServerLists ==
  ASSUME NEW s \in Servers
  PROVE  /\ Len(s.rewrites) \in Nat /\ Len(s.chain) \in Nat
         /\ Len(s.endpoints) \in Nat /\ Len(s.handlers) \in Nat
         /\ \A i \in 1 .. Len(s.endpoints) : s.endpoints[i].handler \in Handlers(s)
         /\ \A i \in 1 .. Len(s.handlers) : s.handlers[i] \in Handlers(s)
         /\ s.fallback \in Handlers(s)
<1>1. ASSUME NEW l, IsList(l)
      PROVE  Len(l) \in Nat /\ DOMAIN l = 1 .. Len(l) /\ \A i \in 1 .. Len(l) : l[i] \in Range(l)
  <2>1. PICK A : A = Range(l)
    OBVIOUS
  <2>2. l \in Seq(A)
    BY <1>1, <2>1 DEF IsList
  <2> QED
    BY <2>1, <2>2
<1>2. IsList(s.rewrites) /\ IsList(s.chain) /\ IsList(s.endpoints) /\ IsList(s.handlers)
  BY ServersAssumption
<1>3. Len(s.rewrites) \in Nat /\ Len(s.chain) \in Nat
  BY <1>1, <1>2
<1>4. Len(s.endpoints) \in Nat /\ DOMAIN s.endpoints = 1 .. Len(s.endpoints)
  BY <1>1, <1>2
<1>5. Len(s.handlers) \in Nat /\ \A i \in 1 .. Len(s.handlers) : s.handlers[i] \in Range(s.handlers)
  BY <1>1, <1>2
<1>6. \A i \in 1 .. Len(s.endpoints) : s.endpoints[i].handler \in Handlers(s)
  BY <1>4 DEF Handlers
<1>7. \A i \in 1 .. Len(s.handlers) : s.handlers[i] \in Handlers(s)
  BY <1>5 DEF Handlers
<1>8. s.fallback \in Handlers(s)
  BY DEF Handlers
<1> QED
  BY <1>3, <1>4, <1>5, <1>6, <1>7, <1>8

LEMMA HandlerProperties ==
  ASSUME NEW s \in Servers, NEW h \in Handlers(s)
  PROVE  Len(h.chain) \in Nat /\ h.name \in Names /\ h.name # "404"
<1>1. IsList(h.chain) /\ h.name # "404"
  BY ServersAssumption
<1>2. PICK A, l : A = Range(h.chain) /\ l = h.chain
  OBVIOUS
<1>3. l \in Seq(A)
  BY <1>1, <1>2 DEF IsList
<1>4. Len(l) \in Nat
  BY <1>3
<1>5. h.name \in Names
  BY DEF Names
<1> QED
  BY <1>1, <1>2, <1>4, <1>5

\* A handler's visits are its chain, one middleware after the other, and then the handler.
LEMMA VisitProperties ==
  ASSUME NEW s \in Servers, NEW h \in Handlers(s), NEW u, NEW m
  PROVE  /\ \A k \in Nat : ChainVisits(h, k) \in Seq(Hops)
         /\ ChainVisits(h, 0) = <<>>
         /\ \A k \in Nat : Append(ChainVisits(h, k), <<h.name, k + 1>>) = ChainVisits(h, k + 1)
         /\ Visit(h, u, m) \in Seq(Hops)
         /\ Accepts(h, u, m) => Visit(h, u, m) = Append(ChainVisits(h, Len(h.chain)), <<h.name, 0>>)
         /\ ~ Accepts(h, u, m) => Visit(h, u, m) = <<>>
<1>1. PICK x, n : x = h.name /\ n = Len(h.chain) /\ x \in Names /\ n \in Nat
  BY HandlerProperties, Zenon
<1>2. \A i \in Nat : <<x, i>> \in Hops
  BY <1>1 DEF Hops
<1>3. ASSUME NEW k \in Nat
      PROVE  /\ [i \in 1 .. k |-> <<x, i>>] \in Seq(Hops)
             /\ Append([i \in 1 .. k |-> <<x, i>>], <<x, k + 1>>) = [i \in 1 .. k + 1 |-> <<x, i>>]
  <2>1. PICK t : t = [i \in 1 .. k |-> <<x, i>>]
    OBVIOUS
  <2>2. t \in Seq(Hops) /\ Len(t) = k
    BY <1>2, <2>1
  <2>3. <<x, k + 1>> \in Hops
    BY <1>2
  <2>4. Append(t, <<x, k + 1>>) \in Seq(Hops) /\ Len(Append(t, <<x, k + 1>>)) = k + 1
    BY <2>2, <2>3
  <2>5. \A i \in 1 .. k + 1 : i \in 1 .. k \/ i = k + 1
    OBVIOUS
  <2>6. \A i \in 1 .. k + 1 : Append(t, <<x, k + 1>>)[i] = <<x, i>>
    <3>1. \A i \in 1 .. k : Append(t, <<x, k + 1>>)[i] = t[i]
      BY <2>2, <2>3
    <3>2. Append(t, <<x, k + 1>>)[k + 1] = <<x, k + 1>>
      BY <2>2, <2>3
    <3> QED
      BY <2>1, <2>5, <3>1, <3>2
  <2>7. Append(t, <<x, k + 1>>) = [i \in 1 .. k + 1 |-> <<x, i>>]
    <3>1. PICK w : w = Append(t, <<x, k + 1>>)
      OBVIOUS
    <3>2. w = [i \in 1 .. Len(w) |-> w[i]]
      BY <2>4, <3>1
    <3> QED
      BY <2>4, <2>6, <3>1, <3>2
  <2> QED
    BY <2>1, <2>2, <2>7
<1>4. \A k \in Nat : ChainVisits(h, k) = [i \in 1 .. k |-> <<x, i>>]
  BY <1>1 DEF ChainVisits
<1>5. \A k \in Nat : ChainVisits(h, k) \in Seq(Hops)
  BY <1>3, <1>4
<1>6. \A k \in Nat : Append(ChainVisits(h, k), <<x, k + 1>>) = ChainVisits(h, k + 1)
  <2> SUFFICES ASSUME NEW k \in Nat
               PROVE  Append(ChainVisits(h, k), <<x, k + 1>>) = ChainVisits(h, k + 1)
    OBVIOUS
  <2>1. k + 1 \in Nat
    OBVIOUS
  <2>2. ChainVisits(h, k + 1) = [i \in 1 .. k + 1 |-> <<x, i>>]
    BY <1>4, <2>1
  <2> QED
    BY <1>3, <1>4, <2>2
<1>7. ChainVisits(h, 0) = <<>>
  BY <1>4
<1>8. PICK c : c = ChainVisits(h, n) /\ c \in Seq(Hops)
  <2>1. ChainVisits(h, n) \in Seq(Hops)
    BY <1>1, <1>5
  <2> QED
    BY <2>1
<1>9. c \o <<<<x, 0>>>> = Append(c, <<x, 0>>) /\ Append(c, <<x, 0>>) \in Seq(Hops)
  BY <1>2, <1>8
<1>10. Accepts(h, u, m) => Visit(h, u, m) = Append(c, <<x, 0>>)
  BY <1>1, <1>8, <1>9 DEF Visit, ChainVisits
<1>11. ~ Accepts(h, u, m) => Visit(h, u, m) = <<>>
  BY DEF Visit
<1>12. Visit(h, u, m) \in Seq(Hops)
  <2>1. <<>> \in Seq(Hops)
    OBVIOUS
  <2> QED
    BY <1>9, <1>10, <1>11, <2>1, Zenon
<1> QED
  BY <1>1, <1>5, <1>6, <1>7, <1>8, <1>10, <1>11, <1>12

\* The server's own middlewares, one after the other
LEMMA ServerVisitProperties ==
  /\ \A k \in Nat : ServerVisits(k) \in Seq(Hops)
  /\ ServerVisits(0) = <<>>
  /\ \A k \in Nat : Append(ServerVisits(k), <<"server", k + 1>>) = ServerVisits(k + 1)
  /\ \A k, n \in Nat : k <= n => IsPrefix(ServerVisits(k), ServerVisits(n))
<1>1. \A k \in Nat : ServerVisits(k) = [i \in 1 .. k |-> <<"server", i>>]
  BY DEF ServerVisits
<1>2. \A i \in Nat : <<"server", i>> \in Hops
  BY DEF Hops
<1>3. ASSUME NEW k \in Nat
      PROVE  /\ ServerVisits(k) \in Seq(Hops) /\ Len(ServerVisits(k)) = k
             /\ \A i \in 1 .. k : ServerVisits(k)[i] = <<"server", i>>
  BY <1>1, <1>2
<1>4. ServerVisits(0) = <<>>
  BY <1>1
<1>5. ASSUME NEW k \in Nat
      PROVE  Append(ServerVisits(k), <<"server", k + 1>>) = ServerVisits(k + 1)
  <2>1. PICK t, e, v : t = ServerVisits(k) /\ e = <<"server", k + 1>> /\ v = ServerVisits(k + 1)
    OBVIOUS
  <2>2. t \in Seq(Hops) /\ Len(t) = k /\ e \in Hops /\ \A i \in 1 .. k : t[i] = <<"server", i>>
    BY <1>2, <1>3, <2>1
  <2>3. k + 1 \in Nat
    OBVIOUS
  <2>4. v \in Seq(Hops) /\ Len(v) = k + 1 /\ \A i \in 1 .. k + 1 : v[i] = <<"server", i>>
    BY <1>3, <2>1, <2>3
  <2>5. PICK w : w = Append(t, e)
    OBVIOUS
  <2>6. w \in Seq(Hops) /\ Len(w) = k + 1 /\ w[k + 1] = e /\ \A i \in 1 .. k : w[i] = t[i]
    BY <2>2, <2>5
  <2>7. \A i \in 1 .. k + 1 : i \in 1 .. k \/ i = k + 1
    OBVIOUS
  <2>8. \A i \in 1 .. k + 1 : w[i] = v[i]
    BY <2>1, <2>2, <2>4, <2>6, <2>7
  <2>9. w = v
    BY <2>4, <2>6, <2>8
  <2> QED
    BY <2>1, <2>5, <2>9
<1>6. ASSUME NEW k \in Nat, NEW n \in Nat, k <= n PROVE IsPrefix(ServerVisits(k), ServerVisits(n))
  <2>1. PICK s, t : s = ServerVisits(k) /\ t = ServerVisits(n)
    OBVIOUS
  <2>2. /\ s \in Seq(Hops) /\ Len(s) = k /\ \A i \in 1 .. k : s[i] = <<"server", i>>
        /\ t \in Seq(Hops) /\ Len(t) = n /\ \A i \in 1 .. n : t[i] = <<"server", i>>
    BY <1>3, <2>1
  <2>3. Len(s) <= Len(t) /\ \A i \in 1 .. Len(s) : s[i] = t[i]
    BY <1>6, <2>2
  <2> QED
    BY <2>1, <2>2, <2>3, PrefixPointwise
<1> QED
  BY <1>3, <1>4, <1>5, <1>6

\* The global handlers, one after the other
LEMMA HandlerVisitProperties ==
  ASSUME NEW s \in Servers, NEW r
  PROVE  /\ \A k \in 0 .. Len(s.handlers) : HandlerVisits(s, r, k) \in Seq(Hops)
         /\ HandlerVisits(s, r, 0) = <<>>
         /\ \A k \in 1 .. Len(s.handlers) :
              HandlerVisits(s, r, k)
                = HandlerVisits(s, r, k - 1) \o Visit(s.handlers[k], Rewritten(s, r), r.method)
<1>1. PICK n, v : /\ n = Len(s.handlers)
                  /\ v = [i \in 1 .. n |-> Visit(s.handlers[i], Rewritten(s, r), r.method)]
  OBVIOUS
<1>2. n \in Nat /\ \A i \in 1 .. n : s.handlers[i] \in Handlers(s)
  BY <1>1, ServerLists
<1>3. ASSUME NEW i \in 1 .. n PROVE Visit(s.handlers[i], Rewritten(s, r), r.method) \in Seq(Hops)
  <2>1. s.handlers[i] \in Handlers(s)
    BY <1>2
  <2> QED
    BY <2>1, VisitProperties
<1>4. v \in [1 .. n -> Seq(Hops)]
  BY <1>1, <1>3
<1>5. \A k \in 0 .. n : HandlerVisits(s, r, k) = FlattenSeq([i \in 1 .. k |-> v[i]])
  <2> SUFFICES ASSUME NEW k \in 0 .. n
               PROVE  [i \in 1 .. k |-> Visit(s.handlers[i], Rewritten(s, r), r.method)]
                        = [i \in 1 .. k |-> v[i]]
    BY DEF HandlerVisits
  <2>1. \A i \in 1 .. k : i \in 1 .. n
    BY <1>2
  <2>2. \A i \in 1 .. k : v[i] = Visit(s.handlers[i], Rewritten(s, r), r.method)
    BY <1>1, <2>1
  <2> QED
    BY <2>2
<1>6. /\ FlattenSeq([i \in 1 .. 0 |-> v[i]]) = <<>>
      /\ \A k \in 0 .. n : FlattenSeq([i \in 1 .. k |-> v[i]]) \in Seq(Hops)
      /\ \A k \in 1 .. n : FlattenSeq([i \in 1 .. k |-> v[i]])
                             = FlattenSeq([i \in 1 .. k - 1 |-> v[i]]) \o v[k]
  BY <1>2, <1>4, FlattenProperties
<1>7. \A k \in 1 .. n : k \in 0 .. n /\ k - 1 \in 0 .. n
  BY <1>2
<1>8. 0 \in 0 .. n
  BY <1>2
<1>9. \A k \in 1 .. n : HandlerVisits(s, r, k) = HandlerVisits(s, r, k - 1) \o v[k]
  BY <1>5, <1>6, <1>7
<1>10. \A k \in 1 .. n : v[k] = Visit(s.handlers[k], Rewritten(s, r), r.method)
  BY <1>1
<1> QED
  BY <1>1, <1>5, <1>6, <1>8, <1>9, <1>10

LEMMA HandlerVisitsPrefix ==
  ASSUME NEW s \in Servers, NEW r, NEW k \in 0 .. Len(s.handlers)
  PROVE  IsPrefix(HandlerVisits(s, r, k), HandlerVisits(s, r, Len(s.handlers)))
<1>1. PICK n \in Nat : n = Len(s.handlers)
  BY ServerLists
<1>2. PICK V : V = [i \in 0 .. n |-> HandlerVisits(s, r, i)]
  OBVIOUS
<1>3. PICK W : W = [i \in 1 .. n |-> Visit(s.handlers[i], Rewritten(s, r), r.method)]
  OBVIOUS
<1>4. \A i \in 0 .. n : HandlerVisits(s, r, i) \in Seq(Hops)
  BY <1>1, HandlerVisitProperties
<1>5. \A i \in 0 .. n : V[i] \in Seq(Hops)
  BY <1>2, <1>4
<1>6. ASSUME NEW i \in 1 .. n PROVE V[i] = V[i - 1] \o W[i] /\ W[i] \in Seq(Hops)
  <2>1. i \in 0 .. n /\ i - 1 \in 0 .. n
    OBVIOUS
  <2>2. HandlerVisits(s, r, i)
          = HandlerVisits(s, r, i - 1) \o Visit(s.handlers[i], Rewritten(s, r), r.method)
    BY <1>1, HandlerVisitProperties
  <2>3. s.handlers[i] \in Handlers(s)
    BY <1>1, ServerLists
  <2>4. Visit(s.handlers[i], Rewritten(s, r), r.method) \in Seq(Hops)
    BY <2>3, VisitProperties
  <2> QED
    BY <1>2, <1>3, <2>1, <2>2, <2>4
<1>7. \A t \in Seq(Hops) : IsPrefix(t, t)
  BY PrefixPointwise
<1> DEFINE T == {j \in 0 .. n : j < k \/ IsPrefix(V[k], V[j])}
<1>8. k \in 0 .. n
  BY <1>1
<1>9. 0 \in T
  <2>1. CASE k = 0
    BY <1>5, <1>7, <1>8, <2>1
  <2>2. CASE k # 0
    BY <1>8, <2>2
  <2> QED
    BY <2>1, <2>2
<1>10. ASSUME NEW j \in 0 .. n - 1, j \in T PROVE j + 1 \in T
  <2>1. j + 1 \in 1 .. n /\ j + 1 \in 0 .. n /\ j \in 0 .. n /\ (j + 1) - 1 = j
    OBVIOUS
  <2>2. CASE j + 1 < k
    BY <2>1, <2>2
  <2>3. CASE j + 1 = k
    <3>1. IsPrefix(V[k], V[j + 1])
      BY <1>5, <1>7, <1>8, <2>3
    <3> QED
      BY <2>1, <3>1
  <2>4. CASE j >= k
    <3>1. IsPrefix(V[k], V[j])
      BY <1>8, <1>10, <2>4
    <3>2. PICK x, y, z, w : x = V[k] /\ y = V[j] /\ z = V[j + 1] /\ w = W[j + 1]
      OBVIOUS
    <3>3. /\ x \in Seq(Hops) /\ y \in Seq(Hops) /\ z \in Seq(Hops) /\ w \in Seq(Hops)
          /\ z = y \o w /\ IsPrefix(x, y)
      BY <1>5, <1>6, <1>8, <2>1, <3>1, <3>2
    <3>4. IsPrefix(y, z)
      BY <3>3, ConcatPrefix
    <3>5. IsPrefix(x, z)
      BY <3>3, <3>4, PrefixTransitive
    <3> QED
      BY <2>1, <3>2, <3>5
  <2> QED
    BY <1>8, <2>2, <2>3, <2>4
<1>11. \A j \in 0 .. n : j \in T
  <2> HIDE DEF T
  <2> QED
    BY <1>9, <1>10, InductionUpto
<1>12. n \in 0 .. n /\ ~ n < k
  BY <1>8
<1>13. IsPrefix(V[k], V[n])
  BY <1>11, <1>12
<1> QED
  BY <1>1, <1>2, <1>8, <1>12, <1>13

\* The parts of an itinerary are lists of visits.
LEMMA ItineraryParts ==
  ASSUME NEW s \in Servers, NEW r
  PROVE  /\ Directs(s, r) # {} => FirstFit(Directs(s, r)) \in 1 .. Len(s.endpoints)
         /\ Claims(s, r) # {} => FirstFit(Claims(s, r)) \in 1 .. Len(s.endpoints)
         /\ DirectVisit(s, r) \in Seq(Hops)
         /\ RoutedVisits(s, r) \in Seq(Hops)
         /\ ServerAsked(s, r) \in Seq(Hops)
<1>1. Directs(s, r) # {} => FirstFit(Directs(s, r)) \in 1 .. Len(s.endpoints)
  <2>1. PICK S, n : S = Directs(s, r) /\ n = Len(s.endpoints)
    OBVIOUS
  <2>2. S \subseteq 1 .. n
    BY <2>1 DEF Directs
  <2> QED
    BY <2>1, <2>2, FirstFitProperties
<1>2. Claims(s, r) # {} => FirstFit(Claims(s, r)) \in 1 .. Len(s.endpoints)
  <2>1. PICK S, n : S = Claims(s, r) /\ n = Len(s.endpoints)
    OBVIOUS
  <2>2. S \subseteq 1 .. n
    BY <2>1 DEF Claims
  <2> QED
    BY <2>1, <2>2, FirstFitProperties
<1>3. <<>> \in Seq(Hops)
  OBVIOUS
<1>4. DirectVisit(s, r) \in Seq(Hops)
  <2>1. CASE Directs(s, r) = {}
    BY <1>3, <2>1 DEF DirectVisit
  <2>2. CASE Directs(s, r) # {}
    <3>1. PICK h : h = s.endpoints[FirstFit(Directs(s, r))].handler
      OBVIOUS
    <3>2. h \in Handlers(s)
      BY <1>1, <2>2, <3>1, ServerLists
    <3>3. Visit(h, r.uri, r.method) \in Seq(Hops)
      BY <3>2, VisitProperties
    <3> QED
      BY <2>2, <3>1, <3>3 DEF DirectVisit
  <2> QED
    BY <2>1, <2>2
<1>5. RoutedVisits(s, r) \in Seq(Hops)
  <2>1. CASE Claims(s, r) = {}
    <3>1. Len(s.handlers) \in 0 .. Len(s.handlers)
      BY ServerLists
    <3>2. HandlerVisits(s, r, Len(s.handlers)) \in Seq(Hops)
      BY <3>1, HandlerVisitProperties
    <3> QED
      BY <2>1, <3>2 DEF RoutedVisits
  <2>2. CASE Claims(s, r) # {}
    <3>1. PICK h : h = s.endpoints[FirstFit(Claims(s, r))].handler
      OBVIOUS
    <3>2. h \in Handlers(s)
      BY <1>2, <2>2, <3>1, ServerLists
    <3>3. Visit(h, Rewritten(s, r), r.method) \in Seq(Hops)
      BY <3>2, VisitProperties
    <3> QED
      BY <2>2, <3>1, <3>3 DEF RoutedVisits
  <2> QED
    BY <2>1, <2>2
<1>6. ServerAsked(s, r) \in Seq(Hops)
  <2>1. ServerVisits(Len(s.chain)) \in Seq(Hops)
    BY ServerLists, ServerVisitProperties
  <2> QED
    BY <1>4, <2>1 DEF ServerAsked
<1> QED
  BY <1>1, <1>2, <1>4, <1>5, <1>6

\* Wherever a request is, what it has visited is a beginning of its itinerary.
LEMMA WithinItinerary ==
  ASSUME NEW s \in Servers, NEW r
  PROVE  /\ Itinerary(s, r) \in Seq(Hops)
         /\ IsPrefix(DirectVisit(s, r), Itinerary(s, r))
         /\ Passes(s, r) =>
              /\ \A k \in 0 .. Len(s.chain) :
                   IsPrefix(DirectVisit(s, r) \o ServerVisits(k), Itinerary(s, r))
              /\ IsPrefix(ServerAsked(s, r) \o RoutedVisits(s, r), Itinerary(s, r))
              /\ (ServerAsked(s, r) \o RoutedVisits(s, r)) \o Visit(s.fallback, r.uri, r.method)
                   = Itinerary(s, r)
              /\ Claims(s, r) = {} =>
                   \A k \in 0 .. Len(s.handlers) :
                     IsPrefix(ServerAsked(s, r) \o HandlerVisits(s, r, k), Itinerary(s, r))
<1>1. PICK d, c, q, f, n, it :
        /\ d = DirectVisit(s, r) /\ n = Len(s.chain) /\ c = ServerVisits(n)
        /\ q = RoutedVisits(s, r) /\ f = Visit(s.fallback, r.uri, r.method) /\ it = Itinerary(s, r)
  OBVIOUS
<1>2. n \in Nat
  BY <1>1, ServerLists
<1>3. d \in Seq(Hops) /\ q \in Seq(Hops)
  BY <1>1, ItineraryParts
<1>4. c \in Seq(Hops)
  BY <1>1, <1>2, ServerVisitProperties
<1>5. f \in Seq(Hops)
  BY <1>1, ServerLists, VisitProperties
<1>6. <<>> \in Seq(Hops)
  OBVIOUS
<1>7. ServerAsked(s, r) = d \o c
  BY <1>1 DEF ServerAsked
<1>8. CASE Passes(s, r)
  <2>1. it = d \o (c \o (q \o f))
    BY <1>1, <1>8 DEF Itinerary
  <2>2. q \o f \in Seq(Hops)
    BY <1>3, <1>5
  <2>3. c \o (q \o f) \in Seq(Hops) /\ d \o c \in Seq(Hops)
    BY <1>3, <1>4, <2>2
  <2>4. it \in Seq(Hops) /\ (d \o c) \o q \in Seq(Hops)
    BY <1>3, <2>1, <2>3
  <2>5. (d \o c) \o (q \o f) = it
    <3>1. (d \o c) \o (q \o f) = d \o (c \o (q \o f))
      <4>1. PICK y \in Seq(Hops) : y = q \o f
        BY <2>2
      <4>2. (d \o c) \o y = d \o (c \o y)
        BY <1>3, <1>4, <4>1, ConcatProperties, SMTT(30)
      <4> QED
        BY <4>1, <4>2, Zenon
    <3> QED
      BY <2>1, <3>1, Zenon
  <2>6. ((d \o c) \o q) \o f = it
    <3>1. PICK x \in Seq(Hops) : x = d \o c
      BY <2>3
    <3>2. (x \o q) \o f = x \o (q \o f)
      BY <1>3, <1>5, <3>1, ConcatProperties, SMTT(30)
    <3> QED
      BY <2>5, <3>1, <3>2, Zenon
  <2>7. IsPrefix(d, it)
    BY <1>3, <2>1, <2>3, ConcatPrefix
  <2>8. IsPrefix((d \o c) \o q, it)
    BY <1>5, <2>4, <2>6, ConcatPrefix
  <2>9. ASSUME NEW t \in Seq(Hops), IsPrefix(t, c) PROVE IsPrefix(d \o t, it)
    <3>1. IsPrefix(c, c \o (q \o f))
      BY <1>4, <2>2, ConcatPrefix
    <3>2. IsPrefix(t, c \o (q \o f))
      BY <1>4, <2>3, <2>9, <3>1, PrefixTransitive
    <3> QED
      BY <1>3, <2>1, <2>3, <2>9, <3>2, ConcatPrefix
  <2>10. ASSUME NEW k \in 0 .. n PROVE IsPrefix(d \o ServerVisits(k), it)
    <3>1. k \in Nat /\ k <= n
      BY <1>2
    <3>2. ServerVisits(k) \in Seq(Hops) /\ IsPrefix(ServerVisits(k), c)
      BY <1>1, <1>2, <3>1, ServerVisitProperties
    <3> QED
      BY <2>9, <3>2
  <2>11. ASSUME NEW k \in 0 .. Len(s.handlers), Claims(s, r) = {}
         PROVE  IsPrefix((d \o c) \o HandlerVisits(s, r, k), it)
    <3>1. PICK t : t = HandlerVisits(s, r, k)
      OBVIOUS
    <3>2. t \in Seq(Hops)
      BY <3>1, HandlerVisitProperties
    <3>3. IsPrefix(t, q)
      BY <1>1, <2>11, <3>1, HandlerVisitsPrefix DEF RoutedVisits
    <3>4. IsPrefix((d \o c) \o t, (d \o c) \o q)
      BY <1>3, <2>3, <3>2, <3>3, ConcatPrefix
    <3>5. (d \o c) \o t \in Seq(Hops)
      BY <2>3, <3>2
    <3>6. IsPrefix((d \o c) \o t, it)
      BY <2>4, <2>8, <3>4, <3>5, PrefixTransitive
    <3> QED
      BY <3>1, <3>6
  <2> QED
    BY <1>1, <1>7, <1>8, <2>4, <2>6, <2>7, <2>8, <2>10, <2>11
<1>9. CASE ~ Passes(s, r)
  <2>1. it = d \o <<>>
    BY <1>1, <1>9 DEF Itinerary
  <2>2. d \o <<>> = d
    BY <1>3
  <2>3. IsPrefix(d, d)
    BY <1>3, PrefixPointwise
  <2> QED
    BY <1>1, <1>3, <1>9, <2>1, <2>2, <2>3
<1> QED
  BY <1>8, <1>9

\* The handler that a caller has processed: what it adds is a part of the itinerary, and with
\* the fallback the itinerary ends.
LEMMA CalledProperties ==
  ASSUME NEW s \in Servers, NEW r, NEW c, NEW t, NEW h, NEW u, CalledBy(s, r, c, t, h, u)
  PROVE  /\ h \in Handlers(s)
         /\ AskedBefore(s, r, c, t) \in Seq(Hops)
         /\ AskedBefore(s, r, c, t) \o Visit(h, u, r.method) \in Seq(Hops)
         /\ IsPrefix(AskedBefore(s, r, c, t) \o Visit(h, u, r.method), Itinerary(s, r))
         /\ c = "callback" =>
              AskedBefore(s, r, c, t) \o Visit(h, u, r.method) = DirectVisit(s, r)
         /\ c = "endpoint" =>
              AskedBefore(s, r, c, t) \o Visit(h, u, r.method) = ServerAsked(s, r) \o RoutedVisits(s, r)
         /\ c = "global" =>
              AskedBefore(s, r, c, t) \o Visit(h, u, r.method)
                = ServerAsked(s, r) \o HandlerVisits(s, r, t)
         /\ c = "fallback" =>
              AskedBefore(s, r, c, t) \o Visit(h, u, r.method) = Itinerary(s, r)
<1>1. PICK b, v, a, it : /\ b = AskedBefore(s, r, c, t) /\ v = Visit(h, u, r.method)
                         /\ a = ServerAsked(s, r) /\ it = Itinerary(s, r)
  OBVIOUS
<1>2. a \in Seq(Hops) /\ <<>> \in Seq(Hops)
  BY <1>1, ItineraryParts
<1>3. CASE c = "callback"
  <2>1. /\ Directs(s, r) # {} /\ h = s.endpoints[FirstFit(Directs(s, r))].handler /\ u = r.uri
    BY <1>3 DEF CalledBy
  <2>2. h \in Handlers(s)
    BY <2>1, ItineraryParts, ServerLists
  <2>3. v \in Seq(Hops) /\ v = DirectVisit(s, r)
    BY <1>1, <2>1, <2>2, VisitProperties DEF DirectVisit
  <2>4. b = <<>>
    BY <1>1, <1>3 DEF AskedBefore
  <2>5. b \in Seq(Hops) /\ b \o v = v
    BY <1>2, <2>3, <2>4, ConcatProperties
  <2>6. IsPrefix(v, it)
    BY <1>1, <2>3, WithinItinerary
  <2> QED
    BY <1>1, <1>3, <2>2, <2>3, <2>5, <2>6
<1>4. CASE c = "endpoint"
  <2>1. /\ Passes(s, r) /\ Claims(s, r) # {}
        /\ h = s.endpoints[FirstFit(Claims(s, r))].handler /\ u = Rewritten(s, r)
    BY <1>4 DEF CalledBy
  <2>2. h \in Handlers(s)
    BY <2>1, ItineraryParts, ServerLists
  <2>3. v \in Seq(Hops) /\ v = RoutedVisits(s, r)
    BY <1>1, <2>1, <2>2, VisitProperties DEF RoutedVisits
  <2>4. b = a
    BY <1>1, <1>4 DEF AskedBefore
  <2>5. b \o v \in Seq(Hops)
    BY <1>2, <2>3, <2>4
  <2>6. IsPrefix(a \o v, it)
    BY <1>1, <2>1, <2>3, WithinItinerary
  <2> QED
    BY <1>1, <1>2, <1>4, <2>2, <2>3, <2>4, <2>5, <2>6
<1>5. CASE c = "global"
  <2>1. /\ Passes(s, r) /\ Claims(s, r) = {} /\ t \in 1 .. Len(s.handlers)
        /\ h = s.handlers[t] /\ u = Rewritten(s, r)
    BY <1>5 DEF CalledBy
  <2>2. h \in Handlers(s)
    BY <2>1, ServerLists
  <2>3. v \in Seq(Hops)
    BY <1>1, <2>2, VisitProperties
  <2>4. Len(s.handlers) \in Nat
    BY ServerLists
  <2>5. t - 1 \in 0 .. Len(s.handlers) /\ t \in 0 .. Len(s.handlers)
    BY <2>1, <2>4
  <2>6. PICK x, y : x = HandlerVisits(s, r, t - 1) /\ y = HandlerVisits(s, r, t)
    OBVIOUS
  <2>7. x \in Seq(Hops) /\ y \in Seq(Hops) /\ y = x \o v
    BY <1>1, <2>1, <2>5, <2>6, HandlerVisitProperties
  <2>8. b = a \o x
    BY <1>1, <1>5, <2>6 DEF AskedBefore
  <2>9. b \in Seq(Hops) /\ b \o v \in Seq(Hops)
    BY <1>2, <2>3, <2>7, <2>8
  <2>10. b \o v = a \o y
    BY <1>2, <2>3, <2>7, <2>8, ConcatProperties
  <2>11. IsPrefix(a \o y, it)
    BY <1>1, <2>1, <2>5, <2>6, WithinItinerary
  <2> QED
    BY <1>1, <1>5, <2>2, <2>6, <2>9, <2>10, <2>11
<1>6. CASE c = "fallback"
  <2>1. Passes(s, r) /\ h = s.fallback /\ u = r.uri
    BY <1>6 DEF CalledBy
  <2>2. h \in Handlers(s)
    BY <2>1, ServerLists
  <2>3. v \in Seq(Hops)
    BY <1>1, <2>2, VisitProperties
  <2>4. PICK x : x = RoutedVisits(s, r) /\ x \in Seq(Hops)
    BY ItineraryParts
  <2>5. b = a \o x
    BY <1>1, <1>6, <2>4 DEF AskedBefore
  <2>6. b \in Seq(Hops)
    BY <1>2, <2>4, <2>5
  <2>7. b \o v = it /\ it \in Seq(Hops)
    BY <1>1, <2>1, <2>4, <2>5, WithinItinerary
  <2>8. IsPrefix(it, it)
    BY <2>7, PrefixPointwise
  <2> QED
    BY <1>1, <1>6, <2>2, <2>6, <2>7, <2>8
<1> QED
  BY <1>3, <1>4, <1>5, <1>6 DEF CalledBy, Callers

-----------------------------------------------------------------------------
(* The initial states; the connection and its session, the answers, the files. *)

LEMMA InitialInv == Init => Inv
<1> SUFFICES ASSUME Init PROVE Inv
  OBVIOUS
<1>1. Connected
  BY MaxRequestsAssumption DEF Init, Connected, Places
<1>2. Way
  BY DEF Init, Way, Called, Processing, Routing, Visiting, Routed
<1>3. Answered
  BY DEF Init, Answered
<1>4. FileOpen
  BY DEF Init, FileOpen
<1> QED
  BY <1>1, <1>2, <1>3, <1>4 DEF Inv

LEMMA ConnectedStep ==
  ASSUME Inv, Next
  PROVE  Connected'
<1>1. Connected
  BY DEF Inv
<1>2. ASSUME NEW r, NewRequest(r)
      PROVE  uri' = r.uri /\ session' = 1 /\ sessions' = {1}
  <2>1. CASE session = 0
    <3>1. sessions = {}
      BY <1>1, <2>1 DEF Connected
    <3>2. Cardinality(sessions) + 1 = 1
      BY <3>1, FS_EmptySet
    <3>3. (CHOOSE s \in 1 .. Cardinality(sessions) + 1 : s \notin sessions) = 1
      BY <3>1, <3>2
    <3> QED
      BY <1>2, <2>1, <3>1, <3>3 DEF NewRequest
  <2>2. CASE session # 0
    BY <1>1, <1>2, <2>2 DEF NewRequest, Connected
  <2> QED
    BY <2>1, <2>2
<1>3. CASE \E r \in Requests : RequestCallback(r) \/ RequestHandler(r)
  <2>1. PICK r \in Requests : RequestCallback(r) \/ RequestHandler(r)
    BY <1>3
  <2>2. NewRequest(r) /\ server' = server /\ wire' = r /\ ret' = None /\ tried' = 1
        /\ served' = served + 1 /\ served < MaxRequests
    BY <2>1 DEF RequestCallback, RequestHandler, Fresh
  <2>3. session' = 1 /\ sessions' = {1}
    BY <1>2, <2>2
  <2>4. pos' = 1 /\ at' \in {"admit", "rewrite"} /\ caller' \in {"callback", caller}
    BY <2>1 DEF RequestCallback, RequestHandler, Process, Goto
  <2>5. served' \in 0 .. MaxRequests /\ served' > 0
    BY <1>1, <2>2, MaxRequestsAssumption DEF Connected
  <2> QED
    BY <1>1, <2>2, <2>3, <2>4, <2>5 DEF Connected, Places, Callers
<1>4. CASE Disconnect
  BY <1>1, <1>4 DEF Disconnect, Connected, Goto, Places
<1>5. CASE Step
  <2>1. server' = server /\ wire' = wire /\ served' = served
    BY <1>5 DEF Step, RewriteRequest, ServerFilter, ServerMiddleware, ServerChainEnds, TryEndpoint,
                NoEndpoint, TryHandler, NotFoundHandler, Admit, HandlerMiddleware, HandlerChainEnds,
                HandleWeb, HandleJson, HandleUpload, HandleStatic, HandleWs, CallbackReturns,
                EndpointReturns, HandlerReturns, FallbackReturns, Dispatching
  <2>2. at # "idle" /\ at' # "idle" /\ at' \in Places
    BY <1>1, <1>5 DEF Step, RewriteRequest, ServerFilter, ServerMiddleware, ServerChainEnds,
                TryEndpoint, NoEndpoint, TryHandler, NotFoundHandler, Admit, HandlerMiddleware,
                HandlerChainEnds, Handling, Callback, HandleWeb, HandleJson, HandleUpload, HandleStatic,
                HandleWs, CallbackReturns, EndpointReturns, HandlerReturns, FallbackReturns,
                Goto, Done, Return, Process, Connected, Places
  <2>3. session' = 1 /\ sessions' = {1}
    <3>1. (session' = session /\ sessions' = sessions) \/ NewRequest(wire)
      BY <1>5 DEF Step, RewriteRequest, ServerFilter, ServerMiddleware, ServerChainEnds, TryEndpoint,
                NoEndpoint, TryHandler, NotFoundHandler, Admit, HandlerMiddleware, HandlerChainEnds,
                HandleWeb, HandleJson, HandleUpload, HandleStatic, HandleWs, CallbackReturns,
                EndpointReturns, HandlerReturns, FallbackReturns
    <3> QED
      BY <1>1, <1>2, <2>2, <3>1 DEF Connected
  <2>4. pos' \in Nat \ {0} /\ tried' \in Nat \ {0}
    <3>1. pos' \in {1, pos, pos + 1} /\ tried' \in {1, tried, tried + 1}
      BY <1>5 DEF Step, RewriteRequest, ServerFilter, ServerMiddleware, ServerChainEnds, TryEndpoint,
                NoEndpoint, TryHandler, NotFoundHandler, Admit, HandlerMiddleware, HandlerChainEnds,
                HandleWeb, HandleJson, HandleUpload, HandleStatic, HandleWs, CallbackReturns, Callback,
                EndpointReturns, HandlerReturns, FallbackReturns, Goto, Done, Return, Process
    <3> QED
      BY <1>1, <3>1 DEF Connected
  <2>5. caller' \in Callers \cup {None}
    BY <1>1, <1>5 DEF Step, RewriteRequest, ServerFilter, ServerMiddleware, ServerChainEnds, TryEndpoint,
                NoEndpoint, TryHandler, NotFoundHandler, Admit, HandlerMiddleware, HandlerChainEnds,
                HandleWeb, HandleJson, HandleUpload, HandleStatic, HandleWs, CallbackReturns, Callback,
                EndpointReturns, HandlerReturns, FallbackReturns, Process, Connected, Callers
  <2>6. ret' \in Returns \cup {None}
    BY <1>1, <1>5 DEF Step, RewriteRequest, ServerFilter, ServerMiddleware, ServerChainEnds, TryEndpoint,
                NoEndpoint, TryHandler, NotFoundHandler, Admit, HandlerMiddleware, HandlerChainEnds,
                HandleWeb, HandleJson, HandleUpload, HandleStatic, HandleWs, CallbackReturns, Callback,
                EndpointReturns, HandlerReturns, FallbackReturns, Goto, Done, Return, Connected, Returns
  <2> QED
    BY <1>1, <2>1, <2>2, <2>3, <2>4, <2>5, <2>6 DEF Connected
<1> QED
  BY <1>3, <1>4, <1>5 DEF Next

LEMMA CalledHandler ==
  ASSUME Inv, Processing
  PROVE  /\ server \in Servers /\ CalledBy(server, wire, caller, tried, handler, uri)
         /\ handler \in Handlers(server) /\ handler.name \in Names /\ handler.name # "404"
         /\ Len(handler.chain) \in Nat
         /\ caller = "callback" => handler.kind = "ws"
<1>1. PICK s, r, c, t, h, u :
        s = server /\ r = wire /\ c = caller /\ t = tried /\ h = handler /\ u = uri
  OBVIOUS
<1>2. s \in Servers /\ CalledBy(s, r, c, t, h, u)
  BY <1>1 DEF Inv, Connected, Way, Called
<1>3. h \in Handlers(s)
  BY <1>2, CalledProperties
<1>4. h.name \in Names /\ h.name # "404" /\ Len(h.chain) \in Nat
  BY <1>2, <1>3, HandlerProperties
<1>5. ASSUME c = "callback" PROVE h.kind = "ws"
  <2>1. Directs(s, r) # {} /\ h = s.endpoints[FirstFit(Directs(s, r))].handler
    BY <1>2, <1>5 DEF CalledBy
  <2>2. FirstFit(Directs(s, r)) \in Directs(s, r)
    <3>1. Directs(s, r) \subseteq 1 .. Len(s.endpoints)
      BY DEF Directs
    <3> QED
      BY <2>1, <3>1, FirstFitProperties
  <2> QED
    BY <2>1, <2>2 DEF Directs, Direct
<1> QED
  BY <1>1, <1>2, <1>3, <1>4, <1>5

\* Nobody answers behind an answer, but the JSON handler.
LEMMA AnsweredStep ==
  ASSUME Inv, Next
  PROVE  Answered'
<1>1. Answered
  BY DEF Inv
<1>2. \A x : Append(<<>>, x) = <<x>>
  OBVIOUS
<1>3. \A x, y : Append(<<x>>, y) = <<x, y>>
  BY AppendToOne
<1>4. \A x, y : Len(<<>>) = 0 /\ Len(<<x>>) = 1 /\ Len(<<x, y>>) = 2 /\ <<x>> # <<>> /\ <<x, y>> # <<>>
  OBVIOUS
<1>5. \A x, y, z : <<x, y>> # <<z>> /\ (<<x>> = <<z>> => x = z)
  <2>1. ASSUME NEW x, NEW z, <<x>> = <<z>> PROVE x = z
    <3>1. <<x>>[1] = x /\ <<z>>[1] = z
      OBVIOUS
    <3> QED
      BY <2>1, <3>1
  <2>2. ASSUME NEW x, NEW y, NEW z, <<x, y>> = <<z>> PROVE FALSE
    <3>1. Len(<<x, y>>) = 2 /\ Len(<<z>>) = 1
      OBVIOUS
    <3> QED
      BY <2>2, <3>1
  <2> QED
    BY <2>1, <2>2
<1>6. CASE \E r \in Requests : RequestCallback(r) \/ RequestHandler(r)
  <2>1. sent' = <<>> /\ at' \notin {"returned", "done"}
    BY <1>6 DEF RequestCallback, RequestHandler, Fresh, Process, Goto
  <2> QED
    BY <1>4, <2>1 DEF Answered
<1>7. CASE Disconnect
  <2>1. sent' = <<>> /\ at' = "idle"
    BY <1>7 DEF Disconnect, Goto
  <2> QED
    BY <1>4, <2>1 DEF Answered
<1>8. ASSUME at \notin {"returned", "done"}, sent' = sent, at' \notin {"returned", "done"} PROVE Answered'
  <2>1. sent' = <<>>
    BY <1>1, <1>8 DEF Answered
  <2> QED
    BY <1>4, <1>8, <2>1 DEF Answered
<1>9. CASE RewriteRequest \/ ServerChainEnds \/ TryEndpoint \/ NoEndpoint \/ TryHandler
           \/ NotFoundHandler \/ HandlerChainEnds
  BY <1>8, <1>9 DEF RewriteRequest, ServerChainEnds, TryEndpoint, NoEndpoint, TryHandler,
                    NotFoundHandler, HandlerChainEnds, Goto, Process
<1>10. CASE ServerFilter
  <2>1. at = "filter" /\ sent = <<>>
    BY <1>1, <1>10 DEF ServerFilter, Answered
  <2>2. CASE PassesFilters(server.filters, uri)
    BY <1>8, <1>10, <2>1, <2>2 DEF ServerFilter, Goto
  <2>3. CASE ~ PassesFilters(server.filters, uri)
    <3>1. sent' = <<"filter">> /\ at' = "done"
      BY <1>2, <1>10, <2>1, <2>3 DEF ServerFilter, Send, Done, Goto
    <3> QED
      BY <1>4, <3>1 DEF Answered
  <2> QED
    BY <2>2, <2>3
<1>11. CASE ServerMiddleware
  <2>1. at = "chain" /\ sent = <<>>
    BY <1>1, <1>11 DEF ServerMiddleware, Answered
  <2>2. CASE at' = at /\ sent' = sent
    BY <1>8, <2>1, <2>2
  <2>3. CASE Send("middleware") /\ Done("ok")
    <3>1. sent' = <<"middleware">> /\ at' = "done"
      BY <1>2, <2>1, <2>3 DEF Send, Done, Goto
    <3> QED
      BY <1>4, <3>1 DEF Answered
  <2> QED
    BY <1>11, <2>2, <2>3 DEF ServerMiddleware
<1>12. CASE Admit
  <2>1. at = "admit" /\ sent = <<>> /\ sent' = <<>>
    BY <1>1, <1>12 DEF Admit, Answered
  <2>2. at' = "handlerChain" \/ (at' = "returned" /\ ret' = "404")
    BY <1>12 DEF Admit, Goto, Return
  <2> QED
    BY <1>4, <2>1, <2>2 DEF Answered
<1>13. CASE HandlerMiddleware
  <2>1. at = "handlerChain" /\ sent = <<>>
    BY <1>1, <1>13 DEF HandlerMiddleware, Answered
  <2>2. CASE at' = at /\ sent' = sent
    BY <1>8, <2>1, <2>2
  <2>3. CASE Send("middleware") /\ Return("ok")
    <3>1. sent' = <<"middleware">> /\ at' = "returned" /\ ret' = "ok"
      BY <1>2, <2>1, <2>3 DEF Send, Return, Goto
    <3> QED
      BY <1>4, <1>5, <3>1 DEF Answered
  <2> QED
    BY <1>13, <2>2, <2>3 DEF HandlerMiddleware
<1>14. ASSUME at = "handle", handler' = handler, at' = "returned",
              \/ sent' = <<>> /\ (ret' \in {"404", "fail"} \/ (ret' = "ok" /\ Unanswering(handler)))
              \/ sent' = <<handler.name>> /\ ret' \in {"ok", "fail"}
              \/ sent' = <<handler.name>> /\ ret' = "invalid" /\ handler.kind = "upload"
              \/ sent' = <<handler.name, handler.name>> /\ ret' = "ok" /\ handler.kind = "json"
       PROVE  Answered'
  <2>1. handler.name # "404"
    BY <1>14, CalledHandler DEF Processing
  <2>2. handler.kind = "json" => handler # None
    <3>1. ASSUME handler.kind = "json" PROVE handler # None
      <4>1. PICK s \in Servers : handler \in Handlers(s)
        BY <1>14, CalledHandler DEF Processing
      <4> QED
        BY <4>1, NoneAssumption
    <3> QED
      BY <3>1
  <2>3. CASE sent' = <<>>
    BY <1>4, <1>14, <2>3 DEF Answered
  <2>4. CASE sent' = <<handler.name>>
    BY <1>4, <1>5, <1>14, <2>1, <2>4 DEF Answered
  <2>5. CASE sent' = <<handler.name, handler.name>> /\ handler.kind = "json"
    BY <1>4, <1>5, <1>14, <2>2, <2>5 DEF Answered
  <2> QED
    BY <1>14, <2>3, <2>4, <2>5
<1>15. at = "handle" => sent = <<>>
  BY <1>1 DEF Answered
<1>16. CASE \E loaded \in BOOLEAN : HandleWeb(loaded)
  BY <1>2, <1>14, <1>15, <1>16 DEF HandleWeb, Handling, Callback, Send, Return, Goto, Unanswering
<1>17. CASE \E loaded, valid \in BOOLEAN : HandleJson(loaded, valid)
  BY <1>2, <1>3, <1>14, <1>15, <1>17 DEF HandleJson, Handling, Callback, Return, Goto
<1>18. CASE \E received \in {"ok", "fail", "invalid"} : HandleUpload(received)
  BY <1>2, <1>14, <1>15, <1>18 DEF HandleUpload, Handling, Callback, Send, Return, Goto
<1>19. CASE \E value \in {"ok", "fail"} : HandleStatic(value) \/ HandleWs(value)
  BY <1>2, <1>14, <1>15, <1>19 DEF HandleStatic, HandleWs, Handling, Send, Return, Goto, Unanswering
<1>20. ASSUME at = "returned", handler' = handler, sent' = sent, ret' = ret,
              at' = "done" \/ (ret = "404" /\ at' \in {"rewrite", "fallback", "handlers"})
       PROVE  Answered'
  <2>1. handler # None
    BY <1>20, CalledHandler, NoneAssumption DEF Processing
  <2> QED
    BY <1>1, <1>20, <2>1 DEF Answered
<1>21. CASE CallbackReturns
  <2>1. at = "returned" /\ caller = "callback" /\ handler' = handler
    BY <1>21 DEF CallbackReturns
  <2>2. ret # "invalid"
    BY <1>1, <2>1, CalledHandler DEF Processing, Answered
  <2> QED
    BY <1>20, <1>21, <2>1, <2>2 DEF CallbackReturns, Goto, Done
<1>22. CASE EndpointReturns \/ HandlerReturns
  BY <1>20, <1>22 DEF EndpointReturns, HandlerReturns, Goto, Done
<1>23. CASE FallbackReturns
  <2>1. at = "returned" /\ handler' = handler
    BY <1>23 DEF FallbackReturns
  <2>2. CASE ret = "404"
    <3>1. sent = <<>>
      BY <1>1, <2>1, <2>2 DEF Answered
    <3>2. sent' = <<"404">> /\ at' = "done"
      BY <1>2, <1>23, <2>2, <3>1 DEF FallbackReturns, Send, Done, Goto
    <3> QED
      BY <1>4, <3>2 DEF Answered
  <2>3. CASE ret # "404"
    BY <1>20, <1>23, <2>1, <2>3 DEF FallbackReturns, Done, Goto
  <2> QED
    BY <2>2, <2>3
<1> QED
  BY <1>6, <1>7, <1>9, <1>10, <1>11, <1>12, <1>13, <1>16, <1>17, <1>18, <1>19, <1>21, <1>22, <1>23
     DEF Next, Step

\* The file a static file handler has found is the one it sends.
LEMMA FileOpenStep ==
  ASSUME Inv, Next
  PROVE  FileOpen'
<1>1. FileOpen
  BY DEF Inv
<1>2. CASE Admit
  <2>1. handler' = handler /\ uri' = uri
    BY <1>2 DEF Admit
  <2>2. CASE file' = Closed(handler) \cup {<<handler.name, uri>>}
    <3>1. \A f \in Closed(handler) : f \in file /\ f[1] # handler.name
      BY DEF Closed
    <3>2. <<handler.name, uri>>[1] = handler.name /\ <<handler.name, uri>>[2] = uri
      OBVIOUS
    <3>3. PICK e : e = <<handler.name, uri>>
      OBVIOUS
    <3>4. e = <<e[1], e[2]>> /\ e[1] = handler.name
      BY <3>2, <3>3
    <3>5. \A f \in file' : f = <<f[1], f[2]>>
      BY <1>1, <2>2, <3>1, <3>3, <3>4 DEF FileOpen
    <3>6. \A f, g \in file' : f[1] = g[1] => f = g
      BY <1>1, <2>2, <3>1, <3>3, <3>4 DEF FileOpen
    <3>7. <<handler'.name, uri'>> \in file'
      BY <2>1, <2>2
    <3> QED
      BY <3>5, <3>6, <3>7 DEF FileOpen
  <2>3. CASE Accepts(handler, uri, wire.method) /\ handler.kind # "static"
    <3>1. file' = file
      BY <1>2, <2>3 DEF Admit
    <3> QED
      BY <1>1, <2>1, <2>3, <3>1 DEF FileOpen
  <2>4. CASE ~ Accepts(handler, uri, wire.method)
    <3>1. file' \subseteq file /\ at' = "returned"
      BY <1>2, <2>4 DEF Admit, Return, Goto, Closed
    <3> QED
      BY <1>1, <3>1 DEF FileOpen
  <2> QED
    BY <1>2, <2>2, <2>3, <2>4 DEF Admit, OpenFile
<1>3. ASSUME file' = file, \/ at' \notin {"handlerChain", "handle"}
                           \/ at \in {"handlerChain", "handle"} /\ handler' = handler /\ uri' = uri
      PROVE  FileOpen'
  BY <1>1, <1>3 DEF FileOpen
<1>4. CASE \E value \in {"ok", "fail"} : HandleStatic(value)
  <2>1. file' \subseteq file /\ at' = "returned"
    BY <1>4 DEF HandleStatic, Return, Goto, Closed
  <2> QED
    BY <1>1, <2>1 DEF FileOpen
<1>5. CASE \E r \in Requests : RequestCallback(r) \/ RequestHandler(r)
  BY <1>3, <1>5 DEF RequestCallback, RequestHandler, Fresh, Process, Goto
<1>6. CASE Disconnect
  BY <1>3, <1>6 DEF Disconnect, Goto
<1>7. CASE RewriteRequest \/ ServerFilter \/ ServerMiddleware \/ ServerChainEnds \/ TryEndpoint
           \/ NoEndpoint \/ TryHandler \/ NotFoundHandler
  <2>1. file' = file /\ at' \notin {"handlerChain", "handle"}
    BY <1>7 DEF RewriteRequest, ServerFilter, ServerMiddleware, ServerChainEnds, TryEndpoint,
                NoEndpoint, TryHandler, NotFoundHandler, Dispatching, Goto, Done, Process
  <2> QED
    BY <1>3, <2>1
<1>8. CASE HandlerMiddleware \/ HandlerChainEnds
  BY <1>3, <1>8 DEF HandlerMiddleware, HandlerChainEnds, Dispatching, Goto, Return
<1>9. CASE \/ \E loaded \in BOOLEAN : HandleWeb(loaded)
           \/ \E loaded, valid \in BOOLEAN : HandleJson(loaded, valid)
           \/ \E received \in {"ok", "fail", "invalid"} : HandleUpload(received)
           \/ \E value \in {"ok", "fail"} : HandleWs(value)
  <2>1. file' = file /\ at' = "returned"
    BY <1>9 DEF HandleWeb, HandleJson, HandleUpload, HandleWs, Callback, Dispatching, Goto, Return
  <2> QED
    BY <1>3, <2>1
<1>10. CASE CallbackReturns \/ EndpointReturns \/ HandlerReturns \/ FallbackReturns
  <2>1. file' = file /\ at' \notin {"handlerChain", "handle"}
    BY <1>10 DEF CallbackReturns, EndpointReturns, HandlerReturns, FallbackReturns, Dispatching,
                 Goto, Done
  <2> QED
    BY <1>3, <2>1
<1> QED
  BY <1>2, <1>4, <1>5, <1>6, <1>7, <1>8, <1>9, <1>10 DEF Next, Step

-----------------------------------------------------------------------------
(* The way of a request, step by step. *)

\* What has been visited up to the k-th middleware of a handler is a beginning of its visit.
LEMMA ChainVisitsPrefix ==
  ASSUME NEW s \in Servers, NEW h \in Handlers(s), NEW u, NEW m, Accepts(h, u, m),
         NEW k \in Nat, k <= Len(h.chain)
  PROVE  IsPrefix(ChainVisits(h, k), Visit(h, u, m))
<1>1. PICK n, x : n = Len(h.chain) /\ x = h.name /\ n \in Nat /\ x \in Names
  BY HandlerProperties, Zenon
<1>2. PICK c, v, w : c = ChainVisits(h, k) /\ v = Visit(h, u, m) /\ w = ChainVisits(h, n)
  OBVIOUS
<1>3. c \in Seq(Hops) /\ w \in Seq(Hops) /\ v \in Seq(Hops) /\ v = Append(w, <<x, 0>>)
  BY <1>1, <1>2, VisitProperties
<1>4. c = [i \in 1 .. k |-> <<x, i>>] /\ w = [i \in 1 .. n |-> <<x, i>>]
  BY <1>1, <1>2 DEF ChainVisits
<1>5. Len(c) = k /\ Len(w) = n
  BY <1>1, <1>4
<1>6. IsPrefix(c, w)
  <2>1. \A i \in 1 .. k : c[i] = <<x, i>>
    BY <1>4
  <2>2. \A i \in 1 .. k : i \in 1 .. n
    BY <1>1
  <2>3. \A i \in 1 .. k : w[i] = <<x, i>>
    BY <1>4, <2>2
  <2>4. Len(c) <= Len(w) /\ \A i \in 1 .. Len(c) : c[i] = w[i]
    BY <1>1, <1>5, <2>1, <2>3
  <2> QED
    BY <1>3, <2>4, PrefixPointwise
<1>7. <<x, 0>> \in Hops
  BY <1>1 DEF Hops
<1>8. PICK e : e = <<x, 0>>
  OBVIOUS
<1>9. IsPrefix(w, v)
  <2>1. e \in Hops /\ v = Append(w, e)
    BY <1>3, <1>7, <1>8
  <2> QED
    BY <1>3, <2>1, AppendPrefix
<1>10. IsPrefix(c, v)
  BY <1>3, <1>6, <1>9, PrefixTransitive
<1> QED
  BY <1>2, <1>10

LEMMA FreshWay ==
  ASSUME Inv, NEW r \in Requests, RequestCallback(r) \/ RequestHandler(r)
  PROVE  Way'
<1>1. PICK s \in Servers : s = server /\ server' = s /\ wire' = r /\ uri' = r.uri /\ trail' = <<>>
  BY DEF Inv, Connected, RequestCallback, RequestHandler, Fresh, NewRequest
<1>2. trail' \in Seq(Hops)
  BY <1>1
<1>3. CASE RequestCallback(r)
  <2>1. PICK i \in 1 .. Len(s.endpoints) :
          /\ Direct(s.endpoints[i], r) /\ \A j \in 1 .. i - 1 : ~ Direct(s.endpoints[j], r)
          /\ handler' = s.endpoints[i].handler /\ caller' = "callback" /\ at' = "admit"
    BY <1>1, <1>3 DEF RequestCallback, Process, Goto
  <2>2. i \in Directs(s, r)
    BY <2>1 DEF Directs
  <2>3. Directs(s, r) \subseteq 1 .. Len(s.endpoints)
    BY DEF Directs
  <2>4. \A j \in Directs(s, r) : i <= j
    <3> SUFFICES ASSUME NEW j \in Directs(s, r), ~ i <= j PROVE FALSE
      OBVIOUS
    <3>1. j \in 1 .. Len(s.endpoints) /\ Direct(s.endpoints[j], r)
      BY DEF Directs
    <3>2. Len(s.endpoints) \in Nat
      BY ServerLists
    <3>3. j \in 1 .. i - 1
      BY <3>1, <3>2
    <3> QED
      BY <2>1, <3>1, <3>3
  <2>5. i = FirstFit(Directs(s, r))
    BY <2>2, <2>3, <2>4, FirstFitProperties
  <2>6. CalledBy(s, r, "callback", tried', handler', uri')
    BY <1>1, <2>1, <2>2, <2>5 DEF CalledBy, Callers
  <2>7. AskedBefore(s, r, "callback", tried') = <<>>
    BY DEF AskedBefore
  <2> QED
    BY <1>1, <1>2, <2>1, <2>6, <2>7 DEF Way, Called, Processing, Routing, Visiting, Routed
<1>4. CASE RequestHandler(r)
  <2>1. at' = "rewrite" /\ ~ IsDirect(r)
    BY <1>4 DEF RequestHandler, Goto
  <2>2. Directs(s, r) = {}
    BY <1>1, <2>1 DEF IsDirect, Directs
  <2>3. DirectVisit(s, r) = <<>>
    BY <2>2 DEF DirectVisit
  <2> QED
    BY <1>1, <1>2, <2>1, <2>3 DEF Way, Called, Processing, Routing, Visiting, Routed
<1> QED
  BY <1>3, <1>4

LEMMA DisconnectWay ==
  ASSUME Inv, Disconnect
  PROVE  Way'
<1>1. at' = "idle" /\ trail' = <<>>
  BY DEF Disconnect, Goto
<1>2. trail' \in Seq(Hops)
  BY <1>1
<1> QED
  BY <1>1, <1>2 DEF Way, Called, Processing, Routing, Visiting, Routed

LEMMA RewriteRequestWay ==
  ASSUME Inv, RewriteRequest
  PROVE  Way'
<1>1. PICK s, r : s \in Servers /\ s = server /\ r = wire /\ server' = s /\ wire' = r
  BY DEF Inv, Connected, RewriteRequest, Dispatching
<1>2. /\ uri = r.uri /\ trail = DirectVisit(s, r) /\ trail \in Seq(Hops)
      /\ at' = "filter" /\ trail' = trail
  BY <1>1 DEF Inv, Way, Routing, RewriteRequest, Goto
<1>3. uri' = Rewritten(s, r)
  <2>1. PICK n \in Nat : n = Len(s.rewrites)
    BY <1>1, ServerLists
  <2>2. \A i \in 1 .. n : RewriteFits(i) <=> i \in Rewriting(s, r)
    <3>1. \A i \in 1 .. n : i <= Len(s.rewrites)
      BY <2>1
    <3> QED
      BY <1>1, <1>2, <2>1, <3>1 DEF RewriteFits, Rewriting
  <2>3. Rewriting(s, r) \subseteq 1 .. n
    BY <2>1 DEF Rewriting
  <2>4. CASE Rewriting(s, r) = {}
    BY <1>1, <1>2, <2>1, <2>2, <2>4 DEF RewriteRequest, Rewritten
  <2>5. CASE Rewriting(s, r) # {}
    <3> DEFINE First(i) == RewriteFits(i) /\ \A j \in 1 .. i - 1 : ~ RewriteFits(j)
               k == CHOOSE i \in 1 .. n : First(i)
    <3>1. PICK f : f = FirstFit(Rewriting(s, r)) /\ f \in Rewriting(s, r)
                   /\ \A j \in Rewriting(s, r) : f <= j
      BY <2>3, <2>5, FirstFitProperties
    <3>2. f \in 1 .. n
      BY <2>3, <3>1
    <3>3. \A j \in 1 .. f - 1 : j \in 1 .. n /\ ~ f <= j
      BY <3>2
    <3>4. First(f)
      BY <2>2, <3>1, <3>2, <3>3
    <3>5. k \in 1 .. n /\ First(k)
      <4> HIDE DEF First
      <4> QED
        BY <3>2, <3>4
    <3>6. k = f
      <4>1. PICK l : l = k
        OBVIOUS
      <4>2. l \in 1 .. n /\ RewriteFits(l) /\ \A j \in 1 .. l - 1 : ~ RewriteFits(j)
        BY <3>5, <4>1
      <4>3. f <= l
        BY <2>2, <3>1, <4>2
      <4>4. ~ f \in 1 .. l - 1
        BY <3>4, <4>2
      <4>5. f = l
        BY <3>2, <4>2, <4>3, <4>4
      <4> QED
        BY <4>1, <4>5
    <3>7. \E i \in 1 .. n : RewriteFits(i)
      BY <3>2, <3>4
    <3>8. uri' = s.rewrites[k].to
      BY <1>1, <2>1, <3>7 DEF RewriteRequest
    <3> HIDE DEF k
    <3>9. uri' = s.rewrites[f].to
      BY <3>6, <3>8
    <3> QED
      BY <2>5, <3>1, <3>9 DEF Rewritten
  <2> QED
    BY <2>4, <2>5
<1> QED
  BY <1>1, <1>2, <1>3 DEF Way, Called, Processing, Routing, Visiting, Routed

LEMMA ServerFilterWay ==
  ASSUME Inv, ServerFilter
  PROVE  Way'
<1>1. PICK s, r : s \in Servers /\ s = server /\ r = wire /\ server' = s /\ wire' = r
  BY DEF Inv, Connected, ServerFilter, Dispatching
<1>2. PICK d : d = DirectVisit(s, r)
  OBVIOUS
<1>3. /\ uri = Rewritten(s, r) /\ uri' = uri /\ trail = d /\ trail' = trail /\ d \in Seq(Hops)
      /\ sent = <<>>
  BY <1>1, <1>2 DEF Inv, Way, Routing, Answered, ServerFilter
<1>4. CASE PassesFilters(server.filters, uri)
  <2>1. at' = "chain" /\ pos' = 1
    BY <1>4 DEF ServerFilter, Goto
  <2>2. Passes(s, r)
    BY <1>1, <1>3, <1>4 DEF Passes
  <2>3. pos' <= Len(s.chain) + 1 /\ pos' - 1 = 0
    BY <2>1, ServerLists
  <2>4. trail' = d \o ServerVisits(pos' - 1)
    <3>1. ServerVisits(0) = <<>>
      BY ServerVisitProperties
    <3>2. d \o <<>> = d
      BY <1>3
    <3> QED
      BY <1>3, <2>3, <3>1, <3>2
  <2> QED
    BY <1>1, <1>2, <1>3, <2>1, <2>2, <2>3, <2>4 DEF Way, Called, Processing, Routing, Visiting, Routed
<1>5. CASE ~ PassesFilters(server.filters, uri)
  <2>1. at' = "done" /\ sent' = Append(<<>>, "filter")
    BY <1>3, <1>5 DEF ServerFilter, Done, Goto, Send
  <2>2. sent' # <<"404">>
    BY <2>1
  <2>3. IsPrefix(trail', Itinerary(s, r))
    BY <1>1, <1>2, <1>3, WithinItinerary
  <2> QED
    BY <1>1, <1>3, <2>1, <2>2, <2>3 DEF Way, Called, Processing, Routing, Visiting, Routed
<1> QED
  BY <1>4, <1>5

LEMMA ServerMiddlewareWay ==
  ASSUME Inv, ServerMiddleware
  PROVE  Way'
<1>1. PICK s, r : s \in Servers /\ s = server /\ r = wire /\ server' = s /\ wire' = r
  BY DEF Inv, Connected, ServerMiddleware, Dispatching
<1>2. PICK d, k, n, v, w, e : /\ d = DirectVisit(s, r) /\ k = pos /\ n = Len(s.chain)
                              /\ v = ServerVisits(k - 1) /\ w = ServerVisits(k) /\ e = <<"server", k>>
  OBVIOUS
<1>3. /\ at = "chain" /\ k <= n /\ uri = Rewritten(s, r) /\ uri' = uri /\ Passes(s, r)
      /\ trail = d \o v /\ trail' = Append(trail, e) /\ sent = <<>>
  BY <1>1, <1>2 DEF Inv, Way, Routing, Answered, ServerMiddleware
<1>4. n \in Nat /\ k \in Nat /\ k - 1 \in Nat /\ (k - 1) + 1 = k
  BY <1>2, ServerLists DEF Inv, Connected
<1>5. v \in Seq(Hops) /\ w \in Seq(Hops) /\ w = Append(v, e)
  BY <1>2, <1>4, ServerVisitProperties
<1>6. d \in Seq(Hops)
  BY <1>1, <1>2, ItineraryParts
<1>7. e \in Hops
  BY <1>2, <1>4 DEF Hops
<1>8. trail' = d \o w /\ trail' \in Seq(Hops)
  <2>1. v \in Seq(Hops)
    BY <1>5
  <2>2. Append(d \o v, e) = d \o Append(v, e) /\ Append(d \o v, e) \in Seq(Hops)
    BY <2>1, <1>6, <1>7, AppendConcat
  <2>3. trail' = Append(d \o v, e)
    BY <1>3
  <2> QED
    BY <1>5, <2>2, <2>3
<1>9. CASE at' = at /\ pos' = pos + 1
  <2>1. pos' - 1 = k /\ pos' <= n + 1
    BY <1>2, <1>3, <1>4, <1>9
  <2>2. trail' = d \o ServerVisits(pos' - 1)
    BY <1>2, <1>8, <2>1
  <2> QED
    BY <1>1, <1>2, <1>3, <1>8, <1>9, <2>1, <2>2 DEF Way, Called, Processing, Routing, Visiting, Routed
<1>10. CASE Send("middleware") /\ Done("ok")
  <2>1. at' = "done" /\ sent' = Append(<<>>, "middleware")
    BY <1>3, <1>10 DEF Done, Goto, Send
  <2>2. sent' # <<"404">>
    BY <2>1
  <2>3. k \in 0 .. n
    BY <1>3, <1>4
  <2>4. IsPrefix(trail', Itinerary(s, r))
    BY <1>1, <1>2, <1>3, <1>8, <2>3, WithinItinerary
  <2> QED
    BY <1>1, <1>8, <2>1, <2>2, <2>4 DEF Way, Called, Processing, Routing, Visiting, Routed
<1> QED
  BY <1>9, <1>10 DEF ServerMiddleware

LEMMA ServerChainEndsWay ==
  ASSUME Inv, ServerChainEnds
  PROVE  Way'
<1>1. PICK s, r : s \in Servers /\ s = server /\ r = wire /\ server' = s /\ wire' = r
  BY DEF Inv, Connected, ServerChainEnds, Dispatching
<1>2. PICK k, n : k = pos /\ n = Len(s.chain)
  OBVIOUS
<1>3. /\ k > n /\ k <= n + 1 /\ Passes(s, r) /\ uri = Rewritten(s, r) /\ uri' = uri
      /\ trail = DirectVisit(s, r) \o ServerVisits(k - 1)
      /\ trail \in Seq(Hops) /\ trail' = trail /\ at' = "endpoints" /\ pos' = 1
  BY <1>1, <1>2 DEF Inv, Way, Routing, ServerChainEnds, Goto
<1>4. n \in Nat /\ k \in Nat
  BY <1>2, ServerLists DEF Inv, Connected
<1>5. k - 1 = n
  BY <1>3, <1>4
<1>6. trail' = ServerAsked(s, r)
  BY <1>2, <1>3, <1>5 DEF ServerAsked
<1>7. \A i \in 1 .. pos' - 1 : i \notin Claims(s, r)
  BY <1>3
<1> QED
  BY <1>1, <1>3, <1>6, <1>7 DEF Way, Called, Processing, Routing, Visiting, Routed

LEMMA TryEndpointWay ==
  ASSUME Inv, TryEndpoint
  PROVE  Way'
<1>1. PICK s, r : s \in Servers /\ s = server /\ r = wire /\ server' = s /\ wire' = r
  BY DEF Inv, Connected, TryEndpoint, Dispatching
<1>2. PICK k, n : k = pos /\ n = Len(s.endpoints)
  OBVIOUS
<1>3. /\ at = "endpoints" /\ k <= n /\ Passes(s, r) /\ uri = Rewritten(s, r) /\ uri' = uri
      /\ trail = ServerAsked(s, r) /\ trail \in Seq(Hops) /\ trail' = trail
      /\ \A i \in 1 .. k - 1 : i \notin Claims(s, r)
  BY <1>1, <1>2 DEF Inv, Way, Routing, TryEndpoint
<1>4. n \in Nat /\ k \in Nat /\ k \in 1 .. n
  BY <1>2, <1>3, ServerLists DEF Inv, Connected
<1>5. Fits(server.endpoints[pos], uri, wire.method) <=> k \in Claims(s, r)
  BY <1>1, <1>2, <1>3, <1>4 DEF Fits, Matches, MethodFits, Claims
<1>6. CASE Fits(server.endpoints[pos], uri, wire.method)
  <2>1. /\ handler' = s.endpoints[k].handler /\ caller' = "endpoint" /\ at' = "admit"
    BY <1>1, <1>2, <1>6 DEF TryEndpoint, Process, Goto
  <2>2. k \in Claims(s, r)
    BY <1>5, <1>6
  <2>3. Claims(s, r) \subseteq 1 .. n
    BY <1>2 DEF Claims
  <2>4. \A j \in Claims(s, r) : k <= j
    <3> SUFFICES ASSUME NEW j \in Claims(s, r), ~ k <= j PROVE FALSE
      OBVIOUS
    <3>1. j \in 1 .. k - 1
      BY <1>4, <2>3
    <3> QED
      BY <1>3, <3>1
  <2>5. k = FirstFit(Claims(s, r))
    BY <2>2, <2>3, <2>4, FirstFitProperties
  <2>6. CalledBy(s, r, "endpoint", tried', handler', uri')
    BY <1>3, <2>1, <2>2, <2>5 DEF CalledBy, Callers
  <2>7. AskedBefore(s, r, "endpoint", tried') = trail'
    BY <1>3 DEF AskedBefore
  <2> QED
    BY <1>1, <1>3, <2>1, <2>6, <2>7 DEF Way, Called, Processing, Routing, Visiting, Routed
<1>7. CASE ~ Fits(server.endpoints[pos], uri, wire.method)
  <2>1. at' = at /\ pos' = k + 1
    BY <1>2, <1>7 DEF TryEndpoint
  <2>2. \A i \in 1 .. (k + 1) - 1 : i \in 1 .. k - 1 \/ i = k
    BY <1>4
  <2>3. \A i \in 1 .. pos' - 1 : i \notin Claims(s, r)
    BY <1>3, <1>5, <1>7, <2>1, <2>2
  <2> QED
    BY <1>1, <1>3, <2>1, <2>3 DEF Way, Called, Processing, Routing, Visiting, Routed
<1> QED
  BY <1>6, <1>7

LEMMA NoEndpointWay ==
  ASSUME Inv, NoEndpoint
  PROVE  Way'
<1>1. PICK s, r : s \in Servers /\ s = server /\ r = wire /\ server' = s /\ wire' = r
  BY DEF Inv, Connected, NoEndpoint, Dispatching
<1>2. PICK k, n : k = pos /\ n = Len(s.endpoints)
  OBVIOUS
<1>3. /\ k > n /\ Passes(s, r) /\ uri = Rewritten(s, r) /\ uri' = uri
      /\ trail = ServerAsked(s, r) /\ trail \in Seq(Hops) /\ trail' = trail
      /\ \A i \in 1 .. k - 1 : i \notin Claims(s, r)
      /\ at' = "handlers" /\ tried' = 1
  BY <1>1, <1>2 DEF Inv, Way, Routing, NoEndpoint, Goto
<1>4. n \in Nat /\ k \in Nat
  BY <1>2, ServerLists DEF Inv, Connected
<1>5. Claims(s, r) = {}
  <2>1. Claims(s, r) \subseteq 1 .. n
    BY <1>2 DEF Claims
  <2>2. \A i \in 1 .. n : i \in 1 .. k - 1
    BY <1>3, <1>4
  <2> QED
    BY <1>3, <2>1, <2>2
<1>6. tried' - 1 = 0 /\ tried' <= Len(s.handlers) + 1
  BY <1>3, ServerLists
<1>7. trail' = ServerAsked(s, r) \o HandlerVisits(s, r, tried' - 1)
  <2>1. HandlerVisits(s, r, 0) = <<>>
    BY <1>1, HandlerVisitProperties
  <2>2. trail \o <<>> = trail
    BY <1>3
  <2> QED
    BY <1>3, <1>6, <2>1, <2>2
<1> QED
  BY <1>1, <1>3, <1>5, <1>6, <1>7 DEF Way, Called, Processing, Routing, Visiting, Routed

LEMMA TryHandlerWay ==
  ASSUME Inv, TryHandler
  PROVE  Way'
<1>1. PICK s, r : s \in Servers /\ s = server /\ r = wire /\ server' = s /\ wire' = r
  BY DEF Inv, Connected, TryHandler, Dispatching
<1>2. PICK k, n : k = tried /\ n = Len(s.handlers)
  OBVIOUS
<1>3. /\ k <= n + 1 /\ Passes(s, r) /\ uri = Rewritten(s, r) /\ uri' = uri /\ Claims(s, r) = {}
      /\ trail = ServerAsked(s, r) \o HandlerVisits(s, r, k - 1)
      /\ trail \in Seq(Hops) /\ trail' = trail /\ tried' = k
  BY <1>1, <1>2 DEF Inv, Way, Routing, TryHandler
<1>4. n \in Nat /\ k \in Nat \ {0}
  BY <1>2, ServerLists DEF Inv, Connected
<1>5. CASE k <= n
  <2>1. handler' = s.handlers[k] /\ caller' = "global" /\ at' = "admit"
    BY <1>1, <1>2, <1>5 DEF TryHandler, Process, Goto
  <2>2. k \in 1 .. n
    BY <1>4, <1>5
  <2>3. CalledBy(s, r, "global", k, handler', uri')
    BY <1>2, <1>3, <2>1, <2>2 DEF CalledBy, Callers
  <2>4. AskedBefore(s, r, "global", k) = trail'
    BY <1>3 DEF AskedBefore
  <2> QED
    BY <1>1, <1>3, <2>1, <2>3, <2>4 DEF Way, Called, Processing, Routing, Visiting, Routed
<1>6. CASE ~ k <= n
  <2>1. at' = "fallback"
    BY <1>1, <1>2, <1>6 DEF TryHandler, Goto
  <2>2. k - 1 = n
    BY <1>3, <1>4, <1>6
  <2>3. trail' = ServerAsked(s, r) \o RoutedVisits(s, r)
    BY <1>2, <1>3, <2>2 DEF RoutedVisits
  <2> QED
    BY <1>1, <1>3, <2>1, <2>3 DEF Way, Called, Processing, Routing, Visiting, Routed
<1> QED
  BY <1>5, <1>6

LEMMA NotFoundHandlerWay ==
  ASSUME Inv, NotFoundHandler
  PROVE  Way'
<1>1. PICK s, r : s \in Servers /\ s = server /\ r = wire /\ server' = s /\ wire' = r
  BY DEF Inv, Connected, NotFoundHandler, Dispatching
<1>2. /\ Passes(s, r) /\ trail = ServerAsked(s, r) \o RoutedVisits(s, r)
      /\ trail \in Seq(Hops) /\ trail' = trail
      /\ uri' = r.uri /\ handler' = s.fallback /\ caller' = "fallback" /\ at' = "admit"
  BY <1>1 DEF Inv, Way, Routing, NotFoundHandler, NewRequest, Process, Goto
<1>3. CalledBy(s, r, "fallback", tried', handler', uri')
  BY <1>2 DEF CalledBy, Callers
<1>4. AskedBefore(s, r, "fallback", tried') = trail'
  BY <1>2 DEF AskedBefore
<1> QED
  BY <1>1, <1>2, <1>3, <1>4 DEF Way, Called, Processing, Routing, Visiting, Routed

\* Where a request is while a handler is processed
LEMMA InHandler ==
  ASSUME Inv, Processing, NEW b, NEW v, NEW w,
         b = AskedBefore(server, wire, caller, tried), v = Visit(handler, uri, wire.method),
         w = b \o v
  PROVE  /\ b \in Seq(Hops) /\ v \in Seq(Hops) /\ w \in Seq(Hops) /\ trail \in Seq(Hops)
         /\ IsPrefix(b, w) /\ IsPrefix(w, Itinerary(server, wire))
         /\ Itinerary(server, wire) \in Seq(Hops)
         /\ at = "admit" => trail = b
         /\ at = "handlerChain" =>
              /\ Accepts(handler, uri, wire.method) /\ pos <= Len(handler.chain) + 1
              /\ trail = b \o ChainVisits(handler, pos - 1)
         /\ at = "handle" => trail = w
         /\ at = "returned" => IsPrefix(trail, w) /\ (ret = "404" => trail = w)
<1>1. PICK s, r, c, t, h, u :
        s = server /\ r = wire /\ c = caller /\ t = tried /\ h = handler /\ u = uri
  OBVIOUS
<1>2. s \in Servers /\ CalledBy(s, r, c, t, h, u) /\ h \in Handlers(s)
  BY <1>1, CalledHandler
<1>3. b = AskedBefore(s, r, c, t) /\ v = Visit(h, u, r.method)
  BY <1>1
<1>4. b \in Seq(Hops) /\ w \in Seq(Hops) /\ IsPrefix(w, Itinerary(s, r))
  BY <1>2, <1>3, CalledProperties
<1>5. v \in Seq(Hops)
  BY <1>2, <1>3, VisitProperties
<1>6. Itinerary(s, r) \in Seq(Hops)
  BY <1>2, WithinItinerary
<1>7. IsPrefix(b, w)
  BY <1>4, <1>5, ConcatPrefix
<1>8. trail \in Seq(Hops)
  BY DEF Inv, Way
<1>9. /\ at = "admit" => trail = b
      /\ at = "handlerChain" =>
           /\ Accepts(handler, uri, wire.method) /\ pos <= Len(handler.chain) + 1
           /\ trail = b \o ChainVisits(handler, pos - 1)
      /\ at = "handle" => trail = w
      /\ at = "returned" => IsPrefix(trail, w) /\ (ret = "404" => trail = w)
  BY DEF Inv, Way, Visiting
<1> QED
  BY <1>1, <1>4, <1>5, <1>6, <1>7, <1>8, <1>9

\* A step within the handler
LEMMA WithinHandlerWay ==
  ASSUME Inv, Processing, NEW b, NEW v, NEW w,
         b = AskedBefore(server, wire, caller, tried), v = Visit(handler, uri, wire.method),
         w = b \o v,
         UNCHANGED <<server, wire, caller, tried, handler, uri>>,
         at' \in {"handlerChain", "handle", "returned"}, trail' \in Seq(Hops),
         at' = "handlerChain" =>
           /\ Accepts(handler, uri, wire.method) /\ pos' <= Len(handler.chain) + 1
           /\ trail' = b \o ChainVisits(handler, pos' - 1),
         at' = "handle" => trail' = w,
         at' = "returned" => IsPrefix(trail', w) /\ (ret' = "404" => trail' = w)
  PROVE  Way'
<1>1. Called'
  BY DEF Inv, Way, Called
<1>2. Routing' /\ Routed'
  BY DEF Routing, Routed
<1>3. Visiting'
  BY DEF Visiting
<1> QED
  BY <1>1, <1>2, <1>3 DEF Way

\* A step that ends the request behind a handler
LEMMA EndsWay ==
  ASSUME Inv, at = "returned", UNCHANGED <<server, wire, trail>>, at' = "done",
         sent' = <<"404">> => trail = Itinerary(server, wire)
  PROVE  Way'
<1>1. PICK b, v, w, it :
        /\ b = AskedBefore(server, wire, caller, tried) /\ v = Visit(handler, uri, wire.method)
        /\ w = b \o v /\ it = Itinerary(server, wire)
  OBVIOUS
<1>2. /\ w \in Seq(Hops) /\ trail \in Seq(Hops) /\ it \in Seq(Hops)
      /\ IsPrefix(trail, w) /\ IsPrefix(w, it)
  BY <1>1, InHandler DEF Processing
<1>3. IsPrefix(trail, it)
  BY <1>2, PrefixTransitive
<1>4. Routed'
  BY <1>1, <1>3 DEF Routed
<1> QED
  BY <1>2, <1>4 DEF Way, Called, Processing, Routing, Visiting

LEMMA AdmitWay ==
  ASSUME Inv, Admit
  PROVE  Way'
<1>1. at = "admit" /\ Processing /\ UNCHANGED <<server, wire, caller, tried, handler, uri, trail>>
  BY DEF Admit, Processing
<1>2. PICK b, v, w :
        /\ b = AskedBefore(server, wire, caller, tried) /\ v = Visit(handler, uri, wire.method)
        /\ w = b \o v
  OBVIOUS
<1>3. b \in Seq(Hops) /\ w \in Seq(Hops) /\ trail = b /\ IsPrefix(b, w)
  BY <1>1, <1>2, InHandler
<1>4. handler \in Handlers(server) /\ server \in Servers /\ Len(handler.chain) \in Nat
  BY <1>1, CalledHandler
<1>5. b \o <<>> = b
  BY <1>3
<1>6. CASE Accepts(handler, uri, wire.method)
  <2>1. at' = "handlerChain" /\ pos' = 1
    BY <1>6 DEF Admit, Goto
  <2>2. pos' - 1 = 0 /\ pos' <= Len(handler.chain) + 1
    BY <1>4, <2>1
  <2>3. ChainVisits(handler, 0) = <<>>
    BY <1>4, VisitProperties
  <2>4. trail' = b \o ChainVisits(handler, pos' - 1)
    BY <1>1, <1>3, <1>5, <2>2, <2>3
  <2> QED
    BY <1>1, <1>2, <1>3, <1>6, <2>1, <2>2, <2>4, WithinHandlerWay
<1>7. CASE ~ Accepts(handler, uri, wire.method)
  <2>1. at' = "returned"
    BY <1>7 DEF Admit, Return, Goto
  <2>2. v = <<>>
    BY <1>2, <1>7 DEF Visit
  <2>3. trail' = w
    BY <1>1, <1>2, <1>3, <1>5, <2>2
  <2>4. IsPrefix(trail', w)
    BY <1>1, <1>3
  <2> QED
    BY <1>1, <1>2, <1>3, <2>1, <2>3, <2>4, WithinHandlerWay
<1> QED
  BY <1>6, <1>7

LEMMA HandlerMiddlewareWay ==
  ASSUME Inv, HandlerMiddleware
  PROVE  Way'
<1>1. /\ at = "handlerChain" /\ Processing
      /\ UNCHANGED <<server, wire, caller, tried, handler, uri>>
  BY DEF HandlerMiddleware, Dispatching, Processing
<1>2. PICK b, v, w, k, n, x, c, d, e :
        /\ b = AskedBefore(server, wire, caller, tried) /\ v = Visit(handler, uri, wire.method)
        /\ w = b \o v /\ k = pos /\ n = Len(handler.chain) /\ x = handler.name
        /\ c = ChainVisits(handler, k - 1) /\ d = ChainVisits(handler, k) /\ e = <<x, k>>
  OBVIOUS
<1>3. /\ b \in Seq(Hops) /\ v \in Seq(Hops) /\ w \in Seq(Hops) /\ trail = b \o c
      /\ Accepts(handler, uri, wire.method) /\ k <= n
      /\ trail' = Append(trail, e)
  BY <1>1, <1>2, InHandler DEF HandlerMiddleware
<1>4. handler \in Handlers(server) /\ server \in Servers /\ n \in Nat /\ x \in Names
  BY <1>1, <1>2, CalledHandler
<1>5. k \in Nat /\ k - 1 \in Nat /\ (k - 1) + 1 = k
  BY <1>2 DEF Inv, Connected
<1>6. c \in Seq(Hops) /\ d \in Seq(Hops) /\ Append(c, e) = d
  BY <1>2, <1>4, <1>5, VisitProperties
<1>7. e \in Hops
  BY <1>2, <1>4, <1>5 DEF Hops
<1>8. trail' = b \o d /\ trail' \in Seq(Hops)
  <2>1. c \in Seq(Hops) /\ b \in Seq(Hops)
    BY <1>3, <1>6
  <2>2. Append(b \o c, e) = b \o Append(c, e) /\ Append(b \o c, e) \in Seq(Hops)
    BY <2>1, <1>7, AppendConcat
  <2>3. trail' = Append(b \o c, e)
    BY <1>3
  <2> QED
    BY <1>6, <2>2, <2>3
<1>9. CASE at' = at /\ pos' = pos + 1
  <2>1. pos' - 1 = k /\ pos' <= n + 1
    BY <1>2, <1>3, <1>4, <1>5, <1>9
  <2>2. trail' = b \o ChainVisits(handler, pos' - 1)
    BY <1>2, <1>8, <2>1
  <2>3. at' = "handlerChain" /\ pos' <= Len(handler.chain) + 1
    BY <1>1, <1>2, <1>9, <2>1
  <2> QED
    BY <1>1, <1>2, <1>3, <1>8, <2>2, <2>3, WithinHandlerWay
<1>10. CASE Return("ok")
  <2>1. at' = "returned" /\ ret' = "ok"
    BY <1>10 DEF Return, Goto
  <2>2. IsPrefix(d, v)
    <3>1. k <= Len(handler.chain)
      BY <1>2, <1>3
    <3> QED
      BY <1>2, <1>3, <1>4, <1>5, <3>1, ChainVisitsPrefix
  <2>3. IsPrefix(trail', w)
    BY <1>2, <1>3, <1>6, <1>8, <2>2, ConcatPrefix
  <2> QED
    BY <1>1, <1>2, <1>8, <2>1, <2>3, WithinHandlerWay
<1> QED
  BY <1>9, <1>10 DEF HandlerMiddleware

LEMMA HandlerChainEndsWay ==
  ASSUME Inv, HandlerChainEnds
  PROVE  Way'
<1>1. /\ at = "handlerChain" /\ Processing /\ at' = "handle"
      /\ UNCHANGED <<server, wire, caller, tried, handler, uri>>
  BY DEF HandlerChainEnds, Dispatching, Processing, Goto
<1>2. PICK b, v, w, k, n, x, c, e :
        /\ b = AskedBefore(server, wire, caller, tried) /\ v = Visit(handler, uri, wire.method)
        /\ w = b \o v /\ k = pos /\ n = Len(handler.chain) /\ x = handler.name
        /\ c = ChainVisits(handler, n) /\ e = <<x, 0>>
  OBVIOUS
<1>3. /\ b \in Seq(Hops) /\ w \in Seq(Hops) /\ trail = b \o ChainVisits(handler, k - 1)
      /\ Accepts(handler, uri, wire.method) /\ k > n /\ k <= n + 1
      /\ trail' = Append(trail, e)
  BY <1>1, <1>2, InHandler DEF HandlerChainEnds
<1>4. handler \in Handlers(server) /\ server \in Servers /\ n \in Nat /\ x \in Names
  BY <1>1, <1>2, CalledHandler
<1>5. k \in Nat
  BY <1>2 DEF Inv, Connected
<1>6. k - 1 = n
  BY <1>3, <1>4, <1>5
<1>7. c \in Seq(Hops) /\ v = Append(c, e)
  BY <1>2, <1>3, <1>4, VisitProperties
<1>8. e \in Hops
  BY <1>2, <1>4 DEF Hops
<1>9. trail' = w
  <2>1. c \in Seq(Hops) /\ b \in Seq(Hops)
    BY <1>3, <1>7
  <2>2. Append(b \o c, e) = b \o Append(c, e) /\ Append(b \o c, e) \in Seq(Hops)
    BY <2>1, <1>8, AppendConcat
  <2>3. trail' = Append(b \o c, e)
    BY <1>2, <1>3, <1>6
  <2> QED
    BY <1>2, <1>7, <2>2, <2>3
<1> QED
  BY <1>1, <1>2, <1>3, <1>9, WithinHandlerWay

Handle ==
  \/ \E loaded \in BOOLEAN : HandleWeb(loaded)
  \/ \E loaded, valid \in BOOLEAN : HandleJson(loaded, valid)
  \/ \E received \in {"ok", "fail", "invalid"} : HandleUpload(received)
  \/ \E value \in {"ok", "fail"} : HandleStatic(value) \/ HandleWs(value)

LEMMA HandleWay ==
  ASSUME Inv, Handle
  PROVE  Way'
<1>1. /\ at = "handle" /\ at' = "returned"
      /\ UNCHANGED <<server, wire, caller, tried, handler, uri, trail>>
  BY DEF Handle, HandleWeb, HandleJson, HandleUpload, HandleStatic, HandleWs, Handling, Callback,
         Return, Goto, Dispatching
<1>2. PICK b, v, w :
        /\ b = AskedBefore(server, wire, caller, tried) /\ v = Visit(handler, uri, wire.method)
        /\ w = b \o v
  OBVIOUS
<1>3. w \in Seq(Hops) /\ trail = w
  BY <1>1, <1>2, InHandler DEF Processing
<1>4. IsPrefix(w, w)
  BY <1>3, PrefixPointwise
<1> QED
  BY <1>1, <1>2, <1>3, <1>4, WithinHandlerWay DEF Processing

\* What the caller of a handler that has passed knows: its whole visit is on the trail.
LEMMA PassedBy ==
  ASSUME Inv, at = "returned", ret = "404"
  PROVE  /\ CalledBy(server, wire, caller, tried, handler, uri)
         /\ server \in Servers /\ trail \in Seq(Hops)
         /\ caller = "callback" => trail = DirectVisit(server, wire)
         /\ caller = "endpoint" => trail = ServerAsked(server, wire) \o RoutedVisits(server, wire)
         /\ caller = "global" =>
              trail = ServerAsked(server, wire) \o HandlerVisits(server, wire, tried)
         /\ caller = "fallback" => trail = Itinerary(server, wire)
<1>1. PICK s, r, c, t, h, u :
        s = server /\ r = wire /\ c = caller /\ t = tried /\ h = handler /\ u = uri
  OBVIOUS
<1>2. s \in Servers /\ CalledBy(s, r, c, t, h, u)
  BY <1>1, CalledHandler DEF Processing
<1>3. trail = AskedBefore(s, r, c, t) \o Visit(h, u, r.method) /\ trail \in Seq(Hops)
  BY <1>1, InHandler DEF Processing
<1>4. /\ c = "callback" => trail = DirectVisit(s, r)
      /\ c = "endpoint" => trail = ServerAsked(s, r) \o RoutedVisits(s, r)
      /\ c = "global" => trail = ServerAsked(s, r) \o HandlerVisits(s, r, t)
      /\ c = "fallback" => trail = Itinerary(s, r)
  <2>1. PICK a : a = AskedBefore(s, r, c, t) \o Visit(h, u, r.method)
    OBVIOUS
  <2>2. /\ c = "callback" => a = DirectVisit(s, r)
        /\ c = "endpoint" => a = ServerAsked(s, r) \o RoutedVisits(s, r)
        /\ c = "global" => a = ServerAsked(s, r) \o HandlerVisits(s, r, t)
        /\ c = "fallback" => a = Itinerary(s, r)
    BY <1>2, <2>1, CalledProperties, SMTT(30)
  <2> QED
    BY <1>3, <2>1, <2>2
<1> QED
  BY <1>1, <1>2, <1>3, <1>4

LEMMA CallbackReturnsWay ==
  ASSUME Inv, CallbackReturns
  PROVE  Way'
<1>1. at = "returned" /\ caller = "callback" /\ UNCHANGED <<server, wire, trail>>
  BY DEF CallbackReturns, Dispatching
<1>2. sent # <<"404">>
  BY <1>1 DEF Inv, Answered
<1>3. CASE ret = "404"
  <2>1. at' = "rewrite" /\ uri' = wire.uri
    BY <1>3 DEF CallbackReturns, NewRequest, Goto
  <2>2. trail = DirectVisit(server, wire) /\ trail \in Seq(Hops)
    BY <1>1, <1>3, PassedBy
  <2> QED
    BY <1>1, <2>1, <2>2 DEF Way, Called, Processing, Routing, Visiting, Routed
<1>4. CASE ret = "invalid"
  <2>1. handler.kind = "upload"
    BY <1>1, <1>4 DEF Inv, Answered
  <2>2. handler.kind = "ws"
    BY <1>1, CalledHandler DEF Processing
  <2> QED
    BY <2>1, <2>2
<1>5. CASE ret \notin {"404", "invalid"}
  <2>1. at' = "done" /\ sent' = sent
    BY <1>5 DEF CallbackReturns, Done, Goto
  <2> QED
    BY <1>1, <1>2, <2>1, EndsWay
<1> QED
  BY <1>3, <1>4, <1>5

LEMMA EndpointReturnsWay ==
  ASSUME Inv, EndpointReturns
  PROVE  Way'
<1>1. at = "returned" /\ caller = "endpoint" /\ UNCHANGED <<server, wire, trail, sent>>
  BY DEF EndpointReturns, Dispatching
<1>2. sent # <<"404">>
  BY <1>1 DEF Inv, Answered
<1>3. CASE ret = "404"
  <2>1. at' = "fallback"
    BY <1>3 DEF EndpointReturns, Goto
  <2>2. /\ trail = ServerAsked(server, wire) \o RoutedVisits(server, wire) /\ trail \in Seq(Hops)
        /\ CalledBy(server, wire, caller, tried, handler, uri)
    BY <1>1, <1>3, PassedBy
  <2>3. Passes(server, wire)
    BY <1>1, <2>2 DEF CalledBy
  <2> QED
    BY <1>1, <2>1, <2>2, <2>3 DEF Way, Called, Processing, Routing, Visiting, Routed
<1>4. CASE ret # "404"
  <2>1. at' = "done"
    BY <1>4 DEF EndpointReturns, Done, Goto
  <2> QED
    BY <1>1, <1>2, <2>1, EndsWay
<1> QED
  BY <1>3, <1>4

LEMMA HandlerReturnsWay ==
  ASSUME Inv, HandlerReturns
  PROVE  Way'
<1>1. at = "returned" /\ caller = "global" /\ UNCHANGED <<server, wire, trail, sent, uri>>
  BY DEF HandlerReturns, Dispatching
<1>2. sent # <<"404">>
  BY <1>1 DEF Inv, Answered
<1>3. CASE ret = "404"
  <2>1. at' = "handlers" /\ tried' = tried + 1
    BY <1>3 DEF HandlerReturns, Goto
  <2>2. PICK t, n : t = tried /\ n = Len(server.handlers)
    OBVIOUS
  <2>3. /\ trail = ServerAsked(server, wire) \o HandlerVisits(server, wire, t)
        /\ trail \in Seq(Hops) /\ server \in Servers
        /\ CalledBy(server, wire, caller, tried, handler, uri)
    BY <1>1, <1>3, <2>2, PassedBy
  <2>4. /\ Passes(server, wire) /\ Claims(server, wire) = {} /\ t \in 1 .. n
        /\ uri = Rewritten(server, wire)
    BY <1>1, <2>2, <2>3 DEF CalledBy
  <2>5. n \in Nat
    BY <2>2, <2>3, ServerLists
  <2>6. tried' - 1 = t /\ tried' <= n + 1
    BY <2>1, <2>2, <2>4, <2>5
  <2>7. trail' = ServerAsked(server, wire) \o HandlerVisits(server, wire, tried' - 1)
    BY <1>1, <2>3, <2>6
  <2> QED
    BY <1>1, <2>1, <2>2, <2>3, <2>4, <2>6, <2>7
       DEF Way, Called, Processing, Routing, Visiting, Routed
<1>4. CASE ret # "404"
  <2>1. at' = "done"
    BY <1>4 DEF HandlerReturns, Done, Goto
  <2> QED
    BY <1>1, <1>2, <2>1, EndsWay
<1> QED
  BY <1>3, <1>4

LEMMA FallbackReturnsWay ==
  ASSUME Inv, FallbackReturns
  PROVE  Way'
<1>1. at = "returned" /\ caller = "fallback" /\ at' = "done" /\ UNCHANGED <<server, wire, trail>>
  BY DEF FallbackReturns, Dispatching, Done, Goto
<1>2. CASE ret = "404"
  <2>1. trail = Itinerary(server, wire)
    BY <1>1, <1>2, PassedBy
  <2> QED
    BY <1>1, <2>1, EndsWay
<1>3. CASE ret # "404"
  <2>1. sent' = sent /\ sent # <<"404">>
    BY <1>1, <1>3 DEF FallbackReturns, Inv, Answered
  <2> QED
    BY <1>1, <2>1, EndsWay
<1> QED
  BY <1>2, <1>3

-----------------------------------------------------------------------------
(* The theorems. *)

LEMMA WayStep == Inv /\ Next => Way'
<1> SUFFICES ASSUME Inv, Next PROVE Way'
  OBVIOUS
<1>1. CASE \E r \in Requests : RequestCallback(r) \/ RequestHandler(r)
  BY <1>1, FreshWay
<1>2. CASE RewriteRequest \/ ServerFilter \/ ServerMiddleware \/ ServerChainEnds
  BY <1>2, RewriteRequestWay, ServerFilterWay, ServerMiddlewareWay, ServerChainEndsWay
<1>3. CASE TryEndpoint \/ NoEndpoint \/ TryHandler \/ NotFoundHandler
  BY <1>3, TryEndpointWay, NoEndpointWay, TryHandlerWay, NotFoundHandlerWay
<1>4. CASE Admit \/ HandlerMiddleware \/ HandlerChainEnds
  BY <1>4, AdmitWay, HandlerMiddlewareWay, HandlerChainEndsWay
<1>5. CASE Handle
  BY <1>5, HandleWay
<1>6. CASE CallbackReturns \/ EndpointReturns \/ HandlerReturns \/ FallbackReturns
  BY <1>6, CallbackReturnsWay, EndpointReturnsWay, HandlerReturnsWay, FallbackReturnsWay
<1>7. CASE Disconnect
  BY <1>7, DisconnectWay
<1> QED
  BY <1>1, <1>2, <1>3, <1>4, <1>5, <1>6, <1>7 DEF Next, Step, Handle

LEMMA InvStep == Inv /\ [Next]_vars => Inv'
<1> SUFFICES ASSUME Inv, [Next]_vars PROVE Inv'
  OBVIOUS
<1>1. CASE Next
  BY <1>1, ConnectedStep, WayStep, AnsweredStep, FileOpenStep DEF Inv
<1>2. CASE UNCHANGED vars
  <2>1. Connected' /\ FileOpen'
    BY <1>2 DEF vars, Inv, Connected, FileOpen
  <2>2. Answered'
    BY <1>2 DEF vars, Inv, Answered
  <2>3. (trail \in Seq(Hops))' /\ Called' /\ Routing'
    BY <1>2 DEF vars, Inv, Way, Called, Processing, Routing
  <2>4. Visiting' /\ Routed'
    BY <1>2 DEF vars, Inv, Way, Visiting, Routed
  <2> QED
    BY <2>1, <2>2, <2>3, <2>4 DEF Inv, Way
<1> QED
  BY <1>1, <1>2

LEMMA Invariant == Spec => []Inv
<1> QED
  BY InitialInv, InvStep, PTL DEF Spec

LEMMA AskedInOrder == Inv => TrailAsRouted
<1> SUFFICES ASSUME Inv, wire # None
             PROVE  /\ IsPrefix(trail, Itinerary(server, wire))
                    /\ at = "done" /\ sent = <<"404">> => trail = Itinerary(server, wire)
  BY DEF TrailAsRouted
<1>1. at \in Places /\ at # "idle" /\ server \in Servers
  BY DEF Inv, Connected
<1>2. PICK s, r, it : s = server /\ r = wire /\ it = Itinerary(s, r)
  OBVIOUS
<1>3. s \in Servers /\ it \in Seq(Hops) /\ trail \in Seq(Hops)
  BY <1>1, <1>2, WithinItinerary DEF Inv, Way
<1>4. CASE at = "done"
  BY <1>4 DEF Inv, Way, Routed
<1>5. CASE Processing
  <2>1. PICK b, v, w :
          /\ b = AskedBefore(server, wire, caller, tried) /\ v = Visit(handler, uri, wire.method)
          /\ w = b \o v
    OBVIOUS
  <2>2. b \in Seq(Hops) /\ w \in Seq(Hops) /\ IsPrefix(b, w) /\ IsPrefix(w, it)
    BY <1>2, <1>5, <2>1, InHandler
  <2>3. IsPrefix(trail, w)
    <3>1. CASE at = "admit"
      BY <1>5, <2>1, <2>2, <3>1, InHandler
    <3>2. CASE at = "handlerChain"
      <4>1. PICK k, n, c : /\ k = pos - 1 /\ n = Len(handler.chain)
                           /\ c = ChainVisits(handler, k)
        OBVIOUS
      <4>2. /\ v \in Seq(Hops) /\ trail = b \o c /\ pos <= n + 1
            /\ Accepts(handler, uri, wire.method)
        BY <1>5, <2>1, <3>2, <4>1, InHandler
      <4>3. handler \in Handlers(server) /\ server \in Servers /\ n \in Nat
        BY <1>5, <4>1, CalledHandler
      <4>4. pos \in Nat \ {0}
        BY DEF Inv, Connected
      <4>5. k \in Nat /\ k <= n
        BY <4>1, <4>2, <4>3, <4>4
      <4>6. c \in Seq(Hops)
        BY <4>1, <4>3, <4>5, VisitProperties
      <4>7. IsPrefix(c, v)
        <5>1. k <= Len(handler.chain)
          BY <4>1, <4>5
        <5> QED
          BY <2>1, <4>1, <4>2, <4>3, <4>5, <5>1, ChainVisitsPrefix
      <4> QED
        BY <2>1, <2>2, <4>2, <4>6, <4>7, ConcatPrefix
    <3>3. CASE at = "handle"
      <4>1. trail = w
        BY <1>5, <2>1, <3>3, InHandler
      <4> QED
        BY <2>2, <4>1, PrefixPointwise
    <3>4. CASE at = "returned"
      BY <1>5, <2>1, <3>4, InHandler
    <3> QED
      BY <1>5, <3>1, <3>2, <3>3, <3>4 DEF Processing
  <2>4. IsPrefix(trail, it)
    BY <1>3, <2>2, <2>3, PrefixTransitive
  <2>5. at # "done"
    BY <1>5 DEF Processing
  <2> QED
    BY <1>2, <2>4, <2>5
<1>6. CASE at \in {"rewrite", "filter"}
  <2>1. trail = DirectVisit(s, r)
    BY <1>2, <1>6 DEF Inv, Way, Routing
  <2> QED
    BY <1>2, <1>3, <1>6, <2>1, WithinItinerary
<1>7. CASE at = "chain"
  <2>1. PICK k, n : k = pos - 1 /\ n = Len(s.chain)
    OBVIOUS
  <2>2. Passes(s, r) /\ pos <= n + 1 /\ trail = DirectVisit(s, r) \o ServerVisits(k)
    BY <1>2, <1>7, <2>1 DEF Inv, Way, Routing
  <2>3. pos \in Nat \ {0} /\ n \in Nat
    BY <1>3, <2>1, ServerLists DEF Inv, Connected
  <2>4. k \in 0 .. n
    BY <2>1, <2>2, <2>3
  <2>5. IsPrefix(DirectVisit(s, r) \o ServerVisits(k), Itinerary(s, r))
    BY <1>3, <2>1, <2>2, <2>4, WithinItinerary
  <2> QED
    BY <1>2, <1>7, <2>2, <2>5
<1>8. CASE at = "endpoints"
  <2>1. PICK n : n = Len(s.chain)
    OBVIOUS
  <2>2. Passes(s, r) /\ trail = DirectVisit(s, r) \o ServerVisits(n)
    BY <1>2, <1>8, <2>1 DEF Inv, Way, Routing, ServerAsked
  <2>3. n \in Nat
    BY <1>3, <2>1, ServerLists
  <2>4. n \in 0 .. n
    BY <2>3
  <2>5. IsPrefix(DirectVisit(s, r) \o ServerVisits(n), Itinerary(s, r))
    BY <1>3, <2>1, <2>2, <2>4, WithinItinerary
  <2> QED
    BY <1>2, <1>8, <2>2, <2>5
<1>9. CASE at = "handlers"
  <2>1. PICK k, n : k = tried - 1 /\ n = Len(s.handlers)
    OBVIOUS
  <2>2. /\ Passes(s, r) /\ Claims(s, r) = {} /\ tried <= n + 1
        /\ trail = ServerAsked(s, r) \o HandlerVisits(s, r, k)
    BY <1>2, <1>9, <2>1 DEF Inv, Way, Routing
  <2>3. tried \in Nat \ {0} /\ n \in Nat
    BY <1>3, <2>1, ServerLists DEF Inv, Connected
  <2>4. k \in 0 .. n
    BY <2>1, <2>2, <2>3
  <2>5. IsPrefix(ServerAsked(s, r) \o HandlerVisits(s, r, k), Itinerary(s, r))
    BY <1>3, <2>1, <2>2, <2>4, WithinItinerary
  <2> QED
    BY <1>2, <1>9, <2>2, <2>5
<1>10. CASE at = "fallback"
  <2>1. Passes(s, r) /\ trail = ServerAsked(s, r) \o RoutedVisits(s, r)
    BY <1>2, <1>10 DEF Inv, Way, Routing
  <2> QED
    BY <1>2, <1>3, <1>10, <2>1, WithinItinerary
<1> QED
  BY <1>1, <1>4, <1>5, <1>6, <1>7, <1>8, <1>9, <1>10 DEF Places, Processing

\* Whatever the configuration and the requests, a request visits the middlewares and
\* handlers its rewrites, filters, endpoints and global handlers name, in that order,
\* skipping nobody; and the server's own 404 is sent only when all of them have passed.
THEOREM TrailAlwaysAsRouted == Spec => []TrailAsRouted
<1> QED
  BY Invariant, AskedInOrder, PTL

LEMMA OneAnswer == Inv => AnswersOnce
<1> SUFFICES ASSUME Inv PROVE AnswersOnce
  OBVIOUS
<1>1. Len(<<>>) = 0 /\ \A x : Len(<<x>>) = 1
  OBVIOUS
<1>2. Answered
  BY DEF Inv
<1>3. ASSUME Len(sent) > 1 PROVE handler # None /\ handler.kind = "json"
  <2>1. ~ sent = <<>> /\ ~ (\E x : sent = <<x>>)
    BY <1>1, <1>3
  <2> QED
    BY <1>2, <1>3, <2>1 DEF Answered
<1> QED
  BY <1>2, <1>3 DEF Answered, AnswersOnce

\* A request that ends in success has been answered, and none twice (see AnswersOnce for the
\* handlers that answer otherwise), whatever the application's callbacks do.
THEOREM AlwaysAnswersOnce == Spec => []AnswersOnce
<1> QED
  BY Invariant, OneAnswer, PTL

LEMMA SessionOfConnection == Inv => OneSession
<1> SUFFICES ASSUME Inv PROVE OneSession
  OBVIOUS
<1>1. Connected
  BY DEF Inv
<1>2. session \in 0 .. MaxRequests /\ sessions \subseteq 1 .. 3 * MaxRequests
  <2>1. CASE at = "idle"
    <3>1. 0 \in 0 .. MaxRequests
      BY MaxRequestsAssumption
    <3> QED
      BY <1>1, <2>1, <3>1 DEF Connected
  <2>2. CASE at # "idle"
    <3>1. served \in 0 .. MaxRequests /\ served > 0
      BY <1>1, <2>2 DEF Connected
    <3>2. 1 \in 0 .. MaxRequests /\ 1 \in 1 .. 3 * MaxRequests
      BY <3>1, MaxRequestsAssumption
    <3> QED
      BY <1>1, <2>2, <3>2 DEF Connected
  <2> QED
    BY <2>1, <2>2
<1>3. sessions = IF session = 0 THEN {} ELSE {session}
  BY <1>1 DEF Connected
<1>4. \A f, g \in file : f[1] = g[1] => f = g
  BY DEF Inv, FileOpen
<1>5. Len(sent) <= 2
  <2>1. sent = <<>> \/ (\E x : sent = <<x>>) \/ \E x, y : sent = <<x, y>>
    BY DEF Inv, Answered
  <2>2. CASE sent = <<>>
    BY <2>2
  <2>3. ASSUME NEW x, sent = <<x>> PROVE Len(sent) <= 2
    BY <2>3
  <2>4. ASSUME NEW x, NEW y, sent = <<x, y>> PROVE Len(sent) <= 2
    BY <2>4
  <2> QED
    BY <2>1, <2>2, <2>3, <2>4
<1>6. wire \in Requests \cup {None}
  BY <1>1 DEF Connected
<1>7. TypeOK
  BY <1>1, <1>2, <1>4, <1>5, <1>6 DEF TypeOK, Connected
<1> QED
  BY <1>3, <1>7 DEF OneSession

\* However many request objects are made for the requests of a connection, they share one
\* SessionData, and none is left when the connection has gone.
THEOREM OneSessionAlways == Spec => []OneSession
<1> QED
  BY Invariant, SessionOfConnection, PTL

\* The file a static file handler sends is the one that canHandle() opened for this request,
\* whatever was left open by the requests before it.
THEOREM FileAlwaysOfRequest == Spec => []FileOfRequest
<1>1. Inv => FileOfRequest
  BY DEF Inv, FileOpen, FileOfRequest
<1> QED
  BY <1>1, Invariant, PTL

=============================================================================
