---------------------------- MODULE ServerProofs ----------------------------
(***************************************************************************)
(* Proofs about the server between its start and its stop (Lifecycle), and *)
(* about what a browser gets of it (Exchange).                             *)
(* For any endpoints, URIs and methods, no list keeps a deleted endpoint,  *)
(* a stop forgets everything that is registered, and a start registers     *)
(* everything there is, whatever the calls before. For any site, no one    *)
(* gets past the access middlewares, a script of another site sees what it *)
(* may, cookies and parameters arrive as they were sent, and a browser     *)
(* shows a static file as it is stored.                                    *)
(***************************************************************************)
EXTENDS Lifecycle, Exchange, ListsProofs

-----------------------------------------------------------------------------
(* Starting and stopping                                                   *)

Entries == [uri: Uris \cup {Star}, method: Methods, ctx: Endpoints \cup {None}]

-----------------------------------------------------------------------------
(* What registering a list of entries one by one comes to. *)

\* An entry is registered, unless an earlier one matches what it would match.
Covered(tbl, entries, i) ==
  \E j \in 1 .. i :
    /\ entries[j] \in Range(tbl)
    /\ entries[j].uri \in {entries[i].uri, Star}
    /\ entries[j].method = entries[i].method

\* The tables there are after each of the entries
Registering(max, entries, g) ==
  /\ g \in [0 .. Len(entries) -> Seq(Entries)]
  /\ g[0] = <<>>
  /\ \A i \in 1 .. Len(entries) :
       g[i] = [t \in Seq(Entries) |-> Register(max, t, entries[i])][g[i - 1]]

LEMMA RegisteringSteps ==
  ASSUME NEW max, NEW entries, entries \in Seq(Entries)
  PROVE  \E g : Registering(max, entries, g)
<1> DEFINE step == [i \in 1 .. Len(entries) |-> [t \in Seq(Entries) |-> Register(max, t, entries[i])]]
<1>1. \A i \in 1 .. Len(entries) : entries[i] \in Entries
  OBVIOUS
<1>2. \A t \in Seq(Entries), r \in Entries : Register(max, t, r) \in Seq(Entries)
  BY DEF Register
<1>3. /\ step \in [1 .. Len(entries) -> [Seq(Entries) -> Seq(Entries)]]
      /\ <<>> \in Seq(Entries) /\ Len(entries) \in Nat
  <2>1. \A i \in 1 .. Len(entries) :
          [t \in Seq(Entries) |-> Register(max, t, entries[i])] \in [Seq(Entries) -> Seq(Entries)]
    BY <1>1, <1>2
  <2>2. <<>> \in Seq(Entries) /\ Len(entries) \in Nat
    OBVIOUS
  <2> QED
    BY <2>1, <2>2
<1>4. PICK Q, b, m, st : Q = Seq(Entries) /\ b = <<>> /\ m = Len(entries) /\ st = step
  OBVIOUS
<1>5. b \in Q /\ m \in Nat /\ st \in [1 .. m -> [Q -> Q]]
  BY <1>3, <1>4
<1> HIDE DEF step
<1>6. Computed(Q, b, m, st)
  BY <1>5, Recursion, Zenon
<1>7. PICK g \in [0 .. Len(entries) -> Seq(Entries)] :
        g[0] = <<>> /\ \A i \in 1 .. Len(entries) : g[i] = step[i][g[i - 1]]
  BY <1>4, <1>6 DEF Computed
<1> QED
  BY <1>7 DEF step, Registering

\* With room for all of them, nothing else is refused.
LEMMA RegisterAllProperties ==
  ASSUME NEW max \in Nat, NEW entries \in Seq(Entries), Len(entries) <= max
  PROVE  /\ RegisterAll(max, entries) \in Seq(Entries)
         /\ Range(RegisterAll(max, entries)) \subseteq Range(entries)
         /\ \A i \in 1 .. Len(entries) : Covered(RegisterAll(max, entries), entries, i)
<1> DEFINE Body(g) == [i \in 0 .. Len(entries) |->
                         IF i = 0 THEN <<>> ELSE Register(max, g[i - 1], entries[i])]
           tbl == CHOOSE g : g = Body(g)
           step == [i \in 1 .. Len(entries) |-> [t \in Seq(Entries) |-> Register(max, t, entries[i])]]
<1>1. PICK n \in Nat : n = Len(entries)
  OBVIOUS
<1>2. \A i \in 1 .. n : entries[i] \in Entries
  BY <1>1
<1>3. \A t \in Seq(Entries), r \in Entries : Register(max, t, r) \in Seq(Entries)
  BY DEF Register
<1>4. step \in [1 .. n -> [Seq(Entries) -> Seq(Entries)]] /\ <<>> \in Seq(Entries)
  BY <1>1, <1>2, <1>3
<1>5. PICK g \in [0 .. n -> Seq(Entries)] :
        g[0] = <<>> /\ \A i \in 1 .. n : g[i] = step[i][g[i - 1]]
  <2>1. PICK g : Registering(max, entries, g)
    BY RegisteringSteps, Zenon
  <2> QED
    BY <1>1, <2>1 DEF Registering
<1>6. ASSUME NEW i \in 1 .. n
      PROVE  g[i - 1] \in Seq(Entries) /\ g[i] = Register(max, g[i - 1], entries[i])
  <2>1. g[i - 1] \in Seq(Entries)
    OBVIOUS
  <2> QED
    BY <1>1, <1>5, <2>1
<1>7. g = Body(g)
  <2>1. \A i \in 0 .. n : i = 0 \/ i \in 1 .. n
    OBVIOUS
  <2>2. \A i \in 0 .. n : g[i] = IF i = 0 THEN <<>> ELSE Register(max, g[i - 1], entries[i])
    BY <1>5, <1>6, <2>1
  <2>3. g = [i \in 0 .. n |-> g[i]]
    OBVIOUS
  <2> QED
    BY <1>1, <2>2, <2>3
<1>8. tbl = Body(tbl)
  <2> HIDE DEF Body
  <2> QED
    BY <1>7
<1>9. \A i \in 0 .. n : tbl[i] = g[i]
  <2> DEFINE T == {k \in 0 .. n : tbl[k] = g[k]}
  <2> HIDE DEF tbl
  <2>1. 0 \in T
    BY <1>1, <1>5, <1>8
  <2>2. ASSUME NEW k \in 0 .. n - 1, k \in T PROVE k + 1 \in T
    <3>1. k + 1 \in 1 .. n /\ k + 1 \in 0 .. n /\ k + 1 # 0 /\ (k + 1) - 1 = k
      OBVIOUS
    <3>2. tbl[k] = g[k]
      BY <2>2
    <3>3. tbl[k + 1] = Register(max, tbl[k], entries[k + 1])
      BY <1>1, <1>8, <3>1
    <3> QED
      BY <1>6, <3>1, <3>2, <3>3
  <2>3. \A k \in 0 .. n : k \in T
    <3> HIDE DEF T
    <3> QED
      BY <2>1, <2>2, InductionUpto
  <2> QED
    BY <2>3
<1>10. RegisterAll(max, entries) = tbl[n]
  BY <1>1 DEF RegisterAll
<1>11. RegisterAll(max, entries) = g[n]
  <2> HIDE DEF tbl
  <2> QED
    BY <1>9, <1>10
<1> HIDE DEF tbl, Body, step
<1> DEFINE First(k) == {entries[i] : i \in 1 .. k}
           T == {k \in 0 .. n : /\ Len(g[k]) <= k
                                /\ Range(g[k]) \subseteq First(k)
                                /\ \A i \in 1 .. k : Covered(g[k], entries, i)}
<1>12. 0 \in T
  BY <1>5 DEF Range
<1>13. ASSUME NEW k \in 0 .. n - 1, k \in T PROVE k + 1 \in T
  <2>1. PICK t, r : t = g[k] /\ r = entries[k + 1]
    OBVIOUS
  <2>2. k + 1 \in 1 .. n /\ k + 1 \in 0 .. n /\ (k + 1) - 1 = k
    OBVIOUS
  <2>3. t \in Seq(Entries) /\ r \in Entries /\ g[k + 1] = Register(max, t, r)
    BY <1>2, <1>6, <2>1, <2>2
  <2>4. Len(t) <= k /\ Range(t) \subseteq First(k) /\ \A i \in 1 .. k : Covered(t, entries, i)
    BY <1>13, <2>1
  <2>5. Len(t) < max
    BY <1>1, <2>3, <2>4
  <2>6. First(k + 1) = First(k) \cup {r}
    <3>1. \A i : i \in 1 .. k + 1 <=> i \in 1 .. k \/ i = k + 1
      OBVIOUS
    <3> QED
      BY <2>1, <3>1
  <2>7. CASE \E q \in Range(t) : q.uri \in {r.uri, Star} /\ q.method = r.method
    <3>1. g[k + 1] = t
      BY <2>3, <2>7 DEF Register
    <3>2. PICK j \in 1 .. k : entries[j] \in Range(t) /\ entries[j].uri \in {r.uri, Star}
                              /\ entries[j].method = r.method
      BY <2>4, <2>7
    <3>3. j \in 1 .. k + 1
      OBVIOUS
    <3>4. Covered(t, entries, k + 1)
      BY <2>1, <3>2, <3>3 DEF Covered
    <3>5. \A i \in 1 .. k + 1 : i \in 1 .. k \/ i = k + 1
      OBVIOUS
    <3>6. Len(t) <= k + 1
      BY <2>3, <2>4
    <3> HIDE DEF First
    <3> QED
      BY <2>2, <2>4, <2>6, <3>1, <3>4, <3>5, <3>6
  <2>8. CASE ~ \E q \in Range(t) : q.uri \in {r.uri, Star} /\ q.method = r.method
    <3>1. g[k + 1] = Append(t, r)
      BY <2>3, <2>5, <2>8 DEF Register
    <3>2. Range(Append(t, r)) = Range(t) \cup {r} /\ Len(Append(t, r)) = Len(t) + 1
      BY <2>3, RangeAppend
    <3>3. \A i \in 1 .. k : Covered(g[k + 1], entries, i)
      BY <2>4, <3>1, <3>2 DEF Covered
    <3>4. k + 1 \in 1 .. k + 1
      OBVIOUS
    <3>5. Covered(g[k + 1], entries, k + 1)
      BY <2>1, <3>1, <3>2, <3>4 DEF Covered
    <3>6. \A i \in 1 .. k + 1 : i \in 1 .. k \/ i = k + 1
      OBVIOUS
    <3>7. Len(g[k + 1]) <= k + 1
      BY <2>3, <2>4, <3>1, <3>2
    <3> HIDE DEF First
    <3> QED
      BY <2>2, <2>4, <2>6, <3>1, <3>2, <3>3, <3>5, <3>6, <3>7
  <2> QED
    BY <2>7, <2>8
<1>14. \A k \in 0 .. n : k \in T
  <2> HIDE DEF T
  <2> QED
    BY <1>12, <1>13, InductionUpto
<1>15. Range(g[n]) \subseteq First(n) /\ \A i \in 1 .. n : Covered(g[n], entries, i)
  BY <1>14
<1>16. First(n) = Range(entries)
  BY <1>1 DEF Range
<1> QED
  BY <1>1, <1>11, <1>15, <1>16

-----------------------------------------------------------------------------
(* The inductive invariant. *)

\* The lists of the server: its endpoints are live, and its entries are those of endpoints
\* that have been made, deleted only where their method is not the one they are registered with.
ListsLive ==
  /\ \A e \in Range(endpoints) : Live(e)
  /\ \A n \in Range(native) :
       /\ object[n.ctx] # None
       /\ n.uri = object[n.ctx].uri
       /\ Live(n.ctx) \/ object[n.ctx].method # Get

\* What esp_http_server has: nothing unless the server runs, and of endpoints
\* what it would be given by a start now.
TableLive ==
  /\ ~running => table = <<>>
  /\ \A r \in Range(table) : r.ctx # None =>
       /\ object[r.ctx] # None
       /\ r.uri = object[r.ctx].uri
       /\ r.method = Get
       /\ Live(r.ctx) \/ object[r.ctx].method # Get

Inv == ListsLive /\ TableLive /\ AllForgotten /\ StaysListed

-----------------------------------------------------------------------------
(* What the operators of the module do to the lists. *)

\* Unregistering takes the named entries out of the table, and those only.
LEMMA UnregisterProperties ==
  ASSUME NEW tbl \in Seq(Entries), NEW pairs
  PROVE  /\ Unregister(tbl, pairs) \in Seq(Entries)
         /\ Range(Unregister(tbl, pairs)) = {r \in Range(tbl) : <<r.uri, r.method>> \notin pairs}
<1> DEFINE S == {r \in Range(tbl) : <<r.uri, r.method>> \in pairs}
<1>1. Unregister(tbl, pairs) = Without(tbl, S)
  BY DEF Unregister
<1>2. Range(tbl) \ S = {r \in Range(tbl) : <<r.uri, r.method>> \notin pairs}
  OBVIOUS
<1> HIDE DEF S
<1>3. Without(tbl, S) \in Seq(Entries) /\ Range(Without(tbl, S)) = Range(tbl) \ S
  BY WithoutProperties
<1> QED
  BY <1>1, <1>2, <1>3, Zenon

\* What a start registers: an entry for each of the listed, then one for each method.
LEMMA EntriesOfStart ==
  ASSUME TypeOK
  PROVE  LET all == NativeEntries \o MetaEntries IN
         /\ all \in Seq(Entries)
         /\ Len(all) = Len(native) + Len(methods)
         /\ \A i \in 1 .. Len(native) :
              all[i] = [uri |-> native[i].uri, method |-> Get, ctx |-> native[i].ctx]
         /\ \A i \in 1 .. Len(methods) :
              all[Len(native) + i] = [uri |-> Star, method |-> methods[i], ctx |-> None]
<1> DEFINE Native == [uri: Uris, ctx: Endpoints]
<1>1. PICK s, t, nat, meth : s = NativeEntries /\ t = MetaEntries /\ nat = native /\ meth = methods
  OBVIOUS
<1>2. nat \in Seq(Native) /\ meth \in Seq(Methods)
  BY <1>1 DEF TypeOK
<1>3. PICK k \in Nat, l \in Nat : k = Len(nat) /\ l = Len(meth)
  BY <1>2
<1>4. DOMAIN nat = 1 .. k /\ DOMAIN meth = 1 .. l
  BY <1>2, <1>3
<1>5. /\ s = [i \in 1 .. k |-> [uri |-> nat[i].uri, method |-> Get, ctx |-> nat[i].ctx]]
      /\ t = [i \in 1 .. l |-> [uri |-> Star, method |-> meth[i], ctx |-> None]]
  BY <1>1, <1>4 DEF NativeEntries, MetaEntries
<1>6. \A i \in 1 .. k : nat[i].uri \in Uris /\ nat[i].ctx \in Endpoints
  <2>1. \A i \in 1 .. k : nat[i] \in Native
    <3> HIDE DEF Native
    <3> QED
      BY <1>2, <1>3
  <2> QED
    BY <2>1
<1>7. \A i \in 1 .. l : meth[i] \in Methods
  BY <1>2, <1>3
<1>8. \A i \in 1 .. k : [uri |-> nat[i].uri, method |-> Get, ctx |-> nat[i].ctx] \in Entries
  BY <1>6, MethodsAssumption DEF Entries
<1>9. \A i \in 1 .. l : [uri |-> Star, method |-> meth[i], ctx |-> None] \in Entries
  BY <1>7 DEF Entries
<1>10. s \in Seq(Entries) /\ Len(s) = k
  BY <1>5, <1>8
<1>11. t \in Seq(Entries) /\ Len(t) = l
  BY <1>5, <1>9
<1>12. s \o t \in Seq(Entries) /\ Len(s \o t) = k + l
  BY <1>10, <1>11
<1>13. \A i \in 1 .. k : (s \o t)[i] = s[i]
  BY <1>10, <1>11
<1>14. \A i \in 1 .. l : (s \o t)[k + i] = t[i]
  BY <1>10, <1>11
<1> QED
  BY <1>1, <1>3, <1>5, <1>12, <1>13, <1>14

\* A start finds room for all of them, and the table it makes leaves none out.
LEMMA TableOfStart ==
  ASSUME TypeOK, Started
  PROVE  /\ table' \in Seq(Entries) /\ limit' \in Nat /\ tlsLimit' \in Nat /\ running'
         /\ \A r \in Range(table') :
              \/ \E n \in Range(native) : r = [uri |-> n.uri, method |-> Get, ctx |-> n.ctx]
              \/ \E m \in Range(methods) : r = [uri |-> Star, method |-> m, ctx |-> None]
         /\ \A n \in Range(native) : \E r \in Range(table') :
              r.uri = n.uri /\ r.method = Get /\ r.ctx # None
         /\ \A m \in Range(methods) : \E r \in Range(table') : r.uri = Star /\ r.method = m
<1>1. PICK k \in Nat, l \in Nat : k = Len(native) /\ l = Len(methods)
  BY DEF TypeOK
<1>2. PICK nat, meth, all : nat = native /\ meth = methods /\ all = NativeEntries \o MetaEntries
  OBVIOUS
<1>3. nat \in Seq([uri: Uris, ctx: Endpoints]) /\ meth \in Seq(Methods) /\ Len(nat) = k /\ Len(meth) = l
  BY <1>1, <1>2 DEF TypeOK
<1>4. MaxHandlers = k + l /\ limit' = k + l /\ tlsLimit' \in Nat
  BY <1>1 DEF Started, StartServer, HandlersNeeded, MaxHandlers, TypeOK
<1>5. /\ all \in Seq(Entries)
      /\ Len(all) = k + l
      /\ \A i \in 1 .. k : all[i] = [uri |-> nat[i].uri, method |-> Get, ctx |-> nat[i].ctx]
      /\ \A i \in 1 .. l : all[k + i] = [uri |-> Star, method |-> meth[i], ctx |-> None]
  BY <1>1, <1>2, EntriesOfStart
<1>6. PICK max, tbl : max = k + l /\ tbl = RegisterAll(max, all)
  OBVIOUS
<1>7. table' = tbl /\ running'
  BY <1>2, <1>4, <1>6 DEF Started
<1>8. /\ tbl \in Seq(Entries)
      /\ Range(tbl) \subseteq Range(all)
      /\ \A i \in 1 .. Len(all) : Covered(tbl, all, i)
  <2>1. max \in Nat /\ Len(all) <= max
    BY <1>5, <1>6
  <2> QED
    BY <1>5, <1>6, <2>1, RegisterAllProperties
<1>9. Range(nat) = {nat[i] : i \in 1 .. k} /\ Range(meth) = {meth[i] : i \in 1 .. l}
  BY <1>3 DEF Range
<1>10. \A i \in 1 .. k + l : i \in 1 .. k \/ (i - k \in 1 .. l /\ k + (i - k) = i)
  OBVIOUS
<1>11. \A r \in Range(all) :
         \/ \E n \in Range(nat) : r = [uri |-> n.uri, method |-> Get, ctx |-> n.ctx]
         \/ \E m \in Range(meth) : r = [uri |-> Star, method |-> m, ctx |-> None]
  <2> SUFFICES ASSUME NEW i \in 1 .. k + l
               PROVE  \/ \E n \in Range(nat) : all[i] = [uri |-> n.uri, method |-> Get, ctx |-> n.ctx]
                      \/ \E m \in Range(meth) : all[i] = [uri |-> Star, method |-> m, ctx |-> None]
    BY <1>5 DEF Range
  <2>1. CASE i \in 1 .. k
    BY <1>5, <1>9, <2>1
  <2>2. CASE i - k \in 1 .. l /\ k + (i - k) = i
    <3>1. PICK j \in 1 .. l : j = i - k /\ k + j = i
      BY <2>2
    <3>2. all[i] = [uri |-> Star, method |-> meth[j], ctx |-> None]
      BY <1>5, <3>1, Zenon
    <3>3. meth[j] \in Range(meth)
      BY <1>9
    <3> QED
      BY <3>2, <3>3, Zenon
  <2> QED
    BY <1>10, <2>1, <2>2
<1>12. \A i \in 1 .. k : nat[i].uri \in Uris /\ nat[i].ctx \in Endpoints
  <2>1. PICK A : A = [uri: Uris, ctx: Endpoints]
    OBVIOUS
  <2>2. nat \in Seq(A) /\ Len(nat) = k
    BY <1>3, <2>1
  <2>3. \A i \in 1 .. k : nat[i] \in A
    BY <2>2
  <2> QED
    BY <2>1, <2>3
<1>13. ASSUME NEW i \in 1 .. k
       PROVE  \E r \in Range(tbl) : r.uri = nat[i].uri /\ r.method = Get /\ r.ctx # None
  <2>1. i \in 1 .. k + l
    OBVIOUS
  <2>2. PICK j \in 1 .. i : /\ all[j] \in Range(tbl)
                            /\ all[j].uri \in {all[i].uri, Star}
                            /\ all[j].method = all[i].method
    BY <1>5, <1>8, <2>1 DEF Covered
  <2>3. j \in 1 .. k
    OBVIOUS
  <2>4. nat[j].uri \in Uris /\ nat[j].ctx \in Endpoints
    BY <1>12, <2>3
  <2>5. all[j] = [uri |-> nat[j].uri, method |-> Get, ctx |-> nat[j].ctx]
    BY <1>5, <2>3
  <2>6. all[i] = [uri |-> nat[i].uri, method |-> Get, ctx |-> nat[i].ctx]
    BY <1>5
  <2>7. PICK r, q, u, c, d : /\ r = all[j] /\ q = all[i] /\ u = nat[j].uri /\ c = nat[j].ctx
                             /\ d = nat[i].uri
    OBVIOUS
  <2>8. r \in Range(tbl) /\ r.uri \in {d, Star} /\ r.method = Get /\ r.uri = u /\ r.ctx = c
    BY <2>2, <2>5, <2>6, <2>7
  <2>9. r.uri = d /\ r.ctx # None
    BY <2>4, <2>7, <2>8, UrisAssumption, NoneAssumption
  <2> QED
    BY <2>7, <2>8, <2>9
<1>14. ASSUME NEW i \in 1 .. l
       PROVE  \E r \in Range(tbl) : r.uri = Star /\ r.method = meth[i]
  <2>1. k + i \in 1 .. k + l
    OBVIOUS
  <2>2. PICK j \in 1 .. k + i : /\ all[j] \in Range(tbl)
                                /\ all[j].uri \in {all[k + i].uri, Star}
                                /\ all[j].method = all[k + i].method
    BY <1>5, <1>8, <2>1 DEF Covered
  <2>3. all[k + i] = [uri |-> Star, method |-> meth[i], ctx |-> None]
    BY <1>5
  <2>4. all[j].uri = Star /\ all[j].method = meth[i]
    BY <2>2, <2>3
  <2> QED
    BY <2>2, <2>4
<1>15. \A n \in Range(nat) : \E r \in Range(tbl) : r.uri = n.uri /\ r.method = Get /\ r.ctx # None
  BY <1>9, <1>13
<1>16. \A m \in Range(meth) : \E r \in Range(tbl) : r.uri = Star /\ r.method = m
  BY <1>9, <1>14
<1>17. \A r \in Range(tbl) :
         \/ \E n \in Range(nat) : r = [uri |-> n.uri, method |-> Get, ctx |-> n.ctx]
         \/ \E m \in Range(meth) : r = [uri |-> Star, method |-> m, ctx |-> None]
  BY <1>8, <1>11
<1>18. limit' \in Nat /\ tlsLimit' \in Nat
  BY <1>4
<1> QED
  BY <1>2, <1>7, <1>8, <1>15, <1>16, <1>17, <1>18

-----------------------------------------------------------------------------
(* The initial states and the actions, one by one. *)

LEMMA EmptyList ==
  /\ Range(<<>>) = {}
  /\ \A A : <<>> \in Seq(A) /\ \A s \in Seq(A) : Range(s) = {} => s = <<>>
<1>1. Range(<<>>) = {}
  BY DEF Range
<1>2. ASSUME NEW A, NEW s \in Seq(A), Range(s) = {} PROVE s = <<>>
  <2>1. ASSUME Len(s) # 0 PROVE FALSE
    <3>1. 1 \in DOMAIN s
      BY <2>1
    <3> QED
      BY <1>2, <3>1 DEF Range
  <2> QED
    BY <2>1
<1> QED
  BY <1>1, <1>2

LEMMA InitialInv == Init => Inv
<1> SUFFICES ASSUME Init PROVE Inv
  OBVIOUS
<1>1. Range(endpoints) = {} /\ Range(native) = {} /\ Range(table) = {}
  BY EmptyList DEF Init
<1>2. TypeOK
  <2>1. object \in [Endpoints -> Objects \cup {None}]
    BY DEF Init
  <2>2. endpoints \in Seq(Endpoints) /\ native \in Seq([uri: Uris, ctx: Endpoints])
    BY EmptyList DEF Init
  <2>3. table \in Seq([uri: Uris \cup {Star}, method: Methods, ctx: Endpoints \cup {None}])
    BY EmptyList DEF Init
  <2>4. kind \in Kinds /\ running \in BOOLEAN /\ methods \in Seq(Methods) /\ limit \in Nat /\ tlsLimit \in Nat
    BY SupportedAssumption, KindsAssumption DEF Init
  <2> QED
    BY <2>1, <2>2, <2>3, <2>4 DEF TypeOK
<1> QED
  BY <1>1, <1>2 DEF Inv, ListsLive, TableLive, AllForgotten, StaysListed, Init

\* Whatever becomes of a stop, it leaves no handler.
LEMMA StopEmpties ==
  ASSUME Inv, Stopped \/ NotStopped
  PROVE  table' = <<>> /\ running' \in BOOLEAN
<1>1. CASE Stopped
  BY <1>1 DEF Stopped
<1>2. CASE NotStopped
  <2>1. table \in Seq(Entries) /\ \A r \in Range(table) : <<r.uri, r.method>> \in Forgotten
    BY DEF Inv, AllForgotten, TypeOK, Entries
  <2>2. PICK tbl, F : tbl = table /\ F = Forgotten
    OBVIOUS
  <2>3. table' = Unregister(tbl, F) /\ running' \in BOOLEAN
    BY <1>2, <2>2 DEF NotStopped
  <2>4. /\ Unregister(tbl, F) \in Seq(Entries)
        /\ Range(Unregister(tbl, F)) = {r \in Range(tbl) : <<r.uri, r.method>> \notin F}
    BY <2>1, <2>2, UnregisterProperties
  <2>5. Range(Unregister(tbl, F)) = {}
    BY <2>1, <2>2, <2>4
  <2> QED
    BY <2>3, <2>4, <2>5, EmptyList
<1> QED
  BY <1>1, <1>2

\* A step that only empties the table and sets the flag and the limits
LEMMA EmptyTableInv ==
  ASSUME Inv, table' = <<>>, running' \in BOOLEAN, limit' \in Nat, tlsLimit' \in Nat,
         UNCHANGED <<kind, object, endpoints, native, methods>>
  PROVE  Inv'
<1>1. Range(table') = {}
  BY EmptyList
<1>2. TypeOK'
  <2>1. table' \in Seq([uri: Uris \cup {Star}, method: Methods, ctx: Endpoints \cup {None}])
    BY EmptyList
  <2> QED
    BY <2>1 DEF Inv, AllForgotten, TypeOK
<1>3. ListsLive'
  BY DEF Inv, ListsLive, Live
<1>4. TableLive'
  BY <1>1 DEF TableLive
<1>5. AllForgotten'
  BY <1>1, <1>2 DEF AllForgotten
<1>6. StaysListed'
  BY DEF Inv, StaysListed, Alone
<1> QED
  BY <1>3, <1>4, <1>5, <1>6 DEF Inv

\* A step that empties the lists as well
LEMMA EmptiedInv ==
  ASSUME Inv, table' = <<>>, Emptied, running' \in BOOLEAN, methods' \in Seq(Methods),
         limit' \in Nat, tlsLimit' \in Nat, UNCHANGED kind
  PROVE  Inv'
<1>1. Range(table') = {} /\ Range(endpoints') = {} /\ Range(native') = {}
  BY EmptyList DEF Emptied
<1>2. TypeOK'
  <2>1. object' \in [Endpoints -> Objects \cup {None}]
    <3>1. \A e \in Endpoints : e \in Range(endpoints) => object[e] \in Objects
      BY DEF Inv, AllForgotten, TypeOK, ListsLive, Live
    <3>2. \A o \in Objects : [o EXCEPT !.live = FALSE] \in Objects
      BY DEF Objects
    <3>3. \A e \in Endpoints : object[e] \in Objects \cup {None}
      BY DEF Inv, AllForgotten, TypeOK
    <3> QED
      BY <3>1, <3>2, <3>3 DEF Emptied
  <2>2. endpoints' \in Seq(Endpoints) /\ native' \in Seq([uri: Uris, ctx: Endpoints])
    BY EmptyList DEF Emptied
  <2>3. table' \in Seq([uri: Uris \cup {Star}, method: Methods, ctx: Endpoints \cup {None}])
    BY EmptyList
  <2> QED
    BY <2>1, <2>2, <2>3 DEF Inv, AllForgotten, TypeOK
<1> QED
  BY <1>1, <1>2 DEF Inv, ListsLive, TableLive, AllForgotten, StaysListed

\* The entries of a start are those the lists have.
LEMMA StartedInv ==
  ASSUME Inv, Started, UNCHANGED <<kind, object, endpoints, native, methods>>
  PROVE  Inv'
<1>1. TypeOK
  BY DEF Inv, AllForgotten
<1>2. /\ table' \in Seq(Entries) /\ limit' \in Nat /\ tlsLimit' \in Nat /\ running'
      /\ \A r \in Range(table') :
           \/ \E n \in Range(native) : r = [uri |-> n.uri, method |-> Get, ctx |-> n.ctx]
           \/ \E m \in Range(methods) : r = [uri |-> Star, method |-> m, ctx |-> None]
  BY <1>1, TableOfStart
<1>3. TypeOK'
  <2>1. running' \in BOOLEAN
    BY DEF Started
  <2> QED
    BY <1>1, <1>2, <2>1 DEF TypeOK, Entries
<1>4. ListsLive'
  BY DEF Inv, ListsLive, Live
<1>5. TableLive'
  <2> SUFFICES ASSUME NEW r \in Range(table'), r.ctx # None
               PROVE  /\ object[r.ctx] # None
                      /\ r.uri = object[r.ctx].uri
                      /\ r.method = Get
                      /\ Live(r.ctx) \/ object[r.ctx].method # Get
    BY <1>2 DEF TableLive, Live
  <2>1. PICK n \in Range(native) : r = [uri |-> n.uri, method |-> Get, ctx |-> n.ctx]
    BY <1>2
  <2> QED
    BY <2>1 DEF Inv, ListsLive
<1>6. AllForgotten'
  <2>1. \A r \in Range(table') : <<r.uri, r.method>> \in Forgotten
    BY <1>2 DEF Forgotten
  <2> QED
    BY <1>3, <2>1 DEF AllForgotten, Forgotten
<1>7. StaysListed'
  BY DEF Inv, StaysListed, Alone
<1> QED
  BY <1>4, <1>5, <1>6, <1>7 DEF Inv

\* A new endpoint is live, and its entry is its own.
LEMMA OnInv ==
  ASSUME Inv, NEW e \in Endpoints, NEW uri \in Uris, NEW method \in Methods \cup {AnyMethod},
         NEW ws \in BOOLEAN, On(e, uri, method, ws)
  PROVE  Inv'
<1> DEFINE new == [uri |-> uri, method |-> method, ws |-> ws, live |-> TRUE]
           entry == [uri |-> uri, ctx |-> e]
           Native == [uri: Uris, ctx: Endpoints]
<1>1. /\ object \in [Endpoints -> Objects \cup {None}]
      /\ endpoints \in Seq(Endpoints) /\ native \in Seq(Native)
      /\ methods \in Seq(Methods)
      /\ table \in Seq([uri: Uris \cup {Star}, method: Methods, ctx: Endpoints \cup {None}])
  BY DEF Inv, AllForgotten, TypeOK
<1>2. new \in Objects /\ new # None /\ entry \in Native
  <2>1. new \in Objects /\ entry \in Native
    BY DEF Objects
  <2>2. None \notin Objects
    BY NoneAssumption DEF Objects
  <2> HIDE DEF new
  <2> QED
    BY <2>1, <2>2
<1>3. object[e] = None /\ object' = [object EXCEPT ![e] = new] /\ table' = table /\ running' = running
  BY DEF On
<1>4. object'[e] = new /\ \A o \in Endpoints \ {e} : object'[o] = object[o]
  BY <1>1, <1>3
<1>5. endpoints' \in Seq(Endpoints) /\ Range(endpoints') = Range(endpoints) \cup {e}
  BY <1>1, RangeAppend DEF On
<1>6. /\ native' \in Seq(Native)
      /\ Range(native') = IF ws THEN Range(native) \cup {entry} ELSE Range(native)
  <2>1. CASE ws
    <3>1. native' = Append(native, entry)
      BY <2>1 DEF On
    <3> HIDE DEF Native, entry
    <3>2. native' \in Seq(Native)
      BY <1>1, <1>2, <3>1
    <3>3. Range(native') = Range(native) \cup {entry}
      BY <1>1, <1>2, <3>1, RangeAppend
    <3> QED
      BY <2>1, <3>2, <3>3
  <2>2. CASE ~ ws
    BY <1>1, <2>2 DEF On
  <2> QED
    BY <2>1, <2>2
<1>7. methods' \in Seq(Methods) /\ Range(methods) \subseteq Range(methods')
  <2>1. CASE method \notin Range(methods) \cup {AnyMethod}
    <3>1. methods' = Append(methods, method) /\ method \in Methods
      BY <2>1 DEF On
    <3> QED
      BY <1>1, <3>1, RangeAppend
  <2>2. CASE method \in Range(methods) \cup {AnyMethod}
    BY <1>1, <2>2 DEF On
  <2> QED
    BY <2>1, <2>2
<1>8. /\ \A o \in Range(endpoints) : o \in Endpoints /\ o # e
      /\ \A n \in Range(native) : n.ctx \in Endpoints /\ n.ctx # e
      /\ \A r \in Range(table) : r.ctx # None => r.ctx \in Endpoints /\ r.ctx # e
  <2>1. \A o \in Range(endpoints) : o \in Endpoints /\ object[o] # None
    BY <1>1 DEF Range, Inv, ListsLive, Live
  <2>2. \A n \in Range(native) : n \in Native /\ object[n.ctx] # None
    <3> HIDE DEF Native
    <3> QED
      BY <1>1 DEF Range, Inv, ListsLive
  <2>3. \A r \in Range(table) : r \in Entries
    <3>1. table \in Seq(Entries)
      BY <1>1 DEF Entries
    <3> QED
      BY <3>1 DEF Range
  <2>4. \A r \in Range(table) : r.ctx # None => object[r.ctx] # None
    BY DEF Inv, TableLive
  <2> QED
    BY <1>3, <2>1, <2>2, <2>3, <2>4 DEF Entries
<1>9. TypeOK'
  <2>1. object' \in [Endpoints -> Objects \cup {None}]
    BY <1>1, <1>2, <1>3
  <2> QED
    BY <1>5, <1>6, <1>7, <2>1 DEF Inv, AllForgotten, TypeOK, On
<1>10. ListsLive'
  <2>1. \A o \in Range(endpoints') : object'[o] # None /\ object'[o].live
    BY <1>2, <1>4, <1>5, <1>8 DEF Inv, ListsLive, Live
  <2>2. ASSUME NEW n \in Range(native')
        PROVE  /\ object'[n.ctx] # None
               /\ n.uri = object'[n.ctx].uri
               /\ (object'[n.ctx] # None /\ object'[n.ctx].live) \/ object'[n.ctx].method # Get
    <3>1. CASE n \in Range(native)
      BY <1>4, <1>8, <3>1 DEF Inv, ListsLive, Live
    <3>2. CASE n = entry
      BY <1>2, <1>4, <3>2
    <3> QED
      BY <1>6, <3>1, <3>2
  <2> QED
    BY <2>1, <2>2 DEF ListsLive, Live
<1>11. TableLive'
  BY <1>3, <1>4, <1>8 DEF Inv, TableLive, Live
<1>12. AllForgotten'
  <2>1. Range(native) \subseteq Range(native')
    BY <1>6
  <2>2. \A r \in Range(table') : <<r.uri, r.method>> \in Forgotten
    BY <1>3 DEF Inv, AllForgotten
  <2>3. Forgotten \subseteq Forgotten'
    BY <1>7, <2>1 DEF Forgotten
  <2> QED
    BY <1>9, <2>2, <2>3 DEF AllForgotten
<1>13. StaysListed'
  <2> SUFFICES ASSUME NEW o \in Range(endpoints'), object'[o].ws, Alone(o)'
               PROVE  [uri |-> object'[o].uri, ctx |-> o] \in Range(native')
    BY DEF StaysListed
  <2>1. CASE o = e
    BY <1>4, <1>6, <2>1
  <2>2. CASE o # e
    <3>1. o \in Range(endpoints) /\ object'[o] = object[o]
      BY <1>4, <1>5, <1>8, <2>2
    <3>2. Alone(o)
      BY <1>3, <1>4, <3>1 DEF Alone
    <3> QED
      BY <1>6, <3>1, <3>2 DEF Inv, StaysListed
  <2> QED
    BY <2>1, <2>2
<1> QED
  BY <1>10, <1>11, <1>12, <1>13 DEF Inv

\* What is removed leaves nothing that points to it, and what stays keeps its entry.
LEMMA RemoveEndpointInv ==
  ASSUME Inv, NEW e \in Endpoints, RemoveEndpoint(e)
  PROVE  Inv'
<1> DEFINE gone == [object[e] EXCEPT !.live = FALSE]
           Native == [uri: Uris, ctx: Endpoints]
<1>1. /\ object \in [Endpoints -> Objects \cup {None}]
      /\ endpoints \in Seq(Endpoints) /\ native \in Seq(Native)
      /\ table \in Seq(Entries)
  BY DEF Inv, AllForgotten, TypeOK, Entries
<1>2. object[e] # None /\ object[e] \in Objects
  BY <1>1 DEF RemoveEndpoint, Inv, ListsLive, Live
<1>3. /\ gone \in Objects /\ gone # None /\ ~ gone.live
      /\ gone.uri = object[e].uri /\ gone.method = object[e].method /\ gone.ws = object[e].ws
  BY <1>2, NoneAssumption DEF Objects
<1>4. object' = [object EXCEPT ![e] = gone]
  BY DEF RemoveEndpoint
<1>5. object'[e] = gone /\ \A o \in Endpoints \ {e} : object'[o] = object[o]
  BY <1>1, <1>4
<1> HIDE DEF gone
<1>6. endpoints' \in Seq(Endpoints) /\ Range(endpoints') = Range(endpoints) \ {e}
  BY <1>1, WithoutProperties DEF RemoveEndpoint
<1>7. native' \in Seq(Native) /\ Range(native') = Range(native) \ OwnEntries(e)
  <2>1. PICK own : own = OwnEntries(e)
    OBVIOUS
  <2>2. native' = Without(native, own)
    BY <2>1 DEF RemoveEndpoint
  <2> HIDE DEF Native
  <2> QED
    BY <1>1, <2>1, <2>2, WithoutProperties
<1>8. /\ table' \in Seq(Entries) /\ Range(table') \subseteq Range(table)
      /\ ~ running => table' = <<>>
      /\ \A r \in Range(table') : \A n \in OwnEntries(e) : <<r.uri, r.method>> # <<n.uri, Get>>
  <2>1. PICK pairs, tbl : pairs = {<<n.uri, Get>> : n \in OwnEntries(e)} /\ tbl = table
    OBVIOUS
  <2>2. CASE running
    <3>1. table' = Unregister(tbl, pairs)
      BY <2>1, <2>2 DEF RemoveEndpoint
    <3>2. /\ Unregister(tbl, pairs) \in Seq(Entries)
          /\ Range(Unregister(tbl, pairs)) = {r \in Range(tbl) : <<r.uri, r.method>> \notin pairs}
      <4>1. tbl \in Seq(Entries)
        BY <1>1, <2>1
      <4> HIDE DEF Native
      <4> QED
        BY <4>1, UnregisterProperties
    <3> QED
      BY <2>1, <2>2, <3>1, <3>2
  <2>3. CASE ~ running
    <3>1. table = <<>> /\ table' = table
      BY <2>3 DEF RemoveEndpoint, Inv, TableLive
    <3> QED
      BY <1>1, <3>1, EmptyList
  <2> QED
    BY <2>2, <2>3
<1>9. /\ \A o \in Range(endpoints) : o \in Endpoints
      /\ \A n \in Range(native) : n.ctx \in Endpoints /\ n.uri \in Uris
      /\ \A r \in Range(table) : r.ctx # None => r.ctx \in Endpoints
  <2>1. \A n \in Range(native) : n \in Native
    <3> HIDE DEF Native
    <3> QED
      BY <1>1 DEF Range
  <2>2. \A r \in Range(table) : r \in Entries
    BY <1>1 DEF Range
  <2>3. \A o \in Range(endpoints) : o \in Endpoints
    BY <1>1 DEF Range
  <2> QED
    BY <2>1, <2>2, <2>3 DEF Entries
<1>10. TypeOK'
  <2>1. object' \in [Endpoints -> Objects \cup {None}]
    BY <1>1, <1>3, <1>4
  <2> QED
    BY <1>6, <1>7, <1>8, <2>1 DEF Inv, AllForgotten, TypeOK, RemoveEndpoint, Entries
<1>11. ListsLive'
  <2>1. \A o \in Range(endpoints') : object'[o] # None /\ object'[o].live
    BY <1>5, <1>6, <1>9 DEF Inv, ListsLive, Live
  <2>2. ASSUME NEW n \in Range(native')
        PROVE  /\ object'[n.ctx] # None
               /\ n.uri = object'[n.ctx].uri
               /\ (object'[n.ctx] # None /\ object'[n.ctx].live) \/ object'[n.ctx].method # Get
    <3>1. n \in Range(native) /\ n \notin OwnEntries(e) /\ n.ctx \in Endpoints
      BY <1>7, <1>9
    <3>2. CASE n.ctx # e
      BY <1>5, <3>1, <3>2 DEF Inv, ListsLive, Live
    <3>3. CASE n.ctx = e
      <4>1. n.uri = object[e].uri
        BY <3>1, <3>3 DEF Inv, ListsLive
      <4>2. object[e].method # Get
        BY <3>1, <4>1 DEF OwnEntries
      <4> QED
        BY <1>3, <1>5, <3>3, <4>1, <4>2
    <3> QED
      BY <3>2, <3>3
  <2> QED
    BY <2>1, <2>2 DEF ListsLive, Live
<1>12. TableLive'
  <2> SUFFICES ASSUME NEW r \in Range(table'), r.ctx # None
               PROVE  /\ object'[r.ctx] # None
                      /\ r.uri = object'[r.ctx].uri
                      /\ r.method = Get
                      /\ (object'[r.ctx] # None /\ object'[r.ctx].live) \/ object'[r.ctx].method # Get
    BY <1>8 DEF TableLive, Live, RemoveEndpoint
  <2>1. r \in Range(table) /\ r.ctx \in Endpoints
    BY <1>8, <1>9
  <2>2. CASE r.ctx # e
    BY <1>5, <2>1, <2>2 DEF Inv, TableLive, Live
  <2>3. CASE r.ctx = e
    <3>1. r.uri = object[e].uri /\ r.method = Get
      BY <2>1, <2>3 DEF Inv, TableLive
    <3>2. <<r.uri, r.method>> \in Forgotten
      BY <2>1 DEF Inv, AllForgotten
    <3>3. r.uri \in Uris
      BY <1>2, <3>1 DEF Objects
    <3>4. PICK n \in Range(native) : n.uri = r.uri
      BY <3>2, <3>3, UrisAssumption DEF Forgotten
    <3>5. object[e].method # Get
      BY <1>8, <3>1, <3>4 DEF OwnEntries
    <3> QED
      BY <1>3, <1>5, <2>3, <3>1, <3>5
  <2> QED
    BY <2>2, <2>3
<1>13. AllForgotten'
  <2> SUFFICES ASSUME NEW r \in Range(table')
               PROVE  \/ \E n \in Range(native') : <<r.uri, r.method>> = <<n.uri, Get>>
                      \/ \E m \in Range(methods') : <<r.uri, r.method>> = <<Star, m>>
    BY <1>10 DEF AllForgotten, Forgotten
  <2>1. <<r.uri, r.method>> \in Forgotten
    BY <1>8 DEF Inv, AllForgotten
  <2>2. CASE \E n \in Range(native) : <<r.uri, r.method>> = <<n.uri, Get>>
    BY <1>7, <1>8, <2>2
  <2>3. CASE \E m \in Range(methods) : <<r.uri, r.method>> = <<Star, m>>
    BY <2>3 DEF RemoveEndpoint
  <2> QED
    BY <2>1, <2>2, <2>3 DEF Forgotten
<1>14. StaysListed'
  <2> SUFFICES ASSUME NEW o \in Range(endpoints'), object'[o].ws, Alone(o)'
               PROVE  [uri |-> object'[o].uri, ctx |-> o] \in Range(native')
    BY DEF StaysListed
  <2>1. o \in Range(endpoints) /\ o # e /\ o \in Endpoints /\ object'[o] = object[o]
    BY <1>5, <1>6, <1>9
  <2>2. \A p \in Endpoints \ {o} : object[p] # None => object[p].uri # object[o].uri
    <3> SUFFICES ASSUME NEW p \in Endpoints \ {o}, object[p] # None
                 PROVE  object[p].uri # object[o].uri
      OBVIOUS
    <3>1. object'[p] # None /\ object'[p].uri = object[p].uri
      BY <1>3, <1>5
    <3> QED
      BY <2>1, <3>1 DEF Alone
  <2>3. [uri |-> object[o].uri, ctx |-> o] \in Range(native)
    BY <2>1, <2>2 DEF Inv, StaysListed, Alone
  <2>4. [uri |-> object[o].uri, ctx |-> o] \notin OwnEntries(e)
    BY <1>2, <2>1, <2>2 DEF OwnEntries
  <2> QED
    BY <1>7, <2>1, <2>3, <2>4
<1> QED
  BY <1>11, <1>12, <1>13, <1>14 DEF Inv

-----------------------------------------------------------------------------
(* The invariant is inductive. *)

LEMMA StepInv ==
  ASSUME Inv, [Next]_vars
  PROVE  Inv'
<1>1. TypeOK
  BY DEF Inv, AllForgotten
<1>2. limit \in Nat /\ tlsLimit \in Nat /\ running \in BOOLEAN /\ methods \in Seq(Methods)
  BY <1>1 DEF TypeOK
<1>3. ASSUME NotStarted, UNCHANGED <<kind, object, endpoints, native, methods>> PROVE Inv'
  <2>1. Len(methods) \in Nat /\ Len(native) \in Nat
    BY <1>1 DEF TypeOK
  <2>2. limit' \in Nat /\ tlsLimit' \in Nat
    BY <1>2, <1>3, <2>1 DEF NotStarted, StartServer, HandlersNeeded
  <2>3. table' = <<>> /\ running' \in BOOLEAN
    BY <1>3 DEF NotStarted
  <2> QED
    BY <1>3, <2>2, <2>3, EmptyTableInv
<1>4. ASSUME Stopped \/ NotStopped, UNCHANGED <<kind, object, endpoints, native, methods, limit, tlsLimit>>
      PROVE  Inv'
  <2>1. table' = <<>> /\ running' \in BOOLEAN
    BY <1>4, StopEmpties
  <2>2. limit' \in Nat /\ tlsLimit' \in Nat
    BY <1>2, <1>4
  <2> QED
    BY <1>4, <2>1, <2>2, EmptyTableInv
<1>5. CASE \E e \in Endpoints, uri \in Uris, method \in Methods \cup {AnyMethod}, ws \in BOOLEAN :
             On(e, uri, method, ws)
  BY <1>5, OnInv
<1>6. CASE \E e \in Endpoints : RemoveEndpoint(e)
  BY <1>6, RemoveEndpointInv
<1>7. CASE Start
  BY <1>3, <1>7, StartedInv DEF Start
<1>8. CASE Stop
  BY <1>4, <1>8 DEF Stop
<1>9. CASE Restart
  BY <1>3, <1>4, <1>9, StartedInv DEF Restart
<1>10. CASE Reset
  <2>1. table' = <<>> /\ running' \in BOOLEAN
    BY <1>2, <1>10, StopEmpties DEF Reset, Inv, TableLive
  <2>2. Emptied /\ methods' \in Seq(Methods) /\ limit' \in Nat /\ tlsLimit' \in Nat /\ kind' = kind
    BY <1>2, <1>10 DEF Reset
  <2> QED
    BY <2>1, <2>2, EmptiedInv
<1>11. CASE Destroy
  <2>1. table' = <<>> /\ running' \in BOOLEAN
    BY <1>2, <1>11 DEF Destroy, Inv, TableLive
  <2>2. Emptied /\ methods' \in Seq(Methods) /\ limit' \in Nat /\ tlsLimit' \in Nat /\ kind' = kind
    BY <1>11, SupportedAssumption, KindsAssumption DEF Destroy
  <2> QED
    BY <2>1, <2>2, EmptiedInv
<1>12. CASE UNCHANGED vars
  BY <1>12 DEF vars, Inv, ListsLive, TableLive, AllForgotten, TypeOK, StaysListed, Live, Alone, Forgotten
<1> QED
  BY <1>5, <1>6, <1>7, <1>8, <1>9, <1>10, <1>11, <1>12 DEF Next

LEMMA InductiveInvariant == Spec => []Inv
<1> QED
  BY InitialInv, StepInv, PTL DEF Spec

-----------------------------------------------------------------------------
(* What follows. *)

\* Neither the server's lists nor esp_http_server ever have a pointer to an endpoint that
\* has been deleted, unless it was made for another method than the one it is registered with
\* (removeEndpoint, reset and the destructor of PsychicHttpServer).
THEOREM PointersStayLive == Spec => []PointersLive
<1>1. Inv => PointersLive
  BY DEF Inv, ListsLive, TableLive, PointersLive
<1> QED
  BY <1>1, InductiveInvariant, PTL

\* Whatever was added and removed since the start, stop() knows of every handler
\* esp_http_server has, and so leaves none registered.
THEOREM EverythingForgotten == Spec => []AllForgotten
<1>1. Inv => AllForgotten
  BY DEF Inv
<1> QED
  BY <1>1, InductiveInvariant, PTL

\* An endpoint with a URI of its own is listed for the next start until it is removed,
\* whichever others are removed before it.
THEOREM ListedUntilRemoved == Spec => []StaysListed
<1>1. Inv => StaysListed
  BY DEF Inv
<1> QED
  BY <1>1, InductiveInvariant, PTL

\* The limit start() computes is enough: an esp_http_server that has got any handler has
\* got one for every listed entry and, after those, one for every method.
THEOREM NothingRefused == Spec => StartRegistersAll
<1> DEFINE Registered ==
             (\E r \in Range(table') : r \notin Range(table))
               => /\ \A n \in Range(native') : \E r \in Range(table') :
                       r.uri = n.uri /\ r.method = Get /\ r.ctx # None
                  /\ \A m \in Range(methods') : \E r \in Range(table') :
                       r.uri = Star /\ r.method = m
<1>1. ASSUME Inv, [Next]_vars PROVE [Registered]_vars
  <2>1. TypeOK /\ table \in Seq(Entries)
    BY <1>1 DEF Inv, AllForgotten, TypeOK, Entries
  <2>2. ASSUME Started, UNCHANGED <<native, methods>> PROVE Registered
    BY <2>1, <2>2, TableOfStart
  <2>3. ASSUME Range(table') \subseteq Range(table) PROVE Registered
    BY <2>3
  <2>4. ASSUME table' = <<>> PROVE Registered
    BY <2>3, <2>4, EmptyList
  <2> HIDE DEF Registered
  <2>5. CASE \E e \in Endpoints, uri \in Uris, method \in Methods \cup {AnyMethod}, ws \in BOOLEAN :
               On(e, uri, method, ws)
    BY <2>3, <2>5 DEF On
  <2>6. CASE \E e \in Endpoints : RemoveEndpoint(e)
    <3>1. PICK e \in Endpoints : RemoveEndpoint(e)
      BY <2>6
    <3>2. PICK pairs : pairs = {<<n.uri, Get>> : n \in OwnEntries(e)}
      OBVIOUS
    <3>3. table' = Unregister(table, pairs) \/ table' = table
      BY <3>1, <3>2 DEF RemoveEndpoint
    <3>4. Range(Unregister(table, pairs)) \subseteq Range(table)
      <4>1. PICK tbl : tbl = table
        OBVIOUS
      <4>2. Range(Unregister(tbl, pairs)) = {r \in Range(tbl) : <<r.uri, r.method>> \notin pairs}
        BY <2>1, <4>1, UnregisterProperties
      <4> QED
        BY <4>1, <4>2
    <3> QED
      BY <2>3, <3>3, <3>4
  <2>7. CASE Start
    BY <2>2, <2>4, <2>7 DEF Start, NotStarted
  <2>8. CASE Stop
    BY <1>1, <2>4, <2>8, StopEmpties DEF Stop
  <2>9. CASE Restart
    BY <1>1, <2>2, <2>4, <2>9, StopEmpties DEF Restart, NotStarted
  <2>10. CASE Reset
    BY <1>1, <2>3, <2>4, <2>10, StopEmpties DEF Reset
  <2>11. CASE Destroy
    BY <2>3, <2>11 DEF Destroy
  <2> QED
    BY <1>1, <2>5, <2>6, <2>7, <2>8, <2>9, <2>10, <2>11 DEF Next
<1> QED
  BY <1>1, InductiveInvariant, PTL DEF Spec, StartRegistersAll

-----------------------------------------------------------------------------
(* A browser and the server: headers                                       *)

\* What is left of the first k headers once those of a field are erased: the others, none
\* behind the place it had
InFront(hs, i, field, t, j) == \A a \in 1 .. i - 1 : hs[a].field # field => \E b \in 1 .. j - 1 : t[b] = hs[a]
Erases(A, hs, field, k, t) ==
  /\ t \in Seq(A) /\ Len(t) <= k
  /\ \A j \in 1 .. Len(t) : \E i \in 1 .. k : t[j] = hs[i] /\ hs[i].field # field
  /\ \A i \in 1 .. k : hs[i].field # field => \E j \in 1 .. i : j <= Len(t) /\ t[j] = hs[i]
  /\ \A j \in 1 .. Len(t) : \E i \in 1 .. k : t[j] = hs[i] /\ InFront(hs, i, field, t, j)

\* One more header is looked at.
LEMMA EraseOn ==
  ASSUME NEW A, NEW n \in Nat, NEW hs, \A i \in 1 .. n : hs[i] \in A, NEW field,
         NEW k \in 0 .. n - 1, NEW t, Erases(A, hs, field, k, t)
  PROVE  Erases(A, hs, field, k + 1, IF hs[k + 1].field = field THEN t ELSE Append(t, hs[k + 1]))
<1>1. k + 1 \in 1 .. n /\ k \in Nat /\ t \in Seq(A) /\ hs[k + 1] \in A
  BY DEF Erases
<1>2. PICK m \in Nat : m = Len(t)
  BY <1>1
<1>3. m <= k /\ \A i \in 1 .. k + 1 : i \in 1 .. k \/ i = k + 1
  BY <1>2 DEF Erases
<1>4. CASE hs[k + 1].field = field
  <2>1. \A j \in 1 .. m : \E i \in 1 .. k + 1 : t[j] = hs[i] /\ hs[i].field # field
    <3> SUFFICES ASSUME NEW j \in 1 .. m
                 PROVE  \E i \in 1 .. k + 1 : t[j] = hs[i] /\ hs[i].field # field
      OBVIOUS
    <3>1. PICK i \in 1 .. k : t[j] = hs[i] /\ hs[i].field # field
      BY <1>2 DEF Erases
    <3> QED
      BY <3>1
  <2>2. \A i \in 1 .. k + 1 : hs[i].field # field => \E j \in 1 .. i : j <= m /\ t[j] = hs[i]
    BY <1>2, <1>3, <1>4 DEF Erases
  <2>3. \A j \in 1 .. m : \E i \in 1 .. k + 1 : t[j] = hs[i] /\ InFront(hs, i, field, t, j)
    <3> SUFFICES ASSUME NEW j \in 1 .. m
                 PROVE  \E i \in 1 .. k + 1 : t[j] = hs[i] /\ InFront(hs, i, field, t, j)
      OBVIOUS
    <3>1. PICK i \in 1 .. k : t[j] = hs[i] /\ InFront(hs, i, field, t, j)
      BY <1>2 DEF Erases
    <3> QED
      BY <3>1
  <2> QED
    BY <1>1, <1>2, <1>3, <1>4, <2>1, <2>2, <2>3 DEF Erases
<1>5. CASE hs[k + 1].field # field
  <2> DEFINE u == Append(t, hs[k + 1])
  <2>1. /\ u \in Seq(A) /\ Len(u) = m + 1 /\ u[m + 1] = hs[k + 1]
        /\ \A j \in 1 .. m : u[j] = t[j]
    BY <1>1, <1>2
  <2> HIDE DEF u
  <2>2. \A j \in 1 .. m + 1 : \E i \in 1 .. k + 1 : u[j] = hs[i] /\ hs[i].field # field
    <3> SUFFICES ASSUME NEW j \in 1 .. m + 1
                 PROVE  \E i \in 1 .. k + 1 : u[j] = hs[i] /\ hs[i].field # field
      OBVIOUS
    <3>1. CASE j = m + 1
      BY <1>5, <2>1, <3>1
    <3>2. CASE j # m + 1
      <4>1. j \in 1 .. m
        BY <3>2
      <4>2. PICK i \in 1 .. k : t[j] = hs[i] /\ hs[i].field # field
        BY <1>2, <4>1 DEF Erases
      <4> QED
        BY <2>1, <4>1, <4>2
    <3> QED
      BY <3>1, <3>2
  <2>3. \A i \in 1 .. k + 1 : hs[i].field # field => \E j \in 1 .. i : j <= m + 1 /\ u[j] = hs[i]
    <3> SUFFICES ASSUME NEW i \in 1 .. k + 1, hs[i].field # field
                 PROVE  \E j \in 1 .. i : j <= m + 1 /\ u[j] = hs[i]
      OBVIOUS
    <3>1. CASE i = k + 1
      BY <1>3, <2>1, <3>1
    <3>2. CASE i # k + 1
      <4>1. i \in 1 .. k
        BY <3>2
      <4>2. PICK j \in 1 .. i : j <= m /\ t[j] = hs[i]
        BY <1>2, <4>1 DEF Erases
      <4> QED
        BY <2>1, <4>1, <4>2
    <3> QED
      BY <3>1, <3>2
  <2>4. \A j \in 1 .. m + 1 : \E i \in 1 .. k + 1 : u[j] = hs[i] /\ InFront(hs, i, field, u, j)
    <3> SUFFICES ASSUME NEW j \in 1 .. m + 1
                 PROVE  \E i \in 1 .. k + 1 : u[j] = hs[i] /\ InFront(hs, i, field, u, j)
      OBVIOUS
    <3>1. CASE j = m + 1
      <4>1. ASSUME NEW a \in 1 .. (k + 1) - 1, hs[a].field # field PROVE \E b \in 1 .. j - 1 : u[b] = hs[a]
        <5>1. a \in 1 .. k
          BY <4>1
        <5>2. PICK b \in 1 .. a : b <= m /\ t[b] = hs[a]
          BY <1>2, <4>1, <5>1 DEF Erases
        <5>3. b \in 1 .. m /\ b \in 1 .. j - 1
          BY <3>1, <5>2
        <5> QED
          BY <2>1, <5>2, <5>3
      <4>2. InFront(hs, k + 1, field, u, j)
        BY <4>1 DEF InFront
      <4> QED
        BY <1>1, <2>1, <3>1, <4>2
    <3>2. CASE j # m + 1
      <4>1. j \in 1 .. m
        BY <3>2
      <4>2. PICK i \in 1 .. k : t[j] = hs[i] /\ InFront(hs, i, field, t, j)
        BY <1>2, <4>1 DEF Erases
      <4>3. \A b \in 1 .. j - 1 : u[b] = t[b]
        BY <2>1, <4>1
      <4>4. InFront(hs, i, field, u, j)
        BY <4>2, <4>3 DEF InFront
      <4> QED
        BY <2>1, <4>1, <4>2, <4>4
    <3> QED
      BY <3>1, <3>2
  <2>5. Erases(A, hs, field, k + 1, u)
    BY <1>3, <2>1, <2>2, <2>3, <2>4 DEF Erases
  <2> QED
    BY <1>5, <2>5 DEF u
<1> QED
  BY <1>4, <1>5

\* addHeader erases the headers of the field, and only those.
LEMMA ErasedProperties ==
  ASSUME NEW A, NEW hs \in Seq(A), NEW field
  PROVE  Erases(A, hs, field, Len(hs), Erased(hs, field))
<1> DEFINE Body(g) == [i \in 0 .. Len(hs) |->
                         IF i = 0 THEN <<>>
                         ELSE IF hs[i].field = field THEN g[i - 1] ELSE Append(g[i - 1], hs[i])]
           step == [i \in 1 .. Len(hs) |->
                      [t \in Seq(A) |-> IF hs[i].field = field THEN t ELSE Append(t, hs[i])]]
           kept == CHOOSE g : g = Body(g)
<1>1. <<>> \in Seq(A) /\ Len(hs) \in Nat /\ step \in [1 .. Len(hs) -> [Seq(A) -> Seq(A)]]
  OBVIOUS
<1>2. PICK g \in [0 .. Len(hs) -> Seq(A)] :
        g[0] = <<>> /\ \A i \in 1 .. Len(hs) : g[i] = step[i][g[i - 1]]
  <2>1. PICK Q, b, n : Q = Seq(A) /\ b = <<>> /\ n = Len(hs)
    OBVIOUS
  <2>2. b \in Q /\ n \in Nat /\ step \in [1 .. n -> [Q -> Q]]
    BY <1>1, <2>1
  <2> HIDE DEF step
  <2>3. Computed(Q, b, n, step)
    BY <2>2, Recursion, Zenon
  <2> QED
    BY <2>1, <2>3 DEF Computed
<1>3. ASSUME NEW i \in 1 .. Len(hs)
      PROVE  g[i] = IF hs[i].field = field THEN g[i - 1] ELSE Append(g[i - 1], hs[i])
  <2>1. g[i - 1] \in Seq(A)
    OBVIOUS
  <2>2. g[i] = step[i][g[i - 1]]
    BY <1>2
  <2> QED
    BY <2>1, <2>2
<1>4. g = Body(g)
  <2>1. \A i \in 0 .. Len(hs) :
          g[i] = IF i = 0 THEN <<>> ELSE IF hs[i].field = field THEN g[i - 1] ELSE Append(g[i - 1], hs[i])
    <3>1. \A i \in 0 .. Len(hs) : i = 0 \/ i \in 1 .. Len(hs)
      OBVIOUS
    <3> QED
      BY <1>2, <1>3, <3>1
  <2>2. g = [i \in 0 .. Len(hs) |-> g[i]]
    OBVIOUS
  <2> QED
    BY <2>1, <2>2
<1>5. kept = Body(kept)
  <2> HIDE DEF Body
  <2> QED
    BY <1>4
<1>6. Erased(hs, field) = kept[Len(hs)]
  BY DEF Erased
<1> DEFINE T == {k \in 0 .. Len(hs) : Erases(A, hs, field, k, kept[k])}
<1>7. 0 \in T
  <2>1. kept[0] = <<>>
    <3> HIDE DEF kept
    <3> QED
      BY <1>5
  <2>2. PICK t : t = kept[0]
    OBVIOUS
  <2>3. t \in Seq(A) /\ Len(t) = 0
    BY <1>1, <2>1, <2>2
  <2>4. Erases(A, hs, field, 0, t)
    BY <2>3 DEF Erases
  <2>5. 0 \in 0 .. Len(hs)
    BY <1>1
  <2> HIDE DEF kept
  <2> QED
    BY <2>2, <2>4, <2>5
<1>8. ASSUME NEW k \in 0 .. Len(hs) - 1, k \in T PROVE k + 1 \in T
  <2> HIDE DEF kept
  <2>1. k + 1 \in 1 .. Len(hs) /\ k + 1 \in 0 .. Len(hs) /\ k + 1 # 0 /\ (k + 1) - 1 = k
    OBVIOUS
  <2>2. kept[k + 1] = IF hs[k + 1].field = field THEN kept[k] ELSE Append(kept[k], hs[k + 1])
    BY <1>5, <2>1
  <2>3. \A i \in 1 .. Len(hs) : hs[i] \in A
    OBVIOUS
  <2>4. Erases(A, hs, field, k, kept[k])
    BY <1>8
  <2>5. Erases(A, hs, field, k + 1, kept[k + 1])
    BY <1>1, <2>2, <2>3, <2>4, EraseOn
  <2> QED
    BY <2>1, <2>5
<1> HIDE DEF step, kept, Body
<1>9. \A k \in 0 .. Len(hs) : k \in T
  <2> HIDE DEF T
  <2> QED
    BY <1>1, <1>7, <1>8, InductionUpto
<1>10. Len(hs) \in 0 .. Len(hs)
  BY <1>1
<1> QED
  BY <1>6, <1>9, <1>10

IsResponse(r) == \E A, code, hs, body : hs \in Seq(A) /\ r = [code |-> code, headers |-> hs, body |-> body]

\* The values a field has are in V.
Says(r, field, V) == \A i \in 1 .. Len(r.headers) : r.headers[i].field = field => r.headers[i].value \in V

\* One of the first n headers gives the field this value.
Early(r, field, value, n) == \E i \in 1 .. n : i <= Len(r.headers) /\ r.headers[i] = Header(field, value)

\* What becomes of a response to which a header is added
Added(r, field, value, q) ==
  /\ IsResponse(q) /\ q.code = r.code /\ q.body = r.body
  /\ Len(r.headers) \in Nat /\ Len(q.headers) \in 1 .. Len(r.headers) + 1
  /\ q.headers[Len(q.headers)] = Header(field, value)
  /\ \A i \in 1 .. Len(q.headers) - 1 :
       q.headers[i].field # field /\ \E j \in 1 .. Len(r.headers) : q.headers[i] = r.headers[j]
  /\ \A i \in 1 .. Len(r.headers) :
       r.headers[i].field # field => \E j \in 1 .. i : j <= Len(q.headers) /\ q.headers[j] = r.headers[i]
  /\ \A i \in 1 .. Len(q.headers) - 1 : \E j \in 1 .. Len(r.headers) :
       q.headers[i] = r.headers[j] /\ InFront(r.headers, j, field, q.headers, i)

LEMMA MadeIsResponse ==
  ASSUME NEW A, NEW code, NEW hs \in Seq(A), NEW body, NEW r, r = [code |-> code, headers |-> hs, body |-> body]
  PROVE  IsResponse(r)
BY Zenon DEF IsResponse

LEMMA AddHeaderAdds ==
  ASSUME NEW r, IsResponse(r), NEW field, NEW value
  PROVE  Added(r, field, value, AddHeader(r, field, value))
<1>1. PICK A, code, hs, body : hs \in Seq(A) /\ r = [code |-> code, headers |-> hs, body |-> body]
  BY DEF IsResponse
<1>2. PICK e : e = Erased(hs, field)
  OBVIOUS
<1>3. Erases(A, hs, field, Len(hs), e)
  BY <1>1, <1>2, ErasedProperties
<1>4. PICK n \in Nat, m \in Nat : n = Len(hs) /\ m = Len(e) /\ m <= n
  BY <1>1, <1>3 DEF Erases
<1>5. /\ e \in Seq(A)
      /\ \A j \in 1 .. m : \E i \in 1 .. n : e[j] = hs[i] /\ hs[i].field # field
      /\ \A i \in 1 .. n : hs[i].field # field => \E j \in 1 .. i : j <= m /\ e[j] = hs[i]
      /\ \A j \in 1 .. m : \E i \in 1 .. n : e[j] = hs[i] /\ InFront(hs, i, field, e, j)
  BY <1>3, <1>4 DEF Erases
<1>6. PICK B, h : B = A \cup {h} /\ h = Header(field, value)
  OBVIOUS
<1>7. PICK u : u = Append(e, h)
  OBVIOUS
<1>8. /\ u \in Seq(B) /\ Len(u) = m + 1 /\ u[m + 1] = h
      /\ \A j \in 1 .. m : u[j] = e[j]
  <2>1. e \in Seq(B) /\ h \in B
    BY <1>5, <1>6
  <2> QED
    BY <1>4, <1>7, <2>1
<1>9. PICK q : q = AddHeader(r, field, value)
  OBVIOUS
<1>10. q = [code |-> code, headers |-> u, body |-> body]
  BY <1>1, <1>2, <1>6, <1>7, <1>9 DEF AddHeader
<1>11. IsResponse(q)
  BY <1>8, <1>10, MadeIsResponse
<1>12. \A i \in 1 .. m : u[i].field # field /\ \E j \in 1 .. n : u[i] = hs[j]
  <2> SUFFICES ASSUME NEW i \in 1 .. m PROVE u[i].field # field /\ \E j \in 1 .. n : u[i] = hs[j]
    OBVIOUS
  <2>1. PICK j \in 1 .. n : e[i] = hs[j] /\ hs[j].field # field
    BY <1>5
  <2>2. u[i] = e[i]
    BY <1>8
  <2> QED
    BY <2>1, <2>2
<1>13. \A i \in 1 .. n : hs[i].field # field => \E j \in 1 .. i : j <= m + 1 /\ u[j] = hs[i]
  <2> SUFFICES ASSUME NEW i \in 1 .. n, hs[i].field # field
               PROVE  \E j \in 1 .. i : j <= m + 1 /\ u[j] = hs[i]
    OBVIOUS
  <2>1. PICK j \in 1 .. i : j <= m /\ e[j] = hs[i]
    BY <1>5
  <2>2. j \in 1 .. m /\ j <= m + 1
    BY <2>1
  <2> QED
    BY <1>8, <2>1, <2>2
<1>14. /\ r.code = code /\ r.headers = hs /\ r.body = body /\ q.code = code /\ q.headers = u /\ q.body = body
  BY <1>1, <1>10
<1>15. m + 1 \in 1 .. n + 1 /\ (m + 1) - 1 = m
  BY <1>4
<1>16. \A i \in 1 .. m : \E j \in 1 .. n : u[i] = hs[j] /\ InFront(hs, j, field, u, i)
  <2> SUFFICES ASSUME NEW i \in 1 .. m PROVE \E j \in 1 .. n : u[i] = hs[j] /\ InFront(hs, j, field, u, i)
    OBVIOUS
  <2>1. PICK j \in 1 .. n : e[i] = hs[j] /\ InFront(hs, j, field, e, i)
    BY <1>5
  <2>2. \A b \in 1 .. i - 1 : u[b] = e[b]
    BY <1>8
  <2>3. InFront(hs, j, field, u, i)
    BY <2>1, <2>2 DEF InFront
  <2> QED
    BY <1>8, <2>1, <2>3
<1>17. Added(r, field, value, q)
  <2>1. Len(r.headers) = n /\ Len(q.headers) = m + 1 /\ r.headers = hs /\ q.headers = u
    BY <1>4, <1>8, <1>14
  <2>2. \A i \in 1 .. m + 1 - 1 : i \in 1 .. m
    BY <1>15
  <2>3. q.headers[Len(q.headers)] = Header(field, value)
    BY <1>6, <1>8, <2>1
  <2>4. \A i \in 1 .. Len(q.headers) - 1 :
          q.headers[i].field # field /\ \E j \in 1 .. Len(r.headers) : q.headers[i] = r.headers[j]
    BY <1>12, <2>1, <2>2
  <2>5. \A i \in 1 .. Len(q.headers) - 1 : \E j \in 1 .. Len(r.headers) :
          q.headers[i] = r.headers[j] /\ InFront(r.headers, j, field, q.headers, i)
    BY <1>16, <2>1, <2>2
  <2>6. IsResponse(q) /\ q.code = r.code /\ q.body = r.body
    BY <1>11, <1>14
  <2>7. Len(r.headers) \in Nat /\ Len(q.headers) \in 1 .. Len(r.headers) + 1
    BY <1>15, <2>1
  <2>8. \A i \in 1 .. Len(r.headers) :
          r.headers[i].field # field => \E j \in 1 .. i : j <= Len(q.headers) /\ q.headers[j] = r.headers[i]
    BY <1>13, <2>1
  <2> QED
    BY <2>3, <2>4, <2>5, <2>6, <2>7, <2>8, Zenon DEF Added
<1> QED
  BY <1>9, <1>17

\* An added header gives its field one value, and leaves those of the others.
LEMMA AddedSays ==
  ASSUME NEW r, NEW field, NEW value, NEW q, Added(r, field, value, q), NEW V
  PROVE  /\ value \in V => Says(q, field, V)
         /\ \A other : other # field /\ Says(r, other, V) => Says(q, other, V)
<1>1. PICK l \in Nat, m \in Nat : l = Len(r.headers) /\ m = Len(q.headers) /\ m \in 1 .. l + 1
  <2>1. PICK l \in Nat : l = Len(r.headers)
    BY DEF Added
  <2>2. PICK m \in 1 .. l + 1 : m = Len(q.headers)
    BY <2>1 DEF Added
  <2> QED
    BY <2>1, <2>2
<1>2. /\ q.headers[m] = Header(field, value)
      /\ \A i \in 1 .. m - 1 : q.headers[i].field # field /\ \E j \in 1 .. l : q.headers[i] = r.headers[j]
      /\ \A i \in 1 .. l : r.headers[i].field # field => \E j \in 1 .. i : j <= m /\ q.headers[j] = r.headers[i]
  BY <1>1 DEF Added
<1>3. \A i \in 1 .. m : i = m \/ i \in 1 .. m - 1
  OBVIOUS
<1>4. Header(field, value).field = field /\ Header(field, value).value = value
  BY DEF Header
<1>5. value \in V => Says(q, field, V)
  BY <1>1, <1>2, <1>3, <1>4 DEF Says
<1>7. ASSUME NEW other, other # field, Says(r, other, V) PROVE Says(q, other, V)
  <2> SUFFICES ASSUME NEW i \in 1 .. m, q.headers[i].field = other PROVE q.headers[i].value \in V
    BY <1>1 DEF Says
  <2>1. i \in 1 .. m - 1
    BY <1>2, <1>3, <1>4, <1>7
  <2>2. PICK j \in 1 .. l : q.headers[i] = r.headers[j]
    BY <1>2, <2>1
  <2> QED
    BY <1>1, <1>7, <2>2 DEF Says
<1> QED
  BY <1>5, <1>7

\* It is at the end, and the others come no later than before.
LEMMA AddedEarly ==
  ASSUME NEW r, NEW field, NEW value, NEW q, Added(r, field, value, q), NEW n \in Nat
  PROVE  /\ Len(r.headers) < n => Early(q, field, value, n) /\ Len(q.headers) <= n
         /\ \A other, w : other # field /\ Early(r, other, w, n) => Early(q, other, w, n)
<1>1. PICK l \in Nat, m \in Nat : l = Len(r.headers) /\ m = Len(q.headers) /\ m \in 1 .. l + 1
  <2>1. PICK l \in Nat : l = Len(r.headers)
    BY DEF Added
  <2>2. PICK m \in 1 .. l + 1 : m = Len(q.headers)
    BY <2>1 DEF Added
  <2> QED
    BY <2>1, <2>2
<1>2. /\ q.headers[m] = Header(field, value)
      /\ \A i \in 1 .. m - 1 : q.headers[i].field # field /\ \E j \in 1 .. l : q.headers[i] = r.headers[j]
      /\ \A i \in 1 .. l : r.headers[i].field # field => \E j \in 1 .. i : j <= m /\ q.headers[j] = r.headers[i]
  BY <1>1 DEF Added
<1>3. \A i \in 1 .. m : i = m \/ i \in 1 .. m - 1
  OBVIOUS
<1>4. Header(field, value).field = field /\ Header(field, value).value = value
  BY DEF Header
<1>6. ASSUME l < n PROVE Early(q, field, value, n) /\ Len(q.headers) <= n
  <2>1. m \in 1 .. n /\ m <= n
    BY <1>1, <1>6
  <2> QED
    BY <1>1, <1>2, <2>1 DEF Early
<1>8. ASSUME NEW other, NEW w, other # field, Early(r, other, w, n) PROVE Early(q, other, w, n)
  <2>1. PICK i \in 1 .. n : i <= l /\ r.headers[i] = Header(other, w)
    BY <1>1, <1>8 DEF Early
  <2>2. r.headers[i].field = other /\ i \in 1 .. l
    BY <2>1 DEF Header
  <2>3. PICK j \in 1 .. i : j <= m /\ q.headers[j] = r.headers[i]
    BY <1>2, <1>8, <2>2
  <2>4. j \in 1 .. n
    BY <2>1, <2>3
  <2> QED
    BY <1>1, <2>1, <2>3, <2>4 DEF Early
<1> QED
  BY <1>1, <1>6, <1>8

\* Each header of the field other comes behind this one.
Ahead(r, field, value, other) ==
  \A i \in 1 .. Len(r.headers) :
    r.headers[i].field = other => \E j \in 1 .. i - 1 : r.headers[j] = Header(field, value)

LEMMA AddedAhead ==
  ASSUME NEW r, NEW field, NEW value, NEW q, Added(r, field, value, q), NEW f, NEW v, NEW other, f # field, f # other
  PROVE  /\ other # field /\ Ahead(r, f, v, other) => Ahead(q, f, v, other)
         /\ other = field /\ (\E n \in Nat : Early(r, f, v, n)) => Ahead(q, f, v, other)
<1>1. PICK l \in Nat, m \in Nat : l = Len(r.headers) /\ m = Len(q.headers) /\ m \in 1 .. l + 1
  <2>1. PICK l \in Nat : l = Len(r.headers)
    BY DEF Added
  <2>2. PICK m \in 1 .. l + 1 : m = Len(q.headers)
    BY <2>1 DEF Added
  <2> QED
    BY <2>1, <2>2
<1>2. /\ q.headers[m] = Header(field, value)
      /\ \A i \in 1 .. m - 1 : q.headers[i].field # field
      /\ \A i \in 1 .. l : r.headers[i].field # field => \E j \in 1 .. i : j <= m /\ q.headers[j] = r.headers[i]
      /\ \A i \in 1 .. m - 1 : \E j \in 1 .. l :
           q.headers[i] = r.headers[j] /\ InFront(r.headers, j, field, q.headers, i)
  BY <1>1 DEF Added
<1>3. \A i \in 1 .. m : i = m \/ i \in 1 .. m - 1
  OBVIOUS
<1>4. Header(field, value).field = field /\ Header(f, v).field = f
  BY DEF Header
<1>5. ASSUME other # field, Ahead(r, f, v, other) PROVE Ahead(q, f, v, other)
  <2> SUFFICES ASSUME NEW i \in 1 .. m, q.headers[i].field = other
               PROVE  \E j \in 1 .. i - 1 : q.headers[j] = Header(f, v)
    BY <1>1 DEF Ahead
  <2>1. i \in 1 .. m - 1
    BY <1>2, <1>3, <1>4, <1>5
  <2>2. PICK j \in 1 .. l : q.headers[i] = r.headers[j] /\ InFront(r.headers, j, field, q.headers, i)
    BY <1>2, <2>1
  <2>3. PICK a \in 1 .. j - 1 : r.headers[a] = Header(f, v)
    BY <1>1, <1>5, <2>2 DEF Ahead
  <2>4. r.headers[a].field # field
    BY <1>4, <2>3
  <2> QED
    BY <2>2, <2>3, <2>4 DEF InFront
<1>6. ASSUME other = field, NEW n \in Nat, Early(r, f, v, n) PROVE Ahead(q, f, v, other)
  <2> SUFFICES ASSUME NEW i \in 1 .. m, q.headers[i].field = other
               PROVE  \E j \in 1 .. i - 1 : q.headers[j] = Header(f, v)
    BY <1>1 DEF Ahead
  <2>1. i = m
    BY <1>2, <1>3, <1>6
  <2>2. PICK a \in 1 .. n : a <= l /\ r.headers[a] = Header(f, v)
    BY <1>1, <1>6 DEF Early
  <2>3. a \in 1 .. l /\ r.headers[a].field # field
    BY <1>4, <2>2
  <2>4. PICK b \in 1 .. a : b <= m /\ q.headers[b] = r.headers[a]
    BY <1>2, <2>3
  <2>5. b # m
    BY <1>2, <1>4, <2>3, <2>4
  <2>6. b \in 1 .. i - 1
    BY <2>1, <2>4, <2>5
  <2> QED
    BY <2>2, <2>4, <2>6
<1> QED
  BY <1>5, <1>6

\* What one after another of the headers hs makes of r
AddsEach(r, hs, q) ==
  \E g : /\ g[0] = r /\ g[Len(hs)] = q
         /\ \A i \in 1 .. Len(hs) : g[i] = AddHeader(g[i - 1], hs[i].field, hs[i].value)

\* The recursion of FoldLeft, on the positions of hs
AddSome(r, hs, f, s) ==
  IF s = {} THEN r ELSE AddHeader(f[s \ {Max(s)}], hs[Max(s)].field, hs[Max(s)].value)
AddsSome(r, hs, k, f) == f = [s \in SUBSET (1 .. k) |-> AddSome(r, hs, f, s)]

LEMMA AddHeadersFolds ==
  ASSUME NEW A, NEW hs \in Seq(A), NEW r
  PROVE  AddHeaders(r, hs) = (CHOOSE f : AddsSome(r, hs, Len(hs), f))[1 .. Len(hs)]
<1>1. DOMAIN hs = 1 .. Len(hs)
  OBVIOUS
<1>2. AddHeaders(r, hs) = (CHOOSE f : f = [s \in SUBSET (DOMAIN hs) |-> AddSome(r, hs, f, s)])[DOMAIN hs]
  BY DEF AddHeaders, FoldLeft, MapThenFoldSet, AddSome
<1> QED
  BY <1>1, <1>2 DEF AddsSome

LEMMA AddsSomeOn ==
  ASSUME NEW r, NEW hs, NEW k \in Nat, NEW g, AddsSome(r, hs, k, g)
  PROVE  \E h : AddsSome(r, hs, k + 1, h)
<1> DEFINE One(f, s, i) == AddHeader(f[s \ {i}], hs[i].field, hs[i].value)
           h == [s \in SUBSET (1 .. k + 1) |-> IF k + 1 \in s THEN One(g, s, k + 1) ELSE g[s]]
<1>1. \A s \in SUBSET (1 .. k) : g[s] = AddSome(r, hs, g, s)
  BY DEF AddsSome
<1>2. ASSUME NEW s \in SUBSET (1 .. k + 1), k + 1 \notin s PROVE s \in SUBSET (1 .. k) /\ h[s] = g[s]
  <2>1. \A x \in s : x \in 1 .. k
    BY <1>2
  <2> QED
    BY <1>2, <2>1
<1>3. ASSUME NEW s \in SUBSET (1 .. k + 1), k + 1 \in s PROVE h[s] = One(g, s, k + 1)
  BY <1>3
<1>4. h = [s \in SUBSET (1 .. k + 1) |-> h[s]]
  OBVIOUS
<1> HIDE DEF h
<1>5. ASSUME NEW s \in SUBSET (1 .. k + 1) PROVE h[s] = AddSome(r, hs, h, s)
  <2>1. CASE s = {}
    <3>1. k + 1 \notin s /\ AddSome(r, hs, g, s) = AddSome(r, hs, h, s)
      BY <2>1 DEF AddSome
    <3> QED
      BY <1>1, <1>2, <3>1
  <2>2. CASE s # {}
    <3>1. PICK m : m = Max(s)
      OBVIOUS
    <3>2. m \in s /\ \A y \in s : m >= y
      <4>1. k + 1 \in Nat /\ s \subseteq 1 .. k + 1
        OBVIOUS
      <4> QED
        BY <2>2, <3>1, <4>1, MaxProperties
    <3>3. AddSome(r, hs, h, s) = One(h, s, m) /\ AddSome(r, hs, g, s) = One(g, s, m)
      BY <2>2, <3>1 DEF AddSome
    <3>4. k + 1 \notin s \ {m}
      <4>1. m \in 1 .. k + 1 /\ (k + 1 \in s => m >= k + 1)
        BY <3>2
      <4> QED
        BY <4>1
    <3>5. h[s \ {m}] = g[s \ {m}]
      <4>1. s \ {m} \in SUBSET (1 .. k + 1)
        OBVIOUS
      <4> QED
        BY <1>2, <3>4, <4>1
    <3>6. CASE k + 1 \in s
      <4>1. m = k + 1
        BY <3>2, <3>4, <3>6
      <4> QED
        BY <1>3, <3>3, <3>5, <3>6, <4>1
    <3>7. CASE k + 1 \notin s
      BY <1>1, <1>2, <3>3, <3>5, <3>7
    <3> QED
      BY <3>6, <3>7
  <2> QED
    BY <2>1, <2>2
<1>6. AddsSome(r, hs, k + 1, h)
  BY <1>4, <1>5 DEF AddsSome
<1> QED
  BY <1>6

\* AddHeaders adds one header after another.
LEMMA AddHeadersAdds ==
  ASSUME NEW A, NEW hs \in Seq(A), NEW r
  PROVE  AddsEach(r, hs, AddHeaders(r, hs))
<1>1. PICK n \in Nat : n = Len(hs)
  OBVIOUS
<1>2. \E f : AddsSome(r, hs, n, f)
  <2> DEFINE T == {k \in Nat : \E f : AddsSome(r, hs, k, f)}
  <2>1. 0 \in T
    <3>1. PICK f : f = [s \in SUBSET (1 .. 0) |-> r]
      OBVIOUS
    <3>2. \A s \in SUBSET (1 .. 0) : s = {}
      OBVIOUS
    <3>3. \A s \in SUBSET (1 .. 0) : AddSome(r, hs, f, s) = r
      BY <3>2 DEF AddSome
    <3>4. AddsSome(r, hs, 0, f)
      BY <3>1, <3>3 DEF AddsSome
    <3> QED
      BY <3>4
  <2>2. ASSUME NEW k \in Nat, k \in T PROVE k + 1 \in T
    BY <2>2, AddsSomeOn
  <2> HIDE DEF T
  <2>3. n \in T
    BY <2>1, <2>2, Induction
  <2> QED
    BY <2>3 DEF T
<1>3. PICK f : f = CHOOSE h : AddsSome(r, hs, n, h)
  OBVIOUS
<1>4. AddsSome(r, hs, n, f) /\ AddHeaders(r, hs) = f[1 .. n]
  BY <1>1, <1>2, <1>3, AddHeadersFolds
<1>5. \A s \in SUBSET (1 .. n) : f[s] = AddSome(r, hs, f, s)
  BY <1>4 DEF AddsSome
<1>6. PICK g : g = [i \in 0 .. n |-> f[1 .. i]]
  OBVIOUS
<1>7. g[0] = r
  <2>1. 1 .. 0 = {} /\ 1 .. 0 \in SUBSET (1 .. n) /\ 0 \in 0 .. n
    OBVIOUS
  <2>2. AddSome(r, hs, f, 1 .. 0) = r
    BY <2>1 DEF AddSome
  <2> QED
    BY <1>5, <1>6, <2>1, <2>2
<1>8. ASSUME NEW i \in 1 .. n PROVE g[i] = AddHeader(g[i - 1], hs[i].field, hs[i].value)
  <2>1. PICK s : s = 1 .. i
    OBVIOUS
  <2>2. s # {} /\ s \in SUBSET (1 .. n) /\ i \in s /\ \A y \in s : i >= y
    BY <2>1
  <2>3. Max(s) \in s /\ Max(s) >= i
    BY <2>2, MaxProperties
  <2>4. Max(s) = i
    BY <2>1, <2>3
  <2>5. s \ {i} = 1 .. i - 1 /\ i - 1 \in 0 .. n /\ i \in 0 .. n
    BY <2>1
  <2>6. f[s] = AddHeader(f[1 .. i - 1], hs[i].field, hs[i].value)
    BY <1>5, <2>2, <2>4, <2>5 DEF AddSome
  <2> QED
    BY <1>6, <2>1, <2>5, <2>6
<1>9. g[n] = AddHeaders(r, hs)
  BY <1>4, <1>6
<1> QED
  BY <1>1, <1>7, <1>8, <1>9 DEF AddsEach

\* The responses in between
Chain(r, hs, q, g) ==
  /\ g[0] = r /\ g[Len(hs)] = q
  /\ \A i \in 0 .. Len(hs) :
       /\ IsResponse(g[i]) /\ g[i].code = r.code /\ g[i].body = r.body
       /\ Len(g[i].headers) \in 0 .. Len(r.headers) + i
  /\ \A i \in 1 .. Len(hs) : Added(g[i - 1], hs[i].field, hs[i].value, g[i])

LEMMA ResponseLength ==
  ASSUME NEW r, IsResponse(r)
  PROVE  Len(r.headers) \in Nat
<1>1. PICK A, code, hs, body : hs \in Seq(A) /\ r = [code |-> code, headers |-> hs, body |-> body]
  BY DEF IsResponse
<1> QED
  BY <1>1

LEMMA ChainOfResponses ==
  ASSUME NEW r, IsResponse(r), NEW A, NEW hs \in Seq(A)
  PROVE  \E g : Chain(r, hs, AddHeaders(r, hs), g)
<1>1. PICK n \in Nat, l \in Nat : n = Len(hs) /\ l = Len(r.headers)
  BY ResponseLength
<1> DEFINE q == AddHeaders(r, hs)
<1>2. AddsEach(r, hs, q)
  BY AddHeadersAdds
<1> HIDE DEF q
<1>3. PICK g : /\ g[0] = r /\ g[n] = q
               /\ \A i \in 1 .. n : g[i] = AddHeader(g[i - 1], hs[i].field, hs[i].value)
  BY <1>1, <1>2 DEF AddsEach
<1> DEFINE Good(k) == /\ IsResponse(g[k]) /\ g[k].code = r.code /\ g[k].body = r.body
                      /\ Len(g[k].headers) \in 0 .. l + k
                      /\ k # 0 => Added(g[k - 1], hs[k].field, hs[k].value, g[k])
           T == {k \in 0 .. n : Good(k)}
<1>4. 0 \in T
  <2>1. Len(g[0].headers) \in 0 .. l + 0 /\ 0 \in 0 .. n
    BY <1>1, <1>3
  <2> QED
    BY <1>3, <2>1
<1>5. ASSUME NEW k \in 0 .. n - 1, k \in T PROVE k + 1 \in T
  <2>1. k + 1 \in 1 .. n /\ k + 1 \in 0 .. n /\ (k + 1) - 1 = k
    OBVIOUS
  <2>2. PICK p : p = g[k]
    OBVIOUS
  <2>3. PICK m \in Nat : m = Len(p.headers) /\ m <= l + k /\ IsResponse(p)
    BY <1>5, <2>2
  <2>4. g[k + 1] = AddHeader(p, hs[k + 1].field, hs[k + 1].value)
    BY <1>3, <2>1, <2>2
  <2>5. Added(p, hs[k + 1].field, hs[k + 1].value, g[k + 1])
    BY <2>3, <2>4, AddHeaderAdds
  <2>6. /\ IsResponse(g[k + 1]) /\ g[k + 1].code = p.code /\ g[k + 1].body = p.body
        /\ Len(g[k + 1].headers) \in 1 .. m + 1
    BY <2>3, <2>5 DEF Added
  <2>7. Len(g[k + 1].headers) \in 0 .. l + (k + 1)
    BY <2>3, <2>6
  <2>8. Good(k + 1)
    BY <1>5, <2>1, <2>2, <2>5, <2>6, <2>7
  <2> QED
    BY <2>1, <2>8
<1>6. \A k \in 0 .. n : Good(k)
  <2> HIDE DEF T
  <2>1. \A k \in 0 .. n : k \in T
    BY <1>4, <1>5, InductionUpto
  <2> QED
    BY <2>1 DEF T
<1>7. \A i \in 1 .. n : i \in 0 .. n /\ i # 0
  OBVIOUS
<1>8. Chain(r, hs, q, g)
  BY <1>1, <1>3, <1>6, <1>7 DEF Chain
<1> QED
  BY <1>8 DEF q

\* Headers that are added leave the code and the body.
LEMMA AddHeadersKeep ==
  ASSUME NEW r, IsResponse(r), NEW A, NEW hs \in Seq(A), NEW q, q = AddHeaders(r, hs)
  PROVE  /\ IsResponse(q) /\ q.code = r.code /\ q.body = r.body
         /\ Len(q.headers) \in 0 .. Len(r.headers) + Len(hs)
<1>1. PICK g : Chain(r, hs, q, g)
  BY ChainOfResponses
<1>2. PICK n \in Nat : n = Len(hs)
  OBVIOUS
<1>3. n \in 0 .. n
  OBVIOUS
<1> QED
  BY <1>1, <1>2, <1>3 DEF Chain

\* The values they give a field
LEMMA AddHeadersSay ==
  ASSUME NEW r, IsResponse(r), NEW A, NEW hs \in Seq(A), NEW q, q = AddHeaders(r, hs),
         NEW field, NEW V, Says(r, field, V), \A i \in 1 .. Len(hs) : hs[i].field = field => hs[i].value \in V
  PROVE  Says(q, field, V)
<1>1. PICK g : Chain(r, hs, q, g)
  BY ChainOfResponses
<1>2. PICK n \in Nat : n = Len(hs)
  OBVIOUS
<1> DEFINE T == {k \in 0 .. n : Says(g[k], field, V)}
<1>3. 0 \in T
  BY <1>1 DEF Chain
<1>4. ASSUME NEW k \in 0 .. n - 1, k \in T PROVE k + 1 \in T
  <2>1. k + 1 \in 1 .. n /\ k + 1 \in 0 .. n /\ (k + 1) - 1 = k
    OBVIOUS
  <2>2. Added(g[k], hs[k + 1].field, hs[k + 1].value, g[k + 1])
    BY <1>1, <1>2, <2>1 DEF Chain
  <2>3. Says(g[k], field, V)
    BY <1>4
  <2>4. hs[k + 1].field = field => hs[k + 1].value \in V
    BY <1>2, <2>1
  <2>5. Says(g[k + 1], field, V)
    BY <2>2, <2>3, <2>4, AddedSays
  <2> QED
    BY <2>1, <2>5
<1>5. n \in T
  <2> HIDE DEF T
  <2>1. \A k \in 0 .. n : k \in T
    BY <1>3, <1>4, InductionUpto
  <2>2. n \in 0 .. n
    OBVIOUS
  <2> QED
    BY <2>1, <2>2
<1> QED
  BY <1>1, <1>2, <1>5 DEF Chain

\* A header stays early, if they have other fields.
LEMMA AddHeadersStayEarly ==
  ASSUME NEW r, IsResponse(r), NEW A, NEW hs \in Seq(A), NEW q, q = AddHeaders(r, hs),
         NEW field, NEW value, NEW n \in Nat, Early(r, field, value, n),
         \A i \in 1 .. Len(hs) : hs[i].field # field
  PROVE  Early(q, field, value, n)
<1>1. PICK g : Chain(r, hs, q, g)
  BY ChainOfResponses
<1>2. PICK l \in Nat : l = Len(hs)
  OBVIOUS
<1> DEFINE T == {k \in 0 .. l : Early(g[k], field, value, n)}
<1>3. 0 \in T
  BY <1>1 DEF Chain
<1>4. ASSUME NEW k \in 0 .. l - 1, k \in T PROVE k + 1 \in T
  <2>1. k + 1 \in 1 .. l /\ k + 1 \in 0 .. l /\ (k + 1) - 1 = k
    OBVIOUS
  <2>2. Added(g[k], hs[k + 1].field, hs[k + 1].value, g[k + 1])
    BY <1>1, <1>2, <2>1 DEF Chain
  <2>3. Early(g[k], field, value, n)
    BY <1>4
  <2>4. field # hs[k + 1].field
    BY <1>2, <2>1
  <2>5. Early(g[k + 1], field, value, n)
    BY <2>2, <2>3, <2>4, AddedEarly
  <2> QED
    BY <2>1, <2>5
<1>5. l \in T
  <2> HIDE DEF T
  <2>1. \A k \in 0 .. l : k \in T
    BY <1>3, <1>4, InductionUpto
  <2>2. l \in 0 .. l
    OBVIOUS
  <2> QED
    BY <2>1, <2>2
<1> QED
  BY <1>1, <1>2, <1>5 DEF Chain

\* A header they add is early, if there is room for all of them.
LEMMA AddHeadersEarly ==
  ASSUME NEW r, IsResponse(r), NEW A, NEW hs \in Seq(A), NEW q, q = AddHeaders(r, hs),
         NEW field, NEW value, NEW n \in Nat, Len(r.headers) + Len(hs) <= n,
         NEW m \in 1 .. Len(hs), hs[m].field = field,
         \A i \in 1 .. Len(hs) : hs[i].field = field => hs[i].value = value
  PROVE  Early(q, field, value, n)
<1>1. PICK g : Chain(r, hs, q, g)
  BY ChainOfResponses
<1>2. PICK l \in Nat, d \in Nat : l = Len(hs) /\ d = Len(r.headers)
  BY ResponseLength
<1> DEFINE T == {k \in 0 .. l : k >= m => Early(g[k], field, value, n)}
<1>3. 0 \in T
  BY <1>2
<1>4. ASSUME NEW k \in 0 .. l - 1, k \in T PROVE k + 1 \in T
  <2>1. k + 1 \in 1 .. l /\ k + 1 \in 0 .. l /\ (k + 1) - 1 = k
    OBVIOUS
  <2>2. Added(g[k], hs[k + 1].field, hs[k + 1].value, g[k + 1])
    BY <1>1, <1>2, <2>1 DEF Chain
  <2>3. CASE hs[k + 1].field = field
    <3>1. Len(g[k].headers) \in 0 .. d + k
      BY <1>1, <1>2 DEF Chain
    <3>2. Len(g[k].headers) < n
      BY <1>2, <3>1
    <3>3. Early(g[k + 1], hs[k + 1].field, hs[k + 1].value, n)
      BY <2>2, <3>2, AddedEarly
    <3> QED
      BY <1>2, <2>1, <2>3, <3>3
  <2>4. CASE hs[k + 1].field # field /\ k + 1 >= m
    <3>1. k >= m
      <4>1. k + 1 # m /\ m \in Nat
        BY <2>4
      <4> QED
        BY <2>4, <4>1
    <3>2. Early(g[k], field, value, n)
      BY <1>4, <3>1
    <3>3. Early(g[k + 1], field, value, n)
      BY <2>2, <2>4, <3>2, AddedEarly
    <3> QED
      BY <2>1, <3>3
  <2> QED
    BY <2>1, <2>3, <2>4
<1>5. l \in T
  <2> HIDE DEF T
  <2>1. \A k \in 0 .. l : k \in T
    BY <1>3, <1>4, InductionUpto
  <2>2. l \in 0 .. l
    OBVIOUS
  <2> QED
    BY <2>1, <2>2
<1>6. l >= m
  BY <1>2
<1> QED
  BY <1>1, <1>2, <1>5, <1>6 DEF Chain

\* What Value returns is one of the values, or none is there.
LEMMA ValueSaid ==
  ASSUME NEW r, IsResponse(r), NEW field, NEW none, NEW V, Says(r, field, V)
  PROVE  /\ Value(r, field, none) \in V \cup {none}
         /\ \A i \in 1 .. Len(r.headers) : r.headers[i].field = field => Value(r, field, none) \in V
<1>1. PICK n \in Nat : n = Len(r.headers)
  BY ResponseLength
<1>2. PICK I : I = {i \in 1 .. n : r.headers[i].field = field}
  OBVIOUS
<1>3. PICK k : k = IF I # {} THEN Min(I) ELSE 0
  OBVIOUS
<1>4. Value(r, field, none) = IF k = 0 THEN none ELSE r.headers[k].value
  BY <1>1, <1>2, <1>3 DEF Value, SelectInSeq
<1>5. ASSUME I # {} PROVE k \in 1 .. n /\ k # 0 /\ r.headers[k].field = field
  <2>1. I \subseteq Nat
    BY <1>2
  <2>2. Min(I) \in I
    BY <1>5, <2>1, MinProperties
  <2>3. k \in I
    BY <1>3, <1>5, <2>2
  <2> QED
    BY <1>2, <2>3
<1>6. ASSUME I # {} PROVE Value(r, field, none) \in V
  BY <1>1, <1>4, <1>5, <1>6 DEF Says
<1>7. \A i \in 1 .. Len(r.headers) : r.headers[i].field = field => I # {}
  BY <1>1, <1>2
<1>8. I = {} => Value(r, field, none) = none
  BY <1>3, <1>4
<1> QED
  BY <1>6, <1>7, <1>8

\* What is on the wire is what was added first.
LEMMA WireProperties ==
  ASSUME NEW r, IsResponse(r), NEW q, q = OnWire(r)
  PROVE  /\ IsResponse(q) /\ q.code = r.code /\ q.body = r.body
         /\ AllFit(r) => q = r
         /\ \A field, V : Says(r, field, V) => Says(q, field, V)
         /\ \A field, value, n : n \in Nat /\ n <= MaxHeaders /\ Early(r, field, value, n)
                                   => Early(q, field, value, n)
<1>1. PICK A, code, hs, body : hs \in Seq(A) /\ r = [code |-> code, headers |-> hs, body |-> body]
  BY DEF IsResponse
<1>2. PICK l \in Nat : l = Len(hs)
  BY <1>1
<1>3. PICK m : m = Min({MaxHeaders, l})
  OBVIOUS
<1>4. m \in Nat /\ m <= l /\ m <= MaxHeaders /\ (m = l \/ m = MaxHeaders)
  <2>1. {MaxHeaders, l} \subseteq Nat /\ {MaxHeaders, l} # {}
    BY BoundsAssumption
  <2>2. m \in {MaxHeaders, l} /\ \A y \in {MaxHeaders, l} : m <= y
    BY <1>3, <2>1, MinProperties
  <2> QED
    BY <2>1, <2>2
<1>5. PICK u : u = SubSeq(hs, 1, m)
  OBVIOUS
<1>6. u \in Seq(A) /\ Len(u) = m /\ \A i \in 1 .. m : u[i] = hs[i]
  BY <1>1, <1>2, <1>4, <1>5
<1>7. q = [code |-> code, headers |-> u, body |-> body]
  BY <1>1, <1>2, <1>3, <1>5 DEF OnWire
<1>8. /\ IsResponse(q) /\ q.code = r.code /\ q.body = r.body /\ q.headers = u /\ r.headers = hs
  <2>1. IsResponse(q)
    BY <1>6, <1>7 DEF IsResponse
  <2> QED
    BY <1>1, <1>7, <2>1
<1>9. ASSUME AllFit(r) PROVE q = r
  <2>1. m = l
    BY <1>2, <1>4, <1>8, <1>9, BoundsAssumption DEF AllFit
  <2>2. u = hs
    BY <1>1, <1>2, <1>5, <2>1
  <2> QED
    BY <1>1, <1>7, <2>2
<1>10. \A i \in 1 .. m : i \in 1 .. l
  BY <1>4
<1>11. ASSUME NEW field, NEW V, Says(r, field, V) PROVE Says(q, field, V)
  BY <1>2, <1>6, <1>8, <1>10, <1>11 DEF Says
<1>12. ASSUME NEW field, NEW value, NEW n \in Nat, n <= MaxHeaders, Early(r, field, value, n)
       PROVE  Early(q, field, value, n)
  <2>1. PICK i \in 1 .. n : i <= l /\ hs[i] = Header(field, value)
    BY <1>2, <1>8, <1>12 DEF Early
  <2>2. i \in 1 .. m
    BY <1>4, <1>12, <2>1, BoundsAssumption
  <2> QED
    BY <1>6, <1>8, <2>1, <2>2 DEF Early
<1> QED
  BY <1>8, <1>9, <1>11, <1>12

\* A header that is early enough is the one a browser finds.
LEMMA ValueOnWire ==
  ASSUME NEW r, IsResponse(r), NEW field, NEW value, NEW none,
         Says(r, field, {value}), Early(r, field, value, MaxHeaders)
  PROVE  Value(OnWire(r), field, none) = value
<1>1. PICK q : q = OnWire(r)
  OBVIOUS
<1>2. IsResponse(q) /\ Says(q, field, {value}) /\ Early(q, field, value, MaxHeaders)
  <2>1. MaxHeaders \in Nat /\ MaxHeaders <= MaxHeaders
    BY BoundsAssumption
  <2> QED
    BY <1>1, <2>1, WireProperties
<1>3. PICK i \in 1 .. MaxHeaders : i <= Len(q.headers) /\ q.headers[i] = Header(field, value)
  BY <1>2 DEF Early
<1>4. i \in 1 .. Len(q.headers) /\ q.headers[i].field = field
  <2>1. Len(q.headers) \in Nat
    BY <1>2, ResponseLength
  <2> QED
    BY <1>3, <2>1, BoundsAssumption DEF Header
<1>5. Value(q, field, none) \in {value}
  BY <1>2, <1>4, ValueSaid
<1> QED
  BY <1>1, <1>5

\* The default headers give every field the same value.
LEMMA DefaultHeaders ==
  ASSUME NEW S, NEW fields \in Seq(S)
  PROVE  /\ Headers(fields) \in Seq([field : S, value : {"set"}])
         /\ Len(Headers(fields)) = Len(fields)
         /\ \A i \in 1 .. Len(fields) : Headers(fields)[i] = Header(fields[i], "set")
<1>1. PICK n \in Nat : n = Len(fields) /\ DOMAIN fields = 1 .. n
  OBVIOUS
<1>2. PICK hs : hs = [i \in 1 .. n |-> Header(fields[i], "set")]
  OBVIOUS
<1>3. \A i \in 1 .. n : fields[i] \in S
  BY <1>1
<1>4. \A i \in 1 .. n : Header(fields[i], "set") \in [field : S, value : {"set"}]
  BY <1>3 DEF Header
<1>5. hs \in Seq([field : S, value : {"set"}]) /\ Len(hs) = n
  BY <1>2, <1>4
<1>6. Headers(fields) = hs
  BY <1>1, <1>2 DEF Headers
<1> QED
  BY <1>1, <1>2, <1>5, <1>6

LEMMA NewResponseProperties ==
  ASSUME NEW S, NEW fields \in Seq(S), NEW r, r = NewResponse(Headers(fields))
  PROVE  /\ IsResponse(r) /\ r.code = 200 /\ r.body = NoBody
         /\ Len(r.headers) \in 0 .. Len(fields)
         /\ \A field : Says(r, field, {"set"})
<1>1. PICK e : e = [code |-> 200, headers |-> <<>>, body |-> NoBody]
  OBVIOUS
<1>2. e.code = 200 /\ e.body = NoBody /\ e.headers = <<>> /\ Len(e.headers) = 0 /\ e.headers \in Seq({})
  BY <1>1
<1>3. IsResponse(e) /\ \A field : Says(e, field, {"set"})
  <2>1. \A field : Says(e, field, {"set"})
    BY <1>2 DEF Says
  <2>2. PICK A, hs : A = {} /\ hs = <<>>
    OBVIOUS
  <2>3. hs \in Seq(A) /\ e = [code |-> 200, headers |-> hs, body |-> NoBody]
    BY <1>1, <2>2
  <2>4. IsResponse(e)
    BY <2>3, MadeIsResponse
  <2> QED
    BY <2>1, <2>4
<1>4. PICK hs \in Seq([field : S, value : {"set"}]) :
        hs = Headers(fields) /\ Len(hs) = Len(fields) /\ \A i \in 1 .. Len(fields) : hs[i].value = "set"
  <2>1. PICK hs : hs = Headers(fields)
    OBVIOUS
  <2>2. /\ hs \in Seq([field : S, value : {"set"}]) /\ Len(hs) = Len(fields)
        /\ \A i \in 1 .. Len(fields) : hs[i] = Header(fields[i], "set")
    BY <2>1, DefaultHeaders
  <2>3. \A x : Header(x, "set").value = "set"
    BY DEF Header
  <2>4. \A i \in 1 .. Len(fields) : hs[i].value = "set"
    BY <2>2, <2>3
  <2> QED
    BY <2>1, <2>2, <2>4
<1>5. r = AddHeaders(e, hs)
  BY <1>1, <1>4 DEF NewResponse
<1>6. IsResponse(r) /\ r.code = e.code /\ r.body = e.body /\ Len(r.headers) \in 0 .. Len(e.headers) + Len(hs)
  BY <1>3, <1>5, AddHeadersKeep
<1>7. Len(e.headers) + Len(hs) = Len(fields)
  BY <1>2, <1>4
<1>8. ASSUME NEW field PROVE Says(r, field, {"set"})
  <2>1. Says(e, field, {"set"}) /\ \A i \in 1 .. Len(hs) : hs[i].field = field => hs[i].value \in {"set"}
    BY <1>3, <1>4
  <2> QED
    BY <1>3, <1>5, <2>1, AddHeadersSay
<1> QED
  BY <1>2, <1>6, <1>7, <1>8

\* The CORS headers are "set", early enough if there is room, and leave the other fields.
LEMMA CorsProperties ==
  ASSUME NEW r, IsResponse(r), NEW q, q = AddHeaders(r, Headers(CorsFields))
  PROVE  /\ IsResponse(q) /\ q.code = r.code /\ q.body = r.body
         /\ Len(q.headers) \in 0 .. Len(r.headers) + 5
         /\ \A field, V : "set" \in V /\ Says(r, field, V) => Says(q, field, V)
         /\ \A field, V : field \notin Range(CorsFields) /\ Says(r, field, V) => Says(q, field, V)
         /\ \A field, n : field \in Range(CorsFields) /\ n \in Nat /\ Len(r.headers) + 5 <= n
                            => Early(q, field, "set", n)
<1>0. PICK S : S = {CorsFields[i] : i \in 1 .. 5}
  OBVIOUS
<1>1. CorsFields \in Seq(S) /\ Len(CorsFields) = 5
  <2>1. Len(CorsFields) = 5
    BY DEF CorsFields
  <2>2. CorsFields \in Seq(S)
    <3>1. PICK a, b, c, d, e : CorsFields = <<a, b, c, d, e>>
      BY DEF CorsFields
    <3>2. \A i \in 1 .. 5 : CorsFields[i] \in S
      BY <1>0, <3>1
    <3>3. a \in S /\ b \in S /\ c \in S /\ d \in S /\ e \in S
      BY <3>1, <3>2
    <3>4. <<a, b, c, d, e>> \in Seq(S)
      BY <3>3
    <3> QED
      BY <3>1, <3>4
  <2> QED
    BY <2>1, <2>2
<1>2. PICK hs \in Seq([field : S, value : {"set"}]) :
        /\ hs = Headers(CorsFields) /\ Len(hs) = 5
        /\ \A i \in 1 .. 5 : hs[i].field = CorsFields[i] /\ hs[i].value = "set"
  <2>1. PICK hs : hs = Headers(CorsFields)
    OBVIOUS
  <2>2. /\ hs \in Seq([field : S, value : {"set"}]) /\ Len(hs) = 5
        /\ \A i \in 1 .. 5 : hs[i] = Header(CorsFields[i], "set")
    BY <1>1, <2>1, DefaultHeaders
  <2> QED
    BY <2>1, <2>2 DEF Header
<1>3. q = AddHeaders(r, hs)
  BY <1>2
<1>4. /\ IsResponse(q) /\ q.code = r.code /\ q.body = r.body
      /\ Len(q.headers) \in 0 .. Len(r.headers) + 5
  <2>1. /\ IsResponse(q) /\ q.code = r.code /\ q.body = r.body
        /\ Len(q.headers) \in 0 .. Len(r.headers) + Len(hs)
    BY <1>3, AddHeadersKeep
  <2> QED
    BY <1>2, <2>1
<1>5. Range(CorsFields) = {CorsFields[i] : i \in 1 .. 5}
  BY <1>1 DEF Range
<1>6. ASSUME NEW field, NEW V, "set" \in V \/ field \notin Range(CorsFields), Says(r, field, V)
      PROVE  Says(q, field, V)
  <2>1. \A i \in 1 .. Len(hs) : hs[i].field = field => hs[i].value \in V
    BY <1>2, <1>5, <1>6
  <2> QED
    BY <1>3, <1>6, <2>1, AddHeadersSay
<1>7. ASSUME NEW field \in Range(CorsFields), NEW n \in Nat, Len(r.headers) + 5 <= n
      PROVE  Early(q, field, "set", n)
  <2>1. PICK i \in 1 .. Len(hs) : hs[i].field = field
    BY <1>2, <1>5
  <2>2. \A j \in 1 .. Len(hs) : hs[j].field = field => hs[j].value = "set"
    BY <1>2
  <2>3. Len(r.headers) + Len(hs) <= n
    BY <1>2, <1>7
  <2> QED
    BY <1>3, <2>1, <2>2, <2>3, AddHeadersEarly
<1> QED
  BY <1>4, <1>6, <1>7

\* What was early and what was said, for the fields that are not in F
Follows(r, q, F) ==
  /\ IsResponse(q)
  /\ \A field, V : field \notin F /\ Says(r, field, V) => Says(q, field, V)
  /\ \A field, value, n : field \notin F /\ n \in Nat /\ Early(r, field, value, n) => Early(q, field, value, n)

LEMMA FollowsTransitive ==
  ASSUME NEW r, NEW q, NEW s, NEW F, NEW G, Follows(r, q, F), Follows(q, s, G)
  PROVE  Follows(r, s, F \cup G)
<1>1. ASSUME NEW field, NEW V, field \notin F \cup G, Says(r, field, V) PROVE Says(s, field, V)
  <2>1. field \notin F /\ field \notin G
    BY <1>1
  <2> QED
    BY <1>1, <2>1 DEF Follows
<1>2. ASSUME NEW field, NEW value, NEW n \in Nat, field \notin F \cup G, Early(r, field, value, n)
      PROVE  Early(s, field, value, n)
  <2>1. field \notin F /\ field \notin G
    BY <1>2
  <2> QED
    BY <1>2, <2>1 DEF Follows
<1>3. IsResponse(s)
  BY DEF Follows
<1> QED
  BY <1>1, <1>2, <1>3 DEF Follows

LEMMA SameHeadersFollow ==
  ASSUME NEW r, NEW q, IsResponse(q), q.headers = r.headers, NEW F
  PROVE  Follows(r, q, F)
<1>1. \A field, V : Says(r, field, V) => Says(q, field, V)
  BY DEF Says
<1>2. \A field, value, n : Early(r, field, value, n) => Early(q, field, value, n)
  BY DEF Early
<1> QED
  BY <1>1, <1>2 DEF Follows

LEMMA SetCodeSets ==
  ASSUME NEW r, IsResponse(r), NEW code, NEW q, q = SetCode(r, code)
  PROVE  /\ IsResponse(q) /\ q.headers = r.headers /\ q.body = r.body
         /\ q.code = IF code = 0 THEN 200 ELSE code
<1>1. PICK A, c, hs, body : hs \in Seq(A) /\ r = [code |-> c, headers |-> hs, body |-> body]
  BY DEF IsResponse
<1>2. PICK d : d = IF code = 0 THEN 200 ELSE code
  OBVIOUS
<1>3. q = [code |-> d, headers |-> hs, body |-> body]
  BY <1>1, <1>2 DEF SetCode
<1>4. IsResponse(q)
  BY <1>1, <1>3 DEF IsResponse
<1> QED
  BY <1>1, <1>2, <1>3, <1>4

LEMMA SetContentSets ==
  ASSUME NEW r, IsResponse(r), NEW body, NEW q, q = SetContent(r, body)
  PROVE  IsResponse(q) /\ q.headers = r.headers /\ q.body = body /\ q.code = r.code
<1>1. PICK A, c, hs, b : hs \in Seq(A) /\ r = [code |-> c, headers |-> hs, body |-> b]
  BY DEF IsResponse
<1>2. q = [code |-> c, headers |-> hs, body |-> body]
  BY <1>1 DEF SetContent
<1>3. IsResponse(q)
  BY <1>1, <1>2 DEF IsResponse
<1> QED
  BY <1>1, <1>2, <1>3

\* What a header does that is added
Sets(r, field, value, q) ==
  /\ Follows(r, q, {field}) /\ q.code = r.code /\ q.body = r.body
  /\ Says(q, field, {value})
  /\ Len(q.headers) \in 1 .. Len(r.headers) + 1
  /\ \A n \in Nat : Len(r.headers) < n => Early(q, field, value, n)

LEMMA AddHeaderSays ==
  ASSUME NEW r, IsResponse(r), NEW field, NEW value
  PROVE  Sets(r, field, value, AddHeader(r, field, value))
<1> DEFINE q == AddHeader(r, field, value)
<1>1. Added(r, field, value, q)
  BY AddHeaderAdds
<1> HIDE DEF q
<1>2. /\ IsResponse(q) /\ q.code = r.code /\ q.body = r.body /\ Len(q.headers) \in 1 .. Len(r.headers) + 1
  BY <1>1 DEF Added
<1>3. ASSUME NEW other, NEW V, other \notin {field}, Says(r, other, V) PROVE Says(q, other, V)
  BY <1>1, <1>3, AddedSays
<1>4. ASSUME NEW other, NEW w, NEW n \in Nat, other \notin {field}, Early(r, other, w, n) PROVE Early(q, other, w, n)
  BY <1>1, <1>4, AddedEarly
<1>5. Follows(r, q, {field})
  BY <1>2, <1>3, <1>4 DEF Follows
<1>6. value \in {value}
  OBVIOUS
<1>7. Says(q, field, {value})
  BY <1>1, <1>6, AddedSays
<1>8. ASSUME NEW n \in Nat, Len(r.headers) < n PROVE Early(q, field, value, n)
  BY <1>1, <1>8, AddedEarly
<1>9. Sets(r, field, value, q)
  BY <1>2, <1>5, <1>7, <1>8 DEF Sets
<1> QED
  BY <1>9 DEF q

LEMMA AddHeadersFollow ==
  ASSUME NEW r, IsResponse(r), NEW A, NEW hs \in Seq(A), NEW q, q = AddHeaders(r, hs),
         NEW F, \A i \in 1 .. Len(hs) : hs[i].field \in F
  PROVE  Follows(r, q, F) /\ q.code = r.code /\ q.body = r.body /\ Len(q.headers) \in 0 .. Len(r.headers) + Len(hs)
<1>1. IsResponse(q) /\ q.code = r.code /\ q.body = r.body /\ Len(q.headers) \in 0 .. Len(r.headers) + Len(hs)
  BY AddHeadersKeep
<1>2. ASSUME NEW field, NEW V, field \notin F, Says(r, field, V) PROVE Says(q, field, V)
  <2>1. \A i \in 1 .. Len(hs) : hs[i].field = field => hs[i].value \in V
    BY <1>2
  <2> QED
    BY <1>2, <2>1, AddHeadersSay
<1>3. ASSUME NEW field, NEW value, NEW n \in Nat, field \notin F, Early(r, field, value, n)
      PROVE  Early(q, field, value, n)
  <2>1. \A i \in 1 .. Len(hs) : hs[i].field # field
    BY <1>3
  <2> QED
    BY <1>3, <2>1, AddHeadersStayEarly
<1> QED
  BY <1>1, <1>2, <1>3 DEF Follows

-----------------------------------------------------------------------------
(* What the static file handler sends.                                     *)

\* The validators: a stamp if there is one, and the size if files are cached
Validates(h, stmp, etag, v) ==
  /\ \E A : v \in Seq(A)
  /\ Len(v) \in 0 .. 3
  /\ \A i \in 1 .. Len(v) :
       /\ v[i].field \in {"Last-Modified", "Cache-Control", "ETag"}
       /\ v[i].field = "Last-Modified" => stmp # NoStamp /\ v[i].value = stmp
       /\ v[i].field = "ETag" => h.cache /\ v[i].value = etag
  /\ stmp # NoStamp => \E i \in 1 .. Len(v) : v[i].field = "Last-Modified"
  /\ h.cache => \E i \in 1 .. Len(v) : v[i].field = "ETag"

LEMMA ValidatorsProperties ==
  ASSUME NEW h, NEW stmp, NEW etag, NEW v, v = Validators(h, stmp, etag)
  PROVE  Validates(h, stmp, etag, v)
<1>1. PICK a, b, c : a = Header("Last-Modified", stmp) /\ b = Header("Cache-Control", "max-age") /\ c = Header("ETag", etag)
  OBVIOUS
<1>2. /\ a.field = "Last-Modified" /\ a.value = stmp /\ b.field = "Cache-Control"
      /\ c.field = "ETag" /\ c.value = etag
  BY <1>1 DEF Header
<1>3. PICK A : A = {a, b, c}
  OBVIOUS
<1>0. PICK stamped \in BOOLEAN, cached \in BOOLEAN : (stamped <=> stmp # NoStamp) /\ (cached <=> h.cache)
  OBVIOUS
<1>4. PICK s, t : /\ s = IF stamped THEN <<a>> ELSE <<>>
                  /\ t = IF cached THEN <<b, c>> ELSE <<>>
  OBVIOUS
<1>5. v = s \o t
  <2>1. v = (IF stmp = NoStamp THEN <<>> ELSE <<a>>) \o (IF h.cache THEN <<b, c>> ELSE <<>>)
    BY <1>1 DEF Validators
  <2>2. s = IF stmp = NoStamp THEN <<>> ELSE <<a>>
    BY <1>0, <1>4
  <2>3. t = IF h.cache THEN <<b, c>> ELSE <<>>
    BY <1>0, <1>4
  <2> QED
    BY <2>1, <2>2, <2>3
<1>6. s \in Seq(A) /\ t \in Seq(A)
  <2>1. <<>> \in Seq(A) /\ <<a>> \in Seq(A) /\ <<b, c>> \in Seq(A)
    BY <1>3
  <2>2. s = <<>> \/ s = <<a>>
    BY <1>4
  <2>3. t = <<>> \/ t = <<b, c>>
    BY <1>4
  <2> QED
    BY <2>1, <2>2, <2>3
<1>7. PICK m \in 0 .. 1 : m = Len(s) /\ (stamped <=> m = 1) /\ (m = 1 => s[1] = a)
  <2>1. CASE ~ stamped
    <3>1. s = <<>>
      BY <1>4, <2>1
    <3>2. Len(s) = 0 /\ 0 \in 0 .. 1
      BY <3>1
    <3> QED
      BY <2>1, <3>2
  <2>2. CASE stamped
    <3>1. s = <<a>>
      BY <1>4, <2>2
    <3>2. Len(s) = 1 /\ s[1] = a /\ 1 \in 0 .. 1
      BY <3>1
    <3> QED
      BY <2>2, <3>2
  <2> QED
    BY <2>1, <2>2
<1>8. PICK n \in {0, 2} : n = Len(t) /\ (cached <=> n = 2) /\ (n = 2 => t[1] = b /\ t[2] = c)
  <2>1. CASE cached
    BY <1>4, <2>1
  <2>2. CASE ~ cached
    <3>1. t = <<>>
      BY <1>4, <2>2
    <3>2. Len(t) = 0 /\ 0 # 2
      BY <3>1
    <3> QED
      BY <2>2, <3>2
  <2> QED
    BY <2>1, <2>2
<1>9. /\ v \in Seq(A) /\ Len(v) = m + n
      /\ \A i \in 1 .. m : v[i] = s[i]
      /\ \A i \in m + 1 .. m + n : v[i] = t[i - m]
  <2>1. m \in Nat /\ n \in Nat /\ Len(s) = m /\ Len(t) = n
    BY <1>7, <1>8
  <2> QED
    BY <1>5, <1>6, <2>1
<1>10. m = 1 => v[1] = a
  <2>1. m = 1 => 1 \in 1 .. m
    OBVIOUS
  <2> QED
    BY <1>7, <1>9, <2>1
<1>11. n = 2 => v[m + 1] = b /\ v[m + 2] = c
  <2>1. n = 2 => m + 1 \in m + 1 .. m + n /\ m + 2 \in m + 1 .. m + n /\ (m + 1) - m = 1 /\ (m + 2) - m = 2
    OBVIOUS
  <2> QED
    BY <1>8, <1>9, <2>1
<1>12. ASSUME NEW i \in 1 .. m + n
       PROVE  (m = 1 /\ v[i] = a) \/ (n = 2 /\ (v[i] = b \/ v[i] = c))
  <2>1. (m = 1 /\ i = 1) \/ (n = 2 /\ (i = m + 1 \/ i = m + 2))
    OBVIOUS
  <2> QED
    BY <1>10, <1>11, <2>1
<1>13. \A i \in 1 .. m + n :
         /\ v[i].field \in {"Last-Modified", "Cache-Control", "ETag"}
         /\ v[i].field = "Last-Modified" => stamped /\ v[i].value = stmp
         /\ v[i].field = "ETag" => cached /\ v[i].value = etag
  <2> SUFFICES ASSUME NEW i \in 1 .. m + n
               PROVE  /\ v[i].field \in {"Last-Modified", "Cache-Control", "ETag"}
                      /\ v[i].field = "Last-Modified" => stamped /\ v[i].value = stmp
                      /\ v[i].field = "ETag" => cached /\ v[i].value = etag
    OBVIOUS
  <2>1. CASE m = 1 /\ v[i] = a
    <3>1. stamped
      BY <1>7, <2>1
    <3>2. v[i].field = "Last-Modified" /\ v[i].value = stmp
      BY <1>2, <2>1
    <3>3. v[i].field # "ETag"
      BY <3>2
    <3> QED
      BY <3>1, <3>2, <3>3
  <2>2. CASE n = 2 /\ v[i] = b
    BY <1>2, <2>2
  <2>3. CASE n = 2 /\ v[i] = c
    BY <1>2, <1>8, <2>3
  <2> QED
    BY <1>12, <2>1, <2>2, <2>3
<1>14. stamped => \E i \in 1 .. m + n : v[i].field = "Last-Modified"
  <2>1. m = 1 => 1 \in 1 .. m + n
    OBVIOUS
  <2>2. stamped => m = 1
    BY <1>7
  <2> QED
    BY <1>2, <1>10, <2>1, <2>2
<1>15. cached => \E i \in 1 .. m + n : v[i].field = "ETag"
  <2>1. n = 2 => m + 2 \in 1 .. m + n
    OBVIOUS
  <2> QED
    BY <1>2, <1>8, <1>11, <2>1
<1>16. m + n \in 0 .. 3
  OBVIOUS
<1> QED
  BY <1>0, <1>9, <1>13, <1>14, <1>15, <1>16 DEF Validates

\* The fields the static file handler may set
StaticFields == {"Last-Modified", "Cache-Control", "ETag", "Content-Disposition", "Content-Encoding"}

LEMMA ValidatorsFollow ==
  ASSUME NEW r, IsResponse(r), NEW h, NEW stmp, NEW etag, NEW q, q = AddHeaders(r, Validators(h, stmp, etag))
  PROVE  Follows(r, q, StaticFields) /\ q.code = r.code /\ q.body = r.body
<1>1. PICK v : v = Validators(h, stmp, etag)
  OBVIOUS
<1>2. Validates(h, stmp, etag, v)
  BY <1>1, ValidatorsProperties
<1>3. PICK A : v \in Seq(A)
  BY <1>2 DEF Validates
<1>4. \A i \in 1 .. Len(v) : v[i].field \in {"Last-Modified", "Cache-Control", "ETag"}
  BY <1>2 DEF Validates
<1>5. \A i \in 1 .. Len(v) : v[i].field \in StaticFields
  BY <1>4 DEF StaticFields
<1> QED
  BY <1>1, <1>3, <1>5, AddHeadersFollow

\* What is sent of a file: its packed form, if only that is there
LEMMA FileResponseSends ==
  ASSUME NEW r, IsResponse(r), NEW files, NEW dirs, NEW path, NEW packed \in BOOLEAN, NEW name, NEW q,
         packed <=> ~ Exists(files, dirs, path) /\ Exists(files, dirs, Gz(path)),
         name = IF packed THEN Gz(path) ELSE path,
         q = FileResponse(r, files, dirs, path)
  PROVE  /\ Follows(r, q, {"Content-Encoding", "Content-Disposition"}) /\ q.code = r.code
         /\ q.body = IF IsFile(files, name) THEN Open(files, name) ELSE NoBody
         /\ packed => /\ Says(q, "Content-Encoding", {"gzip"})
                      /\ \E n \in Nat : Early(q, "Content-Encoding", "gzip", n)
         /\ ~ packed => \A V : Says(r, "Content-Encoding", V) => Says(q, "Content-Encoding", V)
<1>1. PICK e : e = IF packed THEN AddHeader(r, "Content-Encoding", "gzip") ELSE r
  OBVIOUS
<1>2. PICK body : body = IF IsFile(files, name) THEN Open(files, name) ELSE NoBody
  OBVIOUS
<1>3. PICK d : d = AddHeader(e, "Content-Disposition", path)
  OBVIOUS
<1>4. q = SetContent(d, body)
  BY <1>1, <1>2, <1>3 DEF FileResponse
<1>5. PICK l \in Nat : l = Len(r.headers)
  BY ResponseLength
<1>6. /\ Follows(r, e, {"Content-Encoding"}) /\ e.code = r.code
      /\ packed => Says(e, "Content-Encoding", {"gzip"}) /\ Early(e, "Content-Encoding", "gzip", l + 1)
      /\ ~ packed => e = r
  <2>1. CASE packed
    <3>1. e = AddHeader(r, "Content-Encoding", "gzip") /\ l + 1 \in Nat /\ l < l + 1
      BY <1>1, <2>1
    <3>2. /\ Follows(r, e, {"Content-Encoding"}) /\ e.code = r.code
          /\ Says(e, "Content-Encoding", {"gzip"})
          /\ \A n \in Nat : Len(r.headers) < n => Early(e, "Content-Encoding", "gzip", n)
      <4>1. PICK f, v : f = "Content-Encoding" /\ v = "gzip"
        OBVIOUS
      <4>2. e = AddHeader(r, f, v)
        BY <3>1, <4>1
      <4>3. /\ Follows(r, e, {f}) /\ e.code = r.code
            /\ Says(e, f, {v})
            /\ \A n \in Nat : Len(r.headers) < n => Early(e, f, v, n)
        BY <4>2, AddHeaderSays DEF Sets
      <4> QED
        BY <4>1, <4>3
    <3> QED
      BY <1>5, <2>1, <3>1, <3>2
  <2>2. CASE ~ packed
    <3>1. e = r
      BY <1>1, <2>2
    <3>2. Follows(r, e, {"Content-Encoding"})
      BY <3>1, SameHeadersFollow
    <3> QED
      BY <2>2, <3>1, <3>2
  <2> QED
    BY <2>1, <2>2
<1>7. IsResponse(e)
  BY <1>6 DEF Follows
<1>8. Follows(e, d, {"Content-Disposition"}) /\ d.code = e.code
  <2>1. PICK f : f = "Content-Disposition"
    OBVIOUS
  <2>2. d = AddHeader(e, f, path)
    BY <1>3, <2>1
  <2>3. Follows(e, d, {f}) /\ d.code = e.code
    BY <1>7, <2>2, AddHeaderSays DEF Sets
  <2> QED
    BY <2>1, <2>3
<1>9. IsResponse(d)
  BY <1>8 DEF Follows
<1>10. IsResponse(q) /\ q.headers = d.headers /\ q.body = body /\ q.code = d.code
  BY <1>4, <1>9, SetContentSets
<1>11. Follows(d, q, {})
  BY <1>10, SameHeadersFollow
<1>12. Follows(e, q, {"Content-Disposition"} \cup {})
  BY <1>8, <1>11, FollowsTransitive
<1>13. Follows(e, q, {"Content-Disposition"})
  BY <1>12
<1>14. Follows(r, q, {"Content-Encoding"} \cup {"Content-Disposition"})
  BY <1>6, <1>13, FollowsTransitive
<1>15. {"Content-Encoding"} \cup {"Content-Disposition"} = {"Content-Encoding", "Content-Disposition"}
  OBVIOUS
<1>16. "Content-Encoding" \notin {"Content-Disposition"} /\ l + 1 \in Nat
  OBVIOUS
<1>17. packed => Says(q, "Content-Encoding", {"gzip"}) /\ Early(q, "Content-Encoding", "gzip", l + 1)
  BY <1>6, <1>13, <1>16 DEF Follows
<1>18. ~ packed => \A V : Says(r, "Content-Encoding", V) => Says(q, "Content-Encoding", V)
  BY <1>6, <1>13, <1>16 DEF Follows
<1> QED
  BY <1>2, <1>6, <1>8, <1>10, <1>14, <1>15, <1>16, <1>17, <1>18

\* The static file handler answers 200 or 304, and leaves the other fields.
LEMMA StaticAnswer ==
  ASSUME NEW r, IsResponse(r), r.code = 200, NEW h, NEW rq, NEW files, NEW dirs, NEW stmp, NEW q,
         q = HandleStatic(h, rq, r, files, dirs, stmp)
  PROVE  Follows(r, q, StaticFields) /\ q.code \in {200, 304}
<1>1. PICK etag : etag = Size(h.file)
  OBVIOUS
<1>2. \/ q = SetCode(r, 304)
      \/ q = SetCode(AddHeaders(r, Validators(h, NoStamp, etag)), 304)
      \/ q = AddHeaders(FileResponse(r, files, dirs, h.filename), Validators(h, stmp, etag))
  <2> DEFINE a == stmp # NoStamp /\ rq.ifModifiedSince = stmp
             b == h.cache /\ rq.ifNoneMatch = etag
             x == SetCode(r, 304)
             y == SetCode(AddHeaders(r, Validators(h, NoStamp, etag)), 304)
             z == AddHeaders(FileResponse(r, files, dirs, h.filename), Validators(h, stmp, etag))
  <2>1. q = CASE a -> x [] ~ a /\ b -> y [] OTHER -> z
    BY <1>1 DEF HandleStatic
  <2> HIDE DEF a, b, x, y, z
  <2>2. q = x \/ q = y \/ q = z
    BY <2>1
  <2> QED
    BY <2>2 DEF x, y, z
<1>3. CASE q = SetCode(r, 304)
  <2>1. IsResponse(q) /\ q.headers = r.headers /\ q.code = IF 304 = 0 THEN 200 ELSE 304
    BY <1>3, SetCodeSets
  <2>2. Follows(r, q, StaticFields)
    BY <2>1, SameHeadersFollow
  <2> QED
    BY <2>1, <2>2
<1>4. CASE q = SetCode(AddHeaders(r, Validators(h, NoStamp, etag)), 304)
  <2>1. PICK d : d = AddHeaders(r, Validators(h, NoStamp, etag))
    OBVIOUS
  <2>2. Follows(r, d, StaticFields)
    BY <2>1, ValidatorsFollow
  <2>3. IsResponse(d)
    BY <2>2 DEF Follows
  <2>4. IsResponse(q) /\ q.headers = d.headers /\ q.code = IF 304 = 0 THEN 200 ELSE 304
    <3>1. q = SetCode(d, 304)
      BY <1>4, <2>1
    <3> QED
      BY <2>3, <3>1, SetCodeSets
  <2>5. Follows(d, q, StaticFields)
    BY <2>4, SameHeadersFollow
  <2>6. Follows(r, q, StaticFields \cup StaticFields)
    BY <2>2, <2>5, FollowsTransitive
  <2>7. StaticFields \cup StaticFields = StaticFields
    OBVIOUS
  <2> QED
    BY <2>4, <2>6, <2>7
<1>5. CASE q = AddHeaders(FileResponse(r, files, dirs, h.filename), Validators(h, stmp, etag))
  <2>1. PICK d : d = FileResponse(r, files, dirs, h.filename)
    OBVIOUS
  <2>2. PICK packed \in BOOLEAN :
          packed <=> ~ Exists(files, dirs, h.filename) /\ Exists(files, dirs, Gz(h.filename))
    OBVIOUS
  <2>3. PICK name : name = IF packed THEN Gz(h.filename) ELSE h.filename
    OBVIOUS
  <2>4. Follows(r, d, {"Content-Encoding", "Content-Disposition"}) /\ d.code = r.code
    BY <2>1, <2>2, <2>3, FileResponseSends
  <2>5. IsResponse(d)
    BY <2>4 DEF Follows
  <2>6. Follows(d, q, StaticFields) /\ q.code = d.code
    BY <1>5, <2>1, <2>5, ValidatorsFollow
  <2>7. Follows(r, q, {"Content-Encoding", "Content-Disposition"} \cup StaticFields)
    BY <2>4, <2>6, FollowsTransitive
  <2>8. {"Content-Encoding", "Content-Disposition"} \cup StaticFields = StaticFields
    BY DEF StaticFields
  <2> QED
    BY <2>4, <2>6, <2>7, <2>8
<1> QED
  BY <1>2, <1>3, <1>4, <1>5

-----------------------------------------------------------------------------
(* The handler's members.                                                  *)

\* A request changes only the last four members.
HandlerOf(mount, root, isDir, defaultFile, cache, h) ==
  \E gzipFirst \in BOOLEAN, stats \in 0 .. 255 : \E file, filename :
    h = [mount |-> mount, root |-> root, isDir |-> isDir, defaultFile |-> defaultFile, cache |-> cache,
         gzipFirst |-> gzipFirst, stats |-> stats, file |-> file, filename |-> filename]

\* What is open is the file of a path, in one of its forms, or there is neither.
Finds(k, files, path) ==
  \/ k.file = NoFile /\ ~ IsFile(files, path) /\ ~ IsFile(files, Gz(path))
  \/ k.filename = path /\ k.file = Open(files, path) /\ IsFile(files, path)
  \/ k.filename = path /\ k.file = Open(files, Gz(path)) /\ IsFile(files, Gz(path))

LEMMA HandlerCloses ==
  ASSUME NEW m, NEW r, NEW i, NEW d, NEW c, NEW h, HandlerOf(m, r, i, d, c, h), NEW f
  PROVE  /\ HandlerOf(m, r, i, d, c, [h EXCEPT !.file = f])
         /\ [h EXCEPT !.file = f].file = f
<1>1. PICK g \in BOOLEAN, s \in 0 .. 255 : \E file, filename :
        h = [mount |-> m, root |-> r, isDir |-> i, defaultFile |-> d, cache |-> c,
             gzipFirst |-> g, stats |-> s, file |-> file, filename |-> filename]
  BY DEF HandlerOf
<1>2. PICK file, filename :
        h = [mount |-> m, root |-> r, isDir |-> i, defaultFile |-> d, cache |-> c,
             gzipFirst |-> g, stats |-> s, file |-> file, filename |-> filename]
  BY <1>1
<1>3. [h EXCEPT !.file = f] = [mount |-> m, root |-> r, isDir |-> i, defaultFile |-> d, cache |-> c,
                               gzipFirst |-> g, stats |-> s, file |-> f, filename |-> filename]
  BY <1>2
<1> QED
  BY <1>3 DEF HandlerOf

LEMMA FileExistsFinds ==
  ASSUME NEW m, NEW r, NEW i, NEW d, NEW c, NEW h, HandlerOf(m, r, i, d, c, h), NEW files, NEW path,
         NEW k, k = FileExists(h, files, path)
  PROVE  HandlerOf(m, r, i, d, c, k) /\ Finds(k, files, path)
<1>1. PICK g \in BOOLEAN, s \in 0 .. 255 : \E file, filename :
        h = [mount |-> m, root |-> r, isDir |-> i, defaultFile |-> d, cache |-> c,
             gzipFirst |-> g, stats |-> s, file |-> file, filename |-> filename]
  BY DEF HandlerOf
<1>2. PICK file, filename :
        h = [mount |-> m, root |-> r, isDir |-> i, defaultFile |-> d, cache |-> c,
             gzipFirst |-> g, stats |-> s, file |-> file, filename |-> filename]
  BY <1>1
<1>3. PICK plain \in BOOLEAN, gz \in BOOLEAN :
        (plain <=> IsFile(files, path)) /\ (gz <=> IsFile(files, Gz(path)))
  OBVIOUS
<1>4. PICK found \in BOOLEAN : found <=> gz /\ (g \/ ~ plain)
  OBVIOUS
<1>5. PICK n : n = (2 * s + IF found THEN 1 ELSE 0) % 256
  OBVIOUS
<1>6. n \in 0 .. 255
  BY <1>5
<1>7. PICK more \in BOOLEAN : more <=> Bits(n) > 4
  OBVIOUS
<1>8. CASE plain \/ gz
  <2>1. PICK o : o = Open(files, IF found THEN Gz(path) ELSE path)
    OBVIOUS
  <2>2. h.gzipFirst = g /\ h.stats = s
    BY <1>2
  <2>3. k = [h EXCEPT !.file = o, !.filename = path, !.stats = n, !.gzipFirst = more]
    <3>1. k = [h EXCEPT !.file = Open(files, IF gz /\ (h.gzipFirst \/ ~ plain) THEN Gz(path) ELSE path),
                        !.filename = path,
                        !.stats = (2 * h.stats + IF gz /\ (h.gzipFirst \/ ~ plain) THEN 1 ELSE 0) % 256,
                        !.gzipFirst = Bits((2 * h.stats + IF gz /\ (h.gzipFirst \/ ~ plain) THEN 1 ELSE 0) % 256) > 4]
      <4>1. plain = IsFile(files, path) /\ gz = IsFile(files, Gz(path))
        BY <1>3 DEF IsFile
      <4> QED
        BY <1>8, <4>1, ZenonT(60) DEF FileExists
    <3>2. gz /\ (h.gzipFirst \/ ~ plain) <=> found
      BY <1>4, <2>2
    <3>3. (2 * h.stats + IF gz /\ (h.gzipFirst \/ ~ plain) THEN 1 ELSE 0) % 256 = n
      BY <1>5, <2>2, <3>2
    <3>4. Open(files, IF gz /\ (h.gzipFirst \/ ~ plain) THEN Gz(path) ELSE path) = o
      BY <2>1, <3>2
    <3>5. k = [h EXCEPT !.file = o, !.filename = path, !.stats = n, !.gzipFirst = Bits(n) > 4]
      BY <3>1, <3>3, <3>4
    <3>6. (Bits(n) > 4) = more
      BY <1>7
    <3> QED
      BY <3>5, <3>6
  <2>4. k = [mount |-> m, root |-> r, isDir |-> i, defaultFile |-> d, cache |-> c,
             gzipFirst |-> more, stats |-> n, file |-> o, filename |-> path]
    BY <1>2, <2>3
  <2>5. HandlerOf(m, r, i, d, c, k)
    BY <1>6, <2>4 DEF HandlerOf
  <2>6. k.file = o /\ k.filename = path
    BY <2>4
  <2>7. CASE found
    <3>1. gz
      BY <1>4, <2>7
    <3>2. o = Open(files, Gz(path))
      BY <2>1, <2>7
    <3>3. k.filename = path /\ k.file = Open(files, Gz(path)) /\ IsFile(files, Gz(path))
      BY <1>3, <2>6, <3>1, <3>2
    <3> QED
      BY <2>5, <3>3 DEF Finds
  <2>8. CASE ~ found
    <3>1. plain
      BY <1>4, <1>8, <2>8
    <3>2. o = Open(files, path)
      BY <2>1, <2>8
    <3> QED
      <4>1. k.filename = path /\ k.file = Open(files, path) /\ IsFile(files, path)
        BY <1>3, <2>6, <3>1, <3>2
      <4> QED
        BY <2>5, <4>1 DEF Finds
  <2> QED
    BY <2>5, <2>7, <2>8
<1>9. CASE ~ (plain \/ gz)
  <2>1. k = [h EXCEPT !.file = NoFile]
    BY <1>3, <1>9 DEF FileExists
  <2>2. HandlerOf(m, r, i, d, c, k) /\ k.file = NoFile
    BY <2>1, HandlerCloses
  <2> QED
    BY <1>3, <1>9, <2>2 DEF Finds
<1> QED
  BY <1>8, <1>9

LEMMA GetFileFinds ==
  ASSUME NEW m, NEW r, NEW i, NEW d, NEW c, NEW h, HandlerOf(m, r, i, d, c, h), NEW files, NEW uri,
         NEW k, k = GetFile(h, files, uri)
  PROVE  HandlerOf(m, r, i, d, c, k)
<1> DEFINE rest == urlDecode(Before(SubSeq(uri, Len(h.mount) + 1, Len(uri)), "?"))
           climbs == \E j \in 1 .. Len(rest) - 1 : rest[j] = "." /\ rest[j + 1] = "."
           directory == IF rest = <<>> THEN h.isDir ELSE Last(rest) = "/"
           path == h.root \o rest
           closed == [h EXCEPT !.file = NoFile]
           asFile == IF directory THEN closed ELSE FileExists(h, files, path)
           below == IF path # <<>> /\ Last(path) = "/" THEN path ELSE Append(path, "/")
           default == FileExists(h, files, below \o h.defaultFile)
<1>1. k = IF climbs THEN closed
          ELSE IF asFile.file # NoFile \/ h.defaultFile = <<>> THEN asFile ELSE default
  BY DEF GetFile
<1>2. HandlerOf(m, r, i, d, c, closed)
  BY HandlerCloses
<1>3. HandlerOf(m, r, i, d, c, FileExists(h, files, path))
  BY FileExistsFinds
<1>4. HandlerOf(m, r, i, d, c, default)
  BY FileExistsFinds
<1>5. HandlerOf(m, r, i, d, c, asFile)
  <2> HIDE DEF closed, path, directory
  <2> QED
    BY <1>2, <1>3
<1> HIDE DEF climbs, closed, asFile, default
<1> QED
  BY <1>1, <1>2, <1>4, <1>5

-----------------------------------------------------------------------------
(* The invariant of KeptOut.                                               *)

StepRecords == [at : {"plain", "gz", "stamp"}, version : 0 .. MaxVersion]
StaticHandler == HandlerOf(Trimmed(site.mount), Trimmed(site.root), Last(WithSlash(site.root)) = "/",
                           site.defaultFile, site.cache, handler)

\* The application, and the server's members
ServerInv ==
  /\ site \in Sites
  /\ fs \in [site.files -> 0 .. MaxVersion]
  /\ version \in 1 .. MaxVersion
  /\ steps \in Seq(StepRecords) /\ Len(steps) <= 3
  /\ StaticHandler
  /\ session \in 0 .. MaxLosses
  /\ keys.nonce \in {NoValue, session}

\* The nonces of the session so far
Nonces(n) == {NoValue} \cup 0 .. n
Challenges(V, n) == \A c \in V : c.nonce \in Nonces(n)

\* The browser knows nonces of the past, and only the challenge of a 401 tells it one.
BrowserInv ==
  /\ want \subseteq Pages /\ met \subseteq Pages
  /\ known = [p \in Pages |-> known[p]]
  /\ \A p \in Pages : known[p] = NoValue \/ known[p].nonce \in Nonces(session)
  /\ res.code = 401 => \E V : Says(res, "WWW-Authenticate", V) /\ Challenges(V, session)

\* The exchange comes to an answer.
StageInv ==
  /\ stage \in {"none", "asked", "open", "answered"}
  /\ page \in Pages \cup {NoValue}
  /\ stage = "none" <=> page = NoValue
  /\ stage = "none" <=> req = NoRequest
  /\ IsResponse(res)
  /\ stage = "answered" => res.code \in {200, 301, 304, 401, 404}
  /\ stage # "answered" => res = NoResponse
  /\ touched \in BOOLEAN

\* Credentials made without the password
Unknowing(auth) == auth = NoValue \/ (auth.password # "right" /\ auth.response.password # "right")

\* Who does not know the password has not got past the middleware.
GuardInv ==
  /\ stage # "none" /\ ~ site.knows => Unknowing(req.auth)
  /\ stage = "open" /\ Guarded => site.knows
  /\ stage = "answered" /\ Guarded /\ ~ site.knows => res.code = 401 \/ Preflight

AccessInv == ServerInv /\ BrowserInv /\ StageInv /\ GuardInv

LEMMA AccessMeans == AccessInv => KeptOut
<1> SUFFICES ASSUME AccessInv PROVE KeptOut
  OBVIOUS
<1>1. handler.stats \in 0 .. 255 /\ handler.gzipFirst \in BOOLEAN
  <2>1. PICK g \in BOOLEAN, s \in 0 .. 255 : \E file, filename :
          handler = [mount |-> Trimmed(site.mount), root |-> Trimmed(site.root),
                     isDir |-> Last(WithSlash(site.root)) = "/",
                     defaultFile |-> site.defaultFile, cache |-> site.cache,
                     gzipFirst |-> g, stats |-> s, file |-> file, filename |-> filename]
    BY DEF AccessInv, ServerInv, StaticHandler, HandlerOf
  <2>2. handler.stats = s /\ handler.gzipFirst = g
    BY <2>1
  <2> QED
    BY <2>2
<1>2. stage = "answered" <=> res # NoResponse
  <2>1. NoResponse.code = 0
    BY DEF NoResponse
  <2>2. stage = "answered" => res.code # 0
    BY DEF AccessInv, StageInv
  <2>3. stage # "answered" => res = NoResponse
    BY DEF AccessInv, StageInv
  <2> QED
    BY <2>1, <2>2, <2>3
<1>3. ExchangeTypeOK
  BY <1>1, <1>2 DEF AccessInv, ServerInv, BrowserInv, StageInv, ExchangeTypeOK, Nonces
<1> QED
  BY <1>3 DEF AccessInv, GuardInv, KeptOut

LEMMA NewIsResponse ==
  ASSUME site \in Sites
  PROVE  /\ IsResponse(New) /\ New.code = 200 /\ New.body = NoBody
         /\ Len(New.headers) \in 0 .. Len(site.defaults)
         /\ \A field : Says(New, field, {"set"})
<1>1. PICK d, S : d = site.defaults /\ S = STRING
  OBVIOUS
<1>2. d \in Seq(S)
  BY <1>1, SitesAssumption
<1> QED
  BY <1>1, <1>2, NewResponseProperties DEF New

\* The CORS middleware leaves the code and the body.
LEMMA WithCorsKeeps ==
  ASSUME NEW r, IsResponse(r), NEW q, q = WithCors(r)
  PROVE  IsResponse(q) /\ q.code = r.code /\ q.body = r.body
<1>1. CASE q = r
  BY <1>1
<1>2. CASE q = AddHeaders(r, Headers(CorsFields))
  BY <1>2, CorsProperties
<1> QED
  BY <1>1, <1>2 DEF WithCors

\* A request that no middleware stops is allowed, and one the CORS middleware answers is a
\* preflight.
LEMMA Stops ==
  ASSUME site \in Sites
  PROVE  /\ StoppedBy = "" => Allowed
         /\ StoppedBy = "cors" => Preflight
<1>1. PICK chain, S : chain = site.chain /\ S = {"cors", "auth"}
  OBVIOUS
<1>2. chain \in Seq(S)
  BY <1>1, SitesAssumption
<1>3. PICK n \in Nat : n = Len(chain) /\ DOMAIN chain = 1 .. n /\ \A i \in 1 .. n : chain[i] \in S
  BY <1>2
<1>4. PICK I : I = {i \in 1 .. n : (chain[i] = "cors" /\ Preflight) \/ (chain[i] = "auth" /\ ~ Allowed)}
  OBVIOUS
<1>5. PICK k : k = IF I # {} THEN Min(I) ELSE 0
  OBVIOUS
<1>6. StoppedBy = IF k = 0 THEN "" ELSE chain[k]
  BY <1>1, <1>3, <1>4, <1>5 DEF StoppedBy, SelectInSeq
<1>7. ASSUME I # {} PROVE k \in I /\ k \in 1 .. n /\ StoppedBy = chain[k] /\ StoppedBy # ""
  <2>1. I \subseteq Nat
    BY <1>4
  <2>2. Min(I) \in I
    BY <1>7, <2>1, MinProperties
  <2>3. k \in I
    BY <1>5, <1>7, <2>2
  <2>4. k \in 1 .. n /\ k # 0
    BY <1>4, <2>3
  <2>5. StoppedBy = chain[k]
    BY <1>6, <2>4
  <2>6. chain[k] # ""
    BY <1>1, <1>3, <2>4
  <2> QED
    BY <2>3, <2>4, <2>5, <2>6
<1>8. ASSUME StoppedBy = "" PROVE Allowed
  <2>1. I = {}
    BY <1>7, <1>8
  <2>2. CASE Guarded
    <3>1. PICK i \in 1 .. n : chain[i] = "auth"
      BY <1>1, <1>3, <2>2 DEF Guarded, Range
    <3> QED
      BY <1>4, <2>1, <3>1
  <2>3. CASE ~ Guarded
    BY <2>3 DEF Allowed
  <2> QED
    BY <2>2, <2>3
<1>9. ASSUME StoppedBy = "cors" PROVE Preflight
  <2>1. I # {}
    <3> SUFFICES ASSUME I = {} PROVE FALSE
      OBVIOUS
    <3>1. StoppedBy = ""
      BY <1>5, <1>6
    <3> QED
      BY <1>9, <3>1
  <2>2. k \in I /\ StoppedBy = chain[k]
    BY <1>7, <2>1
  <2> QED
    BY <1>4, <1>9, <2>2
<1> QED
  BY <1>8, <1>9

\* Without the password no request is allowed.
LEMMA NotAllowed ==
  ASSUME Guarded, Unknowing(req.auth)
  PROVE  ~ Allowed
<1>1. Digest("right", req.auth.realm, req.auth.nonce, Verb(req.method), Rewritten(req.uri)).password = "right"
  BY DEF Digest
<1>2. ~ Authenticate(req.auth, keys, req.method, Rewritten(req.uri))
  BY <1>1 DEF Authenticate, Unknowing
<1> QED
  BY <1>2 DEF Allowed

LEMMA InitAccess == ExchangeInit => AccessInv
<1> SUFFICES ASSUME ExchangeInit PROVE AccessInv
  OBVIOUS
<1>1. ServerInv
  <2>1. fs \in [site.files -> 0 .. MaxVersion] /\ version \in 1 .. MaxVersion
    <3>1. 0 \in 0 .. MaxVersion /\ 1 \in 0 .. MaxVersion /\ 1 \in 1 .. MaxVersion
      BY BoundsAssumption
    <3>2. fs = [n \in site.files |-> IF n \in site.there THEN 1 ELSE 0] /\ version = 1
      BY DEF ExchangeInit
    <3> QED
      BY <3>1, <3>2
  <2>2. steps \in Seq(StepRecords) /\ Len(steps) <= 3
    <3>1. steps = <<>>
      BY DEF ExchangeInit
    <3> QED
      BY <3>1
  <2>3. StaticHandler
    <3>1. PICK s, f, n : s = 248 /\ f = NoFile /\ n = <<>>
      OBVIOUS
    <3>2. PICK g \in BOOLEAN : g = FALSE
      OBVIOUS
    <3>3. handler = [mount |-> Trimmed(site.mount), root |-> Trimmed(site.root),
                     isDir |-> Last(WithSlash(site.root)) = "/",
                     defaultFile |-> site.defaultFile, cache |-> site.cache,
                     gzipFirst |-> g, stats |-> s, file |-> f, filename |-> n]
      BY <3>1, <3>2 DEF ExchangeInit, NewStatic
    <3>4. s \in 0 .. 255
      BY <3>1
    <3> QED
      BY <3>3, <3>4 DEF StaticHandler, HandlerOf
  <2>4. session \in 0 .. MaxLosses /\ keys.nonce \in {NoValue, session}
    <3>1. session = 0 /\ keys = NoKeys
      BY DEF ExchangeInit
    <3>2. 0 \in 0 .. MaxLosses
      BY BoundsAssumption
    <3>3. NoKeys.nonce = NoValue
      BY DEF NoKeys
    <3> QED
      BY <3>1, <3>2, <3>3
  <2> QED
    BY <2>1, <2>2, <2>3, <2>4 DEF ServerInv, ExchangeInit
<1>2. IsResponse(res) /\ res.code = 0
  <2>1. PICK A, hs, code, body : A = {} /\ hs = <<>> /\ code = 0 /\ body = NoBody
    OBVIOUS
  <2>2. res = NoResponse
    BY DEF ExchangeInit
  <2>3. hs \in Seq(A) /\ res = [code |-> code, headers |-> hs, body |-> body]
    <3>1. hs \in Seq(A)
      BY <2>1
    <3>2. NoResponse = [code |-> code, headers |-> hs, body |-> body]
      BY <2>1 DEF NoResponse
    <3> QED
      BY <2>2, <3>1, <3>2
  <2>4. res.code = 0
    BY <2>1, <2>3
  <2> QED
    BY <2>3, <2>4 DEF IsResponse
<1>3. BrowserInv
  <2>1. want = {} /\ met = {} /\ known = [p \in Pages |-> NoValue]
    BY DEF ExchangeInit
  <2>2. res.code # 401
    BY <1>2
  <2> QED
    BY <2>1, <2>2 DEF BrowserInv
<1>4. StageInv
  BY <1>2, SitesAssumption DEF StageInv, ExchangeInit
<1>5. GuardInv
  BY DEF GuardInv, ExchangeInit
<1> QED
  BY <1>1, <1>3, <1>4, <1>5 DEF AccessInv

\* What none of its variables changes stays true.
LEMMA FramesStay ==
  /\ ServerInv /\ UNCHANGED <<site, fs, version, steps, handler, session, keys>> => ServerInv'
  /\ BrowserInv /\ UNCHANGED <<want, met, known, session, res>> => BrowserInv'
  /\ StageInv /\ UNCHANGED <<stage, page, req, res>> /\ touched' \in BOOLEAN => StageInv'
  /\ GuardInv /\ UNCHANGED <<site, stage, req, res>> => GuardInv'
<1>1. ServerInv /\ UNCHANGED <<site, fs, version, steps, handler, session, keys>> => ServerInv'
  BY DEF ServerInv, StaticHandler
<1>2. BrowserInv /\ UNCHANGED <<want, met, known, session, res>> => BrowserInv'
  BY DEF BrowserInv
<1>3. StageInv /\ UNCHANGED <<stage, page, req, res>> /\ touched' \in BOOLEAN => StageInv'
  BY DEF StageInv
<1>4. GuardInv /\ UNCHANGED <<site, stage, req, res>> => GuardInv'
  BY DEF GuardInv, Guarded, Preflight
<1> QED
  BY <1>1, <1>2, <1>3, <1>4

LEMMA WantAccess ==
  ASSUME AccessInv, NEW p \in Pages, Want(p)
  PROVE  AccessInv'
<1>1. /\ UNCHANGED <<site, fs, version, steps, handler, session, keys>>
      /\ UNCHANGED <<met, known, session, res>> /\ UNCHANGED <<stage, page, req, res>>
      /\ UNCHANGED <<site, stage, req, res>> /\ touched' = touched /\ want' = want \cup {p}
  BY DEF Want, application, server
<1>2. touched' \in BOOLEAN
  BY <1>1 DEF AccessInv, StageInv
<1>3. BrowserInv'
  BY <1>1 DEF AccessInv, BrowserInv
<1> QED
  BY <1>1, <1>2, <1>3, FramesStay DEF AccessInv

LEMMA CredentialsUnknowing ==
  ASSUME NEW p, NEW uri, ~ site.knows
  PROVE  Unknowing(Credentials(p, uri))
<1>1. PICK c, a, m : c = known[p] /\ a = Credentials(p, uri) /\ m = site.page[p].method
  OBVIOUS
<1>2. CASE c = NoValue
  BY <1>1, <1>2 DEF Credentials, Unknowing
<1>3. CASE c # NoValue
  <2>1. PICK d : d = Digest("wrong", c.realm, c.nonce, m, uri)
    OBVIOUS
  <2>2. a = [mode |-> c.mode, password |-> "wrong", realm |-> c.realm, nonce |-> c.nonce, response |-> d]
    BY <1>1, <1>3, <2>1 DEF Credentials
  <2>3. d.password = "wrong"
    BY <2>1 DEF Digest
  <2>4. a.password = "wrong" /\ a.response = d
    BY <2>2
  <2>5. a.password # "right" /\ a.response.password # "right"
    BY <2>3, <2>4
  <2> QED
    BY <1>1, <2>5 DEF Unknowing
<1> QED
  BY <1>2, <1>3

\* A request is sent, with credentials of who asks.
LEMMA AskAccess ==
  ASSUME AccessInv, NEW p \in Pages, AskAny(p)
  PROVE  AccessInv'
<1>1. /\ UNCHANGED <<site, fs, version, steps, handler, session, keys>>
      /\ UNCHANGED <<want, met, known, session, res>>
      /\ stage = "none" /\ stage' = "asked" /\ page' = p /\ res' = res /\ touched' = (steps # <<>>)
  BY DEF AskAny, Ask, AskFirst, application, server, browser
<1>2. req' # NoRequest /\ (~ site.knows => Unknowing(req'.auth))
  <2>1. CASE AskFirst(p)
    <3>1. req'.method = "OPTIONS" /\ req'.auth = NoValue
      BY <2>1 DEF AskFirst
    <3>2. NoRequest.method = "none"
      BY DEF NoRequest
    <3> QED
      BY <3>1, <3>2 DEF Unknowing
  <2>2. ASSUME NEW q, NEW b, Ask(p, q, b) PROVE req' # NoRequest /\ (~ site.knows => Unknowing(req'.auth))
    <3>1. PICK uri : req' = [method |-> site.page[p].method, uri |-> uri, body |-> FormText(b),
                             origin |-> site.cross, auth |-> Credentials(p, uri),
                             ifNoneMatch |-> store[p].etag, ifModifiedSince |-> store[p].stamp,
                             cookies |-> jar, query |-> q, form |-> b]
      BY <2>2 DEF Ask
    <3>2. PICK a, m, t, x : a = Credentials(p, uri) /\ m = site.page[p].method /\ t = FormText(b) /\ x = store[p]
      OBVIOUS
    <3>3. req' = [method |-> m, uri |-> uri, body |-> t, origin |-> site.cross, auth |-> a,
                  ifNoneMatch |-> x.etag, ifModifiedSince |-> x.stamp, cookies |-> jar, query |-> q, form |-> b]
      BY <3>1, <3>2
    <3>4. "uri" \in DOMAIN req' /\ "uri" \notin DOMAIN NoRequest
      BY <3>3 DEF NoRequest
    <3>5. req'.auth = a
      BY <3>3
    <3> QED
      BY <3>2, <3>4, <3>5, CredentialsUnknowing
  <2> QED
    BY <2>1, <2>2 DEF AskAny
<1>3. StageInv'
  <2>1. res' = NoResponse /\ IsResponse(res')
    BY <1>1 DEF AccessInv, StageInv
  <2>2. touched' \in BOOLEAN
    BY <1>1
  <2>3. p # NoValue
    BY SitesAssumption
  <2> QED
    BY <1>1, <1>2, <2>1, <2>2, <2>3 DEF StageInv
<1>4. GuardInv'
  BY <1>1, <1>2 DEF GuardInv
<1> QED
  BY <1>1, <1>3, <1>4, FramesStay DEF AccessInv

\* What an answer must be
LEMMA AnsweredAccess ==
  ASSUME AccessInv, stage \in {"asked", "open"}, NEW r, Answer(r), IsResponse(r), r.code \in {200, 301, 304, 401, 404},
         UNCHANGED <<site, want, met, known, session, page, req, touched>>,
         r.code = 401 => \E V : Says(r, "WWW-Authenticate", V) /\ Challenges(V, session),
         Guarded /\ ~ site.knows => r.code = 401 \/ Preflight
  PROVE  BrowserInv' /\ StageInv' /\ GuardInv'
<1>1. stage' = "answered" /\ res' = r
  BY DEF Answer
<1>2. BrowserInv'
  BY <1>1 DEF AccessInv, BrowserInv
<1>3. StageInv'
  BY <1>1 DEF AccessInv, StageInv
<1>4. GuardInv'
  <2>1. Guarded' = Guarded /\ Preflight' = Preflight
    BY DEF Guarded, Preflight
  <2>2. ~ site'.knows => Unknowing(req'.auth)
    BY DEF AccessInv, GuardInv
  <2>3. Guarded' /\ ~ site'.knows => res'.code = 401 \/ Preflight'
    BY <1>1, <2>1
  <2> QED
    BY <1>1, <2>2, <2>3 DEF GuardInv
<1> QED
  BY <1>2, <1>3, <1>4

LEMMA PreflightAccess ==
  ASSUME AccessInv, AnswerPreflight
  PROVE  AccessInv'
<1>1. site \in Sites
  BY DEF AccessInv, ServerInv
<1>2. PICK r : r = WithCors(New)
  OBVIOUS
<1>3. IsResponse(r) /\ r.code = 200
  BY <1>1, <1>2, NewIsResponse, WithCorsKeeps
<1>4. /\ stage = "asked" /\ StoppedBy = "cors" /\ Answer(r)
      /\ UNCHANGED <<site, want, met, known, session, page, req, touched>>
      /\ UNCHANGED <<site, fs, version, steps, handler, session, keys>>
  BY <1>2 DEF AnswerPreflight, application, server, browser
<1>5. Preflight
  BY <1>1, <1>4, Stops
<1>6. BrowserInv' /\ StageInv' /\ GuardInv'
  BY <1>3, <1>4, <1>5, AnsweredAccess
<1> QED
  BY <1>4, <1>6, FramesStay DEF AccessInv

LEMMA ChallengeAccess ==
  ASSUME AccessInv, Challenge
  PROVE  AccessInv'
<1>1. site \in Sites /\ session \in 0 .. MaxLosses /\ keys.nonce \in {NoValue, session}
  BY DEF AccessInv, ServerInv
<1>2. /\ stage = "asked"
      /\ UNCHANGED <<site, want, met, known, session, page, req, touched>>
      /\ UNCHANGED <<site, fs, version, steps, handler, session>>
      /\ keys' = Challenged(keys, site.mode, site.page[page].realm, session)
  BY DEF Challenge, application, browser
<1>3. keys'.nonce \in {NoValue, session}
  BY <1>1, <1>2 DEF Challenged
<1>4. PICK f, c, q, r : /\ f = "WWW-Authenticate"
                        /\ c = [mode |-> site.mode, realm |-> keys'.realm,
                                nonce |-> IF site.mode = "digest" THEN keys'.nonce ELSE NoValue]
                        /\ q = SetCode(New, 401) /\ r = AddHeader(q, f, c)
  OBVIOUS
<1>5. Answer(r)
  BY <1>4 DEF Challenge
<1>6. IsResponse(q) /\ q.code = 401
  BY <1>1, <1>4, NewIsResponse, SetCodeSets
<1>7. Sets(q, f, c, r)
  BY <1>4, <1>6, AddHeaderSays
<1>8. IsResponse(r) /\ r.code = 401 /\ Says(r, f, {c})
  BY <1>6, <1>7 DEF Sets, Follows
<1>9. Challenges({c}, session)
  <2>1. c.nonce = IF site.mode = "digest" THEN keys'.nonce ELSE NoValue
    BY <1>4
  <2>2. c.nonce \in {NoValue, session}
    BY <1>3, <2>1
  <2>3. session \in 0 .. session
    BY <1>1, BoundsAssumption
  <2> QED
    BY <2>2, <2>3 DEF Challenges, Nonces
<1>10. \E V : Says(r, "WWW-Authenticate", V) /\ Challenges(V, session)
  BY <1>4, <1>8, <1>9
<1>11. BrowserInv' /\ StageInv' /\ GuardInv'
  BY <1>2, <1>5, <1>8, <1>10, AnsweredAccess
<1>12. ServerInv'
  BY <1>2, <1>3 DEF AccessInv, ServerInv, StaticHandler
<1> QED
  BY <1>11, <1>12 DEF AccessInv

LEMMA OpenFileAccess ==
  ASSUME AccessInv, OpenFile
  PROVE  AccessInv'
<1>1. site \in Sites
  BY DEF AccessInv, ServerInv
<1>2. /\ stage = "asked"
      /\ UNCHANGED <<site, want, met, known, session, page, req, touched>>
      /\ UNCHANGED <<site, fs, version, steps, session, keys>>
  BY DEF OpenFile, application, browser
<1>3. StoppedBy = ""
  BY DEF OpenFile
<1>4. PICK opened : opened = GetFile(handler, fs, Rewritten(req.uri))
  OBVIOUS
<1>5. handler' = opened \/ handler' = handler
  BY <1>4 DEF OpenFile
<1>6. StaticHandler'
  <2>1. PICK m, r, i, d, c : /\ m = Trimmed(site.mount) /\ r = Trimmed(site.root)
                             /\ i = (Last(WithSlash(site.root)) = "/")
                             /\ d = site.defaultFile /\ c = site.cache
    OBVIOUS
  <2>2. HandlerOf(m, r, i, d, c, handler)
    BY <2>1 DEF AccessInv, ServerInv, StaticHandler
  <2>3. HandlerOf(m, r, i, d, c, opened)
    BY <1>4, <2>2, GetFileFinds
  <2>4. HandlerOf(m, r, i, d, c, handler')
    BY <1>5, <2>2, <2>3
  <2> QED
    BY <1>2, <2>1, <2>4 DEF StaticHandler
<1>7. ServerInv'
  BY <1>2, <1>6 DEF AccessInv, ServerInv
<1>8. Guarded => site.knows
  <2>1. Allowed
    BY <1>1, <1>3, Stops
  <2>2. ~ site.knows => Unknowing(req.auth)
    BY <1>2 DEF AccessInv, GuardInv
  <2> QED
    BY <2>1, <2>2, NotAllowed
<1>9. CASE stage' = "open" /\ UNCHANGED res
  <2>1. BrowserInv'
    BY <1>2, <1>9, FramesStay DEF AccessInv
  <2>2. StageInv'
    BY <1>2, <1>9 DEF AccessInv, StageInv
  <2>3. GuardInv'
    BY <1>2, <1>8, <1>9 DEF AccessInv, GuardInv, Guarded
  <2> QED
    BY <1>7, <2>1, <2>2, <2>3 DEF AccessInv
<1>10. CASE NotFound
  <2>1. PICK r : r = SetCode(New, 404)
    OBVIOUS
  <2>2. IsResponse(r) /\ r.code = 404
    BY <1>1, <2>1, NewIsResponse, SetCodeSets
  <2>3. Answer(r)
    BY <1>10, <2>1 DEF NotFound
  <2>4. stage \in {"asked", "open"}
    BY <1>2
  <2>5. r.code \in {200, 301, 304, 401, 404} /\ r.code # 401
    BY <2>2
  <2>6. Guarded /\ ~ site.knows => r.code = 401 \/ Preflight
    BY <1>8
  <2>7. r.code = 401 => \E V : Says(r, "WWW-Authenticate", V) /\ Challenges(V, session)
    BY <2>5
  <2>8. BrowserInv' /\ StageInv' /\ GuardInv'
    BY <1>2, <2>2, <2>3, <2>4, <2>5, <2>6, <2>7, AnsweredAccess
  <2> QED
    BY <1>7, <2>8 DEF AccessInv
<1>11. (stage' = "open" /\ UNCHANGED res) \/ NotFound
  BY DEF OpenFile
<1> QED
  BY <1>9, <1>10, <1>11

LEMMA SendFileAccess ==
  ASSUME AccessInv, SendFile
  PROVE  AccessInv'
<1>1. site \in Sites
  BY DEF AccessInv, ServerInv
<1>2. PICK n : n = WithCors(New)
  OBVIOUS
<1>3. PICK r : r = HandleStatic(handler, req, n, fs, site.dirs, stamp)
  OBVIOUS
<1>4. /\ stage = "open" /\ Answer(r)
      /\ UNCHANGED <<site, want, met, known, session, page, req, touched>>
      /\ UNCHANGED <<site, fs, version, steps, session, keys>>
      /\ handler' = [handler EXCEPT !.file = NoFile]
  BY <1>2, <1>3 DEF SendFile, application, browser
<1>5. IsResponse(n) /\ n.code = 200
  BY <1>1, <1>2, NewIsResponse, WithCorsKeeps
<1>6. Follows(n, r, StaticFields) /\ r.code \in {200, 304}
  BY <1>3, <1>5, StaticAnswer
<1>7. IsResponse(r)
  BY <1>6 DEF Follows
<1>8. StaticHandler'
  <2>1. PICK m, t, i, d, c : /\ m = Trimmed(site.mount) /\ t = Trimmed(site.root)
                             /\ i = (Last(WithSlash(site.root)) = "/")
                             /\ d = site.defaultFile /\ c = site.cache
    OBVIOUS
  <2>2. HandlerOf(m, t, i, d, c, handler)
    BY <2>1 DEF AccessInv, ServerInv, StaticHandler
  <2>3. HandlerOf(m, t, i, d, c, handler')
    BY <1>4, <2>2, HandlerCloses
  <2> QED
    BY <1>4, <2>1, <2>3 DEF StaticHandler
<1>9. ServerInv'
  BY <1>4, <1>8 DEF AccessInv, ServerInv
<1>10. /\ stage \in {"asked", "open"} /\ r.code \in {200, 301, 304, 401, 404} /\ r.code # 401
       /\ Guarded /\ ~ site.knows => r.code = 401 \/ Preflight
  BY <1>4, <1>6 DEF AccessInv, GuardInv
<1>11. BrowserInv' /\ StageInv' /\ GuardInv'
  BY <1>4, <1>7, <1>10, AnsweredAccess
<1> QED
  BY <1>9, <1>11 DEF AccessInv

LEMMA CallBackAccess ==
  ASSUME AccessInv, CallBack
  PROVE  AccessInv'
<1>1. site \in Sites
  BY DEF AccessInv, ServerInv
<1>2. /\ stage = "asked"
      /\ UNCHANGED <<site, want, met, known, session, page, req, touched>>
      /\ UNCHANGED <<site, fs, version, steps, handler, session, keys>>
  BY DEF CallBack, application, server, browser
<1>3. StoppedBy = ""
  BY DEF CallBack
<1>4. PICK new : new = WithCors(New)
  OBVIOUS
<1>5. PICK answer : /\ answer = new \/ \E name, value : answer = SetCookie(new, name, value)
                    /\ Answer(answer) \/ Answer(Redirect(answer, "elsewhere"))
  BY <1>4 DEF CallBack
<1>6. IsResponse(new) /\ new.code = 200
  BY <1>1, <1>4, NewIsResponse, WithCorsKeeps
<1>7. IsResponse(answer) /\ answer.code = 200
  <2>1. ASSUME NEW name, NEW value, answer = SetCookie(new, name, value)
        PROVE  IsResponse(answer) /\ answer.code = 200
    <3>1. PICK f, v : answer = AddHeader(new, f, v)
      BY <2>1 DEF SetCookie
    <3>2. Sets(new, f, v, answer)
      BY <1>6, <3>1, AddHeaderSays
    <3> QED
      BY <1>6, <3>2 DEF Sets, Follows
  <2> QED
    BY <1>5, <1>6, <2>1
<1>8. PICK r : /\ r = answer \/ r = Redirect(answer, "elsewhere")
               /\ Answer(r)
  BY <1>5
<1>9. IsResponse(r) /\ r.code \in {200, 301}
  <2>1. CASE r = Redirect(answer, "elsewhere")
    <3>1. PICK A, c, hs, b : hs \in Seq(A) /\ answer = [code |-> c, headers |-> hs, body |-> b]
      BY <1>7 DEF IsResponse
    <3>2. PICK q : q = [answer EXCEPT !.code = 301]
      OBVIOUS
    <3>3. q = [code |-> 301, headers |-> hs, body |-> b]
      BY <3>1, <3>2
    <3>4. IsResponse(q) /\ q.code = 301
      BY <3>1, <3>3, MadeIsResponse
    <3>5. PICK f, v : r = AddHeader(q, f, v)
      BY <1>7, <2>1, <3>2 DEF Redirect
    <3>6. Sets(q, f, v, r)
      BY <3>4, <3>5, AddHeaderSays
    <3> QED
      BY <3>4, <3>6 DEF Sets, Follows
  <2> QED
    BY <1>7, <1>8, <2>1
<1>10. Guarded => site.knows
  <2>1. Allowed
    BY <1>1, <1>3, Stops
  <2>2. ~ site.knows => Unknowing(req.auth)
    BY <1>2 DEF AccessInv, GuardInv
  <2> QED
    BY <2>1, <2>2, NotAllowed
<1>11. stage \in {"asked", "open"}
  BY <1>2
<1>12. r.code \in {200, 301, 304, 401, 404} /\ r.code # 401
  BY <1>9
<1>13. Guarded /\ ~ site.knows => r.code = 401 \/ Preflight
  BY <1>10
<1>14. r.code = 401 => \E V : Says(r, "WWW-Authenticate", V) /\ Challenges(V, session)
  BY <1>12
<1>15. BrowserInv' /\ StageInv' /\ GuardInv'
  BY <1>2, <1>8, <1>9, <1>11, <1>12, <1>13, <1>14, AnsweredAccess
<1> QED
  BY <1>2, <1>15, FramesStay DEF AccessInv

\* What is there before a page is asked for
LEMMA NoExchangeAccess ==
  ASSUME IsResponse(res), stage' = "none", page' = NoValue, req' = NoRequest, res' = NoResponse, touched' = FALSE
  PROVE  StageInv' /\ GuardInv' /\ res'.code = 0
<1>1. IsResponse(NoResponse) /\ NoResponse.code = 0
  <2>1. PICK A, hs, code, body : A = {} /\ hs = <<>> /\ code = 0 /\ body = NoBody
    OBVIOUS
  <2>2. hs \in Seq(A)
    BY <2>1
  <2>3. NoResponse = [code |-> code, headers |-> hs, body |-> body]
    BY <2>1 DEF NoResponse
  <2>4. NoResponse.code = 0
    BY <2>1, <2>3
  <2> QED
    BY <2>2, <2>3, <2>4 DEF IsResponse
<1>2. StageInv'
  BY <1>1 DEF StageInv
<1>3. GuardInv'
  BY DEF GuardInv
<1> QED
  BY <1>1, <1>2, <1>3

LEMMA ReceiveAccess ==
  ASSUME AccessInv, Receive
  PROVE  AccessInv'
<1>1. PICK wire : wire = OnWire(res)
  OBVIOUS
<1>2. PICK c : c = Value(wire, "WWW-Authenticate", NoValue)
  OBVIOUS
<1>3. /\ UNCHANGED <<site, fs, version, steps, handler, session, keys>>
      /\ known' = IF wire.code = 401 THEN [known EXCEPT ![page] = c] ELSE known
      /\ want' = want \/ want' = want \ {page}
      /\ met' = met \cup {page} \/ met' = met \ {page}
      /\ stage = "answered"
      /\ stage' = "none" /\ page' = NoValue /\ req' = NoRequest /\ res' = NoResponse /\ touched' = FALSE
  BY <1>1, <1>2 DEF Receive, application, server
<1>4. StageInv' /\ GuardInv' /\ res'.code = 0
  BY <1>3, NoExchangeAccess DEF AccessInv, StageInv
<1>5. page \in Pages /\ IsResponse(res)
  BY <1>3 DEF AccessInv, StageInv
<1>6. wire.code = 401 => c = NoValue \/ c.nonce \in Nonces(session)
  <2> SUFFICES ASSUME wire.code = 401 PROVE c = NoValue \/ c.nonce \in Nonces(session)
    OBVIOUS
  <2>1. res.code = 401
    BY <1>1, <1>5, WireProperties
  <2>2. PICK V : Says(res, "WWW-Authenticate", V) /\ Challenges(V, session)
    BY <2>1 DEF AccessInv, BrowserInv
  <2>3. IsResponse(wire) /\ Says(wire, "WWW-Authenticate", V)
    BY <1>1, <1>5, <2>2, WireProperties
  <2>4. c \in V \cup {NoValue}
    BY <1>2, <2>3, ValueSaid
  <2> QED
    BY <2>2, <2>4 DEF Challenges
<1>7. /\ known' = [p \in Pages |-> known'[p]]
      /\ \A p \in Pages : known'[p] = NoValue \/ known'[p].nonce \in Nonces(session)
  <2>1. known = [p \in Pages |-> known[p]] /\ \A p \in Pages : known[p] = NoValue \/ known[p].nonce \in Nonces(session)
    BY DEF AccessInv, BrowserInv
  <2>2. CASE wire.code = 401
    <3>1. known' = [known EXCEPT ![page] = c]
      BY <1>3, <2>2
    <3>2. known' = [p \in Pages |-> IF p = page THEN c ELSE known[p]]
      BY <2>1, <3>1
    <3> QED
      BY <1>6, <2>1, <2>2, <3>2
  <2>3. CASE wire.code # 401
    BY <1>3, <2>1, <2>3
  <2> QED
    BY <2>2, <2>3
<1>8. want' \subseteq Pages /\ met' \subseteq Pages
  BY <1>3, <1>5 DEF AccessInv, BrowserInv
<1>9. BrowserInv'
  <2>1. session' = session /\ res'.code # 401
    BY <1>3, <1>4
  <2> QED
    BY <1>7, <1>8, <2>1 DEF BrowserInv
<1> QED
  BY <1>3, <1>4, <1>9, FramesStay DEF AccessInv

LEMMA LoseAccess ==
  ASSUME AccessInv, Lose
  PROVE  AccessInv'
<1>1. /\ UNCHANGED <<site, fs, version, steps, handler, want, met, known>>
      /\ session < MaxLosses /\ session' = session + 1 /\ keys' = NoKeys
      /\ stage' = "none" /\ page' = NoValue /\ req' = NoRequest /\ res' = NoResponse /\ touched' = FALSE
  BY DEF Lose, application, browser
<1>2. StageInv' /\ GuardInv' /\ res'.code = 0
  BY <1>1, NoExchangeAccess DEF AccessInv, StageInv
<1>3. session \in 0 .. MaxLosses /\ session' \in 0 .. MaxLosses
  BY <1>1, BoundsAssumption DEF AccessInv, ServerInv
<1>4. ServerInv'
  <2>1. keys'.nonce = NoValue
    BY <1>1 DEF NoKeys
  <2> QED
    BY <1>1, <1>3, <2>1 DEF AccessInv, ServerInv, StaticHandler
<1>5. BrowserInv'
  <2>1. \A n : n \in Nonces(session) => n \in Nonces(session')
    <3>1. 0 .. session \subseteq 0 .. session'
      BY <1>1, <1>3, BoundsAssumption
    <3> QED
      BY <3>1 DEF Nonces
  <2>2. res'.code # 401
    BY <1>2
  <2> QED
    BY <1>1, <2>1, <2>2 DEF AccessInv, BrowserInv
<1> QED
  BY <1>2, <1>4, <1>5 DEF AccessInv

LEMMA BeginUpdateAccess ==
  ASSUME AccessInv, BeginUpdate
  PROVE  AccessInv'
<1>1. /\ UNCHANGED <<site, fs, handler, session, keys>>
      /\ UNCHANGED <<want, met, known, session, res>> /\ UNCHANGED <<stage, page, req, res>>
      /\ UNCHANGED <<site, stage, req, res>>
      /\ version < site.versions /\ version' = version + 1 /\ touched' = (stage # "none")
  BY DEF BeginUpdate, server, browser
<1>2. site \in Sites /\ version \in 1 .. MaxVersion
  BY DEF AccessInv, ServerInv
<1>3. version' \in 1 .. MaxVersion
  <2>1. site.versions \in 1 .. MaxVersion
    BY <1>2, SitesAssumption
  <2> QED
    BY <1>1, <1>2, <2>1, BoundsAssumption
<1>4. steps' \in Seq(StepRecords) /\ Len(steps') <= 3
  <2>1. PICK v \in 0 .. MaxVersion, w \in 0 .. MaxVersion :
          steps' = << [at |-> "plain", version |-> v], [at |-> "gz", version |-> w],
                      [at |-> "stamp", version |-> version'] >>
    <3>1. PICK forms : steps' = << [at |-> "plain", version |-> IF "plain" \in forms THEN version' ELSE 0],
                                   [at |-> "gz", version |-> IF "gz" \in forms THEN version' ELSE 0],
                                   [at |-> "stamp", version |-> version'] >>
      BY DEF BeginUpdate
    <3>2. PICK v, w : v = (IF "plain" \in forms THEN version' ELSE 0) /\ w = (IF "gz" \in forms THEN version' ELSE 0)
      OBVIOUS
    <3>3. v \in 0 .. MaxVersion /\ w \in 0 .. MaxVersion
      BY <1>3, <3>2, BoundsAssumption
    <3> QED
      BY <3>1, <3>2, <3>3
  <2>2. PICK a, b, c : /\ a = [at |-> "plain", version |-> v] /\ b = [at |-> "gz", version |-> w]
                       /\ c = [at |-> "stamp", version |-> version']
    OBVIOUS
  <2>3. a \in StepRecords /\ b \in StepRecords /\ c \in StepRecords
    BY <1>3, <2>2, BoundsAssumption DEF StepRecords
  <2>4. steps' = <<a, b, c>>
    BY <2>1, <2>2
  <2> QED
    BY <2>3, <2>4
<1>5. ServerInv'
  BY <1>1, <1>3, <1>4 DEF AccessInv, ServerInv, StaticHandler
<1>6. touched' \in BOOLEAN
  BY <1>1
<1> QED
  BY <1>1, <1>5, <1>6, FramesStay DEF AccessInv

LEMMA UpdateStepAccess ==
  ASSUME AccessInv, UpdateStep
  PROVE  AccessInv'
<1>1. /\ UNCHANGED <<site, version, handler, session, keys>>
      /\ UNCHANGED <<want, met, known, session, res>> /\ UNCHANGED <<stage, page, req, res>>
      /\ UNCHANGED <<site, stage, req, res>>
      /\ steps # <<>> /\ steps' = Tail(steps) /\ touched' = (stage # "none")
      /\ fs' = fs \/ \E name : fs' = [fs EXCEPT ![name] = Head(steps).version]
  BY DEF UpdateStep, server, browser
<1>2. /\ steps \in Seq(StepRecords) /\ Len(steps) <= 3 /\ fs \in [site.files -> 0 .. MaxVersion]
  BY DEF AccessInv, ServerInv
<1>3. Head(steps) \in StepRecords /\ steps' \in Seq(StepRecords) /\ Len(steps') <= 3
  BY <1>1, <1>2
<1>4. Head(steps).version \in 0 .. MaxVersion
  BY <1>3 DEF StepRecords
<1>5. fs' \in [site.files -> 0 .. MaxVersion]
  BY <1>1, <1>2, <1>4
<1>6. ServerInv'
  BY <1>1, <1>3, <1>5 DEF AccessInv, ServerInv, StaticHandler
<1>7. touched' \in BOOLEAN
  BY <1>1
<1> QED
  BY <1>1, <1>6, <1>7, FramesStay DEF AccessInv

LEMMA NextAccess == AccessInv /\ [ExchangeNext]_exchangeVars => AccessInv'
<1> SUFFICES ASSUME AccessInv, [ExchangeNext]_exchangeVars PROVE AccessInv'
  OBVIOUS
<1>1. ASSUME NEW p \in Pages, Want(p) \/ AskAny(p) PROVE AccessInv'
  BY <1>1, WantAccess, AskAccess
<1>2. CASE UNCHANGED exchangeVars
  <2>1. /\ UNCHANGED <<site, fs, version, steps, handler, session, keys>>
        /\ UNCHANGED <<want, met, known, session, res>> /\ UNCHANGED <<stage, page, req, res>>
        /\ UNCHANGED <<site, stage, req, res>> /\ touched' = touched
    BY <1>2 DEF exchangeVars
  <2>2. touched' \in BOOLEAN
    BY <2>1 DEF AccessInv, StageInv
  <2> QED
    BY <2>1, <2>2, FramesStay DEF AccessInv
<1> QED
  BY <1>1, <1>2, PreflightAccess, ChallengeAccess, OpenFileAccess, SendFileAccess, CallBackAccess,
     ReceiveAccess, LoseAccess, BeginUpdateAccess, UpdateStepAccess DEF ExchangeNext

\* Whatever pages, middlewares and challenges there are, however sessions and nonces
\* change: who does not know the password gets a challenge, or what a preflight gets.
THEOREM OthersKeptOut == ExchangeSpec => []KeptOut
<1>1. ExchangeSpec => []AccessInv
  BY InitAccess, NextAccess, PTL DEF ExchangeSpec
<1> QED
  BY <1>1, AccessMeans, PTL

-----------------------------------------------------------------------------
(* What a script of another site may see.                                  *)

\* A response whose CORS headers arrive
Seen(r) == \A f \in Range(CorsFields) : Says(r, f, {"set"}) /\ Early(r, f, "set", MaxHeaders)

CorsDue == req.origin /\ CorsFirst /\ RoomFor(Len(CorsFields))

\* Every answer but those that have a response of their own has the CORS headers.
SeenInv == AccessInv /\ (stage = "answered" /\ CorsDue /\ res.code \notin {401, 404} => Seen(res))

LEMMA CorsFieldSet ==
  /\ Len(CorsFields) = 5
  /\ Range(CorsFields) = {"Access-Control-Allow-Origin", "Access-Control-Allow-Methods",
                          "Access-Control-Allow-Headers", "Access-Control-Allow-Credentials",
                          "Access-Control-Max-Age"}
BY DEF CorsFields, Range

\* The CORS middleware has put them there,
LEMMA WithCorsSeen ==
  ASSUME site \in Sites, CorsDue, NEW r, r = WithCors(New)
  PROVE  Seen(r)
<1>1. PICK chain, S : chain = site.chain /\ S = {"cors", "auth"}
  OBVIOUS
<1>2. chain \in Seq(S) /\ chain # <<>> /\ Head(chain) = "cors"
  BY <1>1, SitesAssumption DEF CorsDue, CorsFirst
<1>3. chain[1] = "cors" /\ 1 \in DOMAIN chain
  BY <1>2
<1>4. "cors" \in Range(site.chain)
  BY <1>1, <1>3 DEF Range
<1>5. r = AddHeaders(New, Headers(CorsFields))
  BY <1>4 DEF WithCors, CorsDue
<1>6. IsResponse(New) /\ Len(New.headers) \in 0 .. Len(site.defaults) /\ \A field : Says(New, field, {"set"})
  BY NewIsResponse
<1>7. Len(New.headers) + 5 <= MaxHeaders /\ MaxHeaders \in Nat
  <2>1. Len(site.defaults) \in Nat
    <3>1. PICK d, T : d = site.defaults /\ T = STRING
      OBVIOUS
    <3>2. d \in Seq(T)
      BY <3>1, SitesAssumption
    <3> QED
      BY <3>1, <3>2
  <2> QED
    BY <1>6, <2>1, CorsFieldSet, BoundsAssumption DEF CorsDue, RoomFor
<1>8. ASSUME NEW f \in Range(CorsFields) PROVE Says(r, f, {"set"}) /\ Early(r, f, "set", MaxHeaders)
  <2>1. Says(New, f, {"set"}) /\ "set" \in {"set"}
    BY <1>6
  <2>2. Says(r, f, {"set"})
    BY <1>5, <1>6, <2>1, CorsProperties
  <2>3. Early(r, f, "set", MaxHeaders)
    BY <1>5, <1>6, <1>7, CorsProperties
  <2> QED
    BY <2>2, <2>3
<1> QED
  BY <1>8 DEF Seen

\* and what is added after them leaves them there.
LEMMA SeenFollows ==
  ASSUME NEW r, NEW q, NEW F, Seen(r), Follows(r, q, F), \A f \in Range(CorsFields) : f \notin F
  PROVE  Seen(q)
<1>1. ASSUME NEW f \in Range(CorsFields) PROVE Says(q, f, {"set"}) /\ Early(q, f, "set", MaxHeaders)
  <2>1. Says(r, f, {"set"}) /\ Early(r, f, "set", MaxHeaders) /\ f \notin F
    BY DEF Seen
  <2>2. MaxHeaders \in Nat
    BY BoundsAssumption
  <2> QED
    BY <2>1, <2>2 DEF Follows
<1> QED
  BY <1>1 DEF Seen

\* What a callback makes of a response: a cookie more, a place to go to
LEMMA CookieFollows ==
  ASSUME NEW r, IsResponse(r), NEW name, NEW value, NEW q, q = SetCookie(r, name, value)
  PROVE  Follows(r, q, {"Set-Cookie"}) /\ q.code = r.code
<1>1. PICK f, v : q = AddHeader(r, f, v) /\ f = "Set-Cookie"
  BY DEF SetCookie
<1>2. Sets(r, f, v, q)
  BY <1>1, AddHeaderSays
<1> QED
  BY <1>1, <1>2 DEF Sets

LEMMA RedirectFollows ==
  ASSUME NEW r, IsResponse(r), NEW url, NEW q, q = Redirect(r, url)
  PROVE  Follows(r, q, {"Location"})
<1>1. PICK A, c, hs, b : hs \in Seq(A) /\ r = [code |-> c, headers |-> hs, body |-> b]
  BY DEF IsResponse
<1>2. PICK s : s = IF r.code \in {0, 200} THEN [r EXCEPT !.code = 301] ELSE r
  OBVIOUS
<1>3. s.headers = r.headers /\ IsResponse(s)
  <2>1. CASE r.code \in {0, 200}
    <3>1. s = [code |-> 301, headers |-> hs, body |-> b]
      BY <1>1, <1>2, <2>1
    <3>2. PICK d : d = 301
      OBVIOUS
    <3>3. s = [code |-> d, headers |-> hs, body |-> b]
      BY <3>1, <3>2
    <3>4. IsResponse(s)
      BY <1>1, <3>3 DEF IsResponse
    <3> QED
      BY <1>1, <3>1, <3>4
  <2>2. CASE r.code \notin {0, 200}
    BY <1>2, <2>2
  <2> QED
    BY <2>1, <2>2
<1>4. Follows(r, s, {})
  BY <1>3, SameHeadersFollow
<1>5. PICK f, v : q = AddHeader(s, f, v) /\ f = "Location"
  BY <1>2 DEF Redirect
<1>6. Sets(s, f, v, q)
  BY <1>3, <1>5, AddHeaderSays
<1>7. Follows(s, q, {"Location"})
  BY <1>5, <1>6 DEF Sets
<1>8. {} \cup {"Location"} = {"Location"}
  OBVIOUS
<1> QED
  BY <1>4, <1>7, <1>8, FollowsTransitive

LEMMA NextSeen == SeenInv /\ [ExchangeNext]_exchangeVars => SeenInv'
<1> SUFFICES ASSUME SeenInv, [ExchangeNext]_exchangeVars, AccessInv' PROVE SeenInv'
  BY NextAccess DEF SeenInv
<1> DEFINE Given == stage = "answered" /\ CorsDue /\ res.code \notin {401, 404} => Seen(res)
<1>1. site \in Sites /\ AccessInv /\ Given
  BY DEF SeenInv, AccessInv, ServerInv
<1>2. CASE UNCHANGED <<site, stage, req, res>>
  BY <1>1, <1>2 DEF SeenInv, Seen, CorsDue, CorsFirst, RoomFor
<1>3. CASE stage' # "answered"
  BY <1>3 DEF SeenInv
<1>4. ASSUME NEW r, Answer(r), site' = site, req' = req, CorsDue /\ r.code \notin {401, 404} => Seen(r)
      PROVE  SeenInv'
  <2>1. CorsDue' = CorsDue /\ res' = r
    BY <1>4 DEF Answer, CorsDue, CorsFirst, RoomFor
  <2>2. CorsDue /\ r.code \notin {401, 404} => Seen(r)
    BY <1>4
  <2>3. Seen(res)' <=> Seen(r)
    BY <2>1 DEF Seen
  <2> QED
    BY <2>1, <2>2, <2>3 DEF SeenInv
<1>5. PICK n : n = WithCors(New)
  OBVIOUS
<1>6. IsResponse(n) /\ n.code = 200 /\ (CorsDue => Seen(n))
  BY <1>1, <1>5, NewIsResponse, WithCorsKeeps, WithCorsSeen
<1>7. CASE AnswerPreflight
  <2>1. Answer(n) /\ site' = site /\ req' = req
    BY <1>5, <1>7 DEF AnswerPreflight, application
  <2> QED
    BY <1>4, <1>6, <2>1
<1>8. CASE Challenge
  <2>1. PICK f, c, q, r : /\ f = "WWW-Authenticate" /\ q = SetCode(New, 401) /\ r = AddHeader(q, f, c)
                          /\ Answer(r) /\ site' = site /\ req' = req
    BY <1>8 DEF Challenge, application
  <2>2. IsResponse(q) /\ q.code = 401
    BY <1>1, <2>1, NewIsResponse, SetCodeSets
  <2>3. Sets(q, f, c, r)
    BY <2>1, <2>2, AddHeaderSays
  <2>4. r.code = 401
    BY <2>2, <2>3 DEF Sets
  <2> QED
    BY <1>4, <2>1, <2>4
<1>9. CASE OpenFile
  <2>1. CASE stage' = "open"
    BY <1>3, <2>1
  <2>2. CASE NotFound
    <3>1. PICK r : r = SetCode(New, 404)
      OBVIOUS
    <3>2. r.code = 404
      BY <1>1, <3>1, NewIsResponse, SetCodeSets
    <3>3. Answer(r) /\ site' = site /\ req' = req
      BY <1>9, <2>2, <3>1 DEF NotFound, OpenFile, application
    <3> QED
      BY <1>4, <3>2, <3>3
  <2> QED
    BY <1>9, <2>1, <2>2 DEF OpenFile
<1>10. CASE SendFile
  <2>1. PICK r : r = HandleStatic(handler, req, n, fs, site.dirs, stamp)
    OBVIOUS
  <2>2. Answer(r) /\ site' = site /\ req' = req
    BY <1>5, <1>10, <2>1 DEF SendFile, application
  <2>3. Follows(n, r, StaticFields)
    BY <1>6, <2>1, StaticAnswer
  <2>4. \A f \in Range(CorsFields) : f \notin StaticFields
    BY CorsFieldSet DEF StaticFields
  <2>5. CorsDue => Seen(r)
    BY <1>6, <2>3, <2>4, SeenFollows
  <2> QED
    BY <1>4, <2>2, <2>5
<1>11. CASE CallBack
  <2>1. PICK answer : /\ answer = n \/ \E name, value : answer = SetCookie(n, name, value)
                      /\ Answer(answer) \/ Answer(Redirect(answer, "elsewhere"))
                      /\ site' = site /\ req' = req
    BY <1>5, <1>11 DEF CallBack, application
  <2>2. IsResponse(answer) /\ (CorsDue => Seen(answer))
    <3>1. CASE answer = n
      BY <1>6, <3>1
    <3>2. ASSUME NEW name, NEW value, answer = SetCookie(n, name, value)
          PROVE  IsResponse(answer) /\ (CorsDue => Seen(answer))
      <4>1. Follows(n, answer, {"Set-Cookie"})
        BY <1>6, <3>2, CookieFollows
      <4>2. \A f \in Range(CorsFields) : f \notin {"Set-Cookie"}
        BY CorsFieldSet
      <4>3. CorsDue => Seen(answer)
        BY <1>6, <4>1, <4>2, SeenFollows
      <4> QED
        BY <4>1, <4>3 DEF Follows
    <3> QED
      BY <2>1, <3>1, <3>2
  <2>3. CASE Answer(answer)
    BY <1>4, <2>1, <2>2, <2>3
  <2>4. CASE Answer(Redirect(answer, "elsewhere"))
    <3>1. PICK r : r = Redirect(answer, "elsewhere")
      OBVIOUS
    <3>2. Follows(answer, r, {"Location"})
      BY <2>2, <3>1, RedirectFollows
    <3>3. \A f \in Range(CorsFields) : f \notin {"Location"}
      BY CorsFieldSet
    <3>4. CorsDue => Seen(r)
      BY <2>2, <3>2, <3>3, SeenFollows
    <3> QED
      BY <1>4, <2>1, <2>4, <3>1, <3>4
  <2> QED
    BY <2>1, <2>3, <2>4
<1>12. ASSUME NEW p \in Pages, Want(p) \/ AskAny(p) PROVE SeenInv'
  <2>1. CASE Want(p)
    BY <1>2, <2>1 DEF Want, application
  <2>2. CASE AskAny(p)
    <3>1. stage' = "asked"
      BY <2>2 DEF AskAny, Ask, AskFirst
    <3> QED
      BY <1>3, <3>1
  <2> QED
    BY <1>12, <2>1, <2>2
<1>13. CASE Receive \/ Lose
  <2>1. stage' = "none"
    BY <1>13 DEF Receive, Lose
  <2> QED
    BY <1>3, <2>1
<1>14. CASE BeginUpdate \/ UpdateStep
  BY <1>2, <1>14 DEF BeginUpdate, UpdateStep
<1>15. CASE UNCHANGED exchangeVars
  BY <1>2, <1>15 DEF exchangeVars
<1> QED
  BY <1>7, <1>8, <1>9, <1>10, <1>11, <1>12, <1>13, <1>14, <1>15 DEF ExchangeNext

\* A script of another site sees every answer that is not a challenge or the fallback's:
\* the headers it needs are among the first MaxHeaders, whatever was added after them.
THEOREM ScriptsSeeAnswers == ExchangeSpec => []ScriptMaySee
<1>1. ExchangeInit => SeenInv
  <2> SUFFICES ASSUME ExchangeInit PROVE SeenInv
    OBVIOUS
  <2>1. stage = "none"
    BY DEF ExchangeInit
  <2> QED
    BY <2>1, InitAccess DEF SeenInv
<1>2. SeenInv => ScriptMaySee
  <2> SUFFICES ASSUME SeenInv, stage = "answered", CorsDue, res.code \notin {401, 404}, NEW f \in Range(CorsFields)
               PROVE  Value(OnWire(res), f, "") = "set"
    BY DEF ScriptMaySee, CorsDue
  <2>1. IsResponse(res) /\ Says(res, f, {"set"}) /\ Early(res, f, "set", MaxHeaders)
    BY DEF SeenInv, Seen, AccessInv, StageInv
  <2> QED
    BY <2>1, ValueOnWire
<1> QED
  BY <1>1, <1>2, NextSeen, PTL DEF ExchangeSpec

-----------------------------------------------------------------------------
(* Texts.                                                                  *)

LEMMA CatPlaces ==
  ASSUME NEW A, NEW s \in Seq(A), NEW t \in Seq(A)
  PROVE  /\ s \o t \in Seq(A) /\ Len(s \o t) = Len(s) + Len(t)
         /\ \A i \in 1 .. Len(s) : (s \o t)[i] = s[i]
         /\ \A i \in 1 .. Len(t) : (s \o t)[Len(s) + i] = t[i]
<1>1. s \o t \in Seq(A)
  OBVIOUS
<1>2. Len(s \o t) = Len(s) + Len(t) /\ \A i \in 1 .. Len(s) : (s \o t)[i] = s[i]
  OBVIOUS
<1>3. \A i \in 1 .. Len(t) : (s \o t)[Len(s) + i] = t[i]
  OBVIOUS
<1> QED
  BY <1>1, <1>2, <1>3

\* A list that is computed from its end: each position has an item, and a position behind
\* it at which the list goes on.
GoesOn(L, m, item, next, g) ==
  \A i \in 1 .. m : g[i] = IF i > L THEN <<>> ELSE <<item[i]>> \o g[next[i]]

LEMMA FromTheEnd ==
  ASSUME NEW B, NEW L \in Nat, NEW m \in Nat, L <= m, NEW item \in [1 .. L -> B], NEW next \in [1 .. L -> 1 .. m],
         \A i \in 1 .. L : next[i] > i
  PROVE  \E g \in [1 .. m -> Seq(B)] : GoesOn(L, m, item, next, g)
<1> DEFINE At(g, i) == g[i] = IF i > L THEN <<>> ELSE <<item[i]>> \o g[next[i]]
           Behind(k) == \E g \in [1 .. m -> Seq(B)] : \A i \in 1 .. m : i > m - k => At(g, i)
           T == {k \in 0 .. m : Behind(k)}
<1>1. 0 \in T
  <2>1. [i \in 1 .. m |-> <<>>] \in [1 .. m -> Seq(B)]
    OBVIOUS
  <2>2. \A i \in 1 .. m : ~ (i > m - 0)
    OBVIOUS
  <2>3. Behind(0)
    BY <2>1, <2>2
  <2> QED
    BY <2>3
<1>2. ASSUME NEW k \in 0 .. m - 1, k \in T PROVE k + 1 \in T
  <2>1. PICK g \in [1 .. m -> Seq(B)] : \A i \in 1 .. m : i > m - k => At(g, i)
    BY <1>2
  <2>2. PICK j \in 1 .. m : j = m - k
    OBVIOUS
  <2>3. PICK t \in Seq(B) : t = IF j > L THEN <<>> ELSE <<item[j]>> \o g[next[j]]
    <3>1. CASE j > L
      <4>1. <<>> \in Seq(B)
        OBVIOUS
      <4> QED
        BY <3>1, <4>1
    <3>2. CASE ~ (j > L)
      <4>1. j \in 1 .. L
        BY <3>2
      <4>2. item[j] \in B /\ next[j] \in 1 .. m
        BY <4>1
      <4>3. g[next[j]] \in Seq(B)
        BY <4>2
      <4>4. <<item[j]>> \o g[next[j]] \in Seq(B)
        BY <4>2, <4>3
      <4> QED
        BY <3>2, <4>4
    <3> QED
      BY <3>1, <3>2
  <2> DEFINE h == [g EXCEPT ![j] = t]
  <2>4. h \in [1 .. m -> Seq(B)] /\ h[j] = t /\ \A i \in 1 .. m : i # j => h[i] = g[i]
    OBVIOUS
  <2> HIDE DEF h
  <2>5. ASSUME NEW i \in 1 .. m, i > m - (k + 1) PROVE At(h, i)
    <3>0. i \in 1 .. L => next[i] \in 1 .. m /\ next[i] > i
      OBVIOUS
    <3>1. CASE i = j
      <4>1. i <= L => h[next[i]] = g[next[i]]
        BY <2>4, <3>0, <3>1
      <4>2. CASE j > L
        BY <2>3, <2>4, <3>1, <4>2
      <4>3. CASE ~ (j > L)
        <5>1. h[next[j]] = g[next[j]]
          BY <3>1, <4>1, <4>3
        <5>2. h[j] = <<item[j]>> \o g[next[j]]
          BY <2>3, <2>4, <4>3
        <5> QED
          BY <3>1, <4>3, <5>1, <5>2
      <4> QED
        BY <4>2, <4>3
    <3>2. CASE i # j
      <4>1. i > m - k
        BY <2>2, <2>5, <3>2
      <4>2. At(g, i)
        BY <2>1, <4>1
      <4>3. h[i] = g[i]
        BY <2>4, <3>2
      <4>4. i <= L => h[next[i]] = g[next[i]]
        BY <2>2, <2>4, <3>0, <4>1
      <4> QED
        BY <4>2, <4>3, <4>4
    <3> QED
      BY <3>1, <3>2
  <2>6. Behind(k + 1)
    BY <2>4, <2>5
  <2>7. k + 1 \in 0 .. m
    OBVIOUS
  <2> HIDE DEF Behind
  <2> QED
    BY <2>6, <2>7
<1>3. m \in T
  <2>1. \A k \in 0 .. m : k \in T
    <3> HIDE DEF T
    <3> QED
      BY <1>1, <1>2, InductionUpto
  <2>2. m \in 0 .. m
    OBVIOUS
  <2> QED
    BY <2>1, <2>2
<1>4. Behind(m)
  BY <1>3
<1>5. PICK g \in [1 .. m -> Seq(B)] : \A i \in 1 .. m : i > m - m => At(g, i)
  BY <1>4
<1>6. \A i \in 1 .. m : i > m - m
  OBVIOUS
<1>7. GoesOn(L, m, item, next, g)
  BY <1>5, <1>6 DEF GoesOn
<1> QED
  BY <1>7

\* Where the parts of a text that is put together begin: the part k behind place p[k - 1]
Places(A, n, v, s, p) ==
  /\ s \in Seq(A) /\ p \in [0 .. n -> Nat] /\ p[0] = 0 /\ p[n] = Len(s)
  /\ \A k \in 1 .. n : /\ p[k] = p[k - 1] + Len(v[k]) /\ p[k] <= Len(s)
                       /\ \A j \in 1 .. Len(v[k]) : s[p[k - 1] + j] = v[k][j]

LEMMA FlattenPlaces ==
  ASSUME NEW A, NEW n \in Nat, NEW v, v \in [1 .. n -> Seq(A)]
  PROVE  \E p : Places(A, n, v, FlattenSeq(v), p)
<1>1. PICK g : Joining(A, n, v, g)
  BY JoiningSteps
<1>2. g \in [0 .. n -> Seq(A)] /\ g[0] = <<>> /\ \A i \in 1 .. n : g[i] = g[i - 1] \o v[i]
  BY <1>1 DEF Joining
<1>3. FlattenSeq(v) = g[n]
  <2>1. Flattens(n, v, g)
    BY <1>1, FlattenJoins, Zenon
  <2>2. n \in 0 .. n /\ v = [i \in 1 .. n |-> v[i]]
    OBVIOUS
  <2> QED
    BY <2>1, <2>2 DEF Flattens
<1> DEFINE p == [k \in 0 .. n |-> Len(g[k])]
<1>4. p \in [0 .. n -> Nat] /\ p[0] = 0 /\ p[n] = Len(g[n]) /\ g[n] \in Seq(A)
  BY <1>2
<1>5. \A k \in 0 .. n : p[k] = Len(g[k])
  OBVIOUS
<1> HIDE DEF p
<1>6. ASSUME NEW k \in 0 .. n - 1
      PROVE  /\ k + 1 \in 1 .. n /\ k \in 0 .. n /\ k + 1 \in 0 .. n
             /\ p[k + 1] = p[k] + Len(v[k + 1]) /\ p[k] \in Nat /\ Len(v[k + 1]) \in Nat
             /\ \A i \in 1 .. p[k] : g[k + 1][i] = g[k][i]
             /\ \A j \in 1 .. Len(v[k + 1]) : g[k + 1][p[k] + j] = v[k + 1][j]
  <2>1. k + 1 \in 1 .. n /\ k \in 0 .. n /\ k + 1 \in 0 .. n /\ (k + 1) - 1 = k
    OBVIOUS
  <2>2. PICK s \in Seq(A), t \in Seq(A) : s = g[k] /\ t = v[k + 1] /\ g[k + 1] = s \o t
    BY <1>2, <2>1
  <2>3. /\ Len(s \o t) = Len(s) + Len(t) /\ \A i \in 1 .. Len(s) : (s \o t)[i] = s[i]
        /\ \A j \in 1 .. Len(t) : (s \o t)[Len(s) + j] = t[j]
    OBVIOUS
  <2>4. p[k] = Len(s) /\ p[k + 1] = Len(s \o t) /\ p[k] \in Nat /\ Len(t) \in Nat
    <3>1. p[k] = Len(g[k]) /\ p[k + 1] = Len(g[k + 1])
      BY <1>5, <2>1
    <3>2. Len(s) \in Nat /\ Len(t) \in Nat
      OBVIOUS
    <3> QED
      BY <2>2, <3>1, <3>2
  <2>5. p[k + 1] = p[k] + Len(t) /\ (\A i \in 1 .. p[k] : g[k + 1][i] = s[i])
        /\ (\A j \in 1 .. Len(t) : g[k + 1][p[k] + j] = t[j])
    BY <2>2, <2>3, <2>4
  <2> QED
    BY <2>1, <2>2, <2>4, <2>5
<1> DEFINE Placed(k, i) == /\ p[i] = p[i - 1] + Len(v[i]) /\ p[i] <= p[k]
                           /\ \A j \in 1 .. Len(v[i]) : g[k][p[i - 1] + j] = v[i][j]
           T == {k \in 0 .. n : \A i \in 1 .. k : Placed(k, i)}
<1>7. 0 \in T
  OBVIOUS
<1>8. ASSUME NEW k \in 0 .. n - 1, k \in T PROVE k + 1 \in T
  <2>1. ASSUME NEW i \in 1 .. k + 1 PROVE Placed(k + 1, i)
    <3>1. CASE i = k + 1
      <4>1. i - 1 = k
        BY <3>1
      <4>2. p[k + 1] = p[k] + Len(v[k + 1]) /\ \A j \in 1 .. Len(v[k + 1]) : g[k + 1][p[k] + j] = v[k + 1][j]
        BY <1>6
      <4>3. p[k + 1] \in Nat
        BY <1>4, <1>6
      <4> QED
        BY <3>1, <4>1, <4>2, <4>3
    <3>2. CASE i # k + 1
      <4>1. i \in 1 .. k /\ i - 1 \in 0 .. n /\ i \in 1 .. n
        BY <3>2
      <4>2. Placed(k, i)
        BY <1>8, <4>1
      <4>3. p[i - 1] \in Nat /\ Len(v[i]) \in Nat /\ p[k] \in Nat
        BY <1>4, <4>1
      <4>4. ASSUME NEW j \in 1 .. Len(v[i]) PROVE g[k + 1][p[i - 1] + j] = v[i][j]
        <5>1. PICK x \in Nat, y \in Nat, z \in Nat : x = p[i - 1] /\ y = Len(v[i]) /\ z = p[k]
          BY <4>3
        <5>2. x + y <= z
          BY <4>2, <5>1
        <5>3. j \in 1 .. y
          BY <5>1
        <5>4. x + j \in 1 .. z
          BY <5>2, <5>3
        <5>5. p[i - 1] + j \in 1 .. p[k]
          BY <5>1, <5>4
        <5> QED
          BY <1>6, <4>2, <5>5
      <4>5. p[i] <= p[k + 1]
        BY <1>4, <1>6, <4>1, <4>2, <4>3
      <4> QED
        BY <4>2, <4>4, <4>5
    <3> QED
      BY <3>1, <3>2
  <2>2. k + 1 \in 0 .. n
    OBVIOUS
  <2> QED
    BY <2>1, <2>2
<1>9. n \in T
  <2>1. \A k \in 0 .. n : k \in T
    <3> HIDE DEF T
    <3> QED
      BY <1>7, <1>8, InductionUpto
  <2>2. n \in 0 .. n
    OBVIOUS
  <2> QED
    BY <2>1, <2>2
<1>10. Places(A, n, v, g[n], p)
  BY <1>4, <1>9 DEF Places
<1> QED
  BY <1>3, <1>10

LEMMA Codes ==
  /\ Code(" ") = <<"2", "0">> /\ Code("%") = <<"2", "5">> /\ Code("&") = <<"2", "6">> /\ Code("+") = <<"2", "B">>
  /\ Code("/") = <<"2", "F">> /\ Code("=") = <<"3", "D">> /\ Code(";") = <<"3", "B">> /\ Code("?") = <<"3", "F">>
BY DEF Code

\* The two digits of a character are those it is recognised by.
LEMMA CodeProperties ==
  ASSUME NEW c \in Coded
  PROVE  \E h, l : /\ Code(c) = <<h, l>> /\ h \in HexDigits /\ l \in HexDigits /\ Upper(h) = h /\ Upper(l) = l
                   /\ Char(h, l) = c
<1>1. PICK h, l : /\ Code(c) = <<h, l>> /\ h \in Digits \cup {"B", "D", "F"} /\ l \in Digits \cup {"B", "D", "F"}
  BY DEF Code, Coded, Digits
<1>2. Range(LowerHex) = {"a", "b", "c", "d", "e", "f"} /\ Range(UpperHex) = {"A", "B", "C", "D", "E", "F"}
  BY DEF Range, LowerHex, UpperHex
<1>3. h \in HexDigits /\ l \in HexDigits
  BY <1>1, <1>2 DEF HexDigits
<1>4. h \notin Range(LowerHex) /\ l \notin Range(LowerHex)
  BY <1>1, <1>2 DEF Digits
<1>5. Upper(h) = h /\ Upper(l) = l
  BY <1>4 DEF Upper
<1>6. \A d \in Coded : Code(d) = Code(c) => d = c
  <2>1. /\ Code(" ")[1] = "2" /\ Code(" ")[2] = "0"
        /\ Code("%")[1] = "2" /\ Code("%")[2] = "5"
        /\ Code("&")[1] = "2" /\ Code("&")[2] = "6"
        /\ Code("+")[1] = "2" /\ Code("+")[2] = "B"
        /\ Code("/")[1] = "2" /\ Code("/")[2] = "F"
        /\ Code("=")[1] = "3" /\ Code("=")[2] = "D"
        /\ Code(";")[1] = "3" /\ Code(";")[2] = "B"
        /\ Code("?")[1] = "3" /\ Code("?")[2] = "F"
    <3>1. \A x, y, z : z = <<x, y>> => z[1] = x /\ z[2] = y
      OBVIOUS
    <3>2. Code(" ")[1] = "2" /\ Code(" ")[2] = "0"
      <4>1. Code(" ") = <<"2", "0">>
        BY Codes, Zenon
      <4> QED
        BY <3>1, <4>1, Zenon
    <3>3. Code("%")[1] = "2" /\ Code("%")[2] = "5"
      <4>1. Code("%") = <<"2", "5">>
        BY Codes, Zenon
      <4> QED
        BY <3>1, <4>1, Zenon
    <3>4. Code("&")[1] = "2" /\ Code("&")[2] = "6"
      <4>1. Code("&") = <<"2", "6">>
        BY Codes, Zenon
      <4> QED
        BY <3>1, <4>1, Zenon
    <3>5. Code("+")[1] = "2" /\ Code("+")[2] = "B"
      <4>1. Code("+") = <<"2", "B">>
        BY Codes, Zenon
      <4> QED
        BY <3>1, <4>1, Zenon
    <3>6. Code("/")[1] = "2" /\ Code("/")[2] = "F"
      <4>1. Code("/") = <<"2", "F">>
        BY Codes, Zenon
      <4> QED
        BY <3>1, <4>1, Zenon
    <3>7. Code("=")[1] = "3" /\ Code("=")[2] = "D"
      <4>1. Code("=") = <<"3", "D">>
        BY Codes, Zenon
      <4> QED
        BY <3>1, <4>1, Zenon
    <3>8. Code(";")[1] = "3" /\ Code(";")[2] = "B"
      <4>1. Code(";") = <<"3", "B">>
        BY Codes, Zenon
      <4> QED
        BY <3>1, <4>1, Zenon
    <3>9. Code("?")[1] = "3" /\ Code("?")[2] = "F"
      <4>1. Code("?") = <<"3", "F">>
        BY Codes, Zenon
      <4> QED
        BY <3>1, <4>1, Zenon
    <3> QED
      BY <3>2, <3>3, <3>4, <3>5, <3>6, <3>7, <3>8, <3>9
  <2>2. \A d \in Coded : Code(d)[1] = Code(c)[1] /\ Code(d)[2] = Code(c)[2] => d = c
    <3> SUFFICES ASSUME NEW d \in Coded, Code(d)[1] = Code(c)[1], Code(d)[2] = Code(c)[2] PROVE d = c
      OBVIOUS
    <3>1. CASE c = " "
      BY <2>1, <3>1 DEF Coded
    <3>2. CASE c = "%"
      BY <2>1, <3>2 DEF Coded
    <3>3. CASE c = "&"
      BY <2>1, <3>3 DEF Coded
    <3>4. CASE c = "+"
      BY <2>1, <3>4 DEF Coded
    <3>5. CASE c = "/"
      BY <2>1, <3>5 DEF Coded
    <3>6. CASE c = "="
      BY <2>1, <3>6 DEF Coded
    <3>7. CASE c = ";"
      BY <2>1, <3>7 DEF Coded
    <3>8. CASE c = "?"
      BY <2>1, <3>8 DEF Coded
    <3> QED
      BY <3>1, <3>2, <3>3, <3>4, <3>5, <3>6, <3>7, <3>8 DEF Coded
  <2> QED
    BY <2>2
<1>7. Char(h, l) = c
  <2>1. Code(c) = <<Upper(h), Upper(l)>>
    BY <1>1, <1>5
  <2>2. \E d \in Coded : Code(d) = <<Upper(h), Upper(l)>>
    BY <2>1
  <2>3. Char(h, l) = CHOOSE d \in Coded : Code(d) = <<Upper(h), Upper(l)>>
    BY <2>2 DEF Char
  <2>4. Char(h, l) \in Coded /\ Code(Char(h, l)) = <<Upper(h), Upper(l)>>
    BY <2>2, <2>3
  <2> QED
    BY <1>6, <2>1, <2>4
<1> QED
  BY <1>1, <1>3, <1>5, <1>7

\* A part of an encoded text that stands for the character c
Stands(t, c) ==
  \/ t = <<c>> /\ c # "%" /\ c # "+"
  \/ t = <<"+">> /\ c = " "
  \/ c \in Coded /\ t = Escaped(c)

\* What the decoder finds at place i: an item, and where it goes on
DecodeItem(s, i) == IF IsEscape(s, i) THEN Char(s[i + 1], s[i + 2]) ELSE IF s[i] = "+" THEN " " ELSE s[i]
DecodeNext(s, i) == IF IsEscape(s, i) THEN i + 3 ELSE i + 1
Decoding(s, g) ==
  \A i \in 1 .. Len(s) + 1 : g[i] = IF i > Len(s) THEN <<>> ELSE <<DecodeItem(s, i)>> \o g[DecodeNext(s, i)]

LEMMA DecoderWorks ==
  ASSUME NEW A, NEW s \in Seq(A)
  PROVE  \E g : Decoding(s, g) /\ urlDecode(s) = g[1]
<1> DEFINE L == Len(s)
           Body(g) == [i \in 1 .. Len(s) + 1 |->
                         IF i > Len(s) THEN <<>>
                         ELSE IF IsEscape(s, i) THEN <<Char(s[i + 1], s[i + 2])>> \o g[i + 3]
                         ELSE <<IF s[i] = "+" THEN " " ELSE s[i]>> \o g[i + 1]]
           rest == CHOOSE g : g = Body(g)
<1>1. urlDecode(s) = rest[1]
  BY DEF urlDecode
<1>2. \A i \in 1 .. L : DecodeNext(s, i) \in 1 .. L + 1 /\ DecodeNext(s, i) > i
  BY DEF DecodeNext, IsEscape
<1>3. PICK B : B = {DecodeItem(s, i) : i \in 1 .. L}
  OBVIOUS
<1>4. PICK item, next : item = [i \in 1 .. L |-> DecodeItem(s, i)] /\ next = [i \in 1 .. L |-> DecodeNext(s, i)]
  OBVIOUS
<1>5. item \in [1 .. L -> B] /\ next \in [1 .. L -> 1 .. L + 1] /\ \A i \in 1 .. L : next[i] > i
  BY <1>2, <1>3, <1>4
<1>6. L \in Nat /\ L + 1 \in Nat /\ L <= L + 1
  OBVIOUS
<1>7. PICK g \in [1 .. L + 1 -> Seq(B)] : GoesOn(L, L + 1, item, next, g)
  <2> HIDE DEF L
  <2> QED
    BY <1>5, <1>6, FromTheEnd
<1>8. g = Body(g)
  <2>1. ASSUME NEW i \in 1 .. L + 1
        PROVE  g[i] = IF i > Len(s) THEN <<>>
                      ELSE IF IsEscape(s, i) THEN <<Char(s[i + 1], s[i + 2])>> \o g[i + 3]
                      ELSE <<IF s[i] = "+" THEN " " ELSE s[i]>> \o g[i + 1]
    <3>1. CASE i > L
      BY <1>7, <3>1 DEF GoesOn
    <3>2. CASE ~ (i > L)
      <4>1. i \in 1 .. L
        BY <3>2
      <4>2. g[i] = <<item[i]>> \o g[next[i]]
        BY <1>7, <3>2 DEF GoesOn
      <4>3. g[i] = <<DecodeItem(s, i)>> \o g[DecodeNext(s, i)]
        BY <1>4, <4>1, <4>2
      <4> QED
        BY <3>2, <4>3 DEF DecodeItem, DecodeNext
    <3> QED
      BY <3>1, <3>2
  <2>2. g = [i \in 1 .. L + 1 |-> g[i]]
    OBVIOUS
  <2> QED
    BY <2>1, <2>2
<1>9. rest = Body(rest)
  <2> HIDE DEF Body
  <2> QED
    BY <1>8
<1> HIDE DEF rest
<1>10. Decoding(s, rest)
  <2> SUFFICES ASSUME NEW i \in 1 .. Len(s) + 1
               PROVE  rest[i] = IF i > Len(s) THEN <<>> ELSE <<DecodeItem(s, i)>> \o rest[DecodeNext(s, i)]
    BY DEF Decoding
  <2>1. rest[i] = IF i > Len(s) THEN <<>>
                  ELSE IF IsEscape(s, i) THEN <<Char(s[i + 1], s[i + 2])>> \o rest[i + 3]
                  ELSE <<IF s[i] = "+" THEN " " ELSE s[i]>> \o rest[i + 1]
    BY <1>9
  <2> QED
    BY <2>1 DEF DecodeItem, DecodeNext
<1> QED
  BY <1>1, <1>10

\* The decoder takes one such part, behind place q.
PartBehind(s, q, t) == q + Len(t) <= Len(s) /\ \A j \in 1 .. Len(t) : s[q + j] = t[j]
TakenBehind(g, q, t, c) == g[q + 1] = <<c>> \o g[q + Len(t) + 1]

LEMMA TakesPart ==
  ASSUME NEW A, NEW s \in Seq(A), NEW q \in Nat, NEW t, NEW c, Stands(t, c), PartBehind(s, q, t),
         NEW g, Decoding(s, g)
  PROVE  TakenBehind(g, q, t, c)
<1>0. q + Len(t) <= Len(s) /\ \A j \in 1 .. Len(t) : s[q + j] = t[j]
  BY DEF PartBehind
<1>1. ASSUME NEW i \in 1 .. Len(s) PROVE g[i] = <<DecodeItem(s, i)>> \o g[DecodeNext(s, i)]
  <2>1. i \in 1 .. Len(s) + 1 /\ ~ (i > Len(s))
    OBVIOUS
  <2> QED
    BY <2>1 DEF Decoding
<1>2. CASE t = <<c>> /\ c # "%" /\ c # "+"
  <2>1. Len(t) = 1 /\ q + 1 \in 1 .. Len(s) /\ s[q + 1] = c /\ q + Len(t) + 1 = (q + 1) + 1
    BY <1>0, <1>2
  <2>2. DecodeItem(s, q + 1) = c /\ DecodeNext(s, q + 1) = (q + 1) + 1
    BY <1>2, <2>1 DEF DecodeItem, DecodeNext, IsEscape
  <2> QED
    BY <1>1, <2>1, <2>2 DEF TakenBehind
<1>3. CASE t = <<"+">> /\ c = " "
  <2>0. PICK d : d = "+" /\ t = <<d>>
    BY <1>3
  <2>1. Len(t) = 1 /\ q + 1 \in 1 .. Len(s) /\ s[q + 1] = d /\ q + Len(t) + 1 = (q + 1) + 1
    BY <1>0, <2>0
  <2>2. DecodeItem(s, q + 1) = c /\ DecodeNext(s, q + 1) = (q + 1) + 1
    BY <1>3, <2>0, <2>1 DEF DecodeItem, DecodeNext, IsEscape
  <2> QED
    BY <1>1, <2>1, <2>2 DEF TakenBehind
<1>4. CASE c \in Coded /\ t = Escaped(c)
  <2>1. PICK h, l : /\ Code(c) = <<h, l>> /\ h \in HexDigits /\ l \in HexDigits /\ Char(h, l) = c
    BY <1>4, CodeProperties
  <2>2. PICK d : d = "%" /\ t = <<d, h, l>>
    <3>1. t = <<"%">> \o <<h, l>>
      BY <1>4, <2>1 DEF Escaped
    <3>2. PICK d, u, w, y : d = "%" /\ u = <<d>> /\ w = <<h, l>> /\ y = <<d, h, l>>
      OBVIOUS
    <3>3. PICK B : B = {d, h, l}
      OBVIOUS
    <3>4. u \in Seq(B) /\ w \in Seq(B) /\ y \in Seq(B) /\ Len(u) = 1 /\ Len(w) = 2 /\ Len(y) = 3
      BY <3>2, <3>3
    <3>5. PICK e : e = u \o w
      OBVIOUS
    <3>6. e \in Seq(B)
      BY <3>4, <3>5
    <3>7. Len(e) = 3 /\ e[1] = u[1] /\ e[2] = w[1] /\ e[3] = w[2]
      <4>0. u \in Seq(B) /\ w \in Seq(B)
        BY <3>4
      <4>1. \A i \in 1 .. Len(u) : (u \o w)[i] = u[i]
        BY <4>0, CatPlaces
      <4>2. \A i \in 1 .. Len(w) : (u \o w)[Len(u) + i] = w[i]
        BY <4>0, CatPlaces
      <4>3. Len(u \o w) = Len(u) + Len(w)
        BY <4>0, CatPlaces
      <4>4. 1 \in 1 .. Len(u) /\ 1 \in 1 .. Len(w) /\ 2 \in 1 .. Len(w) /\ Len(u) + 1 = 2 /\ Len(u) + 2 = 3
        BY <3>4
      <4> QED
        BY <3>4, <3>5, <4>1, <4>2, <4>3, <4>4
    <3>8. e[1] = y[1] /\ e[2] = y[2] /\ e[3] = y[3]
      BY <3>2, <3>7
    <3>9. \A i \in 1 .. 3 : e[i] = y[i]
      BY <3>8
    <3>10. u \o w = y
      <4>1. Len(e) = Len(y) /\ \A i \in 1 .. Len(e) : e[i] = y[i]
        BY <3>4, <3>7, <3>9
      <4>2. e = y
        BY <3>4, <3>6, <4>1, SameSequence
      <4> QED
        BY <3>5, <4>2
    <3> QED
      BY <3>1, <3>2, <3>10
  <2>3. Len(t) = 3 /\ t[1] = d /\ t[2] = h /\ t[3] = l
    BY <2>2
  <2>4. s[q + 1] = "%" /\ s[q + 2] = h /\ s[q + 3] = l
    BY <1>0, <2>2, <2>3
  <2>5. /\ q + 1 \in 1 .. Len(s) /\ (q + 1) + 2 <= Len(s) /\ (q + 1) + 1 = q + 2 /\ (q + 1) + 2 = q + 3
        /\ q + Len(t) + 1 = (q + 1) + 3
    BY <1>0, <2>3
  <2>6. IsEscape(s, q + 1)
    BY <2>1, <2>4, <2>5 DEF IsEscape
  <2>7. DecodeItem(s, q + 1) = c /\ DecodeNext(s, q + 1) = (q + 1) + 3
    BY <2>1, <2>4, <2>5, <2>6 DEF DecodeItem, DecodeNext
  <2>8. g[q + 1] = <<c>> \o g[(q + 1) + 3]
    BY <1>1, <2>5, <2>7
  <2> QED
    BY <2>3, <2>5, <2>8 DEF TakenBehind
<1> QED
  BY <1>2, <1>3, <1>4 DEF Stands

LEMMA SubSeqFromTheEnd ==
  ASSUME NEW S, NEW x \in Seq(S), NEW k \in 1 .. Len(x)
  PROVE  SubSeq(x, k, Len(x)) = <<x[k]>> \o SubSeq(x, k + 1, Len(x))
<1> DEFINE u == SubSeq(x, k, Len(x))
           w == <<x[k]>> \o SubSeq(x, k + 1, Len(x))
<1>0. PICK n \in Nat : n = Len(x) /\ k \in 1 .. n /\ \A i \in 1 .. n : x[i] \in S
  OBVIOUS
<1>1. u \in Seq(S) /\ Len(u) = Len(x) - k + 1 /\ \A i \in 1 .. Len(x) - k + 1 : u[i] = x[k + i - 1]
  <2>1. u = [i \in 1 .. n - k + 1 |-> x[k + i - 1]]
    BY <1>0
  <2> QED
    BY <1>0, <2>1
<1>2. PICK y \in Seq(S) : y = SubSeq(x, k + 1, Len(x)) /\ y = [i \in 1 .. n - k |-> x[k + i]]
  <2>1. SubSeq(x, k + 1, n) = [i \in 1 .. n - k |-> x[k + i]]
    BY <1>0
  <2>2. [i \in 1 .. n - k |-> x[k + i]] \in Seq(S)
    BY <1>0
  <2> QED
    BY <1>0, <2>1, <2>2
<1>3. Len(y) = Len(x) - k /\ \A i \in 1 .. Len(x) - k : y[i] = x[k + i]
  BY <1>0, <1>2
<1>4. w \in Seq(S) /\ Len(w) = Len(x) - k + 1 /\ w[1] = x[k] /\ \A i \in 1 .. Len(x) - k : w[1 + i] = y[i]
  <2>1. PICK z \in Seq(S) : z = <<x[k]>>
    <3>1. \A e \in S : <<e>> \in Seq(S)
      OBVIOUS
    <3> QED
      BY <1>0, <3>1
  <2>2. Len(z) = 1 /\ z[1] = x[k]
    BY <2>1
  <2>3. /\ z \o y \in Seq(S) /\ Len(z \o y) = Len(z) + Len(y) /\ \A i \in 1 .. Len(z) : (z \o y)[i] = z[i]
        /\ \A i \in 1 .. Len(y) : (z \o y)[Len(z) + i] = y[i]
    BY CatPlaces
  <2>4. 1 \in 1 .. Len(z) /\ Len(x) \in Nat
    BY <2>2
  <2> QED
    BY <1>2, <1>3, <2>1, <2>2, <2>3, <2>4
<1> HIDE DEF u, w
<1>5. ASSUME NEW i \in 1 .. Len(x) - k + 1 PROVE u[i] = w[i]
  <2>1. CASE i = 1
    BY <1>1, <1>4, <2>1
  <2>2. CASE i # 1
    <3>1. i - 1 \in 1 .. Len(x) - k /\ 1 + (i - 1) = i
      BY <2>2
    <3>2. w[i] = x[k + (i - 1)]
      BY <1>3, <1>4, <3>1
    <3> QED
      BY <1>1, <3>2
  <2> QED
    BY <2>1, <2>2
<1>6. u = w
  <2>1. PICK m \in Nat : m = n - k + 1
    BY <1>0
  <2>2. u \in Seq(S) /\ w \in Seq(S) /\ Len(u) = m /\ Len(w) = m /\ \A i \in 1 .. m : u[i] = w[i]
    BY <1>0, <1>1, <1>4, <1>5, <2>1
  <2> QED
    BY <2>2
<1> QED
  BY <1>6 DEF u, w

\* What is put together of parts that each stand for a character is decoded to these.
LEMMA Decodes ==
  ASSUME NEW S, NEW x \in Seq(S), NEW A, NEW v \in [1 .. Len(x) -> Seq(A)],
         \A i \in 1 .. Len(x) : Stands(v[i], x[i])
  PROVE  urlDecode(FlattenSeq(v)) = x
<1>1. PICK n \in Nat : n = Len(x)
  OBVIOUS
<1>2. PICK s : n = Len(x) /\ s = FlattenSeq(v)
  BY <1>1
<1>3. PICK p : Places(A, n, v, s, p)
  BY <1>2, FlattenPlaces
<1>4. s \in Seq(A)
  BY <1>3 DEF Places
<1>5. PICK g : Decoding(s, g) /\ urlDecode(s) = g[1]
  BY <1>4, DecoderWorks
<1> DEFINE T == {k \in 0 .. n : g[p[n - k] + 1] = SubSeq(x, n - k + 1, n)}
<1>6. 0 \in T
  <2>1. p[n - 0] = Len(s)
    BY <1>3 DEF Places
  <2>2. g[Len(s) + 1] = <<>>
    <3>1. Len(s) + 1 \in 1 .. Len(s) + 1 /\ Len(s) + 1 > Len(s)
      BY <1>4
    <3> QED
      BY <1>5, <3>1 DEF Decoding
  <2>3. SubSeq(x, n - 0 + 1, n) = <<>>
    BY <1>2
  <2>4. 0 \in 0 .. n
    BY <1>2
  <2> QED
    BY <2>1, <2>2, <2>3, <2>4
<1>7. ASSUME NEW k \in 0 .. n - 1, k \in T PROVE k + 1 \in T
  <2>1. PICK m \in 1 .. n : m = n - k
    OBVIOUS
  <2>2. /\ p[m] = p[m - 1] + Len(v[m]) /\ p[m] <= Len(s) /\ \A j \in 1 .. Len(v[m]) : s[p[m - 1] + j] = v[m][j]
        /\ p[m - 1] \in Nat
    BY <1>3 DEF Places
  <2>3. Stands(v[m], x[m])
    BY <1>2
  <2>4. PICK q \in Nat : q = p[m - 1]
    BY <2>2
  <2>5. PICK t, c : t = v[m] /\ c = x[m]
    OBVIOUS
  <2>6. Stands(t, c) /\ PartBehind(s, q, t)
    BY <2>2, <2>3, <2>4, <2>5 DEF PartBehind
  <2>7. g[q + 1] = <<c>> \o g[q + Len(t) + 1]
    BY <1>4, <1>5, <2>6, TakesPart DEF TakenBehind
  <2>8. g[p[m - 1] + 1] = <<x[m]>> \o g[p[m] + 1]
    BY <2>2, <2>4, <2>5, <2>7
  <2>9. g[p[m] + 1] = SubSeq(x, m + 1, n)
    BY <1>7, <2>1
  <2>10. g[p[m - 1] + 1] = SubSeq(x, m, n)
    BY <1>2, <2>8, <2>9, SubSeqFromTheEnd
  <2>11. n - (k + 1) = m - 1 /\ n - (k + 1) + 1 = m /\ k + 1 \in 0 .. n
    BY <2>1
  <2> QED
    BY <2>10, <2>11
<1>8. n \in T
  <2>1. \A k \in 0 .. n : k \in T
    <3> HIDE DEF T
    <3> QED
      BY <1>6, <1>7, InductionUpto
  <2>2. n \in 0 .. n
    OBVIOUS
  <2> QED
    BY <2>1, <2>2
<1>9. g[0 + 1] = SubSeq(x, 1, n)
  <2>1. p[n - n] = 0 /\ n - n + 1 = 1
    BY <1>3 DEF Places
  <2> QED
    BY <1>8, <2>1
<1>10. SubSeq(x, 1, n) = x
  BY <1>2
<1>11. g[1] = x
  BY <1>9, <1>10
<1>12. urlDecode(s) = g[1] /\ s = FlattenSeq(v)
  BY <1>2, <1>5
<1> HIDE DEF T
<1> QED
  BY <1>11, <1>12

\* The characters encoded texts are made of: none that separates
Plain(S) == (S \ Coded) \cup {"%", "+"} \cup HexDigits
Separators == {"&", "=", ";", "?"}

LEMMA PlainSeparates == \A S : \A c \in Plain(S) : c \notin Separators
<1>1. Range(LowerHex) = {"a", "b", "c", "d", "e", "f"} /\ Range(UpperHex) = {"A", "B", "C", "D", "E", "F"}
  BY DEF Range, LowerHex, UpperHex
<1>2. \A c \in HexDigits : c \notin Separators
  BY <1>1 DEF HexDigits, Digits, Separators
<1>3. \A c \in Separators : c \in Coded /\ c # "%" /\ c # "+"
  BY DEF Separators, Coded
<1> QED
  BY <1>2, <1>3 DEF Plain

LEMMA EscapedPlain ==
  ASSUME NEW S, NEW c \in Coded
  PROVE  Escaped(c) \in Seq(Plain(S))
<1>1. PICK h, l : /\ Code(c) = <<h, l>> /\ h \in HexDigits /\ l \in HexDigits
  BY CodeProperties
<1>2. PICK P, d : P = Plain(S) /\ d = "%"
  OBVIOUS
<1>3. h \in P /\ l \in P /\ d \in P
  BY <1>1, <1>2 DEF Plain
<1>4. PICK u, w : u = <<d>> /\ w = <<h, l>>
  OBVIOUS
<1>5. u \in Seq(P) /\ w \in Seq(P)
  BY <1>3, <1>4
<1>6. u \o w \in Seq(P)
  BY <1>5
<1> QED
  BY <1>1, <1>2, <1>4, <1>6 DEF Escaped

\* What one character becomes
EncodedPart(t, c) == t = IF c \in Coded THEN Escaped(c) ELSE <<c>>
FormPart(t, c) == t = IF c = " " THEN <<"+">> ELSE IF c \in Coded THEN Escaped(c) ELSE <<c>>

LEMMA PartStands ==
  ASSUME NEW S, NEW c \in S, NEW t, EncodedPart(t, c) \/ FormPart(t, c)
  PROVE  Stands(t, c) /\ t \in Seq(Plain(S))
<1>1. CASE c \in Coded /\ t = Escaped(c)
  BY <1>1, EscapedPlain DEF Stands
<1>2. CASE c \notin Coded /\ t = <<c>>
  <2>1. c # "%" /\ c # "+"
    BY <1>2 DEF Coded
  <2>2. c \in Plain(S)
    BY <1>2 DEF Plain
  <2>3. <<c>> \in Seq(Plain(S))
    BY <2>2
  <2> QED
    BY <1>2, <2>1, <2>3 DEF Stands
<1>3. CASE c = " " /\ t = <<"+">>
  <2>1. PICK d : d = "+"
    OBVIOUS
  <2>2. d \in Plain(S)
    BY <2>1 DEF Plain
  <2>3. <<d>> \in Seq(Plain(S))
    BY <2>2
  <2> QED
    BY <1>3, <2>1, <2>3 DEF Stands
<1>4. (c \in Coded /\ t = Escaped(c)) \/ (c \notin Coded /\ t = <<c>>) \/ (c = " " /\ t = <<"+">>)
  BY DEF EncodedPart, FormPart, Coded
<1> QED
  BY <1>1, <1>2, <1>3, <1>4

\* An encoded text has no separators and is decoded to what it was.
Encodes(S, e, x) == e \in Seq(Plain(S)) /\ urlDecode(e) = x

LEMMA PartsEncode ==
  ASSUME NEW S, NEW x \in Seq(S), NEW v, v = [i \in 1 .. Len(x) |-> v[i]],
         \A i \in 1 .. Len(x) : EncodedPart(v[i], x[i]) \/ FormPart(v[i], x[i])
  PROVE  Encodes(S, FlattenSeq(v), x)
<1>1. PICK A : A = Plain(S)
  OBVIOUS
<1>2. ASSUME NEW i \in 1 .. Len(x) PROVE Stands(v[i], x[i]) /\ v[i] \in Seq(A)
  <2>1. PICK c \in S : c = x[i]
    OBVIOUS
  <2>2. PICK t : t = v[i]
    OBVIOUS
  <2>3. EncodedPart(t, c) \/ FormPart(t, c)
    BY <2>1, <2>2
  <2> QED
    BY <1>1, <2>1, <2>2, <2>3, PartStands
<1>3. v \in [1 .. Len(x) -> Seq(A)]
  BY <1>2
<1>4. urlDecode(FlattenSeq(v)) = x
  BY <1>2, <1>3, Decodes
<1>5. FlattenSeq(v) \in Seq(A)
  <2>0. PICK n \in Nat : n = Len(x)
    OBVIOUS
  <2>1. PICK p : Places(A, n, v, FlattenSeq(v), p)
    BY <1>3, <2>0, FlattenPlaces
  <2> QED
    BY <2>1 DEF Places
<1> QED
  BY <1>1, <1>4, <1>5 DEF Encodes

LEMMA UrlEncodes ==
  ASSUME NEW S, NEW x \in Seq(S)
  PROVE  Encodes(S, urlEncode(x), x)
<1>1. PICK v : v = [i \in 1 .. Len(x) |-> IF x[i] \in Coded THEN Escaped(x[i]) ELSE <<x[i]>>]
  OBVIOUS
<1>2. v = [i \in 1 .. Len(x) |-> v[i]] /\ \A i \in 1 .. Len(x) : EncodedPart(v[i], x[i])
  BY <1>1 DEF EncodedPart
<1>3. DOMAIN x = 1 .. Len(x)
  OBVIOUS
<1>4. urlEncode(x) = FlattenSeq(v)
  BY <1>1, <1>3 DEF urlEncode
<1> QED
  BY <1>2, <1>4, PartsEncode

LEMMA FormEncodes ==
  ASSUME NEW S, NEW x \in Seq(S)
  PROVE  Encodes(S, FormValue(x), x)
<1>1. PICK v : v = [i \in 1 .. Len(x) |-> IF x[i] = " " THEN <<"+">>
                                          ELSE IF x[i] \in Coded THEN Escaped(x[i]) ELSE <<x[i]>>]
  OBVIOUS
<1>2. v = [i \in 1 .. Len(x) |-> v[i]] /\ \A i \in 1 .. Len(x) : FormPart(v[i], x[i])
  BY <1>1 DEF FormPart
<1>3. DOMAIN x = 1 .. Len(x)
  OBVIOUS
<1>4. FormValue(x) = FlattenSeq(v)
  BY <1>1, <1>3 DEF FormValue
<1> QED
  BY <1>2, <1>4, PartsEncode

\* A path as a browser sends it has no "?", and is decoded to what it was.
LEMMA PathPlain ==
  ASSUME NEW S, NEW x \in Seq(S)
  PROVE  PathText(x) \in Seq(Plain(S) \cup {"/"}) /\ urlDecode(PathText(x)) = x
<1>1. PICK v, A : /\ v = [i \in 1 .. Len(x) |-> IF x[i] \in Coded \ {"/"} THEN Escaped(x[i]) ELSE <<x[i]>>]
                  /\ A = Plain(S) \cup {"/"}
  OBVIOUS
<1>2. ASSUME NEW i \in 1 .. Len(x) PROVE v[i] \in Seq(A) /\ Stands(v[i], x[i])
  <2>1. PICK c \in S : c = x[i]
    OBVIOUS
  <2>2. CASE c \in Coded \ {"/"}
    <3>1. Escaped(c) \in Seq(Plain(S))
      BY <2>2, EscapedPlain
    <3>2. Seq(Plain(S)) \subseteq Seq(A)
      BY <1>1
    <3>3. Stands(Escaped(c), c)
      BY <2>2 DEF Stands
    <3> QED
      BY <1>1, <2>1, <2>2, <3>1, <3>2, <3>3
  <2>3. CASE c \notin Coded \ {"/"}
    <3>1. c \in A
      BY <1>1, <2>3 DEF Plain
    <3>2. <<c>> \in Seq(A)
      BY <3>1
    <3>3. c # "%" /\ c # "+"
      BY <2>3 DEF Coded
    <3>4. Stands(<<c>>, c)
      BY <3>3 DEF Stands
    <3> QED
      BY <1>1, <2>1, <2>3, <3>2, <3>4
  <2> QED
    BY <2>2, <2>3
<1>3. v \in [1 .. Len(x) -> Seq(A)]
  BY <1>1, <1>2
<1>4. PICK n \in Nat : n = Len(x)
  OBVIOUS
<1>5. PICK p : Places(A, n, v, FlattenSeq(v), p)
  BY <1>3, <1>4, FlattenPlaces
<1>6. DOMAIN x = 1 .. Len(x)
  OBVIOUS
<1>7. PathText(x) = FlattenSeq(v)
  BY <1>1, <1>6 DEF PathText
<1>8. urlDecode(FlattenSeq(v)) = x
  BY <1>2, <1>3, Decodes
<1> QED
  BY <1>1, <1>5, <1>7, <1>8 DEF Places

\* Where a character is first
FirstAt(s, c, k) ==
  /\ k \in 0 .. Len(s)
  /\ k = 0 => \A i \in 1 .. Len(s) : s[i] # c
  /\ k # 0 => s[k] = c /\ \A i \in 1 .. k - 1 : s[i] # c

LEMMA FirstOne ==
  ASSUME NEW A, NEW s \in Seq(A), NEW c, NEW k, FirstAt(s, c, k)
  PROVE  /\ Before(s, c) = IF k = 0 THEN s ELSE SubSeq(s, 1, k - 1)
         /\ After(s, c) = IF k = 0 THEN <<>> ELSE SubSeq(s, k + 1, Len(s))
<1>1. PICK I : I = {i \in 1 .. Len(s) : s[i] = c}
  OBVIOUS
<1>2. SelectInSeq(s, LAMBDA x : x = c) = IF I # {} THEN Min(I) ELSE 0
  BY <1>1 DEF SelectInSeq
<1>3. CASE k = 0
  <2>1. I = {}
    BY <1>1, <1>3 DEF FirstAt
  <2> QED
    BY <1>2, <1>3, <2>1 DEF Before, After
<1>4. CASE k # 0
  <2>1. I \subseteq Nat /\ k \in I /\ k \in Nat
    BY <1>1, <1>4 DEF FirstAt
  <2>2. Min(I) \in I /\ Min(I) <= k
    BY <2>1, MinProperties
  <2>3. Min(I) \in 1 .. Len(s) /\ s[Min(I)] = c
    BY <1>1, <2>2
  <2>4. ~ (Min(I) \in 1 .. k - 1)
    BY <1>4, <2>3 DEF FirstAt
  <2>5. Min(I) = k
    BY <2>1, <2>2, <2>3, <2>4
  <2>6. I # {}
    BY <2>1
  <2> QED
    BY <1>2, <1>4, <2>5, <2>6 DEF Before, After
<1> QED
  BY <1>3, <1>4

\* A text is cut where it was joined, and not if the character is not in it.
LEMMA CutNowhere ==
  ASSUME NEW A, NEW s \in Seq(A), NEW c, c \notin A
  PROVE  Before(s, c) = s /\ After(s, c) = <<>>
<1>1. FirstAt(s, c, 0)
  BY DEF FirstAt
<1> QED
  BY <1>1, FirstOne

Joined(s, a, c, b) == s = (a \o <<c>>) \o b

LEMMA CutWhereJoined ==
  ASSUME NEW A, NEW a \in Seq(A), NEW c, c \notin A, NEW B, c \in B, NEW b \in Seq(B), A \subseteq B,
         NEW s, Joined(s, a, c, b)
  PROVE  Before(s, c) = a /\ After(s, c) = b
<1>1. PICK m \in Nat, n \in Nat : m = Len(a) /\ n = Len(b)
  OBVIOUS
<1>2. PICK z : z = <<c>>
  OBVIOUS
<1>3. z \in Seq(B) /\ a \in Seq(B) /\ Len(z) = 1 /\ z[1] = c /\ \A i \in 1 .. m : a[i] \in A
  BY <1>1, <1>2
<1>4. PICK u \in Seq(B) : u = a \o z
  BY <1>3, CatPlaces
<1>5. Len(u) = m + 1 /\ (\A i \in 1 .. m : u[i] = a[i]) /\ u[m + 1] = c
  <2>1. /\ Len(u) = Len(a) + Len(z) /\ (\A i \in 1 .. Len(a) : u[i] = a[i])
        /\ \A i \in 1 .. Len(z) : u[Len(a) + i] = z[i]
    <3>1. a \in Seq(B) /\ z \in Seq(B)
      BY <1>3
    <3>2. /\ Len(a \o z) = Len(a) + Len(z)
          /\ \A i \in 1 .. Len(a) : (a \o z)[i] = a[i]
          /\ \A i \in 1 .. Len(z) : (a \o z)[Len(a) + i] = z[i]
      BY <3>1, CatPlaces
    <3> QED
      BY <1>4, <3>1, <3>2
  <2>2. 1 \in 1 .. Len(z)
    BY <1>3
  <2> QED
    BY <1>1, <1>3, <2>1, <2>2
<1>6. s = u \o b
  BY <1>2, <1>4 DEF Joined
<1>7. /\ s \in Seq(B) /\ Len(s) = m + 1 + n
      /\ \A i \in 1 .. m + 1 : s[i] = u[i]
      /\ \A i \in 1 .. n : s[m + 1 + i] = b[i]
  <2>1. /\ u \o b \in Seq(B) /\ Len(u \o b) = Len(u) + Len(b)
        /\ \A i \in 1 .. Len(u) : (u \o b)[i] = u[i]
        /\ \A i \in 1 .. Len(b) : (u \o b)[Len(u) + i] = b[i]
    BY CatPlaces
  <2> QED
    BY <1>1, <1>5, <1>6, <2>1
<1>8. \A i \in 1 .. m : s[i] = a[i] /\ s[i] # c
  BY <1>3, <1>5, <1>7
<1>9. s[m + 1] = c
  BY <1>5, <1>7
<1>10. FirstAt(s, c, m + 1)
  BY <1>7, <1>8, <1>9 DEF FirstAt
<1>11. Before(s, c) = SubSeq(s, 1, m) /\ After(s, c) = SubSeq(s, m + 2, Len(s))
  <2>1. PICK k \in Nat : k = m + 1
    OBVIOUS
  <2>2. FirstAt(s, c, k)
    BY <1>10, <2>1
  <2>3. /\ Before(s, c) = IF k = 0 THEN s ELSE SubSeq(s, 1, k - 1)
        /\ After(s, c) = IF k = 0 THEN <<>> ELSE SubSeq(s, k + 1, Len(s))
    BY <1>7, <2>2, FirstOne
  <2>4. k # 0 /\ k - 1 = m /\ k + 1 = m + 2
    BY <2>1
  <2> QED
    BY <2>3, <2>4
<1>12. SubSeq(s, 1, m) = a
  <2>1. SubSeq(s, 1, m) = [i \in 1 .. m |-> s[i]]
    BY <1>7
  <2>2. a = [i \in 1 .. m |-> a[i]]
    BY <1>1
  <2> QED
    BY <1>8, <2>1, <2>2
<1>13. SubSeq(s, m + 2, Len(s)) = b
  <2>1. SubSeq(s, m + 2, Len(s)) = [i \in 1 .. n |-> s[m + 1 + i]]
    <3>1. PICK k \in Nat, l \in Nat : k = m + 2 /\ l = Len(s) /\ l - k + 1 = n
      BY <1>7
    <3>2. SubSeq(s, k, l) = [i \in 1 .. l - k + 1 |-> s[k + i - 1]]
      BY <1>7, <3>1
    <3>3. \A i \in 1 .. n : k + i - 1 = m + 1 + i
      BY <3>1
    <3> QED
      BY <3>1, <3>2, <3>3
  <2>2. b = [i \in 1 .. n |-> b[i]]
    BY <1>1
  <2> QED
    BY <1>7, <2>1, <2>2
<1> QED
  BY <1>11, <1>12, <1>13

-----------------------------------------------------------------------------
(* Forms.                                                                  *)

\* The pair that begins at a place, and what it is read as
PairAt(s, i) == Before(SubSeq(s, i, Len(s)), "&")
PairParam(pair, post) ==
  [name |-> urlDecode(Before(pair, "=")), value |-> urlDecode(After(pair, "=")), post |-> post]
Reads(s, post, g) ==
  \A i \in 1 .. Len(s) + 2 :
    g[i] = IF i > Len(s) THEN <<>> ELSE <<PairParam(PairAt(s, i), post)>> \o g[i + Len(PairAt(s, i)) + 1]

LEMMA BeforeShorter ==
  ASSUME NEW A, NEW s \in Seq(A), NEW c
  PROVE  Len(Before(s, c)) \in 0 .. Len(s)
<1>1. PICK I, k : I = {i \in 1 .. Len(s) : s[i] = c} /\ k = IF I # {} THEN Min(I) ELSE 0
  OBVIOUS
<1>2. SelectInSeq(s, LAMBDA x : x = c) = k
  BY <1>1 DEF SelectInSeq
<1>3. k \in 0 .. Len(s)
  <2>1. CASE I # {}
    <3>1. I \subseteq Nat
      BY <1>1
    <3>2. Min(I) \in I
      BY <2>1, <3>1, MinProperties
    <3>3. Min(I) \in 1 .. Len(s)
      BY <1>1, <3>2
    <3> QED
      BY <1>1, <2>1, <3>3
  <2>2. CASE I = {}
    BY <1>1, <2>2
  <2> QED
    BY <2>1, <2>2
<1>4. Before(s, c) = IF k = 0 THEN s ELSE SubSeq(s, 1, k - 1)
  BY <1>2 DEF Before
<1>5. CASE k = 0
  BY <1>4, <1>5
<1>6. CASE k # 0
  <2>1. SubSeq(s, 1, k - 1) = [i \in 1 .. k - 1 |-> s[i]]
    BY <1>3, <1>6
  <2>2. k - 1 \in Nat /\ k - 1 \in 0 .. Len(s)
    BY <1>3, <1>6
  <2>3. Len([i \in 1 .. k - 1 |-> s[i]]) = k - 1
    BY <2>2
  <2> QED
    BY <1>4, <1>6, <2>1, <2>2, <2>3
<1> QED
  BY <1>5, <1>6

LEMMA ReaderWorks ==
  ASSUME NEW A, NEW s \in Seq(A), NEW post
  PROVE  \E g : Reads(s, post, g) /\ Params(s, post) = g[1]
<1> DEFINE Body(g) == [i \in 1 .. Len(s) + 2 |->
                         IF i > Len(s) THEN <<>>
                         ELSE LET pair == Before(SubSeq(s, i, Len(s)), "&") IN
                              <<[name |-> urlDecode(Before(pair, "=")), value |-> urlDecode(After(pair, "=")),
                                 post |-> post]>>
                                \o g[i + Len(pair) + 1]]
           from == CHOOSE g : g = Body(g)
           NextPair(i) == i + Len(PairAt(s, i)) + 1
<1>1. Params(s, post) = from[1]
  BY DEF Params
<1>2. PICK L \in Nat : L = Len(s)
  OBVIOUS
<1>3. \A i \in 1 .. L : NextPair(i) \in 1 .. L + 2 /\ NextPair(i) > i
  <2> SUFFICES ASSUME NEW i \in 1 .. L PROVE NextPair(i) \in 1 .. L + 2 /\ NextPair(i) > i
    OBVIOUS
  <2>1. SubSeq(s, i, Len(s)) \in Seq(A) /\ Len(SubSeq(s, i, Len(s))) = L - i + 1
    <3>1. SubSeq(s, i, L) = [j \in 1 .. L - i + 1 |-> s[i + j - 1]]
      BY <1>2
    <3>2. \A j \in 1 .. L - i + 1 : s[i + j - 1] \in A
      BY <1>2
    <3>3. [j \in 1 .. L - i + 1 |-> s[i + j - 1]] \in Seq(A) /\ Len([j \in 1 .. L - i + 1 |-> s[i + j - 1]]) = L - i + 1
      BY <1>2, <3>2
    <3> QED
      BY <1>2, <3>1, <3>3
  <2>2. Len(PairAt(s, i)) \in 0 .. L - i + 1
    BY <2>1, BeforeShorter DEF PairAt
  <2> QED
    BY <1>2, <2>2
<1>4. PICK B : B = {PairParam(PairAt(s, i), post) : i \in 1 .. L}
  OBVIOUS
<1>5. PICK item, next : /\ item = [i \in 1 .. L |-> PairParam(PairAt(s, i), post)]
                        /\ next = [i \in 1 .. L |-> NextPair(i)]
  OBVIOUS
<1> HIDE DEF NextPair
<1>6. item \in [1 .. L -> B] /\ next \in [1 .. L -> 1 .. L + 2] /\ \A i \in 1 .. L : next[i] > i
  BY <1>3, <1>4, <1>5
<1>7. L + 2 \in Nat /\ L <= L + 2
  BY <1>2
<1>8. PICK g \in [1 .. L + 2 -> Seq(B)] : GoesOn(L, L + 2, item, next, g)
  BY <1>6, <1>7, FromTheEnd
<1>9. g = Body(g)
  <2>1. ASSUME NEW i \in 1 .. L + 2
        PROVE  g[i] = IF i > Len(s) THEN <<>> ELSE <<PairParam(PairAt(s, i), post)>> \o g[NextPair(i)]
    <3>1. CASE i > L
      BY <1>2, <1>8, <3>1 DEF GoesOn
    <3>2. CASE ~ (i > L)
      <4>1. i \in 1 .. L
        BY <3>2
      <4>2. g[i] = <<item[i]>> \o g[next[i]]
        BY <1>8, <3>2 DEF GoesOn
      <4> QED
        BY <1>2, <1>5, <3>2, <4>1, <4>2
    <3> QED
      BY <3>1, <3>2
  <2>2. g = [i \in 1 .. L + 2 |-> g[i]]
    OBVIOUS
  <2>3. g = [i \in 1 .. L + 2 |-> IF i > Len(s) THEN <<>> ELSE <<PairParam(PairAt(s, i), post)>> \o g[NextPair(i)]]
    BY <2>1, <2>2
  <2>4. Body(g) = [i \in 1 .. L + 2 |-> IF i > Len(s) THEN <<>> ELSE <<PairParam(PairAt(s, i), post)>> \o g[NextPair(i)]]
    BY <1>2 DEF PairAt, PairParam, NextPair
  <2> QED
    BY <2>3, <2>4
<1>10. from = Body(from)
  <2> HIDE DEF Body
  <2> QED
    BY <1>9
<1> HIDE DEF from
<1>11. Reads(s, post, from)
  <2> SUFFICES ASSUME NEW i \in 1 .. Len(s) + 2
               PROVE  from[i] = IF i > Len(s) THEN <<>>
                                ELSE <<PairParam(PairAt(s, i), post)>> \o from[i + Len(PairAt(s, i)) + 1]
    BY DEF Reads
  <2> QED
    BY <1>10 DEF PairAt, PairParam
<1> QED
  BY <1>1, <1>11

\* A pair that ends where the text does, or at an ampersand
PairBehind(s, q, w) == PartBehind(s, q, w) /\ (q + Len(w) = Len(s) \/ (q + Len(w) < Len(s) /\ s[q + Len(w) + 1] = "&"))

LEMMA PairFound ==
  ASSUME NEW A, "&" \notin A, NEW w \in Seq(A), NEW B, NEW s \in Seq(B), NEW q \in Nat, PairBehind(s, q, w)
  PROVE  PairAt(s, q + 1) = w
<1>1. PICK L \in Nat, m \in Nat : L = Len(s) /\ m = Len(w)
  OBVIOUS
<1>2. q + m <= L /\ \A j \in 1 .. m : s[q + j] = w[j]
  BY <1>1 DEF PairBehind, PartBehind
<1>3. PICK u : u = SubSeq(s, q + 1, Len(s))
  OBVIOUS
<1>4. u \in Seq(B) /\ Len(u) = L - q /\ \A j \in 1 .. L - q : u[j] = s[q + j]
  <2>1. PICK k \in Nat : k = q + 1
    OBVIOUS
  <2>2. SubSeq(s, k, L) = [j \in 1 .. L - k + 1 |-> s[k + j - 1]]
    BY <1>1, <2>1
  <2>3. L - k + 1 = L - q /\ L - q \in Nat /\ \A j \in 1 .. L - q : k + j - 1 = q + j /\ s[q + j] \in B
    <3>1. L - q \in Nat /\ L - k + 1 = L - q
      BY <1>1, <1>2, <2>1
    <3>2. ASSUME NEW j \in 1 .. L - q PROVE k + j - 1 = q + j /\ s[q + j] \in B
      <4>1. q + j \in 1 .. L
        BY <3>1
      <4> QED
        BY <1>1, <2>1, <4>1
    <3> QED
      BY <3>1, <3>2
  <2>4. u = [j \in 1 .. L - q |-> s[q + j]]
    BY <1>1, <1>3, <2>1, <2>2, <2>3
  <2> QED
    BY <2>3, <2>4
<1>5. \A j \in 1 .. m : u[j] = w[j] /\ u[j] # "&"
  <2>1. \A j \in 1 .. m : w[j] \in A
    BY <1>1
  <2>2. \A j \in 1 .. m : j \in 1 .. L - q
    BY <1>1, <1>2
  <2> QED
    BY <1>2, <1>4, <2>1, <2>2
<1>6. CASE q + m = L
  <2>1. Len(u) = m
    BY <1>4, <1>6
  <2>2. FirstAt(u, "&", 0)
    BY <1>5, <2>1 DEF FirstAt
  <2>3. Before(u, "&") = u
    BY <1>4, <2>2, FirstOne
  <2>4. u = w
    BY <1>1, <1>4, <1>5, <2>1
  <2> QED
    BY <1>3, <2>3, <2>4 DEF PairAt
<1>7. CASE q + m < L /\ s[q + m + 1] = "&"
  <2>1. PICK k \in Nat : k = m + 1
    OBVIOUS
  <2>2. k \in 1 .. Len(u) /\ u[k] = "&" /\ k - 1 = m
    BY <1>4, <1>7, <2>1
  <2>3. FirstAt(u, "&", k)
    BY <1>5, <2>2 DEF FirstAt
  <2>4. Before(u, "&") = SubSeq(u, 1, m)
    <3>1. Before(u, "&") = IF k = 0 THEN u ELSE SubSeq(u, 1, k - 1)
      BY <1>4, <2>3, FirstOne
    <3>2. k # 0
      BY <2>2
    <3> QED
      BY <2>2, <3>1, <3>2
  <2>5. SubSeq(u, 1, m) = [j \in 1 .. m |-> u[j]]
    BY <1>4, <2>2
  <2>6. w = [j \in 1 .. m |-> w[j]]
    BY <1>1
  <2> QED
    BY <1>3, <1>5, <2>4, <2>5, <2>6 DEF PairAt
<1> QED
  BY <1>1, <1>6, <1>7 DEF PairBehind

\* The text of a field of a form, and what it is read as
FieldText(f) == (FormValue(f.name) \o <<"=">>) \o FormValue(f.value)

LEMMA FieldReads ==
  ASSUME NEW S, NEW f, f.name \in Seq(S), f.value \in Seq(S), NEW post
  PROVE  /\ FieldText(f) \in Seq(Plain(S) \cup {"="}) /\ Len(FieldText(f)) \in Nat \ {0}
         /\ PairParam(FieldText(f), post) = [name |-> f.name, value |-> f.value, post |-> post]
<1>1. PICK a, b, A : a = FormValue(f.name) /\ b = FormValue(f.value) /\ A = Plain(S)
  OBVIOUS
<1>2. Encodes(S, a, f.name) /\ Encodes(S, b, f.value)
  BY <1>1, FormEncodes
<1>3. a \in Seq(A) /\ b \in Seq(A) /\ urlDecode(a) = f.name /\ urlDecode(b) = f.value
  BY <1>1, <1>2 DEF Encodes
<1>4. PICK c : c = "="
  OBVIOUS
<1>5. c \notin A
  BY <1>1, <1>4, PlainSeparates DEF Separators
<1>6. PICK B : B = A \cup {c}
  OBVIOUS
<1>7. c \in B /\ A \subseteq B
  BY <1>6
<1>8. a \in Seq(B) /\ b \in Seq(B)
  BY <1>3, <1>7
<1>9. PICK z : z = <<c>>
  OBVIOUS
<1>10. z \in Seq(B) /\ Len(z) = 1
  BY <1>7, <1>9
<1>11. PICK u : u = a \o z
  OBVIOUS
<1>12. u \in Seq(B) /\ Len(u) = Len(a) + 1 /\ Len(a) \in Nat
  <2>1. a \o z \in Seq(B) /\ Len(a \o z) = Len(a) + Len(z)
    BY <1>8, <1>10, CatPlaces
  <2> QED
    BY <1>8, <1>10, <1>11, <2>1
<1>13. PICK s : s = u \o b
  OBVIOUS
<1>14. s \in Seq(B) /\ Len(s) \in Nat \ {0}
  <2>1. u \o b \in Seq(B) /\ Len(u \o b) = Len(u) + Len(b)
    BY <1>8, <1>12, CatPlaces
  <2>2. Len(b) \in Nat
    BY <1>8
  <2> QED
    BY <1>12, <1>13, <2>1, <2>2
<1>15. s = FieldText(f)
  BY <1>1, <1>4, <1>9, <1>11, <1>13 DEF FieldText
<1>16. Joined(s, a, c, b)
  BY <1>9, <1>11, <1>13 DEF Joined
<1>17. Before(s, c) = a /\ After(s, c) = b
  <2>1. a \in Seq(A) /\ b \in Seq(B)
    BY <1>3, <1>8
  <2> QED
    BY <1>5, <1>7, <1>16, <2>1, CutWhereJoined
<1>18. PairParam(s, post) = [name |-> f.name, value |-> f.value, post |-> post]
  BY <1>3, <1>4, <1>17 DEF PairParam
<1> QED
  BY <1>1, <1>4, <1>6, <1>14, <1>15, <1>18

\* Where the text of a field begins: the first at the start, the others behind an ampersand
Begins(p, k) == IF k = 1 THEN 0 ELSE p[k - 1] + 1

FieldPart(fields, k) == (IF k = 1 THEN <<>> ELSE <<"&">>) \o FieldText(fields[k])

\* The parts of a form's text
FormParts(B, fields, v, s, p) ==
  /\ FormText(fields) = s /\ v = [k \in 1 .. Len(fields) |-> FieldPart(fields, k)]
  /\ Places(B, Len(fields), v, s, p)

LEMMA FormPlaces ==
  ASSUME NEW S, NEW F, NEW fields \in Seq(F), \A f \in F : f.name \in Seq(S) /\ f.value \in Seq(S)
  PROVE  \E v, p : FormParts(Plain(S) \cup {"=", "&"}, fields, v, FormText(fields), p)
<1>0. PICK n \in Nat : n = Len(fields)
  OBVIOUS
<1>1. PICK B, C : n = Len(fields) /\ B = Plain(S) \cup {"=", "&"} /\ C = Plain(S) \cup {"="}
  BY <1>0
<1>2. ASSUME NEW k \in 1 .. n
      PROVE  /\ FieldPart(fields, k) \in Seq(B)
             /\ FieldPart(fields, k) = (((IF k = 1 THEN <<>> ELSE <<"&">>) \o FormValue(fields[k].name)) \o <<"=">>)
                                         \o FormValue(fields[k].value)
  <2>1. PICK f \in F : f = fields[k]
    BY <1>1
  <2>2. FieldText(f) \in Seq(C)
    BY <1>1, FieldReads
  <2>3. PICK d, c : d = (IF k = 1 THEN <<>> ELSE <<"&">>) /\ c = <<"=">>
    OBVIOUS
  <2>4. PICK a, b : a = FormValue(f.name) /\ b = FormValue(f.value)
    OBVIOUS
  <2>5. a \in Seq(Plain(S)) /\ b \in Seq(Plain(S))
    <3>1. Encodes(S, a, f.name) /\ Encodes(S, b, f.value)
      BY <2>4, FormEncodes
    <3> QED
      BY <3>1 DEF Encodes
  <2>6. a \in Seq(B) /\ b \in Seq(B)
    <3>1. Plain(S) \subseteq B
      BY <1>1
    <3> QED
      BY <2>5, <3>1
  <2>7. d \in Seq(B) /\ c \in Seq(B)
    <3>1. PICK x, y : x = "&" /\ y = "=" /\ x \in B /\ y \in B
      BY <1>1
    <3>2. <<x>> \in Seq(B) /\ <<y>> \in Seq(B)
      BY <3>1
    <3>3. <<>> \in Seq(B)
      OBVIOUS
    <3> QED
      BY <2>3, <3>1, <3>2, <3>3
  <2>8. FieldPart(fields, k) = Cat(d, Cat(Cat(a, c), b))
    BY <2>1, <2>3, <2>4 DEF FieldPart, FieldText, Cat
  <2>9. Cat(a, c) \in Seq(B) /\ Cat(d, a) \in Seq(B)
    BY <2>6, <2>7, CatPlaces DEF Cat
  <2>10. Cat(d, Cat(Cat(a, c), b)) = Cat(Cat(Cat(d, a), c), b)
    <3>1. Cat(Cat(d, Cat(a, c)), b) = Cat(d, Cat(Cat(a, c), b))
      BY <2>6, <2>7, <2>9, CatAssociative
    <3>2. Cat(Cat(d, a), c) = Cat(d, Cat(a, c))
      BY <2>6, <2>7, CatAssociative
    <3> QED
      BY <3>1, <3>2
  <2>11. Cat(Cat(d, a), c) \in Seq(B)
    BY <2>7, <2>9, CatPlaces DEF Cat
  <2>12. Cat(Cat(Cat(d, a), c), b) \in Seq(B)
    BY <2>6, <2>11, CatPlaces DEF Cat
  <2>13. FieldPart(fields, k) \in Seq(B)
    BY <2>8, <2>10, <2>12
  <2> QED
    BY <2>1, <2>3, <2>4, <2>8, <2>10, <2>13 DEF Cat
<1>3. PICK v : v = [k \in 1 .. n |-> FieldPart(fields, k)]
  OBVIOUS
<1>4. v \in [1 .. n -> Seq(B)]
  BY <1>2, <1>3
<1>5. PICK p : Places(B, n, v, FlattenSeq(v), p)
  BY <1>4, FlattenPlaces
<1>6. FormText(fields) = FlattenSeq(v)
  <2>1. DOMAIN fields = 1 .. n
    BY <1>1
  <2>2. v = [k \in 1 .. n |-> (((IF k = 1 THEN <<>> ELSE <<"&">>) \o FormValue(fields[k].name)) \o <<"=">>)
                                \o FormValue(fields[k].value)]
    BY <1>2, <1>3
  <2> QED
    BY <2>1, <2>2 DEF FormText
<1>7. FormParts(B, fields, v, FormText(fields), p)
  BY <1>1, <1>3, <1>5, <1>6 DEF FormParts
<1> QED
  BY <1>1, <1>7

\* Behind its ampersand stands the text of a field, up to the next one.
FieldStands(s, q, r, w) ==
  q \in Nat /\ r \in Nat /\ q + Len(w) = r /\ q < r /\ r <= Len(s) /\ PairBehind(s, q, w)

LEMMA FieldsStand ==
  ASSUME NEW S, NEW F, NEW fields \in Seq(F), \A f \in F : f.name \in Seq(S) /\ f.value \in Seq(S),
         NEW v, NEW s, NEW p, FormParts(Plain(S) \cup {"=", "&"}, fields, v, s, p),
         NEW k \in 1 .. Len(fields)
  PROVE  FieldStands(s, Begins(p, k), p[k], FieldText(fields[k]))
<1>0. PICK n \in Nat : n = Len(fields) /\ k \in 1 .. n
  OBVIOUS
<1>1. PICK B, w, q : B = Plain(S) \cup {"=", "&"} /\ w = FieldText(fields[k]) /\ q = Begins(p, k)
  OBVIOUS
<1>2. /\ s \in Seq(B) /\ p \in [0 .. n -> Nat] /\ p[0] = 0 /\ p[n] = Len(s)
      /\ \A i \in 1 .. n : /\ p[i] = p[i - 1] + Len(v[i]) /\ p[i] <= Len(s)
                           /\ \A j \in 1 .. Len(v[i]) : s[p[i - 1] + j] = v[i][j]
      /\ \A i \in 1 .. n : v[i] = FieldPart(fields, i)
  BY <1>0, <1>1 DEF FormParts, Places
<1>3. ASSUME NEW i \in 1 .. n
      PROVE  FieldText(fields[i]) \in Seq(B) /\ Len(FieldText(fields[i])) \in Nat \ {0}
  <2>1. PICK f \in F : f = fields[i]
    BY <1>0
  <2>2. FieldText(f) \in Seq(Plain(S) \cup {"="}) /\ Len(FieldText(f)) \in Nat \ {0}
    BY FieldReads
  <2>3. Plain(S) \cup {"="} \subseteq B
    BY <1>1
  <2> QED
    BY <2>1, <2>2, <2>3
<1>4. ASSUME NEW i \in 1 .. n, i # 1
      PROVE  /\ Len(v[i]) = Len(FieldText(fields[i])) + 1 /\ v[i][1] = "&"
             /\ \A j \in 1 .. Len(FieldText(fields[i])) : v[i][j + 1] = FieldText(fields[i])[j]
  <2>1. PICK c, z, t : c = "&" /\ z = <<c>> /\ t = FieldText(fields[i])
    OBVIOUS
  <2>2. z \in Seq(B) /\ t \in Seq(B) /\ Len(z) = 1 /\ z[1] = c
    BY <1>1, <1>3, <2>1
  <2>3. v[i] = z \o t
    BY <1>2, <1>4, <2>1 DEF FieldPart
  <2>4. /\ Len(z \o t) = Len(z) + Len(t)
        /\ \A j \in 1 .. Len(z) : (z \o t)[j] = z[j]
        /\ \A j \in 1 .. Len(t) : (z \o t)[Len(z) + j] = t[j]
    <3>1. z \in Seq(B) /\ t \in Seq(B)
      BY <2>2
    <3> QED
      BY <3>1, CatPlaces
  <2>5. 1 \in 1 .. Len(z) /\ Len(t) \in Nat /\ \A j \in 1 .. Len(t) : j + 1 = Len(z) + j
    BY <2>2
  <2>6. (z \o t)[1] = c
    BY <2>2, <2>4, <2>5
  <2>7. Len(v[i]) = Len(t) + 1
    BY <2>2, <2>3, <2>4, <2>5
  <2>8. \A j \in 1 .. Len(t) : v[i][j + 1] = t[j]
    BY <2>3, <2>4, <2>5
  <2> QED
    BY <2>1, <2>3, <2>6, <2>7, <2>8
<1>5. w \in Seq(B) /\ Len(w) \in Nat \ {0}
  BY <1>0, <1>1, <1>3
<1>6. p[k] \in Nat /\ p[k - 1] \in Nat /\ p[k] <= Len(s) /\ Len(s) \in Nat
  <2>1. k \in 0 .. n /\ k - 1 \in 0 .. n
    BY <1>0
  <2>2. Len(s) \in Nat
    BY <1>2
  <2> QED
    BY <1>0, <1>2, <2>1, <2>2
<1>7. q \in Nat /\ q + Len(w) = p[k] /\ \A j \in 1 .. Len(w) : s[q + j] = w[j]
  <2>1. CASE k = 1
    <3>1. q = 0 /\ p[k - 1] = 0
      BY <1>1, <1>2, <2>1 DEF Begins
    <3>2. v[k] = w
      <4>1. v[k] = <<>> \o w
        BY <1>0, <1>1, <1>2, <2>1 DEF FieldPart
      <4>2. <<>> \o w = w
        BY <1>5
      <4> QED
        BY <4>1, <4>2
    <3>3. p[k] = p[k - 1] + Len(v[k]) /\ \A j \in 1 .. Len(v[k]) : s[p[k - 1] + j] = v[k][j]
      BY <1>0, <1>2
    <3> QED
      BY <1>5, <3>1, <3>2, <3>3
  <2>2. CASE k # 1
    <3>1. q = p[k - 1] + 1
      BY <1>1, <2>2 DEF Begins
    <3>2. /\ Len(v[k]) = Len(w) + 1 /\ \A j \in 1 .. Len(w) : v[k][j + 1] = w[j]
      BY <1>0, <1>1, <1>4, <2>2
    <3>3. p[k] = p[k - 1] + Len(v[k]) /\ \A j \in 1 .. Len(v[k]) : s[p[k - 1] + j] = v[k][j]
      BY <1>0, <1>2
    <3>4. ASSUME NEW j \in 1 .. Len(w) PROVE s[q + j] = w[j]
      <4>1. j + 1 \in 1 .. Len(v[k]) /\ q + j = p[k - 1] + (j + 1)
        <5>1. PICK l \in Nat, b \in Nat : l = Len(w) /\ b = p[k - 1] /\ j \in 1 .. l /\ Len(v[k]) = l + 1 /\ q = b + 1
          BY <1>5, <1>6, <3>1, <3>2
        <5>2. PICK i \in 1 .. l : i = j
          BY <5>1
        <5>3. i + 1 \in 1 .. l + 1 /\ (b + 1) + i = b + (i + 1)
          OBVIOUS
        <5> QED
          BY <5>1, <5>2, <5>3
      <4> QED
        BY <3>2, <3>3, <4>1
    <3>5. PICK l \in Nat, b \in Nat : l = Len(w) /\ b = p[k - 1] /\ Len(v[k]) = l + 1 /\ q = b + 1 /\ p[k] = b + (l + 1)
      BY <1>5, <1>6, <3>1, <3>2, <3>3
    <3>6. (b + 1) + l = b + (l + 1) /\ b + 1 \in Nat
      OBVIOUS
    <3> QED
      BY <3>4, <3>5, <3>6
  <2> QED
    BY <2>1, <2>2
<1>8. CASE k = n
  <2>1. q + Len(w) = Len(s)
    BY <1>2, <1>7, <1>8
  <2>2. PairBehind(s, q, w)
    BY <1>6, <1>7, <2>1 DEF PairBehind, PartBehind
  <2> QED
    BY <1>1, <1>5, <1>6, <1>7, <2>2 DEF FieldStands
<1>9. CASE k # n
  <2>1. PICK i \in 1 .. n : i = k + 1 /\ i # 1
    BY <1>0, <1>9
  <2>2. Len(v[i]) = Len(FieldText(fields[i])) + 1 /\ v[i][1] = "&"
    BY <1>4, <2>1
  <2>3. Len(FieldText(fields[i])) \in Nat \ {0}
    BY <1>3
  <2>4. i - 1 = k /\ 1 \in 1 .. Len(v[i])
    BY <2>1, <2>2, <2>3
  <2>5. p[i] = p[k] + Len(v[i]) /\ p[i] <= Len(s) /\ s[p[k] + 1] = v[i][1]
    BY <1>2, <2>4
  <2>6. p[k] < Len(s) /\ s[p[k] + 1] = "&"
    BY <1>6, <2>2, <2>3, <2>5
  <2>7. PairBehind(s, q, w)
    BY <1>6, <1>7, <2>6 DEF PairBehind, PartBehind
  <2> QED
    BY <1>1, <1>5, <1>6, <1>7, <2>7 DEF FieldStands
<1> QED
  BY <1>8, <1>9

\* The parameters read from a form's text are its fields.
LEMMA FormReads ==
  ASSUME NEW S, NEW F, NEW fields \in Seq(F), \A f \in F : f.name \in Seq(S) /\ f.value \in Seq(S), NEW post
  PROVE  Params(FormText(fields), post) = Sent(fields, post)
<1>0. PICK n \in Nat : n = Len(fields)
  OBVIOUS
<1>1. PICK B, s : B = Plain(S) \cup {"=", "&"} /\ s = FormText(fields)
  OBVIOUS
<1>2. PICK v, p : FormParts(B, fields, v, s, p)
  BY <1>1, FormPlaces
<1>3. s \in Seq(B) /\ p[0] = 0 /\ p[n] = Len(s)
  BY <1>0, <1>2 DEF FormParts, Places
<1>4. PICK g : Reads(s, post, g) /\ Params(s, post) = g[1]
  BY <1>3, ReaderWorks
<1>5. PICK x : x = Sent(fields, post)
  OBVIOUS
<1>6. PICK R : x \in Seq(R) /\ Len(x) = n /\ \A i \in 1 .. n : x[i] = [name |-> fields[i].name, value |-> fields[i].value, post |-> post]
  <2>1. DOMAIN fields = 1 .. n
    BY <1>0
  <2>2. x = [i \in 1 .. n |-> [name |-> fields[i].name, value |-> fields[i].value, post |-> post]]
    BY <1>5, <2>1 DEF Sent
  <2>3. PICK R : R = {x[i] : i \in 1 .. n}
    OBVIOUS
  <2>4. \A i \in 1 .. n : x[i] \in R
    BY <2>3
  <2>5. x \in Seq(R) /\ Len(x) = n
    BY <2>2, <2>4
  <2> QED
    BY <2>2, <2>5
<1>7. ASSUME NEW k \in 1 .. n
      PROVE  g[Begins(p, k) + 1] = <<x[k]>> \o g[p[k] + 2]
  <2>0. PICK f \in F : f = fields[k]
    BY <1>0
  <2>1. PICK w, q : f = fields[k] /\ w = FieldText(fields[k]) /\ q = Begins(p, k)
    BY <2>0
  <2>2. q \in Nat /\ p[k] \in Nat /\ q + Len(w) = p[k] /\ p[k] <= Len(s) /\ q < p[k] /\ PairBehind(s, q, w)
    <3>1. FormParts(Plain(S) \cup {"=", "&"}, fields, v, s, p) /\ k \in 1 .. Len(fields)
      BY <1>0, <1>1, <1>2
    <3>2. FieldStands(s, Begins(p, k), p[k], FieldText(fields[k]))
      BY <3>1, FieldsStand
    <3> QED
      BY <2>1, <3>2 DEF FieldStands
  <2>3. w \in Seq(Plain(S) \cup {"="}) /\ PairParam(w, post) = x[k]
    <3>1. f.name \in Seq(S) /\ f.value \in Seq(S)
      OBVIOUS
    <3>2. /\ FieldText(f) \in Seq(Plain(S) \cup {"="})
          /\ PairParam(FieldText(f), post) = [name |-> f.name, value |-> f.value, post |-> post]
      BY <3>1, FieldReads
    <3> QED
      BY <1>6, <2>1, <3>2
  <2>4. PairAt(s, q + 1) = w
    <3>1. PICK A : A = Plain(S) \cup {"="}
      OBVIOUS
    <3>2. "&" \notin A
      BY <3>1, PlainSeparates DEF Separators
    <3> QED
      BY <1>3, <2>2, <2>3, <3>1, <3>2, PairFound
  <2>5. q + 1 \in 1 .. Len(s) + 2 /\ ~ (q + 1 > Len(s)) /\ (q + 1) + Len(w) + 1 = p[k] + 2
    BY <1>3, <2>2, <2>3
  <2>6. g[q + 1] = <<PairParam(PairAt(s, q + 1), post)>> \o g[(q + 1) + Len(PairAt(s, q + 1)) + 1]
    BY <1>4, <2>5 DEF Reads
  <2> QED
    BY <2>1, <2>3, <2>4, <2>5, <2>6
<1>8. CASE n = 0
  <2>1. Len(s) = 0
    BY <1>3, <1>8
  <2>2. 1 \in 1 .. Len(s) + 2 /\ 1 > Len(s)
    BY <2>1
  <2>3. g[1] = <<>>
    BY <1>4, <2>2 DEF Reads
  <2>4. x = <<>>
    BY <1>6, <1>8
  <2> QED
    BY <1>1, <1>4, <1>5, <2>3, <2>4
<1>9. CASE n # 0
  <2> DEFINE T == {j \in 0 .. n - 1 : g[Begins(p, n - j) + 1] = SubSeq(x, n - j, n)}
  <2>1. 0 \in T
    <3>1. g[p[n] + 2] = <<>>
      <4>1. Len(s) + 2 \in 1 .. Len(s) + 2 /\ Len(s) + 2 > Len(s)
        BY <1>3
      <4> QED
        BY <1>3, <1>4, <4>1 DEF Reads
    <3>2. n \in 1 .. n
      BY <1>9
    <3>3. g[Begins(p, n) + 1] = <<x[n]>> \o <<>>
      BY <1>7, <3>1, <3>2
    <3>4. SubSeq(x, n, n) = <<x[n]>> \o SubSeq(x, n + 1, n) /\ SubSeq(x, n + 1, n) = <<>>
      BY <1>6, <3>2, SubSeqFromTheEnd
    <3>5. n - 0 = n /\ 0 \in 0 .. n - 1
      BY <1>9
    <3> QED
      BY <3>3, <3>4, <3>5
  <2>2. ASSUME NEW j \in 0 .. n - 2, j \in T PROVE j + 1 \in T
    <3>1. PICK k \in 1 .. n : k = n - (j + 1) /\ k + 1 = n - j /\ k + 1 # 1 /\ (k + 1) - 1 = k
      BY <1>9
    <3>2. Begins(p, k + 1) = p[k] + 1
      BY <3>1 DEF Begins
    <3>3. p[k] \in Nat
      <4>1. PICK C : Places(C, n, v, s, p)
        BY <1>0, <1>2 DEF FormParts
      <4>2. p \in [0 .. n -> Nat] /\ k \in 0 .. n
        BY <3>1, <4>1 DEF Places
      <4> QED
        BY <4>2
    <3>4. (p[k] + 1) + 1 = p[k] + 2
      BY <3>3
    <3>5. g[p[k] + 2] = SubSeq(x, k + 1, n)
      BY <2>2, <3>1, <3>2, <3>4
    <3>6. g[Begins(p, k) + 1] = <<x[k]>> \o SubSeq(x, k + 1, n)
      BY <1>7, <3>5
    <3>7. g[Begins(p, k) + 1] = SubSeq(x, k, n)
      BY <1>6, <3>6, SubSeqFromTheEnd
    <3>8. j + 1 \in 0 .. n - 1
      BY <1>9
    <3> QED
      BY <3>1, <3>7, <3>8
  <2>3. n - 1 \in T
    <3>1. PICK m \in Nat : m = n - 1
      BY <1>9
    <3>2. \A j \in 0 .. m - 1 : j \in T => j + 1 \in T
      <4> HIDE DEF T
      <4> QED
        BY <2>2, <3>1
    <3>3. \A j \in 0 .. m : j \in T
      <4> HIDE DEF T
      <4> QED
        BY <2>1, <3>1, <3>2, InductionUpto
    <3>4. m \in 0 .. m
      BY <3>1
    <3> HIDE DEF T
    <3> QED
      BY <3>1, <3>3, <3>4
  <2>4. n - (n - 1) = 1 /\ Begins(p, 1) = 0 /\ 0 + 1 = 1
    BY DEF Begins
  <2>5. g[1] = SubSeq(x, 1, n)
    BY <2>3, <2>4
  <2>6. SubSeq(x, 1, n) = x
    BY <1>6
  <2> QED
    BY <1>1, <1>4, <1>5, <2>5, <2>6
<1> QED
  BY <1>8, <1>9

-----------------------------------------------------------------------------
(* What a callback reads.                                                  *)

\* The request, as the browser makes it
UriOf(p, query) ==
  PathText(site.page[p].path) \o IF query = <<>> THEN <<>> ELSE <<"?">> \o FormText(query)
Asks(query, body) ==
  /\ req.uri = UriOf(page, query) /\ req.body = FormText(body)
  /\ req.query = query /\ req.form = body /\ req.cookies = jar
AskedInv ==
  stage # "none" /\ req.method # "OPTIONS" => \E query \in site.queries, body \in site.bodies : Asks(query, body)

\* What a callback has found and done
Reading == got.params = Found /\ got.cookies = [n \in CookieNames |-> GetCookie(urlEncode(n))]
CookieText(c) == urlEncode(c.name) \o <<"=">> \o urlEncode(c.value) \o <<";", "age">>
Sending(c) ==
  /\ Says(res, "Set-Cookie", {CookieText(c)})
  /\ RoomFor(Len(CorsFields) + 1) => Early(res, "Set-Cookie", CookieText(c), MaxHeaders)
CallInv ==
  /\ stage # "answered" => got = NothingGot
  /\ stage = "open" => Static(page)
  /\ stage = "answered" => /\ got = NothingGot \/ Reading
                           /\ ~ Static(page) /\ res.code # 401 /\ req.method # "OPTIONS" => Reading
                           /\ got.set = <<>> => Says(res, "Set-Cookie", {})
                           /\ got.set # <<>> => \E c \in site.cookies : got.set = <<c>> /\ Sending(c)

\* The browser's cookies are those that have arrived.
JarInv ==
  /\ told = [n \in CookieNames |-> told[n]]
  /\ \A n \in CookieNames : told[n] \in Text
  /\ RoomFor(Len(CorsFields) + 1) =>
       \A n \in CookieNames :
         /\ \A c \in jar : c.name = urlEncode(n) => c.value = urlEncode(told[n])
         /\ told[n] # <<>> => \E c \in jar : c.name = urlEncode(n)

ReadInv == AccessInv /\ AskedInv /\ CallInv /\ JarInv

LEMMA SiteTexts ==
  ASSUME site \in Sites
  PROVE  \E S : /\ Text = Seq(S)
                /\ \A c \in site.cookies : c.name \in Seq(S) /\ c.value \in Seq(S)
                /\ \A p \in Pages : site.page[p].path \in Seq(S)
                /\ \A query \in site.queries : query \in Seq([name : Seq(S), value : Seq(S)])
                /\ \A body \in site.bodies : body \in Seq([name : Seq(S), value : Seq(S)])
                /\ site.extra \in Seq([name : Seq(S), value : Seq(S)])
<1>1. PICK S : Text = Seq(S)
  BY DEF Text
<1>2. /\ \A c \in site.cookies : c.name \in Text /\ c.value \in Text
      /\ \A p \in Pages : site.page[p].path \in Text
  BY SitesAssumption
<1>3. site.queries \cup site.bodies \cup {site.extra} \subseteq Seq([name : Text, value : Text])
  BY SitesAssumption
<1> QED
  BY <1>1, <1>2, <1>3

\* An encoded text tells what it encodes.
LEMMA UrlEncodeTells ==
  ASSUME NEW S, NEW x \in Seq(S), NEW y \in Seq(S), urlEncode(x) = urlEncode(y)
  PROVE  x = y
<1>1. Encodes(S, urlEncode(x), x) /\ Encodes(S, urlEncode(y), y)
  BY UrlEncodes
<1> QED
  BY <1>1 DEF Encodes

LEMMA NothingEncoded == urlEncode(<<>>) = <<>> /\ urlDecode(<<>>) = <<>>
<1>1. PICK x, S : x = <<>> /\ x \in Seq(S)
  <2>1. <<>> \in Seq({})
    OBVIOUS
  <2> QED
    BY <2>1
<1>2. urlEncode(x) = <<>>
  <2>1. [i \in DOMAIN x |-> IF x[i] \in Coded THEN Escaped(x[i]) ELSE <<x[i]>>] = <<>>
    BY <1>1
  <2>2. FlattenSeq(<<>>) = <<>>
    BY DEF FlattenSeq
  <2> QED
    BY <2>1, <2>2 DEF urlEncode
<1>3. Encodes(S, urlEncode(x), x)
  BY <1>1, UrlEncodes
<1> QED
  BY <1>1, <1>2, <1>3 DEF Encodes

\* The browser takes a cookie's text apart as setCookie has put it together.
LEMMA CookieTaken ==
  ASSUME NEW S, NEW c, c.name \in Seq(S), c.value \in Seq(S), NEW cookies
  PROVE  /\ CookieText(c) # <<>>
         /\ InJar(cookies, CookieText(c)) =
              {d \in cookies : d.name # urlEncode(c.name)}
                \cup {[name |-> urlEncode(c.name), value |-> urlEncode(c.value)]}
<1>1. PICK a, b : a = urlEncode(c.name) /\ b = urlEncode(c.value)
  OBVIOUS
<1>2. a \in Seq(Plain(S)) /\ b \in Seq(Plain(S))
  <2>1. Encodes(S, a, c.name) /\ Encodes(S, b, c.value)
    BY <1>1, UrlEncodes
  <2> QED
    BY <2>1 DEF Encodes
<1>3. PICK eq, semi, age : eq = "=" /\ semi = ";" /\ age = "age"
  OBVIOUS
<1>4. PICK P, B, C : P = Plain(S) /\ B = P \cup {eq} /\ C = B \cup {semi, age}
  OBVIOUS
<1>5. eq \notin P /\ semi \notin B
  <2>1. eq \notin P /\ semi \notin P /\ semi # eq
    BY <1>3, <1>4, PlainSeparates DEF Separators
  <2> QED
    BY <1>4, <2>1
<1>6. P \subseteq B /\ B \subseteq C /\ eq \in B /\ semi \in C /\ age \in C
  BY <1>4
<1>7. PICK u : u = Cat(Cat(a, <<eq>>), b)
  OBVIOUS
<1>8. a \in Seq(B) /\ b \in Seq(B) /\ <<eq>> \in Seq(B) /\ <<semi>> \in Seq(C) /\ <<age>> \in Seq(C)
  BY <1>2, <1>4, <1>6
<1>9. u \in Seq(B)
  <2>1. Cat(a, <<eq>>) \in Seq(B)
    BY <1>8, CatPlaces DEF Cat
  <2> QED
    BY <1>7, <1>8, <2>1, CatPlaces DEF Cat
<1>10. CookieText(c) = Cat(Cat(u, <<semi>>), <<age>>)
  <2>1. u \in Seq(C)
    BY <1>6, <1>9
  <2>2. Cat(Cat(u, <<semi>>), <<age>>) = Cat(u, Cat(<<semi>>, <<age>>))
    <3>1. PICK y, z : y = <<semi>> /\ z = <<age>>
      OBVIOUS
    <3>2. y \in Seq(C) /\ z \in Seq(C)
      BY <1>8, <3>1
    <3>3. Cat(Cat(u, y), z) = Cat(u, Cat(y, z))
      BY <2>1, <3>2, CatAssociative
    <3> QED
      BY <3>1, <3>3
  <2>3. Cat(<<semi>>, <<age>>) = <<semi, age>>
    <3>1. <<semi>> \o <<age>> = Append(<<semi>>, age)
      BY <1>6, <1>8, ConcatOne
    <3> QED
      BY <3>1, AppendToOne DEF Cat
  <2>4. CookieText(c) = Cat(u, <<semi, age>>)
    BY <1>1, <1>3, <1>7 DEF CookieText, Cat
  <2> QED
    BY <2>2, <2>3, <2>4
<1>11. Joined(CookieText(c), u, semi, <<age>>)
  BY <1>10 DEF Joined, Cat
<1>12. Before(CookieText(c), semi) = u
  <2>1. PICK t : t = <<age>>
    OBVIOUS
  <2>2. t \in Seq(C) /\ Joined(CookieText(c), u, semi, t)
    BY <1>8, <1>11, <2>1
  <2> QED
    BY <1>5, <1>6, <1>9, <2>2, CutWhereJoined
<1>13. Joined(u, a, eq, b)
  BY <1>7 DEF Joined, Cat
<1>14. a \in Seq(P)
  BY <1>2, <1>4
<1>15. Before(u, eq) = a /\ After(u, eq) = b
  BY <1>5, <1>6, <1>8, <1>13, <1>14, CutWhereJoined
<1>16. CookieText(c) # <<>>
  <2>1. PICK v : v = Cat(u, <<semi>>)
    OBVIOUS
  <2>2. v \in Seq(C)
    <3>1. u \in Seq(C)
      BY <1>6, <1>9
    <3> QED
      BY <1>8, <2>1, <3>1, CatPlaces DEF Cat
  <2>3. CookieText(c) = Append(v, age)
    BY <1>6, <1>10, <2>1, <2>2, ConcatOne DEF Cat
  <2> QED
    BY <2>2, <2>3
<1> QED
  BY <1>1, <1>3, <1>12, <1>15, <1>16 DEF InJar

\* The fields that only a callback or the static file handler sets: none of the server's own
\* headers has one.
HandlerFields == {"Set-Cookie", "Content-Encoding", "Last-Modified", "ETag"}

LEMMA OwnFields ==
  ASSUME site \in Sites, NEW r, r = WithCors(New), NEW f \in HandlerFields
  PROVE  /\ Says(New, f, {}) /\ IsResponse(New)
         /\ Says(r, f, {}) /\ IsResponse(r) /\ r.code = 200
<1>1. PICK d, S : d = site.defaults /\ S = STRING
  OBVIOUS
<1>2. d \in Seq(S) /\ f \notin Range(d)
  <2>1. site.defaults \in Seq(STRING)
    BY SitesAssumption
  <2>2. Range(site.defaults) \cap HandlerFields = {}
    BY SitesAssumption DEF HandlerFields
  <2> QED
    BY <1>1, <2>1, <2>2
<1>3. PICK n \in Nat : n = Len(d)
  BY <1>2
<1>4. IsResponse(New) /\ New.code = 200
  BY NewIsResponse
<1>5. PICK hs, none : hs = Headers(d) /\ none = [code |-> 200, headers |-> <<>>, body |-> NoBody]
  OBVIOUS
<1>6. /\ hs \in Seq([field : S, value : {"set"}]) /\ Len(hs) = n
      /\ \A i \in 1 .. n : hs[i] = Header(d[i], "set")
  BY <1>2, <1>3, <1>5, DefaultHeaders
<1>7. \A i \in 1 .. n : hs[i].field # f
  <2> SUFFICES ASSUME NEW i \in 1 .. n PROVE hs[i].field # f
    OBVIOUS
  <2>1. hs[i].field = d[i]
    BY <1>6 DEF Header
  <2>2. d[i] \in Range(d)
    BY <1>2, <1>3 DEF Range
  <2> QED
    BY <1>2, <2>1, <2>2
<1>8. IsResponse(none) /\ Says(none, f, {})
  <2>1. PICK e, c, b : e = <<>> /\ c = 200 /\ b = NoBody
    OBVIOUS
  <2>2. none = [code |-> c, headers |-> e, body |-> b] /\ e \in Seq({})
    BY <1>5, <2>1
  <2>3. none.headers = e /\ Len(e) = 0
    BY <2>1, <2>2
  <2>4. Says(none, f, {})
    BY <2>3 DEF Says
  <2> QED
    BY <2>2, <2>4 DEF IsResponse
<1>9. New = AddHeaders(none, hs)
  BY <1>1, <1>5 DEF New, NewResponse
<1>10. Says(New, f, {})
  <2>1. PICK V : V = {}
    OBVIOUS
  <2>2. Says(none, f, V) /\ \A i \in 1 .. Len(hs) : hs[i].field = f => hs[i].value \in V
    BY <1>6, <1>7, <1>8, <2>1
  <2>3. Says(New, f, V)
    BY <1>6, <1>8, <1>9, <2>2, AddHeadersSay
  <2> QED
    BY <2>1, <2>3
<1>11. f \notin Range(CorsFields)
  BY CorsFieldSet DEF HandlerFields
<1>12. CASE r = AddHeaders(New, Headers(CorsFields))
  <2>1. IsResponse(r) /\ r.code = New.code
    BY <1>4, <1>12, CorsProperties
  <2>2. Says(r, f, {})
    BY <1>4, <1>10, <1>11, <1>12, CorsProperties
  <2> QED
    BY <1>4, <1>10, <2>1, <2>2
<1> QED
  BY <1>4, <1>10, <1>12 DEF WithCors

\* They set no cookie, and leave room for one.
LEMMA NoCookieOfOwn ==
  ASSUME site \in Sites, NEW r, r = WithCors(New)
  PROVE  /\ Says(New, "Set-Cookie", {}) /\ IsResponse(New)
         /\ Says(r, "Set-Cookie", {}) /\ IsResponse(r) /\ r.code = 200
         /\ RoomFor(Len(CorsFields) + 1) => Len(r.headers) < MaxHeaders
<1>1. PICK d : d = site.defaults
  OBVIOUS
<1>2. PICK n \in Nat : n = Len(d)
  <2>1. d \in Seq(STRING)
    BY <1>1, SitesAssumption
  <2> QED
    BY <2>1
<1>3. IsResponse(New) /\ Len(New.headers) \in 0 .. n
  BY <1>1, <1>2, NewIsResponse
<1>4. PICK l : l = Len(r.headers)
  OBVIOUS
<1>5. l \in 0 .. n + 5
  <2>1. r = New \/ r = AddHeaders(New, Headers(CorsFields))
    BY DEF WithCors
  <2>2. PICK k \in 0 .. n : k = Len(New.headers)
    BY <1>3
  <2>3. l = k \/ l \in 0 .. k + 5
    BY <1>3, <1>4, <2>1, <2>2, CorsProperties
  <2> QED
    BY <2>2, <2>3
<1>6. RoomFor(Len(CorsFields) + 1) => n + (5 + 1) <= MaxHeaders
  BY <1>1, <1>2, CorsFieldSet DEF RoomFor
<1>7. RoomFor(Len(CorsFields) + 1) => l < MaxHeaders
  BY <1>5, <1>6, BoundsAssumption
<1>8. "Set-Cookie" \in HandlerFields
  BY DEF HandlerFields
<1> QED
  BY <1>4, <1>7, <1>8, OwnFields

\* What no step but that of a callback or the browser changes
LEMMA FramesRead ==
  ASSUME UNCHANGED site
  PROVE  /\ AskedInv /\ UNCHANGED <<page, req, jar>> /\ (stage = "none" => stage' = "none") => AskedInv'
         /\ JarInv /\ UNCHANGED <<jar, told>> => JarInv'
         /\ CallInv /\ UNCHANGED <<page, req, stage, res, got>> => CallInv'
         /\ stage' # "answered" /\ stage' # "open" /\ got' = NothingGot => CallInv'
<1>1. AskedInv /\ UNCHANGED <<page, req, jar>> /\ (stage = "none" => stage' = "none") => AskedInv'
  BY DEF AskedInv, Asks, UriOf
<1>2. JarInv /\ UNCHANGED <<jar, told>> => JarInv'
  <2> SUFFICES ASSUME JarInv, UNCHANGED <<jar, told>> PROVE JarInv'
    OBVIOUS
  <2>1. CookieNames' = CookieNames
    BY DEF CookieNames
  <2>2. RoomFor(Len(CorsFields) + 1)' <=> RoomFor(Len(CorsFields) + 1)
    BY DEF RoomFor, CorsFields
  <2>3. jar' = jar /\ told' = told
    OBVIOUS
  <2> QED
    BY <2>1, <2>2, <2>3 DEF JarInv
<1>3. CallInv /\ UNCHANGED <<page, req, stage, res, got>> => CallInv'
  <2> SUFFICES ASSUME CallInv, UNCHANGED <<page, req, stage, res, got>> PROVE CallInv'
    OBVIOUS
  <2>1. CookieNames' = CookieNames
    BY DEF CookieNames
  <2>2. Found' = Found
    <3>1. site'.rewrites = site.rewrites /\ req' = req
      OBVIOUS
    <3>2. Rewritten(req.uri)' = Rewritten(req.uri)
      BY <3>1, Zenon DEF Rewritten, SelectInSeq
    <3> QED
      BY <3>1, <3>2 DEF Found
  <2>3. \A n : GetCookie(n)' = GetCookie(n)
    BY DEF GetCookie
  <2>4. Reading' <=> Reading
    BY <2>1, <2>2, <2>3 DEF Reading
  <2>5. RoomFor(Len(CorsFields) + 1)' <=> RoomFor(Len(CorsFields) + 1)
    BY DEF RoomFor, CorsFields
  <2>6. \A c : Sending(c)' <=> Sending(c)
    BY <2>5 DEF Sending
  <2>7. Static(page)' <=> Static(page)
    BY DEF Static
  <2>8. site' = site /\ stage' = stage /\ got' = got /\ res' = res /\ req' = req
    OBVIOUS
  <2> QED
    BY <2>4, <2>6, <2>7, <2>8 DEF CallInv
<1>4. stage' # "answered" /\ stage' # "open" /\ got' = NothingGot => CallInv'
  BY DEF CallInv
<1> QED
  BY <1>1, <1>2, <1>3, <1>4

\* An answer that is not a callback's
LEMMA AnsweredWithout ==
  ASSUME CallInv, stage # "answered", NEW r, Answer(r), Says(r, "Set-Cookie", {}),
         Static(page) \/ r.code = 401 \/ req.method = "OPTIONS",
         UNCHANGED <<site, page, req, got>>
  PROVE  CallInv'
<1>1. got' = NothingGot /\ stage' = "answered" /\ res' = r
  BY DEF CallInv, Answer
<1>2. got'.set = <<>>
  BY <1>1 DEF NothingGot
<1>3. ~ (~ Static(page) /\ res.code # 401 /\ req.method # "OPTIONS")'
  BY <1>1 DEF Static
<1>4. Says(res, "Set-Cookie", {})'
  BY <1>1 DEF Says
<1> QED
  BY <1>1, <1>2, <1>3, <1>4 DEF CallInv

LEMMA AskRead ==
  ASSUME ReadInv, NEW p \in Pages, AskAny(p)
  PROVE  AskedInv' /\ CallInv' /\ JarInv'
<1>1. UNCHANGED site /\ UNCHANGED <<jar, told>> /\ stage = "none" /\ stage' = "asked" /\ page' = p /\ got' = got
  BY DEF AskAny, Ask, AskFirst, application, browser
<1>2. got' = NothingGot
  BY <1>1 DEF ReadInv, CallInv
<1>3. CallInv' /\ JarInv'
  BY <1>1, <1>2, FramesRead DEF ReadInv
<1>4. CASE AskFirst(p)
  <2>1. req'.method = "OPTIONS"
    BY <1>4 DEF AskFirst
  <2> QED
    BY <1>3, <2>1 DEF AskedInv
<1>5. ASSUME NEW query \in site.queries, NEW body \in site.bodies, Ask(p, query, body) PROVE AskedInv'
  <2>1. PICK t, x, a : t = FormText(body) /\ x = UriOf(p, query) /\ a = Credentials(p, x)
    OBVIOUS
  <2>2. PICK m, o, e, l : m = site.page[p].method /\ o = site.cross /\ e = store[p].etag /\ l = store[p].stamp
    OBVIOUS
  <2>3. req' = [method |-> m, uri |-> x, body |-> t, origin |-> o, auth |-> a, ifNoneMatch |-> e,
                ifModifiedSince |-> l, cookies |-> jar, query |-> query, form |-> body]
    BY <1>5, <2>1, <2>2 DEF Ask, UriOf
  <2>4. req'.uri = x /\ req'.body = t /\ req'.query = query /\ req'.form = body /\ req'.cookies = jar
    BY <2>3
  <2>5. UriOf(page, query)' = UriOf(p, query) /\ FormText(body)' = FormText(body)
    BY <1>1 DEF UriOf
  <2>6. Asks(query, body)'
    BY <1>1, <2>1, <2>4, <2>5 DEF Asks
  <2>7. query \in site'.queries /\ body \in site'.bodies
    BY <1>1
  <2> QED
    BY <2>6, <2>7 DEF AskedInv
<1> QED
  BY <1>3, <1>4, <1>5 DEF AskAny

\* What the server says of a cookie when no callback has answered
LEMMA OwnAnswersRead ==
  ASSUME ReadInv, AnswerPreflight \/ Challenge \/ OpenFile \/ SendFile
  PROVE  AskedInv' /\ CallInv' /\ JarInv'
<1>1. UNCHANGED site /\ UNCHANGED <<page, req, jar, told, got>> /\ stage # "none" /\ stage # "answered"
  BY DEF AnswerPreflight, Challenge, OpenFile, SendFile, application, browser
<1>2. AskedInv' /\ JarInv'
  BY <1>1, FramesRead DEF ReadInv
<1>3. site \in Sites /\ CallInv
  BY DEF ReadInv, AccessInv, ServerInv
<1>4. PICK n, cookie : n = WithCors(New) /\ cookie = "Set-Cookie"
  OBVIOUS
<1>5. Says(New, cookie, {}) /\ IsResponse(New) /\ Says(n, cookie, {}) /\ IsResponse(n) /\ n.code = 200
  BY <1>3, <1>4, NoCookieOfOwn
<1>6. ASSUME NEW r, Answer(r), Says(r, cookie, {}), Static(page) \/ r.code = 401 \/ req.method = "OPTIONS"
      PROVE  CallInv'
  BY <1>1, <1>3, <1>4, <1>6, AnsweredWithout
<1>7. CASE AnswerPreflight
  <2>1. Answer(n) /\ StoppedBy = "cors"
    BY <1>4, <1>7 DEF AnswerPreflight
  <2>2. req.method = "OPTIONS"
    BY <1>3, <2>1, Stops DEF Preflight
  <2> QED
    BY <1>2, <1>5, <1>6, <2>1, <2>2
<1>8. CASE Challenge
  <2>1. PICK f, c, q, r : /\ f = "WWW-Authenticate" /\ q = SetCode(New, 401) /\ r = AddHeader(q, f, c) /\ Answer(r)
    BY <1>8 DEF Challenge
  <2>2. IsResponse(q) /\ q.code = 401 /\ Follows(New, q, {})
    BY <1>5, <2>1, SetCodeSets, SameHeadersFollow
  <2>3. Sets(q, f, c, r)
    BY <2>1, <2>2, AddHeaderSays
  <2>4. cookie \notin {f} /\ cookie \notin {}
    BY <1>4, <2>1
  <2>5. Says(q, cookie, {})
    BY <1>5, <2>2, <2>4 DEF Follows
  <2>6. Says(r, cookie, {}) /\ r.code = 401
    BY <2>2, <2>3, <2>4, <2>5 DEF Sets, Follows
  <2> QED
    BY <1>2, <1>6, <2>1, <2>6
<1>9. CASE OpenFile
  <2>1. Static(page)
    BY <1>9 DEF OpenFile
  <2>2. CASE stage' = "open" /\ UNCHANGED res
    <3>1. Static(page)' <=> Static(page)
      BY <1>1 DEF Static
    <3>2. got' = NothingGot
      BY <1>1, <1>3 DEF CallInv
    <3> QED
      BY <1>2, <2>1, <2>2, <3>1, <3>2 DEF CallInv
  <2>3. CASE NotFound
    <3>1. PICK r : r = SetCode(New, 404) /\ Answer(r)
      BY <2>3 DEF NotFound
    <3>2. Follows(New, r, {})
      BY <1>5, <3>1, SetCodeSets, SameHeadersFollow
    <3>3. Says(r, cookie, {})
      <4>1. cookie \notin {}
        OBVIOUS
      <4> QED
        BY <1>5, <3>2, <4>1 DEF Follows
    <3> QED
      BY <1>2, <1>6, <2>1, <3>1, <3>3
  <2> QED
    BY <1>9, <2>2, <2>3 DEF OpenFile
<1>10. CASE SendFile
  <2>1. PICK r : r = HandleStatic(handler, req, n, fs, site.dirs, stamp)
    OBVIOUS
  <2>2. stage = "open" /\ Answer(r)
    BY <1>4, <1>10, <2>1 DEF SendFile
  <2>3. Static(page)
    BY <1>3, <2>2 DEF CallInv
  <2>4. Follows(n, r, StaticFields)
    BY <1>5, <2>1, StaticAnswer
  <2>5. cookie \notin StaticFields
    BY <1>4 DEF StaticFields
  <2>6. Says(r, cookie, {})
    BY <1>5, <2>4, <2>5 DEF Follows
  <2> QED
    BY <1>2, <1>6, <2>2, <2>3, <2>6
<1> QED
  BY <1>2, <1>7, <1>8, <1>9, <1>10

\* A cookie that a callback sets: r gives its text, and early enough if there is room.
Gives(r, text) ==
  /\ IsResponse(r) /\ Says(r, "Set-Cookie", {text})
  /\ RoomFor(Len(CorsFields) + 1) => Early(r, "Set-Cookie", text, MaxHeaders)

LEMMA CookieGiven ==
  ASSUME site \in Sites, NEW c, NEW n, n = WithCors(New), NEW q, q = SetCookie(n, c.name, c.value)
  PROVE  Gives(q, CookieText(c))
<1>1. PICK text, cookie : text = CookieText(c) /\ cookie = "Set-Cookie"
  OBVIOUS
<1>2. q = AddHeader(n, cookie, text)
  BY <1>1 DEF SetCookie, CookieText
<1>3. IsResponse(n) /\ (RoomFor(Len(CorsFields) + 1) => Len(n.headers) < MaxHeaders)
  BY NoCookieOfOwn
<1>4. Sets(n, cookie, text, q)
  BY <1>2, <1>3, AddHeaderSays
<1>5. IsResponse(q) /\ Says(q, cookie, {text})
  BY <1>4 DEF Sets, Follows
<1>6. RoomFor(Len(CorsFields) + 1) => Early(q, cookie, text, MaxHeaders)
  BY <1>3, <1>4, BoundsAssumption DEF Sets
<1> QED
  BY <1>1, <1>5, <1>6 DEF Gives

LEMMA RedirectGives ==
  ASSUME NEW r, NEW text, Gives(r, text), NEW q, q = Redirect(r, "elsewhere")
  PROVE  Gives(q, text)
<1>1. Follows(r, q, {"Location"})
  BY RedirectFollows DEF Gives
<1>2. PICK cookie, V : cookie = "Set-Cookie" /\ V = {text}
  OBVIOUS
<1>3. cookie \notin {"Location"} /\ MaxHeaders \in Nat
  BY <1>2, BoundsAssumption
<1>4. IsResponse(q) /\ Says(q, cookie, V)
  BY <1>1, <1>2, <1>3 DEF Gives, Follows
<1>5. RoomFor(Len(CorsFields) + 1) => Early(q, cookie, text, MaxHeaders)
  BY <1>1, <1>2, <1>3 DEF Gives, Follows
<1> QED
  BY <1>2, <1>4, <1>5 DEF Gives

LEMMA CallBackRead ==
  ASSUME ReadInv, CallBack
  PROVE  AskedInv' /\ CallInv' /\ JarInv'
<1>1. UNCHANGED site /\ UNCHANGED <<page, req, jar, told>> /\ stage # "none"
  BY DEF CallBack, application, browser
<1>2. AskedInv' /\ JarInv'
  BY <1>1, FramesRead DEF ReadInv
<1>3. site \in Sites
  BY DEF ReadInv, AccessInv, ServerInv
<1>4. PICK n : n = WithCors(New)
  OBVIOUS
<1>5. PICK set, answer :
        /\ \/ set = <<>> /\ answer = n
           \/ \E c \in site.cookies : set = <<c>> /\ answer = SetCookie(n, c.name, c.value)
        /\ got' = [params |-> Found, cookies |-> [x \in CookieNames |-> GetCookie(urlEncode(x))], set |-> set]
        /\ Answer(answer) \/ Answer(Redirect(answer, "elsewhere"))
  <2>1. PICK set \in {<<>>} \cup {<<c>> : c \in site.cookies} :
          /\ got' = [params |-> Found, cookies |-> [x \in CookieNames |-> GetCookie(urlEncode(x))], set |-> set]
          /\ \/ Answer(IF set = <<>> THEN n ELSE SetCookie(n, set[1].name, set[1].value))
             \/ Answer(Redirect(IF set = <<>> THEN n ELSE SetCookie(n, set[1].name, set[1].value), "elsewhere"))
    BY <1>4 DEF CallBack
  <2>2. PICK answer : answer = IF set = <<>> THEN n ELSE SetCookie(n, set[1].name, set[1].value)
    OBVIOUS
  <2>3. CASE set = <<>>
    BY <2>1, <2>2, <2>3
  <2>4. ASSUME NEW c \in site.cookies, set = <<c>> PROVE answer = SetCookie(n, c.name, c.value)
    <3>1. set # <<>> /\ set[1] = c
      BY <2>4
    <3> QED
      BY <2>2, <3>1
  <2> QED
    BY <2>1, <2>2, <2>3, <2>4
<1>6. PICK r : (r = answer \/ r = Redirect(answer, "elsewhere")) /\ Answer(r)
  BY <1>5
<1>7. stage' = "answered" /\ res' = r
  BY <1>6 DEF Answer
<1>8. got'.params = Found /\ got'.cookies = [x \in CookieNames |-> GetCookie(urlEncode(x))] /\ got'.set = set
  <2>1. PICK f, k : f = Found /\ k = [x \in CookieNames |-> GetCookie(urlEncode(x))]
    OBVIOUS
  <2>2. got' = [params |-> f, cookies |-> k, set |-> set]
    BY <1>5, <2>1
  <2> QED
    BY <2>1, <2>2
<1>9. Reading'
  <2>1. CookieNames' = CookieNames
    BY <1>1 DEF CookieNames
  <2>2. Found' = Found
    <3>1. site'.rewrites = site.rewrites /\ req' = req
      BY <1>1
    <3>2. Rewritten(req.uri)' = Rewritten(req.uri)
      BY <3>1, Zenon DEF Rewritten, SelectInSeq
    <3> QED
      BY <3>1, <3>2 DEF Found
  <2>3. \A x : GetCookie(x)' = GetCookie(x)
    BY <1>1 DEF GetCookie
  <2> QED
    BY <1>8, <2>1, <2>2, <2>3 DEF Reading
<1>10. CASE set = <<>> /\ answer = n
  <2>1. PICK cookie : cookie = "Set-Cookie"
    OBVIOUS
  <2>2. Says(n, cookie, {}) /\ IsResponse(n)
    BY <1>3, <1>4, <2>1, NoCookieOfOwn
  <2>3. CASE r = Redirect(answer, "elsewhere")
    <3>1. Follows(n, r, {"Location"})
      BY <1>10, <2>2, <2>3, RedirectFollows
    <3>2. cookie \notin {"Location"}
      BY <2>1
    <3>3. Says(r, cookie, {})
      BY <2>2, <3>1, <3>2 DEF Follows
    <3> QED
      BY <1>2, <1>7, <1>8, <1>9, <1>10, <2>1, <3>3 DEF CallInv
  <2>4. CASE r = answer
    BY <1>2, <1>7, <1>8, <1>9, <1>10, <2>1, <2>2, <2>4 DEF CallInv
  <2> QED
    BY <1>6, <2>3, <2>4
<1>11. ASSUME NEW c \in site.cookies, set = <<c>>, answer = SetCookie(n, c.name, c.value)
       PROVE  CallInv'
  <2>1. PICK text : text = CookieText(c)
    OBVIOUS
  <2>2. Gives(answer, text)
    BY <1>3, <1>4, <1>11, <2>1, CookieGiven
  <2>3. Gives(r, text)
    BY <1>6, <2>2, RedirectGives
  <2>4. RoomFor(Len(CorsFields) + 1)' <=> RoomFor(Len(CorsFields) + 1)
    BY <1>1 DEF RoomFor, CorsFields
  <2>5. Sending(c)'
    BY <1>7, <2>1, <2>3, <2>4 DEF Sending, Gives
  <2>6. set # <<>> /\ c \in site'.cookies /\ got'.set = <<c>>
    BY <1>1, <1>8, <1>11
  <2> QED
    BY <1>7, <1>9, <2>5, <2>6 DEF CallInv
<1> QED
  BY <1>2, <1>5, <1>10, <1>11

\* The cookie the browser is given replaces the one of its name.
LEMMA ReceiveJar ==
  ASSUME ReadInv, Receive
  PROVE  JarInv'
<1>1. PICK cookie, none, wire : cookie = "Set-Cookie" /\ none = <<>> /\ wire = OnWire(res)
  OBVIOUS
<1>2. PICK text : text = Value(wire, cookie, none)
  OBVIOUS
<1>3. /\ stage = "answered" /\ site' = site
      /\ jar' = IF text = <<>> THEN jar ELSE InJar(jar, text)
      /\ told' = [n \in DOMAIN told |-> IF got.set # <<>> /\ got.set[1].name = n THEN got.set[1].value ELSE told[n]]
  BY <1>1, <1>2 DEF Receive, application
<1>4. IsResponse(res) /\ site \in Sites
  BY <1>3 DEF ReadInv, AccessInv, StageInv, ServerInv
<1>5. PICK names : names = CookieNames
  OBVIOUS
<1>6. PICK room : room = RoomFor(Len(CorsFields) + 1)
  OBVIOUS
<1>7. CookieNames' = names /\ RoomFor(Len(CorsFields) + 1)' = room
  BY <1>3, <1>5, <1>6 DEF CookieNames, RoomFor, CorsFields
<1>8. told = [n \in names |-> told[n]] /\ \A n \in names : told[n] \in Text
  BY <1>5 DEF ReadInv, JarInv
<1>9. CASE got.set = <<>>
  <2>1. Says(res, cookie, {})
    BY <1>1, <1>3, <1>9 DEF ReadInv, CallInv
  <2>2. IsResponse(wire) /\ Says(wire, cookie, {})
    BY <1>1, <1>4, <2>1, WireProperties
  <2>3. text \in {} \cup {none}
    BY <1>2, <2>2, ValueSaid
  <2>4. jar' = jar
    BY <1>1, <1>3, <2>3
  <2>5. told' = told
    <3>1. told' = [n \in DOMAIN told |-> told[n]]
      BY <1>3, <1>9
    <3> QED
      BY <1>8, <3>1
  <2> QED
    BY <1>3, <2>4, <2>5, FramesRead DEF ReadInv
<1>10. ASSUME NEW c \in site.cookies, got.set = <<c>>, Sending(c) PROVE JarInv'
  <2>1. got.set # <<>> /\ got.set[1] = c
    BY <1>10
  <2>2. told' = [n \in names |-> IF c.name = n THEN c.value ELSE told[n]]
    BY <1>3, <1>8, <2>1
  <2>3. c.name \in names
    BY <1>5 DEF CookieNames
  <2>4. PICK S : /\ Text = Seq(S) /\ \A d \in site.cookies : d.name \in Seq(S) /\ d.value \in Seq(S)
    BY <1>4, SiteTexts
  <2>5. \A n \in names : n \in Seq(S) /\ told[n] \in Seq(S) /\ told'[n] \in Seq(S)
    BY <1>5, <1>8, <2>2, <2>4 DEF CookieNames
  <2>6. told' = [n \in names |-> told'[n]]
    BY <2>2
  <2>7. ASSUME room
        PROVE  \A n \in names : /\ \A d \in jar' : d.name = urlEncode(n) => d.value = urlEncode(told'[n])
                                /\ told'[n] # <<>> => \E d \in jar' : d.name = urlEncode(n)
    <3>1. PICK whole : whole = CookieText(c)
      OBVIOUS
    <3>2. Says(res, cookie, {whole}) /\ Early(res, cookie, whole, MaxHeaders)
      BY <1>1, <1>6, <1>10, <2>7, <3>1 DEF Sending
    <3>3. text = whole
      BY <1>1, <1>2, <1>4, <3>2, ValueOnWire
    <3>4. whole # <<>>
      BY <2>4, <3>1, CookieTaken
    <3>5. PICK new : new = [name |-> urlEncode(c.name), value |-> urlEncode(c.value)]
      OBVIOUS
    <3>6. jar' = {d \in jar : d.name # urlEncode(c.name)} \cup {new}
      BY <1>3, <2>4, <3>1, <3>3, <3>4, <3>5, CookieTaken
    <3>7. new.name = urlEncode(c.name) /\ new.value = urlEncode(c.value) /\ new \in jar'
      BY <3>5, <3>6
    <3>8. \A n \in names : /\ \A d \in jar : d.name = urlEncode(n) => d.value = urlEncode(told[n])
                           /\ told[n] # <<>> => \E d \in jar : d.name = urlEncode(n)
      BY <1>5, <1>6, <2>7 DEF ReadInv, JarInv
    <3>9. ASSUME NEW n \in names
          PROVE  /\ \A d \in jar' : d.name = urlEncode(n) => d.value = urlEncode(told'[n])
                 /\ told'[n] # <<>> => \E d \in jar' : d.name = urlEncode(n)
      <4>1. CASE n = c.name
        <5>1. told'[n] = c.value
          BY <2>2, <4>1
        <5> QED
          BY <3>6, <3>7, <4>1, <5>1
      <4>2. CASE n # c.name
        <5>1. told'[n] = told[n]
          BY <2>2, <4>2
        <5>2. urlEncode(n) # urlEncode(c.name)
          BY <2>4, <2>5, <4>2, UrlEncodeTells
        <5> QED
          BY <3>6, <3>7, <3>8, <5>1, <5>2
      <4> QED
        BY <4>1, <4>2
    <3> QED
      BY <3>9
  <2>8. \A n \in names : told'[n] \in Text
    BY <2>4, <2>5
  <2> QED
    BY <1>7, <2>6, <2>7, <2>8 DEF JarInv
<1>11. got.set # <<>> => \E c \in site.cookies : got.set = <<c>> /\ Sending(c)
  BY <1>3 DEF ReadInv, CallInv
<1> QED
  BY <1>9, <1>10, <1>11

\* An exchange that is over has read nothing.
LEMMA NoExchangeRead ==
  ASSUME ReadInv, Receive \/ Lose
  PROVE  AskedInv' /\ CallInv' /\ JarInv'
<1>1. site' = site /\ stage' = "none" /\ got' = NothingGot
  BY DEF Receive, Lose, application
<1>2. AskedInv' /\ CallInv'
  BY <1>1, FramesRead DEF AskedInv
<1>3. JarInv'
  <2>1. CASE Receive
    BY <2>1, ReceiveJar
  <2>2. CASE Lose
    <3>1. UNCHANGED <<jar, told>>
      BY <2>2 DEF Lose, browser
    <3> QED
      BY <1>1, <3>1, FramesRead DEF ReadInv
  <2> QED
    BY <2>1, <2>2
<1> QED
  BY <1>2, <1>3

LEMMA NextRead == ReadInv /\ [ExchangeNext]_exchangeVars => ReadInv'
<1> SUFFICES ASSUME ReadInv, [ExchangeNext]_exchangeVars, AccessInv' PROVE AskedInv' /\ CallInv' /\ JarInv'
  BY NextAccess DEF ReadInv
<1>1. CASE UNCHANGED <<site, page, req, jar, told, stage, res, got>>
  BY <1>1, FramesRead DEF ReadInv
<1>2. ASSUME NEW p \in Pages, Want(p) \/ AskAny(p) PROVE AskedInv' /\ CallInv' /\ JarInv'
  <2>1. CASE Want(p)
    BY <1>1, <2>1 DEF Want, application
  <2> QED
    BY <1>2, <2>1, AskRead
<1>3. CASE BeginUpdate \/ UpdateStep
  BY <1>1, <1>3 DEF BeginUpdate, UpdateStep, browser
<1>4. CASE UNCHANGED exchangeVars
  BY <1>1, <1>4 DEF exchangeVars
<1> QED
  BY <1>2, <1>3, <1>4, OwnAnswersRead, CallBackRead, NoExchangeRead DEF ExchangeNext

LEMMA InitRead == ExchangeInit => ReadInv
<1> SUFFICES ASSUME ExchangeInit PROVE ReadInv
  OBVIOUS
<1>1. stage = "none" /\ got = NothingGot /\ jar = {}
  BY DEF ExchangeInit
<1>2. AskedInv /\ CallInv
  BY <1>1 DEF AskedInv, CallInv
<1>3. PICK nothing : nothing = <<>>
  OBVIOUS
<1>4. told = [n \in CookieNames |-> nothing]
  BY <1>3 DEF ExchangeInit, CookieNames
<1>5. nothing \in Text
  <2>1. PICK S : Text = Seq(S)
    BY DEF Text
  <2> QED
    BY <1>3, <2>1
<1>6. JarInv
  <2>1. \A n \in CookieNames : told[n] = nothing
    BY <1>4
  <2>2. \A c \in jar : FALSE
    BY <1>1
  <2> QED
    BY <1>3, <1>4, <1>5, <2>1, <2>2 DEF JarInv
<1> QED
  BY <1>2, <1>6, InitAccess DEF ReadInv

\* A callback decodes what the cookie that has arrived last was set to: the browser has
\* kept its text under the encoded name, and no other cookie has that one.
THEOREM CookiesAreKept == ExchangeSpec => []CookieKept
<1>1. ReadInv => CookieKept
  <2> SUFFICES ASSUME ReadInv, stage = "answered", got # NothingGot, req.method # "OPTIONS",
                      RoomFor(Len(CorsFields) + 1), NEW n \in CookieNames
               PROVE  urlDecode(got.cookies[n]) = told[n]
    BY DEF CookieKept
  <2>1. site \in Sites
    BY DEF ReadInv, AccessInv, ServerInv
  <2>2. PICK S : /\ Text = Seq(S) /\ \A c \in site.cookies : c.name \in Seq(S) /\ c.value \in Seq(S)
    BY <2>1, SiteTexts
  <2>3. told[n] \in Seq(S)
    BY <2>2 DEF ReadInv, JarInv
  <2>4. req.cookies = jar
    BY DEF ReadInv, AskedInv, Asks
  <2>5. PICK name, value : name = urlEncode(n) /\ value = urlEncode(told[n])
    OBVIOUS
  <2>6. got.cookies[n] = GetCookie(name)
    BY <2>5 DEF ReadInv, CallInv, Reading
  <2>7. /\ \A c \in jar : c.name = name => c.value = value
        /\ told[n] # <<>> => \E c \in jar : c.name = name
    BY <2>5 DEF ReadInv, JarInv
  <2>8. urlDecode(value) = told[n]
    BY <2>3, <2>5, UrlEncodes DEF Encodes
  <2>9. CASE \E c \in jar : c.name = name
    <3>1. PICK d : d = CHOOSE c \in jar : c.name = name
      OBVIOUS
    <3>2. d \in jar /\ d.name = name
      BY <2>9, <3>1
    <3>3. GetCookie(name) = d.value
      BY <2>4, <2>9, <3>1 DEF GetCookie
    <3> QED
      BY <2>6, <2>7, <2>8, <3>2, <3>3
  <2>10. CASE ~ \E c \in jar : c.name = name
    <3>1. GetCookie(name) = <<>>
      BY <2>4, <2>10 DEF GetCookie
    <3>2. told[n] = <<>>
      BY <2>7, <2>10
    <3> QED
      BY <2>6, <3>1, <3>2, NothingEncoded
  <2> QED
    BY <2>9, <2>10
<1> QED
  BY <1>1, InitRead, NextRead, PTL DEF ExchangeSpec

\* A URI with the text of a form, as the server cuts it
WithQuery(path, query) == path \o IF query = <<>> THEN <<>> ELSE <<"?">> \o FormText(query)

LEMMA FormTyped ==
  ASSUME NEW S, NEW query \in Seq([name : Seq(S), value : Seq(S)])
  PROVE  FormText(query) \in Seq(Plain(S) \cup {"=", "&"})
<1>1. \A f \in [name : Seq(S), value : Seq(S)] : f.name \in Seq(S) /\ f.value \in Seq(S)
  OBVIOUS
<1>2. \E v, q : FormParts(Plain(S) \cup {"=", "&"}, query, v, FormText(query), q)
  BY <1>1, FormPlaces
<1> QED
  BY <1>2 DEF FormParts, Places

LEMMA CutAtQuery ==
  ASSUME NEW S, NEW path \in Seq(Plain(S) \cup {"/"}), NEW query \in Seq([name : Seq(S), value : Seq(S)]),
         NEW uri, uri = WithQuery(path, query)
  PROVE  Before(uri, "?") = path /\ After(uri, "?") = FormText(query)
<1>1. PICK mark, slash, form : mark = "?" /\ slash = "/" /\ form = FormText(query)
  OBVIOUS
<1>2. PICK A, B, C : A = Plain(S) \cup {slash} /\ B = Plain(S) \cup {"=", "&"} /\ C = (A \cup B) \cup {mark}
  OBVIOUS
<1>3. mark \notin A /\ A \subseteq C /\ B \subseteq C /\ mark \in C
  <2>1. mark \notin Plain(S) /\ mark # slash
    BY <1>1, PlainSeparates DEF Separators
  <2> QED
    BY <1>2, <2>1
<1>4. path \in Seq(A)
  BY <1>1, <1>2
<1>5. form \in Seq(B)
  BY <1>1, <1>2, FormTyped
<1>6. CASE query = <<>>
  <2>1. uri = path
    BY <1>4, <1>6 DEF WithQuery
  <2>2. Before(uri, mark) = path /\ After(uri, mark) = <<>>
    BY <1>3, <1>4, <2>1, CutNowhere
  <2>3. form = <<>>
    <3>1. PICK f : f = <<>>
      OBVIOUS
    <3>2. [i \in DOMAIN f |-> (IF i = 1 THEN <<>> ELSE <<"&">>) \o FormValue(f[i].name) \o <<"=">> \o FormValue(f[i].value)] = f
      BY <3>1
    <3>3. FlattenSeq(f) = f
      BY <3>1 DEF FlattenSeq
    <3>4. FormText(f) = f
      BY <3>2, <3>3 DEF FormText
    <3> QED
      BY <1>1, <1>6, <3>1, <3>4
  <2> QED
    BY <1>1, <2>2, <2>3
<1>7. CASE query # <<>>
  <2>1. uri = Cat(path, Cat(<<mark>>, form))
    BY <1>1, <1>7 DEF WithQuery, Cat
  <2>2. path \in Seq(C) /\ <<mark>> \in Seq(C) /\ form \in Seq(C)
    BY <1>3, <1>4, <1>5
  <2>3. PICK z : z = <<mark>>
    OBVIOUS
  <2>4. Cat(Cat(path, z), form) = Cat(path, Cat(z, form))
    <3>1. z \in Seq(C)
      BY <2>2, <2>3
    <3> QED
      BY <2>2, <3>1, CatAssociative
  <2>5. Joined(uri, path, mark, form)
    BY <2>1, <2>3, <2>4 DEF Joined, Cat
  <2>6. Before(uri, mark) = path /\ After(uri, mark) = form
    BY <1>3, <1>4, <2>2, <2>5, CutWhereJoined
  <2> QED
    BY <1>1, <2>6
<1> QED
  BY <1>6, <1>7

\* The path and the query of a URI the browser asks for
LEMMA QueryOfUri ==
  ASSUME site \in Sites, NEW p \in Pages, NEW query \in site.queries
  PROVE  /\ Before(UriOf(p, query), "?") = PathText(site.page[p].path)
         /\ After(UriOf(p, query), "?") = FormText(query)
<1>1. PICK S : site.page[p].path \in Seq(S) /\ query \in Seq([name : Seq(S), value : Seq(S)])
  BY SiteTexts
<1>2. PICK path : path = PathText(site.page[p].path)
  OBVIOUS
<1>3. path \in Seq(Plain(S) \cup {"/"})
  BY <1>1, <1>2, PathPlain
<1>4. PICK uri : uri = UriOf(p, query)
  OBVIOUS
<1>5. uri = WithQuery(path, query)
  BY <1>2, <1>4, Zenon DEF UriOf, WithQuery
<1>6. Before(uri, "?") = path /\ After(uri, "?") = FormText(query)
  BY <1>1, <1>3, <1>5, CutAtQuery
<1> QED
  BY <1>2, <1>4, <1>6

\* A URI that is not rewritten stays, and what it is rewritten to has the fields of extra.
LEMMA RewrittenTo ==
  ASSUME site \in Sites, NEW uri, Rewritten(uri) # uri
  PROVE  After(Rewritten(uri), "?") = FormText(site.extra)
<1>1. PICK rewrites, R : rewrites = site.rewrites /\ R = [from : Text, to : Text]
  OBVIOUS
<1>2. rewrites \in Seq(R)
  BY <1>1, SitesAssumption
<1>3. PICK n \in Nat : n = Len(rewrites) /\ DOMAIN rewrites = 1 .. n
  BY <1>2
<1>4. PICK I : I = {i \in 1 .. n : rewrites[i].from = Before(uri, "?")}
  OBVIOUS
<1>5. PICK k : k = IF I # {} THEN Min(I) ELSE 0
  OBVIOUS
<1>6. Rewritten(uri) = IF k = 0 THEN uri ELSE rewrites[k].to
  BY <1>1, <1>3, <1>4, <1>5 DEF Rewritten, SelectInSeq
<1>7. k # 0 /\ I # {}
  BY <1>5, <1>6
<1>8. k \in 1 .. n
  <2>1. I \subseteq Nat
    BY <1>4
  <2>2. Min(I) \in I
    BY <1>7, <2>1, MinProperties
  <2> QED
    BY <1>4, <1>5, <1>7, <2>2
<1>9. \A i \in DOMAIN site.rewrites : After(site.rewrites[i].to, "?") = FormText(site.extra)
  BY SitesAssumption
<1> QED
  BY <1>1, <1>3, <1>6, <1>7, <1>8, <1>9

\* A callback finds the fields the browser has sent: each text is cut where the browser
\* has joined it, and decoded behind that.
THEOREM ParamsArrive == ExchangeSpec => []ParamsAsSent
<1>1. ReadInv => ParamsAsSent
  <2> SUFFICES ASSUME ReadInv, stage = "answered", ~ Static(page), res.code # 401, req.method # "OPTIONS"
               PROVE  got.params = Sent(req.query, FALSE)
                        \o (IF Rewritten(req.uri) = req.uri THEN <<>> ELSE Sent(site.extra, FALSE))
                        \o (IF req.method = "POST" THEN Sent(req.form, TRUE) ELSE <<>>)
    BY DEF ParamsAsSent
  <2>1. site \in Sites /\ page \in Pages
    BY SitesAssumption DEF ReadInv, AccessInv, ServerInv, StageInv
  <2>2. PICK query \in site.queries, body \in site.bodies : Asks(query, body)
    BY DEF ReadInv, AskedInv
  <2>3. got.params = Found
    BY DEF ReadInv, CallInv, Reading
  <2>4. PICK S, F : /\ F = [name : Seq(S), value : Seq(S)]
                    /\ query \in Seq(F) /\ body \in Seq(F) /\ site.extra \in Seq(F)
    BY <2>1, SiteTexts
  <2>5. \A f \in F : f.name \in Seq(S) /\ f.value \in Seq(S)
    BY <2>4
  <2>6. Params(After(req.uri, "?"), FALSE) = Sent(req.query, FALSE)
    <3>1. After(req.uri, "?") = FormText(query) /\ req.query = query
      BY <2>1, <2>2, QueryOfUri DEF Asks
    <3> QED
      BY <2>4, <2>5, <3>1, FormReads
  <2>7. Rewritten(req.uri) # req.uri => Params(After(Rewritten(req.uri), "?"), FALSE) = Sent(site.extra, FALSE)
    <3> SUFFICES ASSUME Rewritten(req.uri) # req.uri
                 PROVE  Params(After(Rewritten(req.uri), "?"), FALSE) = Sent(site.extra, FALSE)
      OBVIOUS
    <3>1. After(Rewritten(req.uri), "?") = FormText(site.extra)
      BY <2>1, RewrittenTo
    <3> QED
      BY <2>4, <2>5, <3>1, FormReads
  <2>8. Params(req.body, TRUE) = Sent(req.form, TRUE)
    <3>1. req.body = FormText(body) /\ req.form = body
      BY <2>2 DEF Asks
    <3> QED
      BY <2>4, <2>5, <3>1, FormReads
  <2>9. Found = Sent(req.query, FALSE)
                  \o (IF Rewritten(req.uri) = req.uri THEN <<>> ELSE Sent(site.extra, FALSE))
                  \o (IF req.method = "POST" THEN Sent(req.form, TRUE) ELSE <<>>)
    BY <2>6, <2>7, <2>8 DEF Found
  <2> QED
    BY <2>3, <2>9
<1> QED
  BY <1>1, InitRead, NextRead, PTL DEF ExchangeSpec

-----------------------------------------------------------------------------
(* What arrives of a file's headers.                                       *)

\* A response with the validators it may have; a packed body has its encoding, and no
\* validator comes before that.
Carries(r, packed, stmp, etag) ==
  /\ IsResponse(r)
  /\ Says(r, "Last-Modified", {stmp}) /\ Says(r, "ETag", {etag})
  /\ Says(r, "Content-Encoding", {"gzip"})
  /\ packed => /\ \E n \in Nat : Early(r, "Content-Encoding", "gzip", n)
               /\ Ahead(r, "Content-Encoding", "gzip", "Last-Modified")
               /\ Ahead(r, "Content-Encoding", "gzip", "ETag")
  /\ ~ packed => Says(r, "Content-Encoding", {})

LEMMA CarriesMore ==
  ASSUME NEW r, NEW packed \in BOOLEAN, NEW stmp, NEW etag, Carries(r, packed, stmp, etag),
         NEW field, field \in {"Last-Modified", "Cache-Control", "ETag"}, NEW value,
         field = "Last-Modified" => value = stmp, field = "ETag" => value = etag,
         NEW q, Added(r, field, value, q)
  PROVE  Carries(q, packed, stmp, etag)
<1>1. PICK lm, et, ce, gzip, S, E, G, N : /\ lm = "Last-Modified" /\ et = "ETag" /\ ce = "Content-Encoding" /\ gzip = "gzip"
                                          /\ S = {stmp} /\ E = {etag} /\ G = {gzip} /\ N = {}
  OBVIOUS
<1>2. /\ IsResponse(r) /\ Says(r, lm, S) /\ Says(r, et, E) /\ Says(r, ce, G)
      /\ packed => (\E n \in Nat : Early(r, ce, gzip, n)) /\ Ahead(r, ce, gzip, lm) /\ Ahead(r, ce, gzip, et)
      /\ ~ packed => Says(r, ce, N)
  BY <1>1 DEF Carries
<1>3. ce # field /\ ce # lm /\ ce # et /\ lm # et
  BY <1>1
<1>4. Says(q, lm, S)
  BY <1>1, <1>2, AddedSays
<1>5. Says(q, et, E)
  BY <1>1, <1>2, AddedSays
<1>6. Says(q, ce, G) /\ (~ packed => Says(q, ce, N))
  BY <1>2, <1>3, AddedSays
<1>7. packed => \E n \in Nat : Early(q, ce, gzip, n)
  BY <1>2, <1>3, AddedEarly
<1>8. packed => Ahead(q, ce, gzip, lm)
  BY <1>2, <1>3, AddedAhead
<1>9. packed => Ahead(q, ce, gzip, et)
  BY <1>2, <1>3, AddedAhead
<1>10. IsResponse(q)
  BY DEF Added
<1> QED
  BY <1>1, <1>4, <1>5, <1>6, <1>7, <1>8, <1>9, <1>10 DEF Carries

\* The validators leave the body and come behind the encoding.
LEMMA ValidatorsCarry ==
  ASSUME NEW r, NEW packed \in BOOLEAN, NEW h, NEW stmp, NEW etag, Carries(r, packed, stmp, etag),
         NEW q, q = AddHeaders(r, Validators(h, stmp, etag))
  PROVE  Carries(q, packed, stmp, etag) /\ q.code = r.code /\ q.body = r.body
<1>1. PICK v : v = Validators(h, stmp, etag)
  OBVIOUS
<1>2. Validates(h, stmp, etag, v)
  BY <1>1, ValidatorsProperties
<1>3. PICK A : v \in Seq(A)
  BY <1>2 DEF Validates
<1>4. PICK n \in Nat : n = Len(v)
  BY <1>3
<1>5. \A i \in 1 .. n : /\ v[i].field \in {"Last-Modified", "Cache-Control", "ETag"}
                        /\ v[i].field = "Last-Modified" => v[i].value = stmp
                        /\ v[i].field = "ETag" => v[i].value = etag
  BY <1>2, <1>4 DEF Validates
<1>6. IsResponse(r)
  BY DEF Carries
<1>7. PICK g : Chain(r, v, q, g)
  BY <1>1, <1>3, <1>6, ChainOfResponses
<1>8. /\ g[0] = r /\ g[n] = q
      /\ \A i \in 1 .. n : Added(g[i - 1], v[i].field, v[i].value, g[i])
      /\ \A i \in 0 .. n : g[i].code = r.code /\ g[i].body = r.body
  BY <1>4, <1>7 DEF Chain
<1> DEFINE T == {i \in 0 .. n : Carries(g[i], packed, stmp, etag)}
<1>9. 0 \in T
  BY <1>8
<1>10. ASSUME NEW k \in 0 .. n - 1, k \in T PROVE k + 1 \in T
  <2>1. k + 1 \in 1 .. n /\ k + 1 \in 0 .. n /\ (k + 1) - 1 = k
    OBVIOUS
  <2>2. PICK f, w : f = v[k + 1].field /\ w = v[k + 1].value
    OBVIOUS
  <2>3. Added(g[k], f, w, g[k + 1])
    BY <1>8, <2>1, <2>2
  <2>4. /\ f \in {"Last-Modified", "Cache-Control", "ETag"}
        /\ f = "Last-Modified" => w = stmp
        /\ f = "ETag" => w = etag
    BY <1>5, <2>1, <2>2
  <2>5. Carries(g[k], packed, stmp, etag)
    BY <1>10
  <2>6. Carries(g[k + 1], packed, stmp, etag)
    BY <2>3, <2>4, <2>5, CarriesMore
  <2> QED
    BY <2>1, <2>6
<1>11. \A k \in 0 .. n : k \in T
  <2> HIDE DEF T
  <2> QED
    BY <1>9, <1>10, InductionUpto
<1>12. n \in 0 .. n
  OBVIOUS
<1> QED
  BY <1>8, <1>11, <1>12

\* A header behind another one does not arrive without it.
LEMMA AheadOnWire ==
  ASSUME NEW r, IsResponse(r), NEW f, NEW v, NEW other, Ahead(r, f, v, other)
  PROVE  Ahead(OnWire(r), f, v, other)
<1>1. PICK A, code, hs, body : hs \in Seq(A) /\ r = [code |-> code, headers |-> hs, body |-> body]
  BY DEF IsResponse
<1>2. PICK l \in Nat : l = Len(hs)
  BY <1>1
<1>3. PICK m : m = Min({MaxHeaders, l})
  OBVIOUS
<1>4. m \in Nat /\ m <= l
  <2>1. {MaxHeaders, l} \subseteq Nat /\ {MaxHeaders, l} # {}
    BY BoundsAssumption
  <2>2. m \in {MaxHeaders, l} /\ \A y \in {MaxHeaders, l} : m <= y
    BY <1>3, <2>1, MinProperties
  <2> QED
    BY <2>1, <2>2
<1>5. PICK u : u = SubSeq(hs, 1, m)
  OBVIOUS
<1>6. u \in Seq(A) /\ Len(u) = m /\ \A i \in 1 .. m : u[i] = hs[i]
  BY <1>1, <1>2, <1>4, <1>5
<1>7. PICK q : q = OnWire(r)
  OBVIOUS
<1>8. q = [code |-> code, headers |-> u, body |-> body]
  BY <1>1, <1>2, <1>3, <1>5, <1>7 DEF OnWire
<1>9. q.headers = u /\ r.headers = hs
  BY <1>1, <1>8
<1>10. ASSUME NEW i \in 1 .. m, u[i].field = other PROVE \E j \in 1 .. i - 1 : u[j] = Header(f, v)
  <2>1. i \in 1 .. l /\ hs[i].field = other
    BY <1>4, <1>6, <1>10
  <2>2. PICK j \in 1 .. i - 1 : hs[j] = Header(f, v)
    BY <1>2, <1>9, <2>1 DEF Ahead
  <2>3. j \in 1 .. m
    BY <1>4, <2>2
  <2> QED
    BY <1>6, <2>2, <2>3
<1>11. Ahead(q, f, v, other)
  BY <1>6, <1>9, <1>10 DEF Ahead
<1> QED
  BY <1>7, <1>11

\* The encoding that arrives, or ""
Encoding(wire) == Value(wire, "Content-Encoding", "")

\* A validator that arrives comes with the encoding of the body.
LEMMA WireCarries ==
  ASSUME NEW r, NEW packed \in BOOLEAN, NEW stmp, NEW etag, Carries(r, packed, stmp, etag),
         NEW wire, wire = OnWire(r), NEW lm, NEW et, NEW ce,
         lm = Value(wire, "Last-Modified", NoStamp), et = Value(wire, "ETag", NoFile),
         ce = Encoding(wire)
  PROVE  /\ lm \in {stmp, NoStamp} /\ et \in {etag, NoFile}
         /\ lm # NoStamp \/ et # NoFile \/ AllFit(r) => (ce = "gzip" <=> packed)
<1>1. PICK fl, fe, fc, gzip, S, E, G, N :
        /\ fl = "Last-Modified" /\ fe = "ETag" /\ fc = "Content-Encoding" /\ gzip = "gzip"
        /\ S = {stmp} /\ E = {etag} /\ G = {gzip} /\ N = {}
  OBVIOUS
<1>2. PICK none : none = ""
  OBVIOUS
<1>3. none # gzip
  BY <1>1, <1>2
<1>4. /\ IsResponse(r) /\ Says(r, fl, S) /\ Says(r, fe, E) /\ Says(r, fc, G)
      /\ packed => (\E n \in Nat : Early(r, fc, gzip, n)) /\ Ahead(r, fc, gzip, fl) /\ Ahead(r, fc, gzip, fe)
      /\ ~ packed => Says(r, fc, N)
  BY <1>1 DEF Carries
<1>5. /\ IsResponse(wire) /\ Says(wire, fl, S) /\ Says(wire, fe, E) /\ Says(wire, fc, G)
      /\ ~ packed => Says(wire, fc, N)
      /\ AllFit(r) => wire = r
  BY <1>4, WireProperties
<1>6. packed => Ahead(wire, fc, gzip, fl) /\ Ahead(wire, fc, gzip, fe)
  BY <1>4, AheadOnWire
<1>7. lm = Value(wire, fl, NoStamp) /\ et = Value(wire, fe, NoFile) /\ ce = Value(wire, fc, none)
  BY <1>1, <1>2 DEF Encoding
<1>8. lm \in {stmp, NoStamp} /\ et \in {etag, NoFile}
  <2>1. lm \in S \cup {NoStamp} /\ et \in E \cup {NoFile}
    BY <1>5, <1>7, ValueSaid
  <2> QED
    BY <1>1, <2>1
<1>9. PICK n \in Nat : n = Len(wire.headers)
  BY <1>5, ResponseLength
<1>10. ASSUME NEW i \in 1 .. n, wire.headers[i] = Header(fc, gzip) PROVE ce = gzip
  <2>1. wire.headers[i].field = fc
    BY <1>10 DEF Header
  <2>2. ce \in G
    BY <1>5, <1>7, <1>9, <2>1, ValueSaid
  <2> QED
    BY <1>1, <2>2
<1>11. ASSUME NEW f, NEW no, Ahead(wire, fc, gzip, f), Value(wire, f, no) # no PROVE ce = gzip
  <2>1. \E i \in 1 .. n : wire.headers[i].field = f
    <3> SUFFICES ASSUME \A i \in 1 .. n : wire.headers[i].field # f PROVE FALSE
      OBVIOUS
    <3>1. Says(wire, f, N)
      BY <1>9 DEF Says
    <3>2. Value(wire, f, no) \in N \cup {no}
      BY <1>5, <3>1, ValueSaid
    <3> QED
      BY <1>1, <1>11, <3>2
  <2>2. PICK i \in 1 .. n : wire.headers[i].field = f
    BY <2>1
  <2>3. PICK j \in 1 .. i - 1 : wire.headers[j] = Header(fc, gzip)
    BY <1>9, <1>11, <2>2 DEF Ahead
  <2>4. j \in 1 .. n
    BY <2>2, <2>3
  <2> QED
    BY <1>10, <2>3, <2>4
<1>12. ASSUME packed, AllFit(r) PROVE ce = gzip
  <2>1. wire = r
    BY <1>5, <1>12
  <2>2. PICK k \in Nat : Early(wire, fc, gzip, k)
    BY <1>4, <1>12, <2>1
  <2>3. PICK i \in 1 .. k : i <= n /\ wire.headers[i] = Header(fc, gzip)
    BY <1>9, <2>2 DEF Early
  <2>4. i \in 1 .. n
    BY <2>3
  <2> QED
    BY <1>10, <2>3, <2>4
<1>13. ASSUME packed, lm # NoStamp \/ et # NoFile \/ AllFit(r) PROVE ce = gzip
  BY <1>6, <1>7, <1>11, <1>12, <1>13
<1>14. ASSUME ~ packed PROVE ce # gzip
  <2>1. ce \in N \cup {none}
    BY <1>5, <1>7, <1>14, ValueSaid
  <2>2. none # gzip
    BY <1>3
  <2> QED
    BY <1>1, <2>1, <2>2
<1>15. lm # NoStamp \/ et # NoFile \/ AllFit(r) => (ce = gzip <=> packed)
  BY <1>13, <1>14
<1> QED
  BY <1>1, <1>8, <1>15

-----------------------------------------------------------------------------
(* The files, and how far an update of one has come.                       *)

FileOf(p) == site.page[p].file
FormsOf(name) == {name, Gz(name)}

\* The version the file of a page is at: once an update has begun, the one it leads to
Now(p) == IF FileOf(p) = site.updated THEN version ELSE 1

\* What is there of the file is what the update leads to, or has led to.
Whole(p) == (\E n \in FormsOf(FileOf(p)) : IsFile(fs, n)) /\ InFile(p) = Now(p)

\* An update leaves the plain form at version a and the packed one at b, then tells of it.
Left(at, v) == [at |-> at, version |-> v]
Updates(a, b) ==
  LET plain == fs[site.updated]
      packed == fs[Gz(site.updated)]
  IN  /\ a \in {0, version} /\ b \in {0, version} /\ (a # 0 \/ b # 0)
      /\ \/ /\ steps = <<Left("plain", a), Left("gz", b), Left("stamp", version)>>
            /\ plain < version /\ packed < version
         \/ /\ steps = <<Left("gz", b), Left("stamp", version)>>
            /\ plain = a /\ packed < version
         \/ /\ steps \in {<<Left("stamp", version)>>, <<>>}
            /\ plain = a /\ packed = b

UpdateInv ==
  /\ IF site.updated = <<>> THEN steps = <<>> /\ version = 1 ELSE \E a, b : Updates(a, b)
  /\ \A n \in site.files : site.updated = <<>> \/ n \notin FormsOf(site.updated)
                             => fs[n] = IF n \in site.there THEN 1 ELSE 0
  /\ stamp = IF ~ site.stamped THEN NoStamp ELSE IF steps = <<>> THEN version ELSE version - 1

\* A page of type static has a file of its own.
LEMMA StaticFiles ==
  ASSUME site \in Sites, NEW p \in Pages, Static(p), NEW n, n = FileOf(p)
  PROVE  /\ n # <<>> /\ Last(n) # ".gz" /\ n \in Text
         /\ n \in site.files \/ Gz(n) \in site.files
         /\ FormsOf(n) \cap site.dirs = {} /\ FormsOf(n) \cap site.there # {}
         /\ site.there \subseteq site.files
         /\ n = site.updated \/ site.updated = <<>> \/ FormsOf(n) \cap FormsOf(site.updated) = {}
         /\ site.page[p].method = "GET"
<1>1. p \in {q \in Pages : site.page[q].type = "static"}
  BY DEF Static
<1> QED
  BY <1>1, FilesAssumption DEF FormsOf, FileOf

LEMMA GzDiffers ==
  ASSUME NEW A, NEW n \in Seq(A)
  PROVE  Gz(n) # n /\ Len(Gz(n)) = Len(n) + 1 /\ Last(Gz(n)) = ".gz"
<1>1. PICK gz : gz = ".gz"
  OBVIOUS
<1>2. PICK B : B = A \cup {gz}
  OBVIOUS
<1>3. n \in Seq(B) /\ gz \in B
  BY <1>2
<1>4. Len(Append(n, gz)) = Len(n) + 1 /\ Append(n, gz)[Len(n) + 1] = gz /\ Len(n) \in Nat
  BY <1>3
<1> QED
  BY <1>1, <1>4 DEF Gz, Last

LEMMA UpdatedFiles ==
  ASSUME site \in Sites, site.updated # <<>>, NEW u, NEW z, u = site.updated, z = Gz(site.updated)
  PROVE  /\ u \in site.files /\ z \in site.files /\ u # z
         /\ {u, z} \cap site.there # {}
<1>1. {u, z} \subseteq site.files /\ {u, z} \cap site.there # {} /\ u \in Text
  BY FilesAssumption
<1>2. PICK S : Text = Seq(S)
  BY DEF Text
<1>3. u # z
  BY <1>1, <1>2, GzDiffers
<1> QED
  BY <1>1, <1>3

\* The versions of a form of a page's file: none is beyond the one an update leads to.
FormInv(p) ==
  /\ \A n \in FormsOf(FileOf(p)) \cap site.files :
       /\ fs[n] \in 0 .. Now(p)
       /\ fs[n] = Now(p) \/ (fs[n] # 0 /\ steps = <<>>) => Whole(p) /\ fs[n] = Now(p)
  /\ Now(p) \in Nat \ {0}
  /\ stamp \in Nat /\ stamp <= version
  /\ steps = <<>> \/ (stamp # NoStamp /\ (FileOf(p) # site.updated \/ stamp = version)) => Whole(p)

LEMMA StampBelow ==
  ASSUME AccessInv, UpdateInv
  PROVE  /\ stamp \in Nat /\ stamp <= version
         /\ stamp # NoStamp => (stamp = version <=> steps = <<>>)
<1>1. version \in Nat /\ version >= 1
  BY BoundsAssumption DEF AccessInv, ServerInv
<1>2. stamp = IF ~ site.stamped THEN 0 ELSE IF steps = <<>> THEN version ELSE version - 1
  BY DEF UpdateInv, NoStamp
<1> QED
  BY <1>1, <1>2 DEF NoStamp

\* A file that is there in a form, each of whose forms is at the version it should be
LEMMA WholeFile ==
  ASSUME NEW p, NEW n, n = FileOf(p), NEW m \in Nat \ {0}, m = Now(p),
         DOMAIN fs = site.files,
         n \in site.files => fs[n] \in {0, m},
         Gz(n) \in site.files => fs[Gz(n)] = m \/ (n \in site.files /\ fs[n] = m) \/ fs[Gz(n)] = 0,
         \E k \in FormsOf(n) \cap site.files : fs[k] = m
  PROVE  Whole(p)
BY DEF Whole, FormsOf, IsFile, InFile, FileOf

LEMMA FormsAtVersions ==
  ASSUME AccessInv, UpdateInv, NEW p \in Pages, Static(p)
  PROVE  FormInv(p)
<1>1. site \in Sites /\ fs \in [site.files -> 0 .. MaxVersion] /\ version \in 1 .. MaxVersion /\ MaxVersion \in Nat
  BY BoundsAssumption DEF AccessInv, ServerInv
<1>2. stamp \in Nat /\ stamp <= version /\ (stamp # NoStamp => (stamp = version <=> steps = <<>>))
  BY StampBelow
<1>3. PICK n, z : n = FileOf(p) /\ z = Gz(n)
  OBVIOUS
<1>4. /\ n # <<>> /\ (n \in site.files \/ z \in site.files)
      /\ {n, z} \cap site.there # {} /\ site.there \subseteq site.files
      /\ n = site.updated \/ site.updated = <<>> \/ {n, z} \cap FormsOf(site.updated) = {}
  BY <1>1, <1>3, StaticFiles DEF FormsOf
<1>5. CASE n # site.updated
  <2>1. Now(p) = 1
    BY <1>3, <1>5 DEF Now
  <2>2. \A k \in {n, z} \cap site.files : fs[k] = IF k \in site.there THEN 1 ELSE 0
    BY <1>4, <1>5 DEF UpdateInv
  <2>3. \E k \in {n, z} \cap site.files : fs[k] = 1
    BY <1>4, <2>2
  <2>4. Whole(p)
    BY <1>1, <1>3, <2>1, <2>2, <2>3, WholeFile DEF FormsOf
  <2> QED
    BY <1>2, <1>3, <2>1, <2>2, <2>4 DEF FormInv, FormsOf
<1>6. CASE n = site.updated
  <2>1. Now(p) = version
    BY <1>3, <1>6 DEF Now
  <2>2. PICK a, b : Updates(a, b)
    BY <1>4, <1>6 DEF UpdateInv
  <2>3. n \in site.files /\ z \in site.files /\ n # z
    BY <1>1, <1>3, <1>4, <1>6, UpdatedFiles
  <2>4. PICK x, y : x = fs[n] /\ y = fs[z]
    OBVIOUS
  <2>5. x \in Nat /\ y \in Nat
    BY <1>1, <2>3, <2>4
  <2>6. /\ a \in {0, version} /\ b \in {0, version} /\ (a # 0 \/ b # 0)
        /\ \/ steps # <<>> /\ x < version /\ y < version
           \/ steps # <<>> /\ x = a /\ y < version
           \/ x = a /\ y = b
    <3>1. \A c, d, e : <<c, d, e>> # <<>> /\ <<c, d>> # <<>>
      OBVIOUS
    <3>2. PICK c, d, e : c = Left("plain", a) /\ d = Left("gz", b) /\ e = Left("stamp", version)
      OBVIOUS
    <3> QED
      BY <1>3, <1>6, <2>2, <2>4, <3>1, <3>2 DEF Updates
  <2>7. x <= version /\ y <= version
    BY <1>1, <2>5, <2>6
  <2>8. ASSUME x = version \/ y = version PROVE Whole(p)
    <3>1. x = a /\ (x = version \/ y = b)
      BY <1>1, <2>5, <2>6, <2>8
    <3>2. x \in {0, version}
      BY <2>6, <3>1
    <3>3. \E k \in FormsOf(n) \cap site.files : fs[k] = version
      BY <1>3, <2>3, <2>4, <2>8 DEF FormsOf
    <3>4. PICK m \in Nat \ {0} : m = version
      BY <1>1
    <3>5. DOMAIN fs = site.files /\ fs[n] \in {0, m}
      BY <1>1, <2>4, <3>2, <3>4
    <3>6. fs[Gz(n)] = m \/ (n \in site.files /\ fs[n] = m)
      BY <1>3, <2>3, <2>4, <2>8, <3>4
    <3> QED
      BY <1>3, <2>1, <3>3, <3>4, <3>5, <3>6, WholeFile
  <2>9. ASSUME steps = <<>> PROVE Whole(p) /\ x \in {0, version} /\ y \in {0, version}
    <3>1. x = a /\ y = b
      BY <2>6, <2>9
    <3> QED
      BY <2>6, <2>8, <3>1
  <2>10. \A k \in FormsOf(n) \cap site.files : fs[k] = x \/ fs[k] = y
    BY <1>3, <2>4 DEF FormsOf
  <2>11. \A k \in FormsOf(n) \cap site.files : fs[k] \in 0 .. version
    BY <2>5, <2>7, <2>10, <1>1
  <2>12. \A k \in FormsOf(n) \cap site.files :
           fs[k] = version \/ (fs[k] # 0 /\ steps = <<>>) => Whole(p) /\ fs[k] = version
    BY <2>8, <2>9, <2>10
  <2> QED
    BY <1>1, <1>2, <1>3, <1>6, <2>1, <2>9, <2>11, <2>12 DEF FormInv
<1> QED
  BY <1>5, <1>6

\* What the files and the update were, and are
LEMMA InitUpdate == ExchangeInit => UpdateInv
<1> SUFFICES ASSUME ExchangeInit PROVE UpdateInv
  OBVIOUS
<1>1. /\ site \in Sites /\ version = 1 /\ stamp = Stamp(1)
      /\ fs = [n \in site.files |-> IF n \in site.there THEN 1 ELSE 0]
  BY DEF ExchangeInit
<1>2. PICK none : none = <<>> /\ steps = none
  BY DEF ExchangeInit
<1>3. stamp = IF ~ site.stamped THEN NoStamp ELSE IF steps = none THEN version ELSE version - 1
  BY <1>1, <1>2 DEF Stamp
<1>4. ASSUME site.updated # none PROVE \E a, b : Updates(a, b)
  <2>1. PICK u, z : u = site.updated /\ z = Gz(site.updated)
    OBVIOUS
  <2>2. u \in site.files /\ z \in site.files /\ {u, z} \cap site.there # {}
    BY <1>1, <1>2, <1>4, <2>1, UpdatedFiles
  <2>3. fs[u] \in {0, 1} /\ fs[z] \in {0, 1} /\ (fs[u] # 0 \/ fs[z] # 0)
    BY <1>1, <2>2
  <2>4. steps \in {<<Left("stamp", version)>>, <<>>}
    BY <1>2
  <2>5. Updates(fs[u], fs[z])
    BY <1>1, <2>1, <2>3, <2>4 DEF Updates
  <2> QED
    BY <2>5
<1> QED
  BY <1>1, <1>2, <1>3, <1>4 DEF UpdateInv

\* An update begins when the one before has ended; what is there is older.
LEMMA BeginUpdates ==
  ASSUME AccessInv, UpdateInv, BeginUpdate
  PROVE  UpdateInv'
<1>1. /\ UNCHANGED <<site, fs, stamp>> /\ version' = version + 1 /\ site.updated # <<>> /\ steps = <<>>
      /\ \E forms \in {{"plain"}, {"gz"}, {"plain", "gz"}} :
           steps' = << [at |-> "plain", version |-> IF "plain" \in forms THEN version' ELSE 0],
                       [at |-> "gz", version |-> IF "gz" \in forms THEN version' ELSE 0],
                       [at |-> "stamp", version |-> version'] >>
  BY DEF BeginUpdate
<1>2. site \in Sites /\ version \in Nat \ {0} /\ fs \in [site.files -> 0 .. MaxVersion]
  BY BoundsAssumption DEF AccessInv, ServerInv
<1>3. PICK v \in Nat \ {0} : v = version /\ version' = v + 1
  BY <1>1, <1>2
<1>4. PICK a, b : /\ a \in {0, v + 1} /\ b \in {0, v + 1} /\ (a # 0 \/ b # 0)
                  /\ steps' = <<Left("plain", a), Left("gz", b), Left("stamp", v + 1)>>
  <2>1. PICK forms \in {{"plain"}, {"gz"}, {"plain", "gz"}} :
          steps' = << [at |-> "plain", version |-> IF "plain" \in forms THEN version' ELSE 0],
                      [at |-> "gz", version |-> IF "gz" \in forms THEN version' ELSE 0],
                      [at |-> "stamp", version |-> version'] >>
    BY <1>1
  <2>2. PICK a, b : a = (IF "plain" \in forms THEN version' ELSE 0) /\ b = IF "gz" \in forms THEN version' ELSE 0
    OBVIOUS
  <2>3. "plain" \in forms \/ "gz" \in forms
    OBVIOUS
  <2>4. a \in {0, v + 1} /\ b \in {0, v + 1} /\ (a # 0 \/ b # 0)
    BY <1>3, <2>2, <2>3
  <2>5. steps' = <<Left("plain", a), Left("gz", b), Left("stamp", v + 1)>>
    BY <1>3, <2>1, <2>2 DEF Left
  <2> QED
    BY <2>4, <2>5
<1>5. PICK none : none = <<>>
  OBVIOUS
<1>6. steps = none /\ steps' # none
  <2>1. \A c, d, e : <<c, d, e>> # <<>>
    OBVIOUS
  <2> QED
    BY <1>1, <1>4, <1>5, <2>1
<1>7. PICK c, d : Updates(c, d)
  BY <1>1 DEF UpdateInv
<1>8. PICK x, y : x = fs[site.updated] /\ y = fs[Gz(site.updated)]
  OBVIOUS
<1>9. x \in {0, v} /\ y \in {0, v}
  <2>1. \A e, f, g : <<e, f, g>> # <<>> /\ <<e, f>> # <<>>
    OBVIOUS
  <2>2. PICK e, f, g : e = Left("plain", c) /\ f = Left("gz", d) /\ g = Left("stamp", version)
    OBVIOUS
  <2> QED
    BY <1>1, <1>3, <1>7, <1>8, <2>1, <2>2 DEF Updates
<1>10. x < v + 1 /\ y < v + 1
  BY <1>9
<1>11. Updates(a, b)'
  BY <1>1, <1>3, <1>4, <1>8, <1>10 DEF Updates
<1>12. stamp' = IF ~ site'.stamped THEN NoStamp ELSE IF steps' = none THEN version' ELSE version' - 1
  BY <1>1, <1>3, <1>5, <1>6 DEF UpdateInv
<1>13. \A n \in site'.files : site'.updated = <<>> \/ n \notin FormsOf(site'.updated)
                              => fs'[n] = IF n \in site'.there THEN 1 ELSE 0
  BY <1>1 DEF UpdateInv
<1> QED
  BY <1>1, <1>5, <1>11, <1>12, <1>13 DEF UpdateInv

LEMMA TailsOfSteps ==
  \A c, d, e : /\ Head(<<c, d, e>>) = c /\ Tail(<<c, d, e>>) = <<d, e>>
               /\ Head(<<c, d>>) = c /\ Tail(<<c, d>>) = <<d>>
               /\ Head(<<c>>) = c /\ Tail(<<c>>) = <<>>
               /\ <<c, d, e>> # <<>> /\ <<c, d>> # <<>> /\ <<c>> # <<>>
OBVIOUS

\* A step of an update gives a form the version it is to have, or tells of it: no form that
\* had this version loses it.
Moves(u, z) ==
  \/ fs' = fs
  \/ fs[u] < version /\ fs[z] < version /\ \E w : fs' = [fs EXCEPT ![u] = w]
  \/ fs[z] < version /\ \E w : fs' = [fs EXCEPT ![z] = w]

LEMMA UpdateGoesOn ==
  ASSUME AccessInv, UpdateInv, UpdateStep
  PROVE  UpdateInv' /\ Moves(site.updated, Gz(site.updated))
<1>1. PICK none : none = <<>>
  OBVIOUS
<1>2. PICK u, z, h : u = site.updated /\ z = Gz(site.updated) /\ h = Head(steps)
  OBVIOUS
<1>3. /\ UNCHANGED <<site, version>> /\ steps # none /\ steps' = Tail(steps)
      /\ h.at = "stamp" => stamp' = Stamp(h.version) /\ fs' = fs
      /\ h.at # "stamp" => /\ fs' = [fs EXCEPT ![IF h.at = "plain" THEN u ELSE z] = h.version]
                           /\ stamp' = stamp
  BY <1>1, <1>2 DEF UpdateStep
<1>4. site \in Sites /\ version \in Nat \ {0} /\ fs \in [site.files -> 0 .. MaxVersion]
  BY BoundsAssumption DEF AccessInv, ServerInv
<1>5. site.updated # none
  BY <1>1, <1>3 DEF UpdateInv
<1>6. u \in site.files /\ z \in site.files /\ u # z
  BY <1>1, <1>2, <1>4, <1>5, UpdatedFiles
<1>7. PICK a, b : Updates(a, b)
  BY <1>1, <1>5 DEF UpdateInv
<1>8. PICK c, d, e : c = Left("plain", a) /\ d = Left("gz", b) /\ e = Left("stamp", version)
  OBVIOUS
<1>9. /\ c.at = "plain" /\ c.version = a /\ d.at = "gz" /\ d.version = b /\ e.at = "stamp" /\ e.version = version
      /\ "plain" # "stamp" /\ "gz" # "stamp" /\ "gz" # "plain"
  BY <1>8 DEF Left
<1>10. /\ a \in {0, version} /\ b \in {0, version} /\ (a # 0 \/ b # 0)
       /\ \/ steps = <<c, d, e>> /\ fs[u] < version /\ fs[z] < version
          \/ steps = <<d, e>> /\ fs[u] = a /\ fs[z] < version
          \/ steps = <<e>> /\ fs[u] = a /\ fs[z] = b
  BY <1>1, <1>2, <1>3, <1>7, <1>8 DEF Updates
<1>11. stamp = IF ~ site.stamped THEN NoStamp ELSE version - 1
  BY <1>1, <1>3 DEF UpdateInv
<1>12. ASSUME fs' = fs \/ (\E w : \E n \in {u, z} : fs' = [fs EXCEPT ![n] = w])
       PROVE  \A n \in site'.files : site'.updated = <<>> \/ n \notin FormsOf(site'.updated)
                                       => fs'[n] = IF n \in site'.there THEN 1 ELSE 0
  <2>1. SUFFICES ASSUME NEW n \in site.files, n # u, n # z PROVE fs'[n] = IF n \in site.there THEN 1 ELSE 0
    BY <1>1, <1>2, <1>3, <1>5 DEF FormsOf
  <2>2. fs[n] = IF n \in site.there THEN 1 ELSE 0
    BY <1>2, <2>1 DEF UpdateInv, FormsOf
  <2> QED
    BY <1>4, <1>12, <2>1, <2>2
<1>13. ASSUME Moves(u, z), Updates(a, b)',
              stamp' = IF ~ site.stamped THEN NoStamp ELSE IF steps' = none THEN version ELSE version - 1
       PROVE  UpdateInv' /\ Moves(site.updated, Gz(site.updated))
  <2>1. fs' = fs \/ (\E w : \E n \in {u, z} : fs' = [fs EXCEPT ![n] = w])
    BY <1>13 DEF Moves
  <2>2. UpdateInv'
    BY <1>1, <1>3, <1>5, <1>12, <1>13, <2>1 DEF UpdateInv
  <2> QED
    BY <1>2, <1>13, <2>2
<1>14. CASE steps = <<c, d, e>> /\ fs[u] < version /\ fs[z] < version
  <2>1. h = c /\ steps' = <<d, e>> /\ steps' # none
    BY <1>1, <1>2, <1>3, <1>14, TailsOfSteps
  <2>2. fs' = [fs EXCEPT ![u] = a] /\ stamp' = stamp
    BY <1>3, <1>9, <2>1
  <2>3. fs'[u] = a /\ fs'[z] = fs[z]
    BY <1>4, <1>6, <2>2
  <2>4. Updates(a, b)'
    BY <1>2, <1>3, <1>8, <1>10, <1>14, <2>1, <2>3 DEF Updates
  <2>5. Moves(u, z)
    BY <1>14, <2>2 DEF Moves
  <2> QED
    BY <1>11, <1>13, <2>1, <2>2, <2>4, <2>5
<1>15. CASE steps = <<d, e>> /\ fs[u] = a /\ fs[z] < version
  <2>1. h = d /\ steps' = <<e>> /\ steps' # none
    BY <1>1, <1>2, <1>3, <1>15, TailsOfSteps
  <2>2. fs' = [fs EXCEPT ![z] = b] /\ stamp' = stamp
    BY <1>3, <1>9, <2>1
  <2>3. fs'[u] = a /\ fs'[z] = b
    BY <1>4, <1>6, <1>15, <2>2
  <2>4. Updates(a, b)'
    BY <1>2, <1>3, <1>8, <1>10, <2>1, <2>3 DEF Updates
  <2>5. Moves(u, z)
    BY <1>15, <2>2 DEF Moves
  <2> QED
    BY <1>11, <1>13, <2>1, <2>2, <2>4, <2>5
<1>16. CASE steps = <<e>> /\ fs[u] = a /\ fs[z] = b
  <2>1. h = e /\ steps' = none
    BY <1>1, <1>2, <1>3, <1>16, TailsOfSteps
  <2>2. fs' = fs /\ stamp' = Stamp(version)
    BY <1>3, <1>9, <2>1
  <2>3. Updates(a, b)'
    BY <1>1, <1>2, <1>3, <1>8, <1>10, <1>16, <2>1, <2>2 DEF Updates
  <2>4. Moves(u, z)
    BY <2>2 DEF Moves
  <2> QED
    BY <1>13, <2>1, <2>2, <2>3, <2>4 DEF Stamp
<1> QED
  BY <1>10, <1>14, <1>15, <1>16

FormsInv == \A p \in Pages : Static(p) => FormInv(p)

LEMMA FormsAlways == AccessInv /\ UpdateInv => FormsInv
BY FormsAtVersions DEF FormsInv

\* What is there of a file as it should be stays so, whatever step of an update comes.
LEMMA WholeStays ==
  ASSUME AccessInv, UpdateInv, UpdateStep, NEW p \in Pages, Static(p), Whole(p)
  PROVE  Whole(p)'
<1>1. /\ UNCHANGED <<site, version>>
  BY DEF UpdateStep
<1>2. UpdateInv' /\ Moves(site.updated, Gz(site.updated)) /\ AccessInv'
  BY UpdateGoesOn, UpdateStepAccess
<1>3. FormsInv'
  BY <1>2, FormsAlways, PTL
<1>4. FormInv(p)'
  BY <1>1, <1>3 DEF FormsInv, Static
<1>5. /\ site \in Sites /\ fs \in [site.files -> 0 .. MaxVersion] /\ fs' \in [site.files -> 0 .. MaxVersion]
      /\ version \in Nat \ {0}
  BY <1>1, <1>2, BoundsAssumption DEF AccessInv, ServerInv
<1>6. PICK n, u, z : n = FileOf(p) /\ u = site.updated /\ z = Gz(site.updated)
  OBVIOUS
<1>7. PICK k : k \in FormsOf(n) \cap site.files /\ fs[k] = Now(p)
  <2>1. PICK k : k = IF IsFile(fs, n) THEN n ELSE Gz(n)
    OBVIOUS
  <2>2. IsFile(fs, k) /\ fs[k] = InFile(p) /\ k \in FormsOf(n)
    BY <1>6, <2>1 DEF Whole, FormsOf, InFile, FileOf
  <2> QED
    BY <1>5, <2>2 DEF Whole, IsFile
<1>8. fs'[k] = Now(p)
  <2>1. CASE n # u
    <3>1. u = <<>> \/ FormsOf(n) \cap {u, z} = {}
      BY <1>5, <1>6, <2>1, StaticFiles DEF FormsOf
    <3>2. u # <<>>
      BY <1>1, <1>6 DEF UpdateInv, UpdateStep
    <3>3. k # u /\ k # z
      BY <1>7, <3>1, <3>2
    <3> QED
      BY <1>2, <1>5, <1>6, <1>7, <3>3 DEF Moves
  <2>2. CASE n = u
    <3>1. Now(p) = version
      BY <1>6, <2>2 DEF Now
    <3>2. k = u \/ k = z
      BY <1>6, <1>7, <2>2 DEF FormsOf
    <3>3. u # <<>>
      BY <1>6 DEF UpdateInv, UpdateStep
    <3>4. u # z
      BY <1>5, <1>6, <3>3, UpdatedFiles
    <3>5. ~ (fs[k] < version)
      BY <1>5, <1>7, <3>1
    <3> QED
      BY <1>2, <1>5, <1>6, <1>7, <3>2, <3>4, <3>5 DEF Moves
  <2> QED
    BY <2>1, <2>2
<1>9. Now(p)' = Now(p) /\ FileOf(p)' = n /\ FormsOf(n)' = FormsOf(n)
  BY <1>1, <1>6 DEF Now, FileOf, FormsOf
<1> QED
  BY <1>1, <1>4, <1>7, <1>8, <1>9 DEF FormInv

-----------------------------------------------------------------------------
(* The file a URI leads to.                                                *)

\* What is behind a in a text
Behind(a, s, b) == IsPrefix(a, s) /\ SubSeq(s, Len(a) + 1, Len(s)) = b

LEMMA RestBehind ==
  ASSUME NEW A, NEW a \in Seq(A), NEW b \in Seq(A), NEW s, s = Cat(a, b)
  PROVE  Behind(a, s, b)
<1>1. PICK m \in Nat, n \in Nat : m = Len(a) /\ n = Len(b)
  OBVIOUS
<1>2. /\ s \in Seq(A) /\ Len(s) = m + n
      /\ \A i \in 1 .. m : s[i] = a[i]
      /\ \A i \in 1 .. n : s[m + i] = b[i]
  <2>1. /\ a \o b \in Seq(A) /\ Len(a \o b) = Len(a) + Len(b)
        /\ \A i \in 1 .. Len(a) : (a \o b)[i] = a[i]
        /\ \A i \in 1 .. Len(b) : (a \o b)[Len(a) + i] = b[i]
    BY CatPlaces
  <2> QED
    BY <1>1, <2>1 DEF Cat
<1>3. IsPrefix(a, s)
  BY <1>1, <1>2, PrefixPointwise
<1>4. SubSeq(s, m + 1, m + n) = [i \in 1 .. n |-> s[m + i]]
  <2>1. PICK k \in Nat, l \in Nat : k = m + 1 /\ l = m + n /\ l - k + 1 = n
    BY <1>2
  <2>2. SubSeq(s, k, l) = [i \in 1 .. l - k + 1 |-> s[k + i - 1]]
    BY <1>2, <2>1
  <2>3. \A i \in 1 .. n : k + i - 1 = m + i
    BY <2>1
  <2> QED
    BY <2>1, <2>2, <2>3
<1>5. b = [i \in 1 .. n |-> b[i]]
  BY <1>1
<1> QED
  BY <1>1, <1>2, <1>3, <1>4, <1>5 DEF Behind

LEMMA TrimmedText ==
  ASSUME NEW S, "/" \in S, NEW x \in Seq(S)
  PROVE  Trimmed(x) \in Seq(S)
<1>1. PICK slash : slash = "/"
  OBVIOUS
<1>2. PICK y : y = WithSlash(x)
  OBVIOUS
<1>3. y \in Seq(S)
  <2>1. <<slash>> \in Seq(S)
    BY <1>1
  <2>2. <<slash>> \o x \in Seq(S)
    BY <2>1
  <2>3. y = x \/ y = <<slash>> \o x
    BY <1>1, <1>2 DEF WithSlash
  <2> QED
    BY <2>2, <2>3
<1>4. Len(y) # 0
  <2>1. CASE y = x /\ x # <<>>
    BY <2>1
  <2>2. CASE y = <<slash>> \o x
    BY <1>1, <2>2
  <2> QED
    BY <1>1, <1>2, <2>1, <2>2 DEF WithSlash
<1>5. SubSeq(y, 1, Len(y) - 1) \in Seq(S)
  BY <1>3, <1>4
<1> QED
  BY <1>2, <1>3, <1>5 DEF Trimmed, Front

\* A URI whose path is rewritten nowhere stays.
LEMMA NotRewritten ==
  ASSUME site \in Sites, NEW uri, NEW path, path = Before(uri, "?"),
         \A i \in DOMAIN site.rewrites : site.rewrites[i].from # path
  PROVE  Rewritten(uri) = uri
<1>1. PICK rewrites : rewrites = site.rewrites
  OBVIOUS
<1>2. PICK n \in Nat : n = Len(rewrites) /\ DOMAIN rewrites = 1 .. n
  <2>1. rewrites \in Seq([from : Text, to : Text])
    BY <1>1, SitesAssumption
  <2> QED
    BY <2>1
<1>3. PICK I : I = {i \in 1 .. n : rewrites[i].from = Before(uri, "?")}
  OBVIOUS
<1>4. PICK k : k = IF I # {} THEN Min(I) ELSE 0
  OBVIOUS
<1>5. Rewritten(uri) = IF k = 0 THEN uri ELSE rewrites[k].to
  BY <1>1, <1>2, <1>3, <1>4 DEF Rewritten, SelectInSeq
<1>6. I = {}
  BY <1>1, <1>2, <1>3
<1> QED
  BY <1>4, <1>5, <1>6

\* The URI the browser asks for is below the mount point, and what is behind this leads to
\* the page's file.
Leads(uri, rest, file) ==
  /\ IsPrefix(Trimmed(site.mount), uri)
  /\ urlDecode(Before(SubSeq(uri, Len(Trimmed(site.mount)) + 1, Len(uri)), "?")) = rest
  /\ LeadsTo(site, rest, file)

LEMMA UriLeads ==
  ASSUME site \in Sites, NEW p \in Pages, Static(p), NEW query \in site.queries, NEW uri, uri = UriOf(p, query)
  PROVE  Rewritten(uri) = uri /\ \E rest : Leads(uri, rest, FileOf(p))
<1>1. PICK path, mount : path = site.page[p].path /\ mount = Trimmed(site.mount)
  OBVIOUS
<1>2. PICK S : Text = Seq(S)
  BY DEF Text
<1>3. path \in Seq(S) /\ site.mount \in Seq(S) /\ query \in Seq([name : Seq(S), value : Seq(S)])
  <2>1. site.mount \in Text /\ site.page[p].path \in Text
    BY FilesAssumption, SitesAssumption
  <2>2. query \in Seq([name : Text, value : Text])
    BY SitesAssumption
  <2> QED
    BY <1>1, <1>2, <2>1, <2>2
<1>4. p \in {q \in Pages : site.page[q].type = "static"}
  BY DEF Static
<1>5. /\ \A i \in DOMAIN site.rewrites : site.rewrites[i].from # PathText(path)
      /\ \E i \in 1 .. Len(path) + 1 :
           /\ PathText(path) = mount \o PathText(SubSeq(path, i, Len(path)))
           /\ LeadsTo(site, SubSeq(path, i, Len(path)), FileOf(p))
  BY <1>1, <1>4, FilesAssumption DEF FileOf
<1>6. Rewritten(uri) = uri
  BY <1>1, <1>5, QueryOfUri, NotRewritten
<1>7. PICK i \in 1 .. Len(path) + 1 :
        /\ PathText(path) = Cat(mount, PathText(SubSeq(path, i, Len(path))))
        /\ LeadsTo(site, SubSeq(path, i, Len(path)), FileOf(p))
  BY <1>5 DEF Cat
<1>8. PICK rest : rest = SubSeq(path, i, Len(path)) /\ rest \in Seq(S)
  <2>0. PICK l \in Nat : l = Len(path)
    <3>1. path \in Seq(S)
      BY <1>3
    <3> QED
      BY <3>1
  <2>1. PICK k \in Nat : k = i /\ l = Len(path) /\ k \in 1 .. l + 1
    <3>1. i \in 1 .. Len(path) + 1
      BY <1>7
    <3> QED
      BY <2>0, <3>1
  <2>2. SubSeq(path, k, l) \in Seq(S)
    <3>1. path \in Seq(S)
      BY <1>3
    <3>2. \A j \in k .. l : path[j] \in S
      BY <2>1, <3>1
    <3> QED
      BY <2>1, <3>1, <3>2
  <2> QED
    BY <2>1, <2>2
<1>9. PICK below : below = PathText(rest)
  OBVIOUS
<1>10. below \in Seq(Plain(S) \cup {"/"}) /\ urlDecode(below) = rest
  BY <1>8, <1>9, PathPlain
<1>11. PICK T : T = S \cup {"/"} /\ mount \in Seq(T)
  <2>1. PICK slash : slash = "/"
    OBVIOUS
  <2>2. PICK T : T = S \cup {slash}
    OBVIOUS
  <2>3. site.mount \in Seq(T)
    BY <1>3, <2>2
  <2> QED
    BY <1>1, <2>1, <2>2, <2>3, TrimmedText
<1>12. PICK tail : tail = IF query = <<>> THEN <<>> ELSE <<"?">> \o FormText(query)
  OBVIOUS
<1>13. PICK A : A = T \cup (Plain(S) \cup {"/"}) \cup (Plain(S) \cup {"=", "&"}) \cup {"?"}
  OBVIOUS
<1>14. mount \in Seq(A) /\ below \in Seq(A)
  BY <1>10, <1>11, <1>13
<1>15. tail \in Seq(A)
  <2>1. FormText(query) \in Seq(A)
    <3>1. FormText(query) \in Seq(Plain(S) \cup {"=", "&"})
      BY <1>3, FormTyped
    <3> QED
      BY <1>13, <3>1
  <2>2. PICK mark : mark = "?"
    OBVIOUS
  <2>3. <<mark>> \in Seq(A)
    BY <1>13, <2>2
  <2>4. <<mark>> \o FormText(query) \in Seq(A)
    BY <2>1, <2>3
  <2>5. <<>> \in Seq(A)
    OBVIOUS
  <2> QED
    BY <1>12, <2>2, <2>4, <2>5
<1>16. uri = Cat(Cat(mount, below), tail)
  BY <1>1, <1>7, <1>8, <1>9, <1>12 DEF UriOf, Cat
<1>17. PICK behind : behind = WithQuery(below, query)
  OBVIOUS
<1>18. behind = Cat(below, tail)
  BY <1>12, <1>17, Zenon DEF WithQuery, Cat
<1>19. uri = Cat(mount, behind)
  BY <1>14, <1>15, <1>16, <1>18, CatAssociative
<1>20. behind \in Seq(A)
  <2>1. below \o tail \in Seq(A)
    BY <1>14, <1>15
  <2> QED
    BY <1>18, <2>1 DEF Cat
<1>21. Behind(mount, uri, behind)
  BY <1>14, <1>19, <1>20, RestBehind
<1>22. Before(behind, "?") = below
  BY <1>3, <1>10, <1>17, CutAtQuery
<1>23. Leads(uri, rest, FileOf(p))
  BY <1>1, <1>7, <1>8, <1>10, <1>21, <1>22, Zenon DEF Leads, Behind
<1> QED
  BY <1>6, <1>23

LEMMA HandlerMembers ==
  ASSUME NEW m, NEW r, NEW i, NEW d, NEW c, NEW h, HandlerOf(m, r, i, d, c, h)
  PROVE  h.mount = m /\ h.root = r /\ h.isDir = i /\ h.defaultFile = d /\ h.cache = c
BY DEF HandlerOf

\* A file of the site is a file, not none.
LEMMA SomeFile ==
  ASSUME site \in Sites, DOMAIN fs = site.files, \A n \in DOMAIN fs : fs[n] \in 0 .. MaxVersion,
         NEW n, IsFile(fs, n)
  PROVE  Open(fs, n) \notin {NoFile, NoBody}
<1>1. n \in site.files /\ fs[n] \in 0 .. MaxVersion
  BY DEF IsFile
<1>2. \A f \in site.files, v \in 0 .. MaxVersion : [name |-> f, version |-> v] \notin {NoFile, NoBody}
  BY FilesAssumption
<1> QED
  BY <1>1, <1>2 DEF Open

\* Where the rest of the URI leads to a file, the handler finds it, if it is there.
LEMMA GetFileLeads ==
  ASSUME AccessInv, NEW uri, NEW rest, NEW file, Leads(uri, rest, file), NEW k, k = GetFile(handler, fs, uri)
  PROVE  Finds(k, fs, file)
<1>1. /\ site \in Sites /\ DOMAIN fs = site.files /\ \A n \in DOMAIN fs : fs[n] \in 0 .. MaxVersion
  BY DEF AccessInv, ServerInv
<1>2. PICK m, r, i, d, c : /\ m = Trimmed(site.mount) /\ r = Trimmed(site.root)
                           /\ i = (Last(WithSlash(site.root)) = "/")
                           /\ d = site.defaultFile /\ c = site.cache
  OBVIOUS
<1>3. HandlerOf(m, r, i, d, c, handler)
  BY <1>2 DEF AccessInv, ServerInv, StaticHandler
<1>4. /\ handler.mount = m /\ handler.root = r /\ handler.isDir = i /\ handler.defaultFile = d
  BY <1>3, HandlerMembers
<1>5. PICK slash, dot : slash = "/" /\ dot = "."
  OBVIOUS
<1>6. urlDecode(Before(SubSeq(uri, Len(m) + 1, Len(uri)), "?")) = rest /\ LeadsTo(site, rest, file)
  BY <1>2 DEF Leads
<1> DEFINE path == r \o rest
           directory == Last(IF rest = <<>> THEN WithSlash(site.root) ELSE rest) = slash
           default == (IF path # <<>> /\ Last(path) = slash THEN path ELSE Append(path, slash)) \o d
           There(n) == {n, Gz(n)} \cap site.files # {}
           closed == [handler EXCEPT !.file = NoFile]
           asFile == IF directory THEN closed ELSE FileExists(handler, fs, path)
<1>7. /\ ~ \E j \in 1 .. Len(rest) - 1 : rest[j] = dot /\ rest[j + 1] = dot
      /\ \/ ~ directory /\ file = path /\ (d = <<>> \/ ~ There(default))
         \/ (directory \/ ~ There(path)) /\ d # <<>> /\ file = default
  BY <1>2, <1>5, <1>6 DEF LeadsTo
<1>8. k = IF asFile.file # NoFile \/ d = <<>> THEN asFile ELSE FileExists(handler, fs, default)
  <2>1. (IF rest = <<>> THEN i ELSE Last(rest) = slash) = directory
    BY <1>2, <1>5
  <2> QED
    BY <1>4, <1>5, <1>6, <1>7, <2>1 DEF GetFile
<1>9. PICK x : x = path
  OBVIOUS
<1>10. PICK y : y = default
  OBVIOUS
<1>11. PICK fx, fy : fx = FileExists(handler, fs, x) /\ fy = FileExists(handler, fs, y)
  OBVIOUS
<1>12. Finds(fx, fs, x) /\ Finds(fy, fs, y)
  BY <1>3, <1>11, FileExistsFinds
<1>13. ASSUME NEW n, NEW f, Finds(f, fs, n), ~ There(n) PROVE f.file = NoFile
  BY <1>1, <1>13 DEF Finds, IsFile
<1>14. closed.file = NoFile
  BY <1>3, HandlerCloses
<1>15. CASE ~ directory /\ file = path /\ (d = <<>> \/ ~ There(default))
  <2>1. asFile = fx
    BY <1>9, <1>11, <1>15
  <2>2. CASE fx.file # NoFile \/ d = <<>>
    <3>1. k = fx
      BY <1>8, <2>1, <2>2
    <3> QED
      BY <1>9, <1>12, <1>15, <3>1
  <2>3. CASE fx.file = NoFile /\ d # <<>>
    <3>1. k = fy
      BY <1>8, <1>10, <1>11, <2>1, <2>3
    <3>2. k.file = NoFile
      <4>1. ~ There(default)
        BY <1>15, <2>3
      <4>2. ~ There(y)
        BY <1>10, <4>1
      <4>3. fy.file = NoFile
        BY <1>12, <1>13, <4>2
      <4> QED
        BY <3>1, <4>3
    <3>3. ~ IsFile(fs, x) /\ ~ IsFile(fs, Gz(x))
      BY <1>1, <1>12, <2>3, SomeFile DEF Finds
    <3> QED
      BY <1>9, <1>15, <3>2, <3>3 DEF Finds
  <2> QED
    BY <2>2, <2>3
<1>16. CASE (directory \/ ~ There(path)) /\ d # <<>> /\ file = default
  <2>1. asFile.file = NoFile
    <3>1. directory \/ fx.file = NoFile
      BY <1>9, <1>12, <1>13, <1>16
    <3> QED
      BY <1>9, <1>11, <1>14, <3>1
  <2>2. k = fy
    BY <1>8, <1>10, <1>11, <1>16, <2>1
  <2> QED
    BY <1>10, <1>12, <1>16, <2>2
<1> QED
  BY <1>7, <1>15, <1>16

-----------------------------------------------------------------------------
(* What a browser shows of a file, and keeps of it.                        *)

\* Of a file the packed form is sent where the plain one is not there.
PackedOnly(n) == ~ IsFile(fs, n) /\ IsFile(fs, Gz(n))
BodyOf(n) == IF IsFile(fs, n) THEN Open(fs, n) ELSE IF IsFile(fs, Gz(n)) THEN Open(fs, Gz(n)) ELSE NoBody

\* The answers of the static file handler: it is the one the browser has, or it is sent.
Sends(q, n, rq, etag) ==
  \/ q.code = 304 /\ stamp # NoStamp /\ rq.ifModifiedSince = stamp
  \/ q.code = 304 /\ rq.ifNoneMatch = etag
  \/ q.code = 200 /\ Carries(q, PackedOnly(n), stamp, etag) /\ q.body = BodyOf(n)

LEMMA FileCarries ==
  ASSUME site \in Sites, NEW r, r = WithCors(New), NEW n, FormsOf(n) \cap site.dirs = {},
         NEW q, q = FileResponse(r, fs, site.dirs, n), NEW stmp, NEW etag
  PROVE  Carries(q, PackedOnly(n), stmp, etag) /\ q.code = 200 /\ q.body = BodyOf(n)
<1>1. PICK packed \in BOOLEAN : packed = PackedOnly(n)
  BY DEF PackedOnly
<1>2. PICK lm, et, ce, gzip, S, E, G, N, F :
        /\ lm = "Last-Modified" /\ et = "ETag" /\ ce = "Content-Encoding" /\ gzip = "gzip"
        /\ S = {stmp} /\ E = {etag} /\ G = {gzip} /\ N = {} /\ F = {"Content-Encoding", "Content-Disposition"}
  OBVIOUS
<1>3. lm \notin F /\ et \notin F
  BY <1>2
<1>4. lm \in HandlerFields /\ et \in HandlerFields /\ ce \in HandlerFields
  BY <1>2 DEF HandlerFields
<1>5. Says(r, lm, N) /\ Says(r, et, N) /\ Says(r, ce, N) /\ IsResponse(r) /\ r.code = 200
  BY <1>2, <1>4, OwnFields
<1>6. \A k \in {n, Gz(n)} : Exists(fs, site.dirs, k) <=> IsFile(fs, k)
  BY DEF Exists, FormsOf
<1>7. packed <=> ~ Exists(fs, site.dirs, n) /\ Exists(fs, site.dirs, Gz(n))
  BY <1>1, <1>6 DEF PackedOnly
<1>8. PICK name : name = IF packed THEN Gz(n) ELSE n
  OBVIOUS
<1>9. /\ Follows(r, q, F) /\ q.code = r.code
      /\ q.body = IF IsFile(fs, name) THEN Open(fs, name) ELSE NoBody
      /\ packed => Says(q, ce, G) /\ \E k \in Nat : Early(q, ce, gzip, k)
      /\ ~ packed => \A V : Says(r, ce, V) => Says(q, ce, V)
  BY <1>2, <1>5, <1>7, <1>8, FileResponseSends
<1>10. Says(q, lm, N) /\ Says(q, et, N) /\ IsResponse(q)
  BY <1>3, <1>5, <1>9 DEF Follows
<1>11. ~ packed => Says(q, ce, N)
  BY <1>5, <1>9
<1>12. \A f, V : Says(q, f, N) => Says(q, f, V)
  BY <1>2 DEF Says
<1>13. Says(q, ce, G)
  BY <1>9, <1>11, <1>12
<1>14. ASSUME NEW f, Says(q, f, N) PROVE Ahead(q, ce, gzip, f)
  BY <1>2, <1>14 DEF Says, Ahead
<1>15. Carries(q, packed, stmp, etag)
  BY <1>2, <1>9, <1>10, <1>11, <1>12, <1>13, <1>14 DEF Carries
<1>16. q.body = BodyOf(n)
  BY <1>1, <1>8, <1>9 DEF BodyOf, PackedOnly
<1> QED
  BY <1>1, <1>5, <1>9, <1>15, <1>16

LEMMA StaticSends ==
  ASSUME site \in Sites, NEW r, r = WithCors(New), NEW h, NEW n, n = h.filename, FormsOf(n) \cap site.dirs = {},
         NEW rq, NEW q, q = HandleStatic(h, rq, r, fs, site.dirs, stamp)
  PROVE  Sends(q, n, rq, h.file)
<1>1. PICK etag : etag = h.file
  OBVIOUS
<1>2. PICK told304, same : /\ told304 <=> stamp # NoStamp /\ rq.ifModifiedSince = stamp
                           /\ same <=> h.cache /\ rq.ifNoneMatch = etag
  OBVIOUS
<1>3. PICK s, v, x : /\ s = AddHeaders(r, Validators(h, NoStamp, etag))
                     /\ v = Validators(h, stamp, etag) /\ x = FileResponse(r, fs, site.dirs, n)
  OBVIOUS
<1>4. /\ told304 => q = SetCode(r, 304)
      /\ ~ told304 /\ same => q = SetCode(s, 304)
      /\ ~ told304 /\ ~ same => q = AddHeaders(x, v)
  BY <1>1, <1>2, <1>3 DEF HandleStatic, Size
<1>5. IsResponse(r)
  BY WithCorsKeeps, NewIsResponse
<1>6. CASE told304
  BY <1>2, <1>4, <1>5, <1>6, SetCodeSets DEF Sends
<1>7. CASE ~ told304 /\ same
  <2>1. IsResponse(s)
    BY <1>3, <1>5, ValidatorsFollow DEF Follows
  <2>2. q.code = 304
    BY <1>4, <1>7, <2>1, SetCodeSets
  <2> QED
    BY <1>1, <1>2, <1>7, <2>2 DEF Sends
<1>8. CASE ~ told304 /\ ~ same
  <2>1. Carries(x, PackedOnly(n), stamp, etag) /\ x.code = 200 /\ x.body = BodyOf(n)
    BY <1>3, FileCarries
  <2>2. PackedOnly(n) \in BOOLEAN
    BY DEF PackedOnly
  <2>3. q = AddHeaders(x, Validators(h, stamp, etag))
    BY <1>3, <1>4, <1>8
  <2>4. Carries(q, PackedOnly(n), stamp, etag) /\ q.code = x.code /\ q.body = x.body
    BY <2>1, <2>2, <2>3, ValidatorsCarry
  <2> QED
    BY <1>1, <2>1, <2>4 DEF Sends
<1> QED
  BY <1>6, <1>7, <1>8

\* A body as a browser shows it, and what it keeps of an answer
ShownOf(wire) ==
  IF wire.body # NoBody /\ (Last(wire.body.name) = ".gz" <=> Encoding(wire) = "gzip")
  THEN wire.body.version ELSE 0
KeptOf(r) ==
  Kept(ShownOf(OnWire(r)), Value(OnWire(r), "ETag", NoFile), Value(OnWire(r), "Last-Modified", NoStamp))

\* A whole file is shown, if a validator or all headers arrive.
LEMMA ShownSent ==
  ASSUME AccessInv, NEW p \in Pages, Static(p), Whole(p), NEW n, n = FileOf(p),
         NEW q, NEW etag, Carries(q, PackedOnly(n), stamp, etag), q.body = BodyOf(n),
         NEW wire, wire = OnWire(q),
         \/ Value(wire, "Last-Modified", NoStamp) # NoStamp \/ Value(wire, "ETag", NoFile) # NoFile
         \/ AllFit(q)
  PROVE  ShownOf(wire) = Now(p)
<1>1. /\ site \in Sites /\ DOMAIN fs = site.files /\ \A k \in DOMAIN fs : fs[k] \in 0 .. MaxVersion
  BY DEF AccessInv, ServerInv
<1>2. Last(n) # ".gz" /\ n \in Text
  BY <1>1, StaticFiles
<1>3. Last(Gz(n)) = ".gz"
  <2>1. PICK S : Text = Seq(S)
    BY DEF Text
  <2> QED
    BY <1>2, <2>1, GzDiffers
<1>4. wire.body = BodyOf(n)
  BY WireProperties DEF Carries
<1>5. PICK lm, et, ce : /\ lm = Value(wire, "Last-Modified", NoStamp) /\ et = Value(wire, "ETag", NoFile)
                        /\ ce = Encoding(wire)
  OBVIOUS
<1>6. ce = "gzip" <=> PackedOnly(n)
  <2>1. PackedOnly(n) \in BOOLEAN
    BY DEF PackedOnly
  <2>2. lm # NoStamp \/ et # NoFile \/ AllFit(q) => (ce = "gzip" <=> PackedOnly(n))
    BY <1>5, <2>1, WireCarries
  <2> QED
    BY <1>5, <2>2
<1>7. InFile(p) = Now(p) /\ (IsFile(fs, n) \/ IsFile(fs, Gz(n)))
  BY DEF Whole, FormsOf
<1>8. InFile(p) = IF IsFile(fs, n) THEN fs[n] ELSE fs[Gz(n)]
  BY DEF InFile, FileOf
<1>9. PICK k : k = IF IsFile(fs, n) THEN n ELSE Gz(n)
  OBVIOUS
<1>10. IsFile(fs, k) /\ InFile(p) = fs[k] /\ (Last(k) = ".gz" <=> PackedOnly(n))
  BY <1>2, <1>3, <1>7, <1>8, <1>9 DEF PackedOnly
<1>11. wire.body = Open(fs, k)
  BY <1>4, <1>7, <1>9 DEF BodyOf
<1>12. wire.body # NoBody
  BY <1>1, <1>10, <1>11, SomeFile
<1>13. wire.body.name = k /\ wire.body.version = fs[k]
  BY <1>11 DEF Open
<1> QED
  BY <1>5, <1>6, <1>7, <1>10, <1>12, <1>13 DEF ShownOf

\* What a browser has kept of a page is what is stored, if the page's validators still are
\* the ones it was given.
Holds(p, k) ==
  /\ k.stamp # NoStamp =>
       k.stamp \in 1 .. stamp /\ (FileOf(p) # site.updated \/ k.stamp = version => k.content = Now(p))
  /\ k.etag # NoFile =>
       k.etag.version \in 1 .. Now(p) /\ (k.etag.version = Now(p) => k.content = Now(p))

LEMMA HoldsSent ==
  ASSUME AccessInv, UpdateInv, NEW p \in Pages, Static(p), NEW n, n = FileOf(p),
         NEW q, NEW etag, Carries(q, PackedOnly(n), stamp, etag), q.body = BodyOf(n),
         etag.version \in 1 .. Now(p), etag.version = Now(p) => Whole(p)
  PROVE  Holds(p, KeptOf(q))
<1>1. FormInv(p)
  BY FormsAtVersions
<1>2. PICK wire : wire = OnWire(q)
  OBVIOUS
<1>3. PICK lm, et, ce, k : /\ lm = Value(wire, "Last-Modified", NoStamp) /\ et = Value(wire, "ETag", NoFile)
                           /\ ce = Encoding(wire) /\ k = KeptOf(q)
  OBVIOUS
<1>4. k.content = ShownOf(wire) /\ k.etag = et /\ k.stamp = lm
  BY <1>2, <1>3 DEF KeptOf, Kept
<1>5. lm \in {stamp, NoStamp} /\ et \in {etag, NoFile}
  <2>1. PackedOnly(n) \in BOOLEAN
    BY DEF PackedOnly
  <2> QED
    BY <1>2, <1>3, <2>1, WireCarries
<1>6. ASSUME Whole(p), lm # NoStamp \/ et # NoFile PROVE k.content = Now(p)
  BY <1>2, <1>3, <1>4, <1>6, ShownSent
<1>7. lm # NoStamp => /\ lm = stamp /\ stamp \in 1 .. stamp
                      /\ FileOf(p) # site.updated \/ lm = version => k.content = Now(p)
  BY <1>1, <1>5, <1>6 DEF FormInv, NoStamp
<1>8. et # NoFile => /\ et.version \in 1 .. Now(p)
                     /\ et.version = Now(p) => k.content = Now(p)
  BY <1>5, <1>6
<1> QED
  BY <1>3, <1>4, <1>7, <1>8 DEF Holds

-----------------------------------------------------------------------------
(* What a browser shows is what is stored.                                 *)

StoreInv ==
  /\ store = [p \in Pages |-> store[p]]
  /\ \A p \in Pages : Static(p) => Holds(p, store[p])

\* A request for a static file has the validators the browser has kept.
RequestInv ==
  stage # "none" =>
    /\ ~ touched => steps = <<>>
    /\ Static(page) => /\ req.method = "GET"
                       /\ req.ifNoneMatch = store[page].etag /\ req.ifModifiedSince = store[page].stamp

\* The file that was opened is the page's.
OpenInv ==
  stage = "open" =>
    /\ handler.filename = FileOf(page) /\ handler.file # NoFile
    /\ handler.file.version \in 1 .. Now(page)
    /\ handler.file.version = Now(page) => Whole(page)
    /\ ~ touched => handler.file.version = Now(page)

\* The answer is the file, or tells that the browser has it.
AnswerInv ==
  stage = "answered" /\ Static(page) /\ res.code # 401 =>
    /\ res.code = 200 => Holds(page, KeptOf(res))
    /\ ~ touched => \/ res.code = 200 /\ (AllFit(res) => ShownOf(OnWire(res)) = Now(page))
                    \/ res.code = 304 /\ store[page].content = Now(page)

FilesInv == UpdateInv /\ StoreInv /\ RequestInv /\ OpenInv /\ AnswerInv
CacheInv == ReadInv /\ FilesInv

LEMMA ShowsOf == Shows = IF OnWire(res).code = 304 THEN store[page].content ELSE ShownOf(OnWire(res))
BY Zenon DEF Shows, ShownOf, Encoding

LEMMA PageAsked ==
  ASSUME CacheInv, stage # "none"
  PROVE  page \in Pages
BY DEF CacheInv, ReadInv, AccessInv, StageInv

LEMMA CacheMeans == CacheInv => ShownAsStored
<1> SUFFICES ASSUME CacheInv, stage = "answered", Static(page), ~ touched, AllFit(res), res.code # 401
             PROVE  res.code \in {200, 304} /\ Shows = InFile(page)
  BY DEF ShownAsStored
<1>1. page \in Pages
  BY PageAsked
<1>2. FormInv(page)
  BY <1>1, FormsAtVersions DEF CacheInv, FilesInv, ReadInv
<1>3. steps = <<>>
  BY DEF CacheInv, FilesInv, RequestInv
<1>4. InFile(page) = Now(page)
  BY <1>2, <1>3 DEF FormInv, Whole
<1>5. OnWire(res).code = res.code
  BY WireProperties DEF CacheInv, ReadInv, AccessInv, StageInv
<1>6. \/ res.code = 200 /\ ShownOf(OnWire(res)) = Now(page)
      \/ res.code = 304 /\ store[page].content = Now(page)
  BY DEF CacheInv, FilesInv, AnswerInv
<1> QED
  BY <1>4, <1>5, <1>6, ShowsOf

\* What no variable of its own changes stays true.
LEMMA FramesCache ==
  /\ UpdateInv /\ UNCHANGED <<site, fs, steps, version, stamp>> => UpdateInv'
  /\ StoreInv /\ UNCHANGED <<site, version, stamp, store>> => StoreInv'
  /\ /\ RequestInv /\ UNCHANGED <<site, steps, touched, page, req, store>>
     /\ stage = "none" => stage' = "none"
     => RequestInv'
  /\ OpenInv /\ UNCHANGED <<site, version, fs, handler, stage, page, touched>> => OpenInv'
  /\ AnswerInv /\ UNCHANGED <<site, version, stamp, store, stage, page, res, touched>> => AnswerInv'
<1>1. ASSUME UpdateInv, UNCHANGED <<site, fs, steps, version, stamp>> PROVE UpdateInv'
  BY <1>1 DEF UpdateInv, Updates
<1>2. ASSUME StoreInv, UNCHANGED <<site, version, stamp, store>> PROVE StoreInv'
  BY <1>2 DEF StoreInv, Static, Holds, FileOf, Now
<1>3. ASSUME RequestInv, UNCHANGED <<site, steps, touched, page, req, store>>, stage = "none" => stage' = "none"
      PROVE  RequestInv'
  BY <1>3 DEF RequestInv, Static
<1>4. ASSUME OpenInv, UNCHANGED <<site, version, fs, handler, stage, page, touched>> PROVE OpenInv'
  BY <1>4 DEF OpenInv, Whole, FileOf, Now, InFile
<1>5. ASSUME AnswerInv, UNCHANGED <<site, version, stamp, store, stage, page, res, touched>> PROVE AnswerInv'
  <2>1. KeptOf(res)' = KeptOf(res) /\ AllFit(res)' = AllFit(res) /\ ShownOf(OnWire(res))' = ShownOf(OnWire(res))
    BY <1>5
  <2>2. Holds(page, KeptOf(res)) => Holds(page, KeptOf(res))'
    BY <1>5, <2>1 DEF Holds, FileOf, Now
  <2> QED
    BY <1>5, <2>1, <2>2 DEF AnswerInv, Static, FileOf, Now
<1> QED
  BY <1>1, <1>2, <1>3, <1>4, <1>5

\* What holds of what was kept goes on to hold, while stamps and versions grow.
LEMMA HoldsLonger ==
  ASSUME AccessInv, UpdateInv, site' = site, stamp \in Nat, stamp' \in Nat, stamp <= stamp',
         version' = version \/ version' = version + 1,
         NEW p \in Pages, Static(p), NEW k, Holds(p, k)
  PROVE  Holds(p, k)'
<1>1. FormInv(p)
  BY FormsAtVersions
<1>2. PICK v \in Nat \ {0}, w \in Nat \ {0}, s \in Nat, t \in Nat :
        v = version /\ w = version' /\ s = stamp /\ t = stamp'
  <2>1. version \in Nat \ {0}
    BY BoundsAssumption DEF AccessInv, ServerInv
  <2>2. version' \in Nat \ {0}
    BY <2>1
  <2> QED
    BY <2>1, <2>2
<1>3. PICK n : n = FileOf(p)
  OBVIOUS
<1>4. s <= v /\ s <= t /\ (w = v \/ w = v + 1)
  BY <1>1, <1>2 DEF FormInv
<1>5. FileOf(p)' = n /\ Now(p) = (IF n = site.updated THEN v ELSE 1) /\ Now(p)' = IF n = site.updated THEN w ELSE 1
  BY <1>2, <1>3 DEF FileOf, Now
<1>6. k.stamp # NoStamp => k.stamp \in 1 .. s /\ (n # site.updated \/ k.stamp = v => k.content = Now(p))
  BY <1>2, <1>3 DEF Holds
<1>7. k.etag # NoFile =>
        k.etag.version \in 1 .. Now(p) /\ (k.etag.version = Now(p) => k.content = Now(p))
  BY DEF Holds
<1>8. k.stamp # NoStamp => k.stamp \in 1 .. t /\ (n # site.updated \/ k.stamp = w => k.content = Now(p)')
  <2>1. SUFFICES ASSUME k.stamp # NoStamp
                 PROVE  k.stamp \in 1 .. t /\ (n # site.updated \/ k.stamp = w => k.content = Now(p)')
    OBVIOUS
  <2>2. k.stamp \in 1 .. s
    BY <1>6, <2>1
  <2>3. k.stamp \in 1 .. t /\ k.stamp <= v
    BY <1>4, <2>2
  <2>4. CASE n # site.updated
    BY <1>5, <1>6, <2>1, <2>3, <2>4
  <2>5. CASE n = site.updated /\ k.stamp = w
    <3>1. w = v
      BY <1>4, <2>3, <2>5
    <3> QED
      BY <1>5, <1>6, <2>1, <2>3, <2>5, <3>1
  <2> QED
    BY <2>3, <2>4, <2>5
<1>9. k.etag # NoFile =>
        k.etag.version \in 1 .. Now(p)' /\ (k.etag.version = Now(p)' => k.content = Now(p)')
  <2>1. SUFFICES ASSUME k.etag # NoFile
                 PROVE  k.etag.version \in 1 .. Now(p)' /\ (k.etag.version = Now(p)' => k.content = Now(p)')
    OBVIOUS
  <2>2. CASE Now(p)' = Now(p)
    BY <1>7, <2>1, <2>2
  <2>3. CASE Now(p) = v /\ Now(p)' = v + 1
    BY <1>7, <2>1, <2>3
  <2> QED
    BY <1>4, <1>5, <2>2, <2>3
<1> QED
  BY <1>2, <1>3, <1>5, <1>8, <1>9 DEF Holds

LEMMA StoreLonger ==
  ASSUME AccessInv, UpdateInv, site' = site, stamp \in Nat, stamp' \in Nat, stamp <= stamp',
         version' = version \/ version' = version + 1, StoreInv, store' = store
  PROVE  StoreInv'
<1>1. ASSUME NEW p \in Pages, Static(p)' PROVE Holds(p, store[p])'
  <2>1. PICK k : k = store[p]
    OBVIOUS
  <2>2. Static(p)
    BY <1>1 DEF Static
  <2>3. Holds(p, k)'
    BY <2>1, <2>2, HoldsLonger DEF StoreInv
  <2>4. store'[p] = k
    BY <2>1
  <2> QED
    BY <2>3, <2>4 DEF Holds
<1> QED
  BY <1>1 DEF StoreInv

LEMMA InitCache == ExchangeInit => CacheInv
<1> SUFFICES ASSUME ExchangeInit PROVE CacheInv
  OBVIOUS
<1>1. stage = "none" /\ store = [p \in Pages |-> Nothing]
  BY DEF ExchangeInit
<1>2. RequestInv /\ OpenInv /\ AnswerInv
  BY <1>1 DEF RequestInv, OpenInv, AnswerInv
<1>3. \A p : Holds(p, Nothing)
  BY DEF Holds, Nothing, Kept
<1>4. StoreInv
  BY <1>1, <1>3 DEF StoreInv
<1> QED
  BY <1>2, <1>4, InitRead, InitUpdate DEF CacheInv, FilesInv

\* A page is asked for, with the validators that were kept.
LEMMA AskCache ==
  ASSUME CacheInv, NEW p \in Pages, AskAny(p)
  PROVE  FilesInv'
<1>1. /\ UNCHANGED <<site, fs, steps, version, stamp, store>> /\ stage' = "asked" /\ page' = p
      /\ touched' = (steps # <<>>)
      /\ \/ ~ MayAsk(p)
         \/ req'.method = site.page[p].method /\ req'.ifNoneMatch = store[p].etag /\ req'.ifModifiedSince = store[p].stamp
  <2>1. CASE AskFirst(p)
    BY <2>1 DEF AskFirst, application, browser
  <2>2. CASE \E q \in site.queries, b \in site.bodies : Ask(p, q, b)
    <3>1. PICK q \in site.queries, b \in site.bodies : Ask(p, q, b)
      BY <2>2
    <3>2. PICK method, etag, lastModified :
            method = site.page[p].method /\ etag = store[p].etag /\ lastModified = store[p].stamp
      OBVIOUS
    <3>3. PICK uri, text, origin, auth, cookies :
            req' = [method |-> method, uri |-> uri, body |-> text, origin |-> origin, auth |-> auth,
                    ifNoneMatch |-> etag, ifModifiedSince |-> lastModified,
                    cookies |-> cookies, query |-> q, form |-> b]
      BY <3>1, <3>2 DEF Ask
    <3>4. req'.method = method /\ req'.ifNoneMatch = etag /\ req'.ifModifiedSince = lastModified
      BY <3>3
    <3> QED
      BY <3>1, <3>2, <3>4 DEF Ask, application, browser
  <2> QED
    BY <2>1, <2>2 DEF AskAny
<1>2. site \in Sites
  BY DEF CacheInv, ReadInv, AccessInv, ServerInv
<1>3. UpdateInv' /\ StoreInv'
  BY <1>1, FramesCache DEF CacheInv, FilesInv
<1>4. OpenInv' /\ AnswerInv'
  BY <1>1 DEF OpenInv, AnswerInv
<1>5. Static(p) => site.page[p].method = "GET" /\ MayAsk(p)
  <2>1. Static(p) => site.page[p].method = "GET"
    BY <1>2, StaticFiles
  <2> QED
    BY <2>1 DEF MayAsk
<1>6. Static(page)' = Static(p)
  BY <1>1 DEF Static
<1>7. RequestInv'
  BY <1>1, <1>5, <1>6 DEF RequestInv
<1> QED
  BY <1>3, <1>4, <1>7 DEF FilesInv

\* An exchange is over.
LEMMA LoseCache ==
  ASSUME CacheInv, Lose
  PROVE  FilesInv'
<1>1. UNCHANGED <<site, fs, steps, version, stamp, store>> /\ stage' = "none"
  BY DEF Lose, application, browser
<1>2. UpdateInv' /\ StoreInv'
  BY <1>1, FramesCache DEF CacheInv, FilesInv
<1>3. OpenInv' /\ AnswerInv' /\ RequestInv'
  BY <1>1 DEF OpenInv, AnswerInv, RequestInv
<1> QED
  BY <1>2, <1>3 DEF FilesInv

\* A file that arrives is kept as it was sent.
LEMMA ReceiveCache ==
  ASSUME CacheInv, Receive
  PROVE  FilesInv'
<1>1. UNCHANGED <<site, fs, steps, version, stamp>> /\ stage' = "none" /\ stage = "answered"
  BY DEF Receive, application
<1>2. UpdateInv'
  BY <1>1, FramesCache DEF CacheInv, FilesInv
<1>3. OpenInv' /\ AnswerInv' /\ RequestInv'
  BY <1>1 DEF OpenInv, AnswerInv, RequestInv
<1>4. page \in Pages
  BY <1>1, PageAsked
<1>5. PICK wire : wire = OnWire(res)
  OBVIOUS
<1>6. wire.code = res.code
  BY <1>5, WireProperties DEF CacheInv, ReadInv, AccessInv, StageInv
<1>7. store' = IF wire.code = 200 /\ Static(page)
               THEN [store EXCEPT ![page] = Kept(Shows, Value(wire, "ETag", NoFile), Value(wire, "Last-Modified", NoStamp))]
               ELSE store
  BY <1>5 DEF Receive
<1>8. CASE store' = store
  <2>1. StoreInv'
    BY <1>1, <1>8, FramesCache DEF CacheInv, FilesInv
  <2> QED
    BY <1>2, <1>3, <2>1 DEF FilesInv
<1>9. CASE res.code = 200 /\ Static(page) /\ store' # store
  <2>1. Shows = ShownOf(wire)
    BY <1>5, <1>6, <1>9, ShowsOf
  <2>2. PICK k : k = KeptOf(res)
    OBVIOUS
  <2>3. store' = [store EXCEPT ![page] = k]
    BY <1>5, <1>6, <1>7, <1>9, <2>1, <2>2 DEF KeptOf
  <2>4. Holds(page, k)
    BY <1>1, <1>9, <2>2 DEF CacheInv, FilesInv, AnswerInv
  <2>5. store = [p \in Pages |-> store[p]] /\ \A p \in Pages : Static(p) => Holds(p, store[p])
    BY DEF CacheInv, FilesInv, StoreInv
  <2>6. store' = [p \in Pages |-> IF p = page THEN k ELSE store[p]]
    BY <1>4, <2>3, <2>5
  <2>7. store' = [p \in Pages |-> store'[p]] /\ \A p \in Pages : store'[p] = IF p = page THEN k ELSE store[p]
    BY <2>6
  <2>8. ASSUME NEW p \in Pages, Static(p)' PROVE Holds(p, store[p])'
    <3>1. Static(p)
      BY <1>1, <2>8 DEF Static
    <3>2. PICK e : e = store'[p]
      OBVIOUS
    <3>3. Holds(p, e)
      BY <2>4, <2>5, <2>7, <3>1, <3>2
    <3> QED
      BY <1>1, <3>2, <3>3 DEF Holds, FileOf, Now
  <2>9. StoreInv'
    BY <2>7, <2>8 DEF StoreInv
  <2> QED
    BY <1>2, <1>3, <2>9 DEF FilesInv
<1> QED
  BY <1>6, <1>7, <1>8, <1>9

\* What is open or answered while the file is updated counts as touched, and holds on.
LEMMA TouchedCache ==
  ASSUME CacheInv, UpdateInv', site' = site, stamp \in Nat, stamp' \in Nat, stamp <= stamp',
         version' = version \/ version' = version + 1,
         UNCHANGED <<store, handler, stage, page, req, res>>, touched' = (stage # "none"),
         \A p \in Pages : Static(p) /\ Whole(p) /\ Now(p)' = Now(p) => Whole(p)'
  PROVE  FilesInv'
<1>1. AccessInv /\ UpdateInv /\ StoreInv /\ OpenInv /\ AnswerInv /\ RequestInv
  BY DEF CacheInv, FilesInv, ReadInv
<1>2. StoreInv'
  BY <1>1, StoreLonger
<1>3. RequestInv'
  BY <1>1 DEF RequestInv, Static
<1>4. ASSUME stage = "open" PROVE OpenInv'
  <2>1. PICK n : n = handler.file.version
    OBVIOUS
  <2>2. page \in Pages /\ Static(page) /\ FormInv(page)
    <3>1. page \in Pages
      BY <1>4, PageAsked
    <3>2. Static(page)
      BY <1>4 DEF CacheInv, ReadInv, CallInv
    <3> QED
      BY <1>1, <3>1, <3>2, FormsAtVersions
  <2>3. n \in 1 .. Now(page) /\ (n = Now(page) => Whole(page)) /\ handler.filename = FileOf(page) /\ handler.file # NoFile
    BY <1>1, <1>4, <2>1 DEF OpenInv
  <2>4. PICK m, m2 : m = Now(page) /\ m2 = Now(page)'
    OBVIOUS
  <2>5. m \in Nat /\ (m2 = m \/ m2 = m + 1)
    <3>1. m \in Nat
      BY <2>2, <2>4 DEF FormInv
    <3> QED
      BY <2>4, <3>1 DEF Now, FileOf
  <2>6. n \in 1 .. m2 /\ (n = m2 => Whole(page)')
    <3>1. n \in 1 .. m
      BY <2>3, <2>4
    <3>2. CASE m2 = m
      BY <2>2, <2>3, <2>4, <3>1, <3>2
    <3>3. CASE m2 = m + 1
      BY <2>5, <3>1, <3>3
    <3> QED
      BY <2>5, <3>2, <3>3
  <2> QED
    BY <1>4, <2>1, <2>3, <2>4, <2>6 DEF OpenInv, FileOf
<1>5. ASSUME stage = "answered" PROVE AnswerInv'
  <2>1. PICK k : k = KeptOf(res)
    OBVIOUS
  <2>2. KeptOf(res)' = k
    BY <2>1
  <2>3. page \in Pages
    BY <1>5, PageAsked
  <2>4. Static(page) /\ Holds(page, k) => Holds(page, k)'
    BY <1>1, <2>3, HoldsLonger
  <2>5. Static(page) /\ res.code = 200 /\ res.code # 401 => Holds(page, KeptOf(res))'
    <3>1. Static(page) /\ res.code = 200 /\ res.code # 401 => Holds(page, k)'
      BY <1>1, <1>5, <2>1, <2>4 DEF AnswerInv
    <3> QED
      BY <2>2, <3>1 DEF Holds
  <2> QED
    BY <1>5, <2>5 DEF AnswerInv, Static
<1>6. /\ stage # "open" => OpenInv'
      /\ stage # "answered" => AnswerInv'
  BY DEF OpenInv, AnswerInv
<1> QED
  BY <1>2, <1>3, <1>4, <1>5, <1>6 DEF FilesInv

LEMMA BeginUpdateCache ==
  ASSUME CacheInv, BeginUpdate
  PROVE  FilesInv'
<1>1. /\ UNCHANGED <<site, fs, stamp>> /\ version' = version + 1 /\ touched' = (stage # "none")
      /\ UNCHANGED <<store, handler, stage, page, req, res>>
  BY DEF BeginUpdate, server, browser
<1>2. AccessInv /\ UpdateInv
  BY DEF CacheInv, FilesInv, ReadInv
<1>3. stamp \in Nat /\ stamp' = stamp /\ stamp <= stamp'
  BY <1>1, <1>2, StampBelow
<1>4. UpdateInv'
  BY <1>2, BeginUpdates
<1>5. ASSUME NEW p \in Pages, Static(p), Whole(p), Now(p)' = Now(p) PROVE Whole(p)'
  BY <1>1, <1>5 DEF Whole, InFile, FileOf
<1> QED
  BY <1>1, <1>3, <1>4, <1>5, TouchedCache

LEMMA UpdateStepCache ==
  ASSUME CacheInv, UpdateStep
  PROVE  FilesInv'
<1>1. /\ UNCHANGED <<site, version>> /\ touched' = (stage # "none") /\ steps # <<>>
      /\ UNCHANGED <<store, handler, stage, page, req, res>>
  BY DEF UpdateStep, server, browser
<1>2. AccessInv /\ UpdateInv
  BY DEF CacheInv, FilesInv, ReadInv
<1>3. UpdateInv' /\ AccessInv'
  BY <1>2, UpdateGoesOn, UpdateStepAccess
<1>4. stamp \in Nat /\ stamp' \in Nat /\ stamp <= stamp'
  <2>1. PICK v \in Nat \ {0} : v = version /\ v = version'
    BY <1>1, <1>2, BoundsAssumption DEF AccessInv, ServerInv
  <2>2. stamp = IF ~ site.stamped THEN 0 ELSE v - 1
    BY <1>1, <1>2, <2>1 DEF UpdateInv, NoStamp
  <2>3. stamp' = IF ~ site.stamped THEN 0 ELSE IF steps' = <<>> THEN v ELSE v - 1
    BY <1>1, <1>3, <2>1 DEF UpdateInv, NoStamp
  <2> QED
    BY <2>2, <2>3
<1>5. ASSUME NEW p \in Pages, Static(p), Whole(p) PROVE Whole(p)'
  BY <1>2, <1>5, WholeStays
<1> QED
  BY <1>1, <1>3, <1>4, <1>5, TouchedCache

\* The file that is opened is the page's, which is there unless it is being updated.
LEMMA OpenFileCache ==
  ASSUME CacheInv, OpenFile
  PROVE  FilesInv'
<1>1. /\ stage = "asked" /\ Static(page)
      /\ UNCHANGED <<site, fs, steps, version, stamp, store, page, req, touched>>
  BY DEF OpenFile, application, browser
<1>2. page \in Pages /\ site \in Sites /\ AccessInv /\ UpdateInv /\ DOMAIN fs = site.files
  BY <1>1, PageAsked DEF CacheInv, FilesInv, ReadInv, AccessInv, ServerInv
<1>3. UpdateInv' /\ StoreInv' /\ RequestInv'
  <2>1. stage # "none"
    BY <1>1
  <2> QED
    BY <1>1, <2>1, FramesCache DEF CacheInv, FilesInv
<1>4. PICK uri, file : uri = req.uri /\ file = FileOf(page)
  OBVIOUS
<1>5. req.method = "GET"
  BY <1>1 DEF CacheInv, FilesInv, RequestInv
<1>6. PICK query \in site.queries : uri = UriOf(page, query)
  BY <1>1, <1>4, <1>5 DEF CacheInv, FilesInv, RequestInv, ReadInv, AskedInv, Asks
<1>7. Rewritten(uri) = uri /\ \E rest : Leads(uri, rest, file)
  BY <1>1, <1>2, <1>4, <1>6, UriLeads
<1>8. PICK k : k = GetFile(handler, fs, uri)
  OBVIOUS
<1>9. Finds(k, fs, file)
  BY <1>2, <1>7, <1>8, GetFileLeads
<1>10. Mounted(handler, req.method, uri)
  <2>1. handler.mount = Trimmed(site.mount)
    BY <1>2, HandlerMembers DEF AccessInv, ServerInv, StaticHandler
  <2>2. req.method = "GET"
    BY <1>1 DEF CacheInv, FilesInv, RequestInv
  <2> QED
    BY <1>7, <2>1, <2>2 DEF Mounted, Leads
<1>11. FormInv(page)
  BY <1>1, <1>2, FormsAtVersions
<1>12. handler' = k /\ \/ k.file # NoFile /\ stage' = "open" /\ UNCHANGED res
                       \/ k.file = NoFile /\ NotFound
  BY <1>4, <1>7, <1>8, <1>10 DEF OpenFile
<1>13. CASE k.file # NoFile
  <2>1. stage' = "open"
    BY <1>12, <1>13
  <2>2. PICK n : n \in FormsOf(file) /\ IsFile(fs, n) /\ k.file = Open(fs, n) /\ k.filename = file
    BY <1>9, <1>13 DEF Finds, FormsOf
  <2>3. n \in FormsOf(FileOf(page)) \cap site.files /\ fs[n] # 0
    BY <1>2, <1>4, <2>2 DEF IsFile
  <2>4. fs[n] \in 0 .. Now(page) /\ (fs[n] = Now(page) \/ (fs[n] # 0 /\ steps = <<>>) => Whole(page) /\ fs[n] = Now(page))
    BY <1>11, <2>3 DEF FormInv
  <2>5. k.file.version = fs[n]
    BY <2>2 DEF Open
  <2>6. fs[n] \in 1 .. Now(page)
    BY <1>11, <2>3, <2>4 DEF FormInv
  <2>7. ~ touched => fs[n] = Now(page)
    BY <1>1, <2>3, <2>4 DEF CacheInv, FilesInv, RequestInv
  <2>8. OpenInv'
    <3>1. Now(page)' = Now(page) /\ FileOf(page)' = file /\ (Whole(page) => Whole(page)')
      BY <1>1, <1>4 DEF Now, FileOf, Whole, InFile
    <3>2. handler'.file = k.file /\ handler'.filename = file
      BY <1>12, <2>2
    <3> QED
      BY <1>1, <1>13, <2>4, <2>5, <2>6, <2>7, <3>1, <3>2 DEF OpenInv
  <2>9. AnswerInv'
    BY <2>1 DEF AnswerInv
  <2> QED
    BY <1>3, <2>8, <2>9 DEF FilesInv
<1>14. CASE k.file = NoFile
  <2>1. PICK r : r = SetCode(New, 404) /\ stage' = "answered" /\ res' = r
    BY <1>12, <1>14 DEF NotFound, Answer
  <2>2. r.code = 404
    BY <1>2, <2>1, NewIsResponse, SetCodeSets
  <2>3. touched
    <3>1. SUFFICES ASSUME ~ touched PROVE FALSE
      OBVIOUS
    <3>2. steps = <<>>
      BY <1>1, <3>1 DEF CacheInv, FilesInv, RequestInv
    <3>3. PICK n : n \in FormsOf(file) /\ IsFile(fs, n)
      BY <1>4, <1>11, <3>2 DEF FormInv, Whole
    <3>4. IsFile(fs, file) \/ IsFile(fs, Gz(file))
      BY <3>3 DEF FormsOf
    <3>5. Open(fs, file) # NoFile \/ ~ IsFile(fs, file)
      BY <1>2, SomeFile DEF AccessInv, ServerInv
    <3>6. Open(fs, Gz(file)) # NoFile \/ ~ IsFile(fs, Gz(file))
      BY <1>2, SomeFile DEF AccessInv, ServerInv
    <3> QED
      BY <1>9, <1>14, <3>4, <3>5, <3>6 DEF Finds
  <2>4. AnswerInv'
    BY <1>1, <2>1, <2>2, <2>3 DEF AnswerInv
  <2>5. OpenInv'
    BY <2>1 DEF OpenInv
  <2> QED
    BY <1>3, <2>4, <2>5 DEF FilesInv
<1> QED
  BY <1>13, <1>14

\* The answer is the file that is there now, unless the browser has the one that was opened.
LEMMA SendFileCache ==
  ASSUME CacheInv, SendFile
  PROVE  FilesInv'
<1>1. /\ stage = "open" /\ stage' = "answered"
      /\ UNCHANGED <<site, fs, steps, version, stamp, store, page, req, touched>>
  BY DEF SendFile, application, browser, Answer
<1>2. page \in Pages /\ site \in Sites /\ AccessInv /\ UpdateInv
  BY <1>1, PageAsked DEF CacheInv, FilesInv, ReadInv, AccessInv, ServerInv
<1>3. UpdateInv' /\ StoreInv' /\ RequestInv'
  <2>1. stage # "none"
    BY <1>1
  <2> QED
    BY <1>1, <2>1, FramesCache DEF CacheInv, FilesInv
<1>4. OpenInv'
  BY <1>1 DEF OpenInv
<1>5. Static(page)
  BY <1>1 DEF CacheInv, ReadInv, CallInv
<1>6. PICK n, etag, q : /\ n = FileOf(page) /\ etag = handler.file
                        /\ q = HandleStatic(handler, req, WithCors(New), fs, site.dirs, stamp)
  OBVIOUS
<1>7. res' = q
  BY <1>6 DEF SendFile, Answer
<1>8. /\ handler.filename = n /\ etag # NoFile /\ etag.version \in 1 .. Now(page)
      /\ etag.version = Now(page) => Whole(page)
      /\ ~ touched => etag.version = Now(page)
  BY <1>1, <1>6 DEF CacheInv, FilesInv, OpenInv
<1>9. FormsOf(n) \cap site.dirs = {}
  BY <1>2, <1>5, <1>6, StaticFiles
<1>10. Sends(q, n, req, etag)
  BY <1>2, <1>6, <1>8, <1>9, StaticSends
<1>11. /\ req.ifNoneMatch = store[page].etag /\ req.ifModifiedSince = store[page].stamp
       /\ ~ touched => steps = <<>>
  BY <1>1, <1>5 DEF CacheInv, FilesInv, RequestInv
<1>12. Holds(page, store[page])
  BY <1>2, <1>5 DEF CacheInv, FilesInv, StoreInv
<1>13. CASE q.code = 304 /\ stamp # NoStamp /\ req.ifModifiedSince = stamp
  <2>1. ~ touched => store[page].content = Now(page)
    <3>1. ~ touched => stamp = version
      BY <1>2, <1>11, <1>13, StampBelow
    <3> QED
      BY <1>11, <1>12, <1>13, <3>1 DEF Holds
  <2> QED
    BY <1>1, <1>3, <1>4, <1>7, <1>13, <2>1 DEF FilesInv, AnswerInv, Now, FileOf
<1>14. CASE q.code = 304 /\ req.ifNoneMatch = etag
  <2>1. ~ touched => store[page].content = Now(page)
    BY <1>8, <1>11, <1>12, <1>14 DEF Holds
  <2> QED
    BY <1>1, <1>3, <1>4, <1>7, <1>14, <2>1 DEF FilesInv, AnswerInv, Now, FileOf
<1>15. CASE q.code = 200 /\ Carries(q, PackedOnly(n), stamp, etag) /\ q.body = BodyOf(n)
  <2>1. Holds(page, KeptOf(q))
    BY <1>2, <1>5, <1>6, <1>8, <1>15, HoldsSent
  <2>2. ~ touched /\ AllFit(q) => ShownOf(OnWire(q)) = Now(page)
    <3>1. ~ touched => Whole(page)
      BY <1>8
    <3> QED
      BY <1>2, <1>5, <1>6, <1>15, <3>1, ShownSent
  <2>3. KeptOf(res)' = KeptOf(q) /\ AllFit(res)' = AllFit(q) /\ ShownOf(OnWire(res))' = ShownOf(OnWire(q))
    BY <1>7
  <2>4. Now(page)' = Now(page) /\ FileOf(page)' = FileOf(page)
    BY <1>1 DEF Now, FileOf
  <2>5. Holds(page, KeptOf(res))'
    BY <1>1, <2>1, <2>3, <2>4 DEF Holds
  <2>6. AnswerInv'
    BY <1>1, <1>7, <1>15, <2>2, <2>3, <2>4, <2>5 DEF AnswerInv
  <2> QED
    BY <1>3, <1>4, <2>6 DEF FilesInv
<1> QED
  BY <1>10, <1>13, <1>14, <1>15 DEF Sends

\* The other answers are none to a page of type static.
LEMMA OthersCache ==
  ASSUME CacheInv, AnswerPreflight \/ Challenge \/ CallBack
  PROVE  FilesInv'
<1>1. /\ stage = "asked" /\ stage' = "answered"
      /\ UNCHANGED <<site, fs, steps, version, stamp, store, page, req, touched>>
  BY DEF AnswerPreflight, Challenge, CallBack, application, browser, Answer
<1>2. site \in Sites
  BY DEF CacheInv, ReadInv, AccessInv, ServerInv
<1>3. UpdateInv' /\ StoreInv' /\ RequestInv'
  <2>1. stage # "none"
    BY <1>1
  <2> QED
    BY <1>1, <2>1, FramesCache DEF CacheInv, FilesInv
<1>4. OpenInv'
  BY <1>1 DEF OpenInv
<1>5. Static(page)' = Static(page)
  BY <1>1 DEF Static
<1>6. CASE AnswerPreflight
  <2>1. req.method = "OPTIONS"
    BY <1>2, <1>6, Stops DEF AnswerPreflight, Preflight
  <2>2. ~ Static(page)
    BY <1>1, <2>1 DEF CacheInv, FilesInv, RequestInv
  <2> QED
    BY <1>3, <1>4, <1>5, <2>2 DEF FilesInv, AnswerInv
<1>7. CASE Challenge
  <2>1. PICK f, c, q : /\ q = SetCode(New, 401) /\ res' = AddHeader(q, f, c)
    BY <1>7 DEF Challenge, Answer
  <2>2. IsResponse(q) /\ q.code = 401
    BY <1>2, <2>1, NewIsResponse, SetCodeSets
  <2>3. Sets(q, f, c, res')
    BY <2>1, <2>2, AddHeaderSays
  <2>4. res'.code = 401
    BY <2>2, <2>3 DEF Sets
  <2> QED
    BY <1>3, <1>4, <2>4 DEF FilesInv, AnswerInv
<1>8. CASE CallBack
  <2>1. ~ Static(page)
    BY <1>8 DEF CallBack
  <2> QED
    BY <1>3, <1>4, <1>5, <2>1 DEF FilesInv, AnswerInv
<1> QED
  BY <1>6, <1>7, <1>8

LEMMA NextCache == CacheInv /\ [ExchangeNext]_exchangeVars => CacheInv'
<1> SUFFICES ASSUME CacheInv, [ExchangeNext]_exchangeVars PROVE CacheInv'
  OBVIOUS
<1>1. ReadInv'
  BY NextRead DEF CacheInv
<1>2. ASSUME UNCHANGED <<site, fs, steps, version, stamp, store, handler, stage, page, req, res, touched>>
      PROVE  FilesInv'
  BY <1>2, FramesCache DEF CacheInv, FilesInv
<1>3. ASSUME NEW p \in Pages, Want(p) \/ AskAny(p) PROVE FilesInv'
  <2>1. CASE Want(p)
    BY <1>2, <2>1 DEF Want, application, server
  <2> QED
    BY <1>3, <2>1, AskCache
<1>4. ASSUME UNCHANGED exchangeVars PROVE FilesInv'
  <2>1. UNCHANGED <<site, fs, steps, version, stamp, store, handler, stage, page, req, res, touched>>
    BY <1>4 DEF exchangeVars
  <2> QED
    BY <1>2, <2>1
<1>5. ASSUME AnswerPreflight \/ Challenge \/ CallBack \/ OpenFile \/ SendFile PROVE FilesInv'
  BY <1>5, OthersCache, OpenFileCache, SendFileCache
<1>6. ASSUME Receive \/ Lose \/ BeginUpdate \/ UpdateStep PROVE FilesInv'
  BY <1>6, ReceiveCache, LoseCache, BeginUpdateCache, UpdateStepCache
<1>7. FilesInv'
  BY <1>3, <1>4, <1>5, <1>6 DEF ExchangeNext
<1> QED
  BY <1>1, <1>7 DEF CacheInv

\* When no update comes in between, a browser shows what is stored: what it has kept, if
\* the validators it sends are still those of the file, or what arrives, in the form that
\* the header with the encoding tells of.
THEOREM PagesAreCurrent == ExchangeSpec => []ShownAsStored
<1>1. ExchangeSpec => []CacheInv
  BY InitCache, NextCache, PTL DEF ExchangeSpec
<1> QED
  BY <1>1, CacheMeans, PTL

=============================================================================
