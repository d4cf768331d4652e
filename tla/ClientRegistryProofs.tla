------------------------ MODULE ClientRegistryProofs ------------------------
(***************************************************************************)
(* Proofs about ClientRegistry, for any handlers, clients, tasks and depth *)
(* of calls: the records of who is there agree, no endpoint's handler      *)
(* keeps a deleted client, and while the httpd task alone calls, the       *)
(* callbacks come in turn and nothing that was deleted is used.            *)
(***************************************************************************)
EXTENDS ClientRegistry, ListsProofs

-----------------------------------------------------------------------------
(* The inductive invariant. *)

\* Where a call may be while others run in it
Waits == {"visit", "told", "remove", "clean"}

\* What a call of task t is about and where it may be
Suits(t, f) ==
  /\ f.op = "close" => t = Httpd /\ f.c \in Clients
  /\ f.op = "close" <=> f.at \in {"visit", "told"}
  /\ f.op = "drop" => f.h \in Endpoints /\ f.c \in Clients /\ f.at \in {"notify", "remove"}
  /\ f.op = "send" => f.h \in Streams /\ f.c \in Clients /\ f.at \in {"node", "use", "next", "clean"}
  /\ f.op = "use" => t \in AppTasks /\ f.h \in Streams /\ f.c \in Clients /\ f.at = "use"

\* A session is closed from no other call, and its client is there until then.
CallsNest ==
  \A t \in Tasks : \A k \in 1 .. Len(stack[t]) :
    /\ Suits(t, stack[t][k])
    /\ k >= 2 => stack[t][k].at \in Waits
    /\ stack[t][k].op = "close" => k = Len(stack[t]) /\ stack[t][k].c \in reg

\* A handler without requests has no clients.
ListsServed == \A h \in Handlers : list[h] # <<>> => h \in server.handlers

Bottom == stack[Httpd][Len(stack[Httpd])]

\* The call of the httpd task is removing the client whose session closes from h.
Dropping(h) ==
  /\ Len(stack[Httpd]) >= 2
  /\ LET f == stack[Httpd][Len(stack[Httpd]) - 1] IN f.op = "drop" /\ f.h = h /\ f.c = Bottom.c

\* While a session closes, the endpoints whose handlers list its client have yet to
\* be asked, or the call that removes it there is under way.
ClosingReaches ==
  stack[Httpd] # <<>> /\ Bottom.op = "close" =>
  \A h \in Endpoints :
    Holds(h, Bottom.c) => Bottom.at = "visit" /\ (h \in Bottom.todo \/ Dropping(h))

\* The calls the httpd task is in
HttpdCalls == Range(stack[Httpd])

\* A call is between the application's onClose of the client and its removal from h.
IsTold(f, h, c) == f.op = "drop" /\ f.at = "remove" /\ f.h = h /\ f.c = c
Told(h, c) == \E f \in HttpdCalls : IsTold(f, h, c)

CallLive(f) == Live(f.c) /\ \A c \in Range(f.failed) : Live(c)
CallsLive == \A f \in HttpdCalls : CallLive(f)

\* A loop over a list is at a node of the list.
Listed(f) == f.at \in {"node", "use", "next"} => Holds(f.h, f.c)
SendsListed == stack[Httpd] # <<>> => Listed(stack[Httpd][1])

HeardOfHandlers ==
  \A h \in Handlers, c \in Clients :
    /\ Told(h, c) => <<c, h>> \notin heard
    /\ ~ Told(h, c) => (<<c, h>> \in heard <=> Holds(h, c))

HeardOfServer == \A c \in Clients : <<c, None>> \in heard <=> c \in reg /\ ~BeingDeleted(c)

\* What holds besides while the httpd task alone calls
Undisturbed ==
  /\ \A t \in AppTasks : stack[t] = <<>>
  /\ CallsLive /\ SendsListed
  /\ ~stray /\ HeardOfHandlers /\ HeardOfServer
  /\ fault \notin Endpoints

Inv ==
  /\ TypeOK
  /\ OneClientPerSession
  /\ BuddyOwned
  /\ NoStaleClient
  /\ CallsNest
  /\ ListsServed
  /\ ClosingReaches
  /\ HttpdAlone => Undisturbed

-----------------------------------------------------------------------------
(* How the operators on stacks move the calls. *)

LEMMA StackFacts ==
  ASSUME NEW S, NEW s \in Seq(S), s # <<>>
  PROVE  /\ Len(s) \in Nat \ {0} /\ Head(s) = s[1] /\ Head(s) \in S
         /\ \A k \in 1 .. Len(s) : s[k] \in S
         /\ Tail(s) \in Seq(S) /\ Len(Tail(s)) = Len(s) - 1
         /\ \A k \in 1 .. Len(s) - 1 : Tail(s)[k] = s[k + 1]
<1> QED
  OBVIOUS

\* A task without calls begins one.
LEMMA BeginStack ==
  ASSUME TypeOK, NEW t \in Tasks, NEW call \in Calls,
         stack' = [stack EXCEPT ![t] = <<call>>]
  PROVE  /\ stack' \in [Tasks -> Seq(Calls)]
         /\ \A u \in Tasks \ {t} : stack'[u] = stack[u]
         /\ stack'[t] = <<call>> /\ Len(stack'[t]) = 1 /\ stack'[t][1] = call
<1> QED
  BY DEF TypeOK

LEMMA BecomeStack ==
  ASSUME TypeOK, NEW t \in Tasks, NEW call \in Calls, stack[t] # <<>>, Become(t, call)
  PROVE  /\ stack' \in [Tasks -> Seq(Calls)]
         /\ \A u \in Tasks \ {t} : stack'[u] = stack[u]
         /\ Len(stack'[t]) = Len(stack[t]) /\ Len(stack[t]) \in Nat \ {0}
         /\ stack'[t][1] = call /\ stack'[t] # <<>>
         /\ \A k \in 2 .. Len(stack[t]) : stack'[t][k] = stack[t][k]
<1> DEFINE s == stack[t]
<1>1. s \in Seq(Calls) /\ stack \in [Tasks -> Seq(Calls)]
  BY DEF TypeOK
<1>2. stack' = [stack EXCEPT ![t] = <<call>> \o Tail(s)]
  BY DEF Become
<1>3. /\ <<call>> \o Tail(s) \in Seq(Calls) /\ Len(<<call>> \o Tail(s)) = Len(s)
      /\ (<<call>> \o Tail(s))[1] = call
      /\ \A k \in 2 .. Len(s) : (<<call>> \o Tail(s))[k] = s[k]
  BY <1>1
<1>4. stack'[t] = <<call>> \o Tail(s)
  BY <1>1, <1>2
<1>5. Len(s) \in Nat \ {0}
  BY <1>1
<1> QED
  BY <1>1, <1>2, <1>3, <1>4, <1>5

LEMMA PushStack ==
  ASSUME TypeOK, NEW t \in Tasks, NEW caller \in Calls, NEW call \in Calls,
         stack[t] # <<>>, Push(t, caller, call)
  PROVE  /\ stack' \in [Tasks -> Seq(Calls)]
         /\ \A u \in Tasks \ {t} : stack'[u] = stack[u]
         /\ Len(stack'[t]) = Len(stack[t]) + 1 /\ Len(stack[t]) \in Nat \ {0}
         /\ stack'[t][1] = call /\ stack'[t][2] = caller /\ stack'[t] # <<>>
         /\ \A k \in 3 .. Len(stack[t]) + 1 : stack'[t][k] = stack[t][k - 1]
<1> DEFINE s == stack[t]
<1>1. s \in Seq(Calls) /\ stack \in [Tasks -> Seq(Calls)]
  BY DEF TypeOK
<1>2. stack' = [stack EXCEPT ![t] = <<call, caller>> \o Tail(s)]
  BY DEF Push
<1>3. /\ <<call, caller>> \o Tail(s) \in Seq(Calls) /\ Len(<<call, caller>> \o Tail(s)) = Len(s) + 1
      /\ (<<call, caller>> \o Tail(s))[1] = call
      /\ (<<call, caller>> \o Tail(s))[2] = caller
      /\ \A k \in 3 .. Len(s) + 1 : (<<call, caller>> \o Tail(s))[k] = s[k - 1]
  BY <1>1
<1>4. stack'[t] = <<call, caller>> \o Tail(s)
  BY <1>1, <1>2
<1>5. Len(s) \in Nat \ {0}
  BY <1>1
<1> QED
  BY <1>1, <1>2, <1>3, <1>4, <1>5

LEMMA PopStack ==
  ASSUME TypeOK, NEW t \in Tasks, stack[t] # <<>>, Pop(t)
  PROVE  /\ stack' \in [Tasks -> Seq(Calls)]
         /\ \A u \in Tasks \ {t} : stack'[u] = stack[u]
         /\ Len(stack'[t]) = Len(stack[t]) - 1 /\ Len(stack[t]) \in Nat \ {0}
         /\ \A k \in 1 .. Len(stack[t]) - 1 : stack'[t][k] = stack[t][k + 1]
<1> DEFINE s == stack[t]
<1>1. s \in Seq(Calls) /\ stack \in [Tasks -> Seq(Calls)]
  BY DEF TypeOK
<1>2. stack' = [stack EXCEPT ![t] = Tail(s)]
  BY DEF Pop
<1>3. /\ Tail(s) \in Seq(Calls) /\ Len(Tail(s)) = Len(s) - 1
      /\ \A k \in 1 .. Len(s) - 1 : Tail(s)[k] = s[k + 1]
  BY <1>1
<1>4. stack'[t] = Tail(s)
  BY <1>1, <1>2
<1>5. Len(s) \in Nat \ {0}
  BY <1>1
<1> QED
  BY <1>1, <1>2, <1>3, <1>4, <1>5

-----------------------------------------------------------------------------
(* CallsNest, for each way a stack changes. *)

LEMMA NestBegin ==
  ASSUME TypeOK, CallsNest, reg \subseteq reg', NEW t \in Tasks, NEW call \in Calls,
         stack' = [stack EXCEPT ![t] = <<call>>],
         Suits(t, call), call.op = "close" => call.c \in reg'
  PROVE  CallsNest'
<1>1. \A u \in Tasks \ {t} : stack'[u] = stack[u]
  BY BeginStack
<1>2. Len(stack'[t]) = 1 /\ stack'[t][1] = call
  BY BeginStack
<1>3. ASSUME NEW u \in Tasks, NEW k \in 1 .. Len(stack'[u])
      PROVE  /\ Suits(u, stack'[u][k])
             /\ k >= 2 => stack'[u][k].at \in Waits
             /\ stack'[u][k].op = "close" => k = Len(stack'[u]) /\ stack'[u][k].c \in reg'
  <2>1. CASE u = t
    <3>1. Len(stack'[u]) = 1
      BY <1>2, <2>1
    <3>2. k = 1
      <4>1. k \in 1 .. 1
        BY <3>1, Zenon
      <4> QED
        BY <4>1
    <3>3. stack'[u][k] = call
      BY <1>2, <2>1, <3>2
    <3> QED
      BY <2>1, <3>1, <3>2, <3>3
  <2>2. CASE u # t
    <3>1. stack'[u] = stack[u]
      BY <1>1, <2>2
    <3> QED
      BY <1>3, <3>1 DEF CallsNest
  <2> QED
    BY <2>1, <2>2
<1> QED
  BY <1>3 DEF CallsNest, Suits

LEMMA NestBecome ==
  ASSUME TypeOK, CallsNest, reg \subseteq reg', NEW t \in Tasks, NEW call \in Calls,
         stack[t] # <<>>, Become(t, call),
         Suits(t, call), call.op = "close" => Top(t).op = "close" /\ call.c = Top(t).c
  PROVE  CallsNest'
<1>1. \A u \in Tasks \ {t} : stack'[u] = stack[u]
  BY BecomeStack
<1>2. /\ Len(stack'[t]) = Len(stack[t]) /\ Len(stack[t]) \in Nat \ {0}
      /\ stack'[t][1] = call
      /\ \A k \in 2 .. Len(stack[t]) : stack'[t][k] = stack[t][k]
  BY BecomeStack
<1>3. Top(t) = stack[t][1]
  BY DEF Top, TypeOK
<1>4. ASSUME NEW u \in Tasks, NEW k \in 1 .. Len(stack'[u])
      PROVE  /\ Suits(u, stack'[u][k])
             /\ k >= 2 => stack'[u][k].at \in Waits
             /\ stack'[u][k].op = "close" => k = Len(stack'[u]) /\ stack'[u][k].c \in reg'
  <2>1. CASE u = t /\ k = 1
    <3>1. 1 \in 1 .. Len(stack[t])
      BY <1>2
    <3>2. call.op = "close" => 1 = Len(stack[t]) /\ call.c \in reg
      BY <1>3, <3>1 DEF CallsNest
    <3>3. stack'[u][k] = call
      BY <1>2, <2>1
    <3> QED
      BY <1>2, <2>1, <3>2, <3>3
  <2>2. CASE u = t /\ k # 1
    <3>1. k \in 2 .. Len(stack[t]) /\ k \in 1 .. Len(stack[t]) /\ stack'[u][k] = stack[t][k]
      BY <1>2, <2>2
    <3> QED
      BY <1>2, <2>2, <3>1 DEF CallsNest
  <2>3. CASE u # t
    <3>1. stack'[u] = stack[u]
      BY <1>1, <2>3
    <3> QED
      BY <1>4, <3>1 DEF CallsNest
  <2> QED
    BY <2>1, <2>2, <2>3
<1> QED
  BY <1>4 DEF CallsNest, Suits

LEMMA NestPush ==
  ASSUME TypeOK, CallsNest, reg \subseteq reg', NEW t \in Tasks,
         NEW caller \in Calls, NEW call \in Calls,
         stack[t] # <<>>, Push(t, caller, call),
         Suits(t, caller), caller.at \in Waits,
         caller.op = "close" => Top(t).op = "close" /\ caller.c = Top(t).c,
         Suits(t, call), call.op # "close"
  PROVE  CallsNest'
<1>1. \A u \in Tasks \ {t} : stack'[u] = stack[u]
  BY PushStack
<1>2. /\ Len(stack'[t]) = Len(stack[t]) + 1 /\ Len(stack[t]) \in Nat \ {0}
      /\ stack'[t][1] = call /\ stack'[t][2] = caller
      /\ \A k \in 3 .. Len(stack[t]) + 1 : stack'[t][k] = stack[t][k - 1]
  BY PushStack
<1>3. Top(t) = stack[t][1]
  BY DEF Top, TypeOK
<1>4. ASSUME NEW u \in Tasks, NEW k \in 1 .. Len(stack'[u])
      PROVE  /\ Suits(u, stack'[u][k])
             /\ k >= 2 => stack'[u][k].at \in Waits
             /\ stack'[u][k].op = "close" => k = Len(stack'[u]) /\ stack'[u][k].c \in reg'
  <2>1. CASE u = t /\ k = 1
    BY <1>2, <2>1
  <2>2. CASE u = t /\ k = 2
    <3>1. 1 \in 1 .. Len(stack[t])
      BY <1>2
    <3>2. caller.op = "close" => 1 = Len(stack[t]) /\ caller.c \in reg
      BY <1>3, <3>1 DEF CallsNest
    <3>3. stack'[u][k] = caller
      BY <1>2, <2>2
    <3>4. caller.op = "close" => k = Len(stack'[u]) /\ caller.c \in reg'
      <4>1. Len(stack'[u]) = Len(stack[t]) + 1 /\ Len(stack[t]) \in Nat /\ k = 2
        BY <1>2, <2>2
      <4>2. caller.op = "close" => caller.c \in reg'
        BY <3>2
      <4>3. ASSUME caller.op = "close" PROVE k = Len(stack'[u])
        <5>1. Len(stack[t]) = 1
          BY <3>2, <4>3
        <5> QED
          BY <4>1, <5>1
      <4> QED
        BY <4>2, <4>3
    <3> QED
      BY <2>2, <3>3, <3>4
  <2>3. CASE u = t /\ k \notin {1, 2}
    <3>1. /\ k \in 3 .. Len(stack[t]) + 1 /\ k - 1 \in 1 .. Len(stack[t]) /\ k - 1 >= 2
          /\ stack'[u][k] = stack[t][k - 1]
      BY <1>2, <2>3
    <3> QED
      BY <1>2, <2>3, <3>1 DEF CallsNest
  <2>4. CASE u # t
    <3>1. stack'[u] = stack[u]
      BY <1>1, <2>4
    <3> QED
      BY <1>4, <3>1 DEF CallsNest
  <2> QED
    BY <2>1, <2>2, <2>3, <2>4
<1> QED
  BY <1>4 DEF CallsNest, Suits

\* A session's close is the last call to end.
LEMMA NestPop ==
  ASSUME TypeOK, CallsNest, NEW t \in Tasks, stack[t] # <<>>, Pop(t),
         \/ reg \subseteq reg'
         \/ t = Httpd /\ Top(t).op = "close"
  PROVE  CallsNest'
<1>1. \A u \in Tasks \ {t} : stack'[u] = stack[u]
  BY PopStack
<1>2. /\ Len(stack'[t]) = Len(stack[t]) - 1 /\ Len(stack[t]) \in Nat \ {0}
      /\ \A k \in 1 .. Len(stack[t]) - 1 : stack'[t][k] = stack[t][k + 1]
  BY PopStack
<1>3. Top(t) = stack[t][1]
  BY DEF Top, TypeOK
<1>4. ASSUME NEW u \in Tasks, NEW k \in 1 .. Len(stack'[u])
      PROVE  /\ Suits(u, stack'[u][k])
             /\ k >= 2 => stack'[u][k].at \in Waits
             /\ stack'[u][k].op = "close" => k = Len(stack'[u]) /\ stack'[u][k].c \in reg'
  <2>1. CASE u = t
    <3>1. /\ k \in 1 .. Len(stack[t]) - 1 /\ k + 1 \in 1 .. Len(stack[t]) /\ k + 1 >= 2
          /\ stack'[u][k] = stack[t][k + 1]
      BY <1>2, <2>1
    <3>2. Top(t).op # "close"
      BY <1>2, <1>3, <3>1 DEF CallsNest
    <3> QED
      BY <1>2, <2>1, <3>1, <3>2 DEF CallsNest
  <2>2. CASE u # t
    <3>1. stack'[u] = stack[u]
      BY <1>1, <2>2
    <3>2. stack[u][k].op = "close" => u = Httpd
      BY <1>4, <3>1 DEF CallsNest, Suits
    <3> QED
      BY <1>4, <2>2, <3>1, <3>2 DEF CallsNest
  <2> QED
    BY <2>1, <2>2
<1> QED
  BY <1>4 DEF CallsNest, Suits

-----------------------------------------------------------------------------
(* ClosingReaches, for each way a stack changes while a session closes. *)

\* What the calls of the httpd task must keep for it
LEMMA ClosingKept ==
  ASSUME TypeOK, CallsNest, ClosingReaches,
         \A h \in Endpoints, c \in Clients : Holds(h, c)' => Holds(h, c),
         stack'[Httpd] # <<>> /\ Bottom'.op = "close" =>
           /\ stack[Httpd] # <<>> /\ Bottom' = Bottom
           /\ \A h \in Endpoints : Dropping(h) => Dropping(h)' \/ ~ Holds(h, Bottom.c)'
  PROVE  ClosingReaches'
<1>1. ASSUME stack'[Httpd] # <<>>, Bottom'.op = "close", NEW h \in Endpoints, Holds(h, Bottom.c)'
      PROVE  Bottom'.at = "visit" /\ (h \in Bottom'.todo \/ Dropping(h)')
  <2>1. Bottom' = Bottom /\ stack[Httpd] # <<>> /\ (Dropping(h) => Dropping(h)')
    BY <1>1
  <2>2. Bottom.c \in Clients
    <3>1. Httpd \in Tasks /\ Len(stack[Httpd]) \in 1 .. Len(stack[Httpd])
      BY <2>1, StackFacts DEF TypeOK, Tasks
    <3> QED
      BY <1>1, <2>1, <3>1 DEF CallsNest, Suits, Bottom
  <2>3. Holds(h, Bottom.c)
    BY <1>1, <2>2
  <2> QED
    BY <1>1, <2>1, <2>3 DEF ClosingReaches
<1> QED
  BY <1>1 DEF ClosingReaches

LEMMA ClosingBegin ==
  ASSUME TypeOK, CallsNest, ClosingReaches,
         \A h \in Endpoints, c \in Clients : Holds(h, c)' => Holds(h, c),
         NEW t \in Tasks, NEW call \in Calls, stack[t] = <<>>,
         stack' = [stack EXCEPT ![t] = <<call>>], call.op # "close"
  PROVE  ClosingReaches'
<1>1. CASE t = Httpd
  <2>1. Len(stack'[Httpd]) = 1 /\ stack'[Httpd][1] = call
    BY <1>1, BeginStack
  <2>2. Bottom' = call
    BY <2>1 DEF Bottom
  <2> QED
    BY <2>2, ClosingKept
<1>2. CASE t # Httpd
  <2>1. stack'[Httpd] = stack[Httpd]
    BY <1>2, BeginStack DEF Tasks
  <2> QED
    BY <2>1, ClosingKept DEF Bottom, Dropping
<1> QED
  BY <1>1, <1>2

\* A call that goes on does so about the same handler and client.
LEMMA ClosingBecome ==
  ASSUME TypeOK, CallsNest, ClosingReaches,
         \A h \in Endpoints, c \in Clients : Holds(h, c)' => Holds(h, c),
         NEW t \in Tasks, NEW call \in Calls, stack[t] # <<>>, Become(t, call),
         Top(t).op # "close", call.op = Top(t).op, call.h = Top(t).h,
         call.op = "drop" => call.c = Top(t).c
  PROVE  ClosingReaches'
<1>1. CASE t = Httpd
  <2>0. PICK n \in Nat \ {0} : n = Len(stack[Httpd])
    BY <1>1, BecomeStack
  <2>1. /\ Len(stack'[Httpd]) = n
        /\ stack'[Httpd][1] = call /\ Top(t) = stack[Httpd][1]
        /\ \A k \in 2 .. n : stack'[Httpd][k] = stack[Httpd][k]
    BY <1>1, <2>0, BecomeStack DEF Top, TypeOK
  <2>2. ASSUME Bottom'.op = "close"
        PROVE  /\ stack[Httpd] # <<>> /\ Bottom' = Bottom
               /\ \A h \in Endpoints : Dropping(h) => Dropping(h)'
    <3>1. n # 1
      BY <2>0, <2>1, <2>2 DEF Bottom
    <3>2. Bottom' = Bottom
      <4>1. n \in 2 .. n
        BY <3>1
      <4> QED
        BY <2>0, <2>1, <4>1 DEF Bottom
    <3>3. stack'[Httpd][n - 1] = stack[Httpd][n - 1] \/ n - 1 = 1
      <4>1. n - 1 \in 2 .. n \/ n - 1 = 1
        BY <3>1
      <4> QED
        BY <2>1, <4>1
    <3>4. ASSUME NEW h \in Endpoints, Dropping(h) PROVE Dropping(h)'
      <4> DEFINE f == stack[Httpd][n - 1]
                 g == stack'[Httpd][n - 1]
      <4>1. n >= 2 /\ f.op = "drop" /\ f.h = h /\ f.c = Bottom.c
        BY <2>0, <3>4 DEF Dropping
      <4>2. g = f \/ (g = call /\ f = Top(t))
        BY <2>1, <3>3
      <4>3. g.op = "drop" /\ g.h = h /\ g.c = Bottom.c
        BY <4>1, <4>2
      <4> QED
        BY <2>0, <2>1, <3>2, <4>1, <4>3 DEF Dropping
    <3> QED
      BY <1>1, <3>2, <3>4
  <2> QED
    BY <2>2, ClosingKept
<1>2. CASE t # Httpd
  <2>1. stack'[Httpd] = stack[Httpd]
    BY <1>2, BecomeStack DEF Tasks
  <2> QED
    BY <2>1, ClosingKept DEF Bottom, Dropping
<1> QED
  BY <1>1, <1>2

LEMMA ClosingPush ==
  ASSUME TypeOK, CallsNest, ClosingReaches,
         \A h \in Endpoints, c \in Clients : Holds(h, c)' => Holds(h, c),
         NEW t \in Tasks, NEW caller \in Calls, NEW call \in Calls,
         stack[t] # <<>>, Push(t, caller, call),
         Top(t).op # "close", caller.op = Top(t).op, caller.h = Top(t).h,
         caller.op = "drop" => caller.c = Top(t).c
  PROVE  ClosingReaches'
<1>1. CASE t = Httpd
  <2>0. PICK n \in Nat \ {0} : n = Len(stack[Httpd])
    BY <1>1, PushStack
  <2>1. /\ Len(stack'[Httpd]) = n + 1
        /\ stack'[Httpd][2] = caller /\ Top(t) = stack[Httpd][1]
        /\ \A k \in 3 .. n + 1 : stack'[Httpd][k] = stack[Httpd][k - 1]
    BY <1>1, <2>0, PushStack DEF Top, TypeOK
  <2>2. ASSUME Bottom'.op = "close"
        PROVE  /\ stack[Httpd] # <<>> /\ Bottom' = Bottom
               /\ \A h \in Endpoints : Dropping(h) => Dropping(h)'
    <3>1. n # 1
      BY <2>0, <2>1, <2>2 DEF Bottom
    <3>2. Bottom' = Bottom
      <4>1. n + 1 \in 3 .. n + 1 /\ (n + 1) - 1 = n
        BY <3>1
      <4> QED
        BY <2>0, <2>1, <4>1 DEF Bottom
    <3>3. n = 2 \/ stack'[Httpd][n] = stack[Httpd][n - 1]
      <4>1. n = 2 \/ n \in 3 .. n + 1
        BY <3>1
      <4> QED
        BY <2>1, <4>1
    <3>4. ASSUME NEW h \in Endpoints, Dropping(h) PROVE Dropping(h)'
      <4> DEFINE f == stack[Httpd][n - 1]
                 g == stack'[Httpd][n]
      <4>1. n >= 2 /\ f.op = "drop" /\ f.h = h /\ f.c = Bottom.c
        BY <2>0, <3>4 DEF Dropping
      <4>2. g = f \/ (g = caller /\ f = Top(t))
        <5>1. n = 2 => n - 1 = 1
          OBVIOUS
        <5> QED
          BY <2>1, <3>3, <5>1
      <4>3. g.op = "drop" /\ g.h = h /\ g.c = Bottom.c
        BY <4>1, <4>2
      <4>4. Len(stack'[Httpd]) >= 2 /\ Len(stack'[Httpd]) - 1 = n
        BY <2>1
      <4> QED
        BY <3>2, <4>3, <4>4 DEF Dropping
    <3> QED
      BY <1>1, <3>2, <3>4
  <2> QED
    BY <2>2, ClosingKept
<1>2. CASE t # Httpd
  <2>1. stack'[Httpd] = stack[Httpd]
    BY <1>2, PushStack DEF Tasks
  <2> QED
    BY <2>1, ClosingKept DEF Bottom, Dropping
<1> QED
  BY <1>1, <1>2

\* A call that ends has done what it was to do.
LEMMA ClosingPop ==
  ASSUME TypeOK, CallsNest, ClosingReaches,
         \A h \in Endpoints, c \in Clients : Holds(h, c)' => Holds(h, c),
         NEW t \in Tasks, stack[t] # <<>>, Pop(t), Top(t).op # "close",
         Top(t).op = "drop" => Top(t).c \notin Range(list'[Top(t).h])
  PROVE  ClosingReaches'
<1>1. CASE t = Httpd
  <2>0. PICK n \in Nat \ {0} : n = Len(stack[Httpd])
    BY <1>1, PopStack
  <2>1. /\ Len(stack'[Httpd]) = n - 1
        /\ Top(t) = stack[Httpd][1]
        /\ \A k \in 1 .. n - 1 : stack'[Httpd][k] = stack[Httpd][k + 1]
    BY <1>1, <2>0, PopStack DEF Top, TypeOK
  <2>2. ASSUME stack'[Httpd] # <<>>, Bottom'.op = "close"
        PROVE  /\ stack[Httpd] # <<>> /\ Bottom' = Bottom
               /\ \A h \in Endpoints : Dropping(h) => Dropping(h)' \/ ~ Holds(h, Bottom.c)'
    <3>1. n - 1 \in 1 .. n - 1
      <4>1. stack' \in [Tasks -> Seq(Calls)] /\ Httpd \in Tasks
        BY PopStack DEF Tasks
      <4>2. Len(stack'[Httpd]) # 0
        BY <2>2, <4>1
      <4>3. n - 1 # 0
        BY <2>1, <4>2
      <4> QED
        BY <2>1, <4>3
    <3>2. Bottom' = Bottom
      <4>1. (n - 1) + 1 = n
        OBVIOUS
      <4> QED
        BY <2>0, <2>1, <3>1, <4>1 DEF Bottom
    <3>3. n = 2 \/ (n - 2 \in 1 .. n - 1 /\ n - 2 >= 1 /\ stack'[Httpd][n - 2] = stack[Httpd][n - 1])
      <4>1. n = 2 \/ (n - 2 \in 1 .. n - 1 /\ n - 2 >= 1 /\ (n - 2) + 1 = n - 1)
        BY <3>1
      <4> QED
        BY <2>1, <4>1
    <3>4. ASSUME NEW h \in Endpoints, Dropping(h), Holds(h, Bottom.c)'
          PROVE  Dropping(h)'
      <4> DEFINE f == stack[Httpd][n - 1]
                 g == stack'[Httpd][n - 2]
      <4>1. n >= 2 /\ f.op = "drop" /\ f.h = h /\ f.c = Bottom.c
        BY <2>0, <3>4 DEF Dropping
      <4>2. n # 2
        <5>1. n = 2 => n - 1 = 1
          OBVIOUS
        <5>2. n = 2 => f = Top(t)
          BY <2>1, <5>1
        <5>3. Bottom.c \in Range(list'[h])
          BY <3>2, <3>4 DEF Holds
        <5> QED
          BY <4>1, <5>2, <5>3
      <4>3. g = f
        BY <3>3, <4>2
      <4>4. Len(stack'[Httpd]) >= 2 /\ Len(stack'[Httpd]) - 1 = n - 2
        BY <2>1, <4>1, <4>2
      <4> QED
        BY <3>2, <4>1, <4>3, <4>4 DEF Dropping
    <3>5. stack[Httpd] # <<>>
      BY <1>1
    <3> QED
      BY <3>2, <3>4, <3>5
  <2> QED
    BY <2>2, ClosingKept
<1>2. CASE t # Httpd
  <2>1. stack'[Httpd] = stack[Httpd]
    BY <1>2, PopStack DEF Tasks
  <2> QED
    BY <2>1, ClosingKept DEF Bottom, Dropping
<1> QED
  BY <1>1, <1>2

-----------------------------------------------------------------------------
(* The calls of a task as a set, for each way its stack changes. *)

LEMMA RangeCons ==
  ASSUME NEW S, NEW s \in Seq(S), NEW x \in S
  PROVE  Range(<<x>> \o s) = {x} \cup Range(s)
<1> DEFINE r == <<x>> \o s
<1>1. PICK n \in Nat : n = Len(s)
  OBVIOUS
<1>2. /\ DOMAIN r = 1 .. n + 1 /\ DOMAIN s = 1 .. n
      /\ r[1] = x /\ \A k \in 1 .. n : r[k + 1] = s[k]
  BY <1>1
<1> HIDE DEF r
<1>3. 1 \in DOMAIN r /\ \A k \in DOMAIN s : k + 1 \in DOMAIN r
  BY <1>2
<1>4. \A k \in DOMAIN r : k = 1 \/ (k - 1 \in DOMAIN s /\ (k - 1) + 1 = k)
  BY <1>2
<1>5. \A k \in DOMAIN r : r[k] = x \/ r[k] \in Range(s)
  BY <1>2, <1>4 DEF Range
<1>6. x \in Range(r) /\ \A k \in DOMAIN s : s[k] \in Range(r)
  BY <1>2, <1>3 DEF Range
<1>7. Range(r) \subseteq {x} \cup Range(s)
  BY <1>5 DEF Range
<1>8. Range(s) \subseteq Range(r)
  BY <1>6 DEF Range
<1> QED
  BY <1>6, <1>7, <1>8 DEF r

LEMMA TopCall ==
  ASSUME TypeOK, NEW t \in Tasks, stack[t] # <<>>
  PROVE  /\ Top(t) \in Calls /\ Top(t) = stack[t][1] /\ Len(stack[t]) \in Nat \ {0}
         /\ Range(stack[t]) = {Top(t)} \cup Range(Tail(stack[t]))
<1>1. stack[t] \in Seq(Calls)
  BY DEF TypeOK
<1>2. /\ Head(stack[t]) \in Calls /\ Head(stack[t]) = stack[t][1] /\ Tail(stack[t]) \in Seq(Calls)
      /\ Len(stack[t]) \in Nat \ {0} /\ stack[t] = <<Head(stack[t])>> \o Tail(stack[t])
  BY <1>1
<1>3. Range(stack[t]) = {Head(stack[t])} \cup Range(Tail(stack[t]))
  BY <1>2, RangeCons
<1> QED
  BY <1>2, <1>3 DEF Top

LEMMA BeginCalls ==
  ASSUME TypeOK, NEW t \in Tasks, NEW call \in Calls, stack' = [stack EXCEPT ![t] = <<call>>]
  PROVE  Range(stack'[t]) = {call}
<1>1. stack'[t] = <<call>>
  BY BeginStack
<1> QED
  BY <1>1 DEF Range

LEMMA BecomeCalls ==
  ASSUME TypeOK, NEW t \in Tasks, stack[t] # <<>>, NEW call \in Calls, Become(t, call)
  PROVE  Range(stack'[t]) = {call} \cup Range(Tail(stack[t]))
<1>1. stack'[t] = <<call>> \o Tail(stack[t]) /\ Tail(stack[t]) \in Seq(Calls)
  BY DEF Become, TypeOK
<1> QED
  BY <1>1, RangeCons

LEMMA PushCalls ==
  ASSUME TypeOK, NEW t \in Tasks, stack[t] # <<>>, NEW caller \in Calls, NEW call \in Calls,
         Push(t, caller, call)
  PROVE  Range(stack'[t]) = {call, caller} \cup Range(Tail(stack[t]))
<1> DEFINE s == Tail(stack[t])
<1>1. stack'[t] = <<call, caller>> \o s /\ s \in Seq(Calls)
  BY DEF Push, TypeOK
<1> HIDE DEF s
<1>2. <<caller>> \o s \in Seq(Calls) /\ stack'[t] = <<call>> \o (<<caller>> \o s)
  BY <1>1
<1>3. Range(<<caller>> \o s) = {caller} \cup Range(s)
  BY <1>1, RangeCons
<1>4. Range(stack'[t]) = {call} \cup Range(<<caller>> \o s)
  BY <1>2, RangeCons
<1> QED
  BY <1>3, <1>4 DEF s

LEMMA PopCalls ==
  ASSUME TypeOK, NEW t \in Tasks, stack[t] # <<>>, Pop(t)
  PROVE  Range(stack'[t]) = Range(Tail(stack[t]))
<1> QED
  BY DEF Pop, TypeOK

LEMMA BeingDeletedCall ==
  ASSUME NEW c
  PROVE  /\ BeingDeleted(c) <=> \E f \in HttpdCalls : f.at = "told" /\ f.c = c
         /\ BeingDeleted(c)' <=> \E f \in HttpdCalls' : f.at = "told" /\ f.c = c
<1> QED
  BY DEF BeingDeleted, HttpdCalls, Range

-----------------------------------------------------------------------------
(* Steps that change nothing but a stack. *)

Records == <<server, open, reg, sock, list, friend, buddies, heard, stray, fault>>

\* A call during which no onClose has been called yet
Silent(f) == f.at \notin {"remove", "told"}

\* What the callbacks do not touch
Rolls == <<server, open, reg, sock, list, friend, buddies, fault>>

LEMMA RollsKept ==
  ASSUME Inv, UNCHANGED Rolls, stack' \in [Tasks -> Seq(Calls)],
         heard' \subseteq Clients \X (Handlers \cup {None}), stray' \in BOOLEAN
  PROVE  TypeOK' /\ OneClientPerSession' /\ BuddyOwned' /\ NoStaleClient' /\ ListsServed'
<1>1. TypeOK'
  BY DEF Inv, TypeOK, Rolls
<1>2. OneClientPerSession'
  BY DEF Inv, OneClientPerSession, Live, Rolls
<1>3. BuddyOwned'
  BY DEF Inv, BuddyOwned, Holds, Rolls
<1>4. NoStaleClient'
  BY DEF Inv, NoStaleClient, Live, Rolls
<1>5. ListsServed'
  BY DEF Inv, ListsServed, Rolls
<1> QED
  BY <1>1, <1>2, <1>3, <1>4, <1>5

LEMMA QuietRecords ==
  ASSUME Inv, UNCHANGED Records, stack' \in [Tasks -> Seq(Calls)]
  PROVE  TypeOK' /\ OneClientPerSession' /\ BuddyOwned' /\ NoStaleClient' /\ ListsServed'
<1>1. UNCHANGED Rolls /\ heard' = heard /\ stray' = stray
  BY DEF Records, Rolls
<1> QED
  BY <1>1, RollsKept DEF Inv, TypeOK

LEMMA QuietUndisturbed ==
  ASSUME TypeOK, Undisturbed, UNCHANGED Records,
         \A t \in AppTasks : stack'[t] = stack[t],
         \A f \in HttpdCalls' : f \in HttpdCalls \/ (CallLive(f) /\ Silent(f)),
         \A f \in HttpdCalls : f \in HttpdCalls' \/ Silent(f),
         SendsListed'
  PROVE  Undisturbed'
<1>1. \A f : CallLive(f)' <=> CallLive(f)
  BY DEF CallLive, Live, Records
<1>2. CallsLive'
  BY <1>1 DEF Undisturbed, CallsLive
<1>3. \A h, c : Told(h, c)' <=> Told(h, c)
  BY DEF Told, IsTold, Silent
<1>4. \A c : BeingDeleted(c)' <=> BeingDeleted(c)
  BY BeingDeletedCall DEF Silent
<1>5. HeardOfHandlers'
  BY <1>3 DEF Undisturbed, HeardOfHandlers, Holds, Records
<1>6. HeardOfServer'
  BY <1>4 DEF Undisturbed, HeardOfServer, Records
<1> QED
  BY <1>2, <1>5, <1>6 DEF Undisturbed, Records

\* What is under the topmost call is no loop at a node.
LEMMA ListedAfterPop ==
  ASSUME TypeOK, CallsNest, NEW t \in Tasks, stack[t] # <<>>, Pop(t), stack'[t] # <<>>
  PROVE  stack'[t][1].at \notin {"node", "use", "next"}
<1>1. PICK n \in Nat \ {0} : n = Len(stack[t])
  BY PopStack
<1>2. /\ Len(stack'[t]) = n - 1 /\ stack'[t] \in Seq(Calls)
      /\ \A k \in 1 .. n - 1 : stack'[t][k] = stack[t][k + 1]
  BY <1>1, PopStack
<1>3. n - 1 # 0
  BY <1>2
<1>4. 2 \in 1 .. n /\ 1 \in 1 .. n - 1 /\ 1 + 1 = 2
  BY <1>3
<1>5. stack'[t][1] = stack[t][2]
  BY <1>2, <1>4
<1>6. stack[t][2].at \in Waits
  BY <1>1, <1>4 DEF CallsNest
<1> QED
  BY <1>5, <1>6 DEF Waits

\* A task begins a call.
LEMMA QuietBegin ==
  ASSUME Inv, UNCHANGED Records, NEW t \in Tasks, NEW call \in Calls, stack[t] = <<>>,
         stack' = [stack EXCEPT ![t] = <<call>>],
         Suits(t, call), call.op = "close" => call.c \in reg, Silent(call),
         ClosingReaches',
         HttpdAlone => t = Httpd /\ CallLive(call) /\ Listed(call)
  PROVE  Inv'
<1> USE DEF Inv
<1>1. stack' \in [Tasks -> Seq(Calls)]
  BY BeginStack
<1>2. CallsNest'
  BY NestBegin DEF Records
<1>3. ASSUME HttpdAlone PROVE Undisturbed'
  <2>1. t = Httpd /\ CallLive(call) /\ Listed(call) /\ Undisturbed
    BY <1>3
  <2>2. HttpdCalls' = {call} /\ stack'[Httpd][1] = call
    BY <2>1, BeginCalls, BeginStack DEF HttpdCalls
  <2>3. HttpdCalls = {}
    BY <2>1 DEF HttpdCalls, Range
  <2>4. SendsListed'
    BY <2>1, <2>2 DEF SendsListed, Listed, Holds, Records
  <2>5. \A u \in AppTasks : stack'[u] = stack[u]
    BY <2>1, BeginStack, TasksAssumption DEF Tasks
  <2> QED
    BY <2>1, <2>2, <2>3, <2>4, <2>5, QuietUndisturbed
<1>4. HttpdAlone' => HttpdAlone
  BY DEF HttpdAlone, Records
<1> QED
  BY <1>1, <1>2, <1>3, <1>4, QuietRecords

\* The topmost call of a task goes on.
LEMMA QuietBecome ==
  ASSUME Inv, UNCHANGED Records, NEW t \in Tasks, NEW call \in Calls, stack[t] # <<>>,
         Become(t, call),
         Suits(t, call), Silent(call), Silent(Top(t)),
         call.op = "close" => Top(t).op = "close" /\ call.c = Top(t).c,
         ClosingReaches',
         HttpdAlone /\ Undisturbed /\ t = Httpd => CallLive(call) /\ Listed(call)
  PROVE  Inv'
<1> USE DEF Inv
<1>1. stack' \in [Tasks -> Seq(Calls)]
  BY BecomeStack
<1>2. CallsNest'
  BY NestBecome DEF Records
<1>3. ASSUME HttpdAlone PROVE Undisturbed'
  <2>1. t = Httpd /\ CallLive(call) /\ Listed(call) /\ Undisturbed
    BY <1>3 DEF Undisturbed, Tasks
  <2> DEFINE R == Range(Tail(stack[Httpd]))
  <2>2. HttpdCalls' = {call} \cup R /\ stack'[Httpd][1] = call
    BY <2>1, BecomeCalls, BecomeStack DEF HttpdCalls
  <2>3. HttpdCalls = {Top(t)} \cup R
    BY <2>1, TopCall DEF HttpdCalls
  <2>4. SendsListed'
    BY <2>1, <2>2 DEF SendsListed, Listed, Holds, Records
  <2>5. \A u \in AppTasks : stack'[u] = stack[u]
    BY <2>1, BecomeStack, TasksAssumption DEF Tasks
  <2> HIDE DEF R
  <2> QED
    BY <2>1, <2>2, <2>3, <2>4, <2>5, QuietUndisturbed
<1>4. HttpdAlone' => HttpdAlone
  BY DEF HttpdAlone, Records
<1> QED
  BY <1>1, <1>2, <1>3, <1>4, QuietRecords

\* The topmost call of a task makes another.
LEMMA QuietPush ==
  ASSUME Inv, UNCHANGED Records, NEW t \in Tasks, NEW caller \in Calls, NEW call \in Calls,
         stack[t] # <<>>, Push(t, caller, call),
         Suits(t, caller), caller.at \in Waits, Silent(caller), Silent(Top(t)),
         caller.op = "close" => Top(t).op = "close" /\ caller.c = Top(t).c,
         Suits(t, call), call.op # "close", Silent(call),
         ClosingReaches',
         HttpdAlone /\ Undisturbed /\ t = Httpd => CallLive(caller) /\ CallLive(call) /\ Listed(call)
  PROVE  Inv'
<1> USE DEF Inv
<1>1. stack' \in [Tasks -> Seq(Calls)]
  BY PushStack
<1>2. CallsNest'
  BY NestPush DEF Records
<1>3. ASSUME HttpdAlone PROVE Undisturbed'
  <2>1. t = Httpd /\ CallLive(caller) /\ CallLive(call) /\ Listed(call) /\ Undisturbed
    BY <1>3 DEF Undisturbed, Tasks
  <2> DEFINE R == Range(Tail(stack[Httpd]))
  <2>2. HttpdCalls' = {call, caller} \cup R /\ stack'[Httpd][1] = call
    BY <2>1, PushCalls, PushStack DEF HttpdCalls
  <2>3. HttpdCalls = {Top(t)} \cup R
    BY <2>1, TopCall DEF HttpdCalls
  <2>4. SendsListed'
    BY <2>1, <2>2 DEF SendsListed, Listed, Holds, Records
  <2>5. \A u \in AppTasks : stack'[u] = stack[u]
    BY <2>1, PushStack, TasksAssumption DEF Tasks
  <2> HIDE DEF R
  <2> QED
    BY <2>1, <2>2, <2>3, <2>4, <2>5, QuietUndisturbed
<1>4. HttpdAlone' => HttpdAlone
  BY DEF HttpdAlone, Records
<1> QED
  BY <1>1, <1>2, <1>3, <1>4, QuietRecords

\* The topmost call of a task ends: a broadcast or a use of an object found.
LEMMA QuietPop ==
  ASSUME Inv, UNCHANGED Records, NEW t \in Tasks, stack[t] # <<>>, Pop(t),
         Silent(Top(t)), Top(t).op \notin {"close", "drop"}
  PROVE  Inv'
<1> USE DEF Inv
<1>1. stack' \in [Tasks -> Seq(Calls)]
  BY PopStack
<1>2. CallsNest'
  BY NestPop DEF Records
<1>3. ClosingReaches'
  <2>1. \A h \in Endpoints, c \in Clients : Holds(h, c)' => Holds(h, c)
    BY DEF Holds, Records
  <2> QED
    BY <2>1, ClosingPop
<1>4. ASSUME HttpdAlone PROVE Undisturbed'
  <2>1. t = Httpd /\ Undisturbed
    BY <1>4 DEF Undisturbed, Tasks
  <2> DEFINE R == Range(Tail(stack[Httpd]))
  <2>2. HttpdCalls' = R
    BY <2>1, PopCalls DEF HttpdCalls
  <2>3. HttpdCalls = {Top(t)} \cup R
    BY <2>1, TopCall DEF HttpdCalls
  <2>4. SendsListed'
    BY <2>1, ListedAfterPop DEF SendsListed, Listed
  <2>5. \A u \in AppTasks : stack'[u] = stack[u]
    BY <2>1, PopStack, TasksAssumption DEF Tasks
  <2> HIDE DEF R
  <2> QED
    BY <2>1, <2>2, <2>3, <2>4, <2>5, QuietUndisturbed
<1>5. HttpdAlone' => HttpdAlone
  BY DEF HttpdAlone, Records
<1> QED
  BY <1>1, <1>2, <1>3, <1>4, <1>5, QuietRecords

-----------------------------------------------------------------------------
(* The calls there are and the calls that are made. *)

LEMMA MadeCall ==
  ASSUME NEW op \in {"close", "drop", "send", "use"},
         NEW at \in {"visit", "told", "notify", "remove", "node", "use", "next", "clean"},
         NEW h \in Handlers \cup {None}, NEW c \in Clients \cup {None}
  PROVE  LET f == Call(op, at, h, c) IN
         /\ f \in Calls
         /\ f.op = op /\ f.at = at /\ f.h = h /\ f.c = c
         /\ Live(c) => CallLive(f)
<1> DEFINE f == Call(op, at, h, c)
<1>1. f.op = op /\ f.at = at /\ f.h = h /\ f.c = c /\ f.failed = <<>>
  BY DEF Call
<1>2. f \in Calls
  BY DEF Call, Calls
<1>3. Range(f.failed) = {}
  BY <1>1 DEF Range
<1> HIDE DEF f
<1>4. Live(c) => CallLive(f)
  BY <1>1, <1>3 DEF CallLive
<1> QED
  BY <1>1, <1>2, <1>4 DEF f

\* A call that has moved on is otherwise the same.
LEMMA MovedCall ==
  ASSUME NEW f \in Calls,
         NEW at \in {"visit", "told", "notify", "remove", "node", "use", "next", "clean"}
  PROVE  LET g == [f EXCEPT !.at = at] IN
         /\ g \in Calls
         /\ g.op = f.op /\ g.at = at /\ g.h = f.h /\ g.c = f.c /\ g.todo = f.todo
         /\ g.failed = f.failed
         /\ CallLive(g) <=> CallLive(f)
<1> DEFINE g == [f EXCEPT !.at = at]
<1>1. g \in Calls
  BY DEF Calls
<1>2. /\ g.op = f.op /\ g.at = at /\ g.h = f.h /\ g.c = f.c /\ g.todo = f.todo
      /\ g.failed = f.failed
  BY DEF Calls
<1> HIDE DEF g
<1>3. CallLive(g) <=> CallLive(f)
  BY <1>2 DEF CallLive
<1> QED
  BY <1>1, <1>2, <1>3 DEF g

LEMMA HeadListed ==
  ASSUME TypeOK, NEW h \in Handlers, list[h] # <<>>
  PROVE  Head(list[h]) \in Clients /\ Holds(h, Head(list[h]))
<1>1. list[h] \in Seq(Clients)
  BY DEF TypeOK
<1>2. Head(list[h]) = list[h][1] /\ 1 \in DOMAIN list[h] /\ Head(list[h]) \in Clients
  BY <1>1
<1> QED
  BY <1>2 DEF Holds, Range

LEMMA ListedLive ==
  ASSUME TypeOK, NoStaleClient, NEW h \in Endpoints, NEW c, Holds(h, c)
  PROVE  c \in Clients /\ c \in reg /\ Live(c)
<1> QED
  BY DEF NoStaleClient, Holds, TypeOK

LEMMA StreamsAreEndpoints ==
  \A h \in Streams : h \in Endpoints /\ h \in Handlers
<1> QED
  BY HandlersAssumption

LEMMA EmptyTail ==
  ASSUME NEW S, NEW s \in Seq(S), Len(s) = 1
  PROVE  Tail(s) = <<>>
<1>1. Tail(s) \in Seq(S) /\ Len(Tail(s)) = 0
  OBVIOUS
<1>2. ASSUME NEW r \in Seq(S), Len(r) = 0 PROVE r = <<>>
  BY <1>2
<1> QED
  BY <1>1, <1>2

\* What the invariant says of the topmost call
LEMMA TopFacts ==
  ASSUME Inv, NEW t \in Tasks, stack[t] # <<>>
  PROVE  /\ Top(t) \in Calls /\ Suits(t, Top(t)) /\ Top(t) = stack[t][1]
         /\ Top(t).op = "close" =>
              /\ t = Httpd /\ Len(stack[t]) = 1 /\ Bottom = Top(t) /\ Top(t).c \in reg
              /\ Tail(stack[t]) = <<>>
         /\ HttpdAlone => t = Httpd /\ CallLive(Top(t)) /\ Listed(Top(t))
<1>1. /\ Top(t) \in Calls /\ Top(t) = stack[t][1]
      /\ Range(stack[t]) = {Top(t)} \cup Range(Tail(stack[t]))
  BY TopCall DEF Inv
<1>2. PICK n \in Nat \ {0} : n = Len(stack[t])
  BY TopCall DEF Inv
<1>3. 1 \in 1 .. n
  OBVIOUS
<1>4. /\ Suits(t, Top(t))
      /\ Top(t).op = "close" => Len(stack[t]) = 1 /\ Top(t).c \in reg
  BY <1>1, <1>2, <1>3 DEF Inv, CallsNest
<1>5. Top(t).op = "close" => t = Httpd /\ Bottom = Top(t)
  BY <1>1, <1>4 DEF Suits, Bottom
<1>6. Top(t).op = "close" => Tail(stack[t]) = <<>>
  <2>1. stack[t] \in Seq(Calls)
    BY DEF Inv, TypeOK
  <2> QED
    BY <1>4, <2>1, EmptyTail
<1>7. ASSUME HttpdAlone PROVE t = Httpd /\ CallLive(Top(t)) /\ Listed(Top(t))
  <2>1. t = Httpd
    BY <1>7 DEF Inv, Undisturbed, Tasks
  <2> QED
    BY <1>1, <1>7, <2>1 DEF Inv, Undisturbed, CallsLive, SendsListed, HttpdCalls
<1> QED
  BY <1>1, <1>4, <1>5, <1>6, <1>7

-----------------------------------------------------------------------------
(* Broadcasts and look-ups. *)

LEMMA StartSendInv ==
  ASSUME Inv, NEW t \in Tasks, NEW h \in Streams, StartSend(t, h)
  PROVE  Inv'
<1> DEFINE c == Head(list[h])
           call == Call("send", "node", h, c)
<1>1. c \in Clients /\ Holds(h, c) /\ Live(c)
  BY StreamsAreEndpoints, HeadListed, ListedLive DEF Inv, StartSend
<1>2. /\ call \in Calls /\ call.op = "send" /\ call.at = "node" /\ call.h = h /\ call.c = c
      /\ CallLive(call)
  BY <1>1, StreamsAreEndpoints, MadeCall
<1>3. stack[t] = <<>> /\ UNCHANGED Records /\ stack' = [stack EXCEPT ![t] = <<call>>]
  BY DEF StartSend, Idle, Records
<1>4. HttpdAlone => t = Httpd
  BY DEF StartSend, HttpdAlone
<1> HIDE DEF call, c
<1>5. Suits(t, call) /\ Silent(call) /\ Listed(call)
  BY <1>1, <1>2 DEF Suits, Silent, Listed
<1>6. ClosingReaches'
  <2>1. \A g \in Endpoints, d \in Clients : Holds(g, d)' => Holds(g, d)
    BY <1>3 DEF Holds, Records
  <2> QED
    BY <1>2, <1>3, <2>1, ClosingBegin DEF Inv
<1> QED
  BY <1>2, <1>3, <1>4, <1>5, <1>6, QuietBegin

LEMMA LookUpInv ==
  ASSUME Inv, NEW t \in AppTasks, NEW h \in Streams, NEW c \in Clients, LookUp(t, h, c)
  PROVE  Inv'
<1> DEFINE call == Call("use", "use", h, c)
<1>1. /\ call \in Calls /\ call.op = "use" /\ call.at = "use" /\ call.h = h /\ call.c = c
  BY StreamsAreEndpoints, MadeCall
<1>2. stack[t] = <<>> /\ UNCHANGED Records /\ stack' = [stack EXCEPT ![t] = <<call>>]
  BY DEF LookUp, Idle, Records
<1>3. ~ HttpdAlone /\ t \in Tasks
  BY DEF LookUp, HttpdAlone, Tasks
<1> HIDE DEF call
<1>4. Suits(t, call) /\ Silent(call)
  BY <1>1 DEF Suits, Silent
<1>5. ClosingReaches'
  <2>1. \A g \in Endpoints, d \in Clients : Holds(g, d)' => Holds(g, d)
    BY <1>2 DEF Holds, Records
  <2> QED
    BY <1>1, <1>2, <1>3, <2>1, ClosingBegin DEF Inv
<1> QED
  BY <1>1, <1>2, <1>3, <1>4, <1>5, QuietBegin

\* A crash on a task other than httpd's, or of a handler that is no endpoint's
LEMMA CrashInv ==
  ASSUME Inv, NEW h \in Handlers, Crash(h), HttpdAlone => h \notin Endpoints
  PROVE  Inv'
<1> USE DEF Inv, Crash
<1>1. TypeOK' /\ OneClientPerSession' /\ BuddyOwned' /\ NoStaleClient' /\ ListsServed'
  BY DEF TypeOK, OneClientPerSession, BuddyOwned, NoStaleClient, ListsServed, Live, Holds
<1>2. CallsNest' /\ ClosingReaches'
  BY DEF CallsNest, ClosingReaches, Bottom, Dropping, Holds
<1>3. ASSUME HttpdAlone PROVE Undisturbed'
  <2>1. Undisturbed /\ h \notin Endpoints
    BY <1>3
  <2>2. CallsLive' /\ SendsListed'
    BY <2>1 DEF Undisturbed, CallsLive, SendsListed, CallLive, HttpdCalls, Live, Listed, Holds
  <2>3. HeardOfHandlers'
    BY <2>1 DEF Undisturbed, HeardOfHandlers, Told, HttpdCalls, Holds
  <2>4. HeardOfServer'
    BY <2>1 DEF Undisturbed, HeardOfServer, BeingDeleted
  <2> QED
    BY <2>1, <2>2, <2>3, <2>4 DEF Undisturbed
<1>4. HttpdAlone' => HttpdAlone
  BY DEF HttpdAlone
<1> QED
  BY <1>1, <1>2, <1>3, <1>4

\* A broadcast goes on.
LEMMA SendGoesOn ==
  ASSUME Inv, UNCHANGED Records, NEW t \in Tasks, stack[t] # <<>>, Top(t).op = "send",
         NEW call \in Calls, Become(t, call),
         call.op = "send", call.h = Top(t).h, call.c \in Clients,
         call.at \in {"node", "use", "next", "clean"},
         HttpdAlone => CallLive(call) /\ Listed(call)
  PROVE  Inv'
<1>1. Suits(t, call) /\ Silent(call) /\ Silent(Top(t)) /\ call.op # "close" /\ call.op # "drop"
  BY TopFacts DEF Suits, Silent
<1>2. ClosingReaches'
  <2>1. \A h \in Endpoints, c \in Clients : Holds(h, c)' => Holds(h, c)
    BY DEF Holds, Records
  <2> QED
    BY <1>1, <2>1, ClosingBecome DEF Inv
<1> QED
  BY <1>1, <1>2, QuietBecome

LEMMA VisitNodeInv ==
  ASSUME Inv, NEW t \in Tasks, VisitNode(t)
  PROVE  Inv'
<1> DEFINE f == Top(t)
<1>1. stack[t] # <<>> /\ f.op = "send" /\ f.at = "node"
  BY DEF VisitNode, In, Top
<1>2. /\ f \in Calls /\ f.h \in Streams /\ f.c \in Clients
      /\ HttpdAlone => CallLive(f) /\ Holds(f.h, f.c)
  BY <1>1, TopFacts DEF Suits, Listed
<1>3. CASE /\ \E to \in {"use", "next"} : Become(t, [f EXCEPT !.at = to])
           /\ UNCHANGED Records
  <2>1. PICK to \in {"use", "next"} : Become(t, [f EXCEPT !.at = to])
    BY <1>3
  <2> DEFINE call == [f EXCEPT !.at = to]
  <2>2. /\ call \in Calls /\ call.op = f.op /\ call.at = to /\ call.h = f.h /\ call.c = f.c
        /\ call.failed = f.failed
    BY <1>2 DEF Calls
  <2> HIDE DEF call
  <2>3. HttpdAlone => CallLive(call) /\ Listed(call)
    BY <1>2, <2>2 DEF Listed, CallLive
  <2> QED
    BY <1>1, <1>2, <1>3, <2>1, <2>2, <2>3, SendGoesOn DEF call
<1>4. CASE Crash(f.h) /\ ~ (Holds(f.h, f.c) /\ Live(f.c) /\ (friend[f.c] = f.h \/ f.h \in WebSockets))
  <2>1. HttpdAlone => FALSE
    BY <1>2, <1>4 DEF CallLive, Inv, BuddyOwned, Holds
  <2> QED
    BY <1>2, <1>4, <2>1, StreamsAreEndpoints, CrashInv
<1> QED
  BY <1>3, <1>4 DEF VisitNode, Records

LEMMA UseBuddyInv ==
  ASSUME Inv, NEW t \in Tasks, UseBuddy(t)
  PROVE  Inv'
<1> DEFINE f == Top(t)
           next == [f EXCEPT !.at = "next"]
<1>1. stack[t] # <<>> /\ f.op = "send" /\ f.at = "use"
  BY DEF UseBuddy, In, Top
<1>2. /\ f \in Calls /\ f.h \in Streams /\ f.c \in Clients
      /\ HttpdAlone => CallLive(f) /\ Holds(f.h, f.c)
  BY <1>1, TopFacts DEF Suits, Listed
<1>3. /\ next \in Calls /\ next.op = f.op /\ next.at = "next" /\ next.h = f.h /\ next.c = f.c
      /\ next.failed = f.failed
      /\ CallLive(next) <=> CallLive(f)
  BY <1>2, MovedCall
<1> HIDE DEF next
<1>4. CASE Become(t, next) /\ UNCHANGED Records
  <2>1. HttpdAlone => CallLive(next) /\ Listed(next)
    BY <1>2, <1>3 DEF Listed
  <2> QED
    BY <1>1, <1>2, <1>3, <1>4, <2>1, SendGoesOn
<1>5. CASE Become(t, [next EXCEPT !.failed = Append(@, f.c)]) /\ UNCHANGED Records
  <2> DEFINE call == [next EXCEPT !.failed = Append(@, f.c)]
  <2>1. next.failed \in Seq(Clients)
    BY <1>3 DEF Calls
  <2>2. /\ call \in Calls /\ call.op = f.op /\ call.at = "next" /\ call.h = f.h /\ call.c = f.c
        /\ call.failed = Append(next.failed, f.c)
    BY <1>2, <1>3, <2>1 DEF Calls
  <2>3. Range(call.failed) = Range(next.failed) \cup {f.c}
    BY <1>2, <2>1, <2>2, RangeAppend
  <2> HIDE DEF call
  <2>4. HttpdAlone => CallLive(call) /\ Listed(call)
    BY <1>2, <1>3, <2>2, <2>3 DEF Listed, CallLive
  <2> QED
    BY <1>1, <1>2, <1>5, <2>2, <2>4, SendGoesOn DEF call
<1>6. CASE <<f.c, f.h>> \notin buddies /\ Crash(f.h)
  <2>1. HttpdAlone => FALSE
    BY <1>2, <1>6 DEF Inv, BuddyOwned, Holds
  <2> QED
    BY <1>2, <1>6, <2>1, StreamsAreEndpoints, CrashInv
<1> QED
  BY <1>4, <1>5, <1>6 DEF UseBuddy, Records, next

LEMMA NextNodeInv ==
  ASSUME Inv, NEW t \in Tasks, NextNode(t)
  PROVE  Inv'
<1> DEFINE f == Top(t)
<1>1. stack[t] # <<>> /\ f.op = "send" /\ f.at = "next"
  BY DEF NextNode, In, Top
<1>2. /\ f \in Calls /\ f.h \in Streams /\ f.c \in Clients
      /\ HttpdAlone => CallLive(f) /\ Holds(f.h, f.c)
  BY <1>1, TopFacts DEF Suits, Listed
<1>3. f.h \in Handlers /\ list[f.h] \in Seq(Clients)
  BY <1>2, StreamsAreEndpoints DEF Inv, TypeOK
<1>4. ASSUME NEW k \in DOMAIN list[f.h], k < Len(list[f.h]), UNCHANGED Records,
             Become(t, [f EXCEPT !.at = "node", !.c = list[f.h][k + 1]])
      PROVE  Inv'
  <2> DEFINE d == list[f.h][k + 1]
             call == [f EXCEPT !.at = "node", !.c = d]
  <2>1. k + 1 \in DOMAIN list[f.h]
    BY <1>3, <1>4
  <2>2. d \in Clients /\ Holds(f.h, d)
    BY <1>3, <2>1 DEF Holds, Range
  <2>3. Live(d)
    BY <1>2, <2>2, StreamsAreEndpoints, ListedLive DEF Inv
  <2> HIDE DEF d
  <2>4. /\ call \in Calls /\ call.op = f.op /\ call.at = "node" /\ call.h = f.h /\ call.c = d
        /\ call.failed = f.failed
    BY <1>2, <2>2 DEF Calls
  <2> HIDE DEF call
  <2>5. HttpdAlone => CallLive(call) /\ Listed(call)
    BY <1>2, <2>2, <2>3, <2>4 DEF Listed, CallLive
  <2> QED
    BY <1>1, <1>2, <1>4, <2>2, <2>4, <2>5, SendGoesOn DEF call, d
<1>5. CASE Become(t, [f EXCEPT !.at = "clean"]) /\ UNCHANGED Records
  <2> DEFINE call == [f EXCEPT !.at = "clean"]
  <2>1. /\ call \in Calls /\ call.op = f.op /\ call.at = "clean" /\ call.h = f.h /\ call.c = f.c
        /\ CallLive(call) <=> CallLive(f)
    BY <1>2, MovedCall
  <2> HIDE DEF call
  <2>2. HttpdAlone => CallLive(call) /\ Listed(call)
    BY <1>2, <2>1 DEF Listed
  <2> QED
    BY <1>1, <1>2, <1>5, <2>1, <2>2, SendGoesOn DEF call
<1>6. CASE ~ Holds(f.h, f.c) /\ Crash(f.h)
  BY <1>2, <1>3, <1>6, CrashInv
<1> QED
  BY <1>4, <1>5, <1>6 DEF NextNode, Records

LEMMA CleanUpInv ==
  ASSUME Inv, NEW t \in Tasks, CleanUp(t)
  PROVE  Inv'
<1> DEFINE f == Top(t)
<1>1. stack[t] # <<>> /\ f.op = "send" /\ f.at = "clean" /\ UNCHANGED Records
  BY DEF CleanUp, In, Top, Records
<1>2. f \in Calls /\ f.h \in Streams /\ f.c \in Clients /\ (HttpdAlone => CallLive(f))
  BY <1>1, TopFacts DEF Suits
<1>3. f.failed \in Seq(Clients)
  BY <1>2 DEF Calls
<1>4. CASE Pop(t)
  BY <1>1, <1>4, QuietPop DEF Silent
<1>5. CASE /\ f.failed # <<>>
           /\ Push(t, [f EXCEPT !.failed = Tail(@)], Call("drop", "notify", f.h, Head(f.failed)))
  <2> DEFINE c == Head(f.failed)
             call == Call("drop", "notify", f.h, c)
             caller == [f EXCEPT !.failed = Tail(@)]
  <2>1. /\ c \in Clients /\ Tail(f.failed) \in Seq(Clients)
        /\ c \in Range(f.failed) /\ Range(Tail(f.failed)) \subseteq Range(f.failed)
    <3>1. PICK r : r = f.failed
      OBVIOUS
    <3>2. r \in Seq(Clients) /\ r # <<>>
      BY <1>3, <1>5, <3>1
    <3>3. Head(r) \in Clients /\ Tail(r) \in Seq(Clients) /\ r = <<Head(r)>> \o Tail(r)
      BY <3>2
    <3>4. Range(r) = {Head(r)} \cup Range(Tail(r))
      BY <3>3, RangeCons
    <3> QED
      BY <3>1, <3>3, <3>4
  <2>2. /\ call \in Calls /\ call.op = "drop" /\ call.at = "notify" /\ call.h = f.h /\ call.c = c
        /\ Live(c) => CallLive(call)
    BY <1>2, <2>1, StreamsAreEndpoints, MadeCall
  <2>3. /\ caller \in Calls /\ caller.op = f.op /\ caller.at = f.at /\ caller.h = f.h
        /\ caller.c = f.c /\ caller.failed = Tail(f.failed)
    BY <1>2, <2>1 DEF Calls
  <2>4. HttpdAlone => CallLive(caller) /\ CallLive(call)
    <3> HIDE DEF caller, call, c
    <3> QED
      BY <1>2, <2>1, <2>2, <2>3 DEF CallLive
  <2>5. \A h \in Endpoints, d \in Clients : Holds(h, d)' => Holds(h, d)
    BY <1>1 DEF Holds, Records
  <2> HIDE DEF caller, call, c
  <2>6. Push(t, caller, call)
    BY <1>5 DEF caller, call, c
  <2>7. /\ Suits(t, caller) /\ Silent(caller) /\ caller.at \in Waits
        /\ Suits(t, call) /\ Silent(call) /\ Listed(call) /\ Silent(f)
    BY <1>1, <1>2, <2>1, <2>2, <2>3, StreamsAreEndpoints DEF Suits, Silent, Waits, Listed
  <2>8. ClosingReaches'
    BY <1>1, <2>2, <2>3, <2>5, <2>6, ClosingPush DEF Inv
  <2> QED
    BY <1>1, <2>2, <2>3, <2>4, <2>6, <2>7, <2>8, QuietPush
<1> QED
  BY <1>4, <1>5 DEF CleanUp

LEMMA UseFoundInv ==
  ASSUME Inv, NEW t \in Tasks, UseFound(t)
  PROVE  Inv'
<1>1. stack[t] # <<>> /\ Top(t).op = "use" /\ Top(t).at = "use"
  BY DEF UseFound, In, Top
<1>2. t \in AppTasks /\ Top(t).h \in Streams
  BY <1>1, TopFacts DEF Suits
<1>3. ~ HttpdAlone
  BY <1>1, <1>2 DEF Inv, Undisturbed
<1>4. CASE Pop(t) /\ UNCHANGED Records
  BY <1>1, <1>4, QuietPop DEF Silent
<1>5. CASE Crash(Top(t).h)
  BY <1>2, <1>3, <1>5, StreamsAreEndpoints, CrashInv
<1> QED
  BY <1>4, <1>5 DEF UseFound, Records

-----------------------------------------------------------------------------
(* A session closes. *)

LEMMA CloseSessionInv ==
  ASSUME Inv, NEW s \in Sockets, CloseSession(s)
  PROVE  Inv'
<1>1. PICK c \in GetClient(s) :
        stack' = [stack EXCEPT ![Httpd] =
                   <<[Call("close", "visit", None, c) EXCEPT !.todo = Endpoints \cap server.handlers]>>]
  BY DEF CloseSession
<1>2. stack[Httpd] = <<>> /\ UNCHANGED Records /\ Httpd \in Tasks
  BY DEF CloseSession, Idle, Records, Tasks
<1>3. c \in reg /\ c \in Clients /\ Live(c)
  BY <1>1 DEF GetClient, Inv, OneClientPerSession, TypeOK
<1> DEFINE call == [Call("close", "visit", None, c) EXCEPT !.todo = Endpoints \cap server.handlers]
<1>4. /\ call \in Calls /\ call.op = "close" /\ call.at = "visit" /\ call.c = c
      /\ call.todo = Endpoints \cap server.handlers /\ call.failed = <<>>
  <2>1. PICK g : g = Call("close", "visit", None, c)
    OBVIOUS
  <2>2. g \in Calls /\ g.op = "close" /\ g.at = "visit" /\ g.c = c
    BY <1>3, <2>1, MadeCall
  <2>3. g.failed = <<>>
    BY <2>1 DEF Call
  <2>4. call = [g EXCEPT !.todo = Endpoints \cap server.handlers]
    BY <2>1
  <2> HIDE DEF call
  <2> QED
    BY <2>2, <2>3, <2>4 DEF Calls
<1>5. stack' = [stack EXCEPT ![Httpd] = <<call>>]
  BY <1>1
<1> HIDE DEF call
<1>6. Suits(Httpd, call) /\ Silent(call) /\ Listed(call)
  BY <1>3, <1>4 DEF Suits, Silent, Listed
<1>7. CallLive(call)
  BY <1>3, <1>4 DEF CallLive, Range
<1>8. ClosingReaches'
  <2>1. Bottom' = call
    BY <1>2, <1>4, <1>5, BeginStack DEF Bottom, Inv
  <2>2. ASSUME NEW h \in Endpoints, Holds(h, c)' PROVE h \in call.todo
    <3>1. list[h] # <<>>
      BY <1>2, <2>2 DEF Holds, Range, Records
    <3> QED
      BY <1>4, <3>1, HandlersAssumption DEF Inv, ListsServed
  <2> QED
    BY <1>4, <2>1, <2>2 DEF ClosingReaches
<1> QED
  BY <1>2, <1>3, <1>4, <1>5, <1>6, <1>7, <1>8, QuietBegin

LEMMA VisitEndpointInv ==
  ASSUME Inv, NEW h \in Endpoints, VisitEndpoint(h)
  PROVE  Inv'
<1>0. PICK f, c : f = Top(Httpd) /\ c = f.c
  OBVIOUS
<1> DEFINE rest == [f EXCEPT !.todo = @ \ {h}]
           call == Call("drop", "notify", h, c)
<1>1. /\ stack[Httpd] # <<>> /\ f.op = "close" /\ f.at = "visit" /\ h \in f.todo
      /\ UNCHANGED Records /\ Httpd \in Tasks
  BY <1>0 DEF VisitEndpoint, In, Top, Records, Tasks
<1>2. /\ f \in Calls /\ c \in Clients /\ c \in reg /\ Len(stack[Httpd]) = 1 /\ Bottom = f
      /\ HttpdAlone => CallLive(f)
  BY <1>0, <1>1, TopFacts DEF Suits
<1>3. /\ rest \in Calls /\ rest.op = "close" /\ rest.at = "visit" /\ rest.c = c
      /\ rest.todo = f.todo \ {h} /\ rest.failed = f.failed
  BY <1>0, <1>1, <1>2 DEF Calls
<1>4. \A g \in Endpoints : Holds(g, c) => g \in f.todo
  <2>1. ~ (Len(stack[Httpd]) >= 2)
    BY <1>2
  <2> QED
    BY <1>0, <1>1, <1>2, <2>1 DEF Inv, ClosingReaches, Dropping
<1>5. \A g \in Endpoints : Holds(g, c)' => Holds(g, c)
  BY <1>1 DEF Holds, Records
<1> HIDE DEF rest
<1>6. Suits(Httpd, rest) /\ Silent(rest) /\ Listed(rest) /\ rest.at \in Waits /\ Silent(f)
  BY <1>1, <1>2, <1>3 DEF Suits, Silent, Listed, Waits
<1>7. HttpdAlone => CallLive(rest)
  BY <1>0, <1>2, <1>3 DEF CallLive
<1>8. CASE ~ Holds(h, c) /\ Become(Httpd, rest)
  <2>1. Bottom' = rest
    BY <1>1, <1>2, <1>3, <1>8, BecomeStack DEF Bottom, Inv
  <2>2. ClosingReaches'
    BY <1>3, <1>4, <1>5, <1>8, <2>1 DEF ClosingReaches
  <2> QED
    BY <1>0, <1>1, <1>3, <1>6, <1>7, <1>8, <2>2, QuietBecome
<1>9. CASE Holds(h, c) /\ Push(Httpd, rest, call)
  <2>1. c \in reg /\ Live(c)
    BY <1>9, ListedLive DEF Inv
  <2>2. /\ call \in Calls /\ call.op = "drop" /\ call.at = "notify" /\ call.h = h /\ call.c = c
        /\ CallLive(call)
    BY <1>2, <2>1, HandlersAssumption, MadeCall
  <2> HIDE DEF call
  <2>3. Suits(Httpd, call) /\ Silent(call) /\ Listed(call)
    BY <1>2, <2>2 DEF Suits, Silent, Listed
  <2>4. Len(stack'[Httpd]) = 2 /\ stack'[Httpd][1] = call /\ stack'[Httpd][2] = rest
    <3>1. /\ Len(stack'[Httpd]) = Len(stack[Httpd]) + 1
          /\ stack'[Httpd][1] = call /\ stack'[Httpd][2] = rest
      BY <1>1, <1>3, <1>9, <2>2, PushStack DEF Inv
    <3> QED
      BY <1>2, <3>1
  <2>5. Bottom' = rest
    BY <2>4 DEF Bottom
  <2>6. Dropping(h)'
    BY <1>3, <2>2, <2>4, <2>5 DEF Dropping
  <2>7. ClosingReaches'
    BY <1>3, <1>4, <1>5, <2>5, <2>6 DEF ClosingReaches
  <2> QED
    BY <1>0, <1>1, <1>3, <1>6, <1>7, <1>9, <2>2, <2>3, <2>7, QuietPush
<1> QED
  BY <1>0, <1>8, <1>9 DEF VisitEndpoint, rest

LEMMA ShortLists ==
  ASSUME NEW S, NEW x \in S, NEW y \in S
  PROVE  /\ Append(<<>>, x) = <<x>> \o <<>>
         /\ Append(<<y>>, x) = <<y, x>> \o <<>>
<1>1. ASSUME NEW s \in Seq(S), NEW r \in Seq(S), Len(s) = Len(r),
             \A i \in 1 .. Len(s) : s[i] = r[i]
      PROVE  s = r
  BY <1>1
<1>2. /\ Append(<<>>, x) \in Seq(S) /\ Len(Append(<<>>, x)) = 1 /\ Append(<<>>, x)[1] = x
      /\ <<x>> \o <<>> \in Seq(S) /\ Len(<<x>> \o <<>>) = 1 /\ (<<x>> \o <<>>)[1] = x
  OBVIOUS
<1>3. /\ Append(<<y>>, x) \in Seq(S) /\ Len(Append(<<y>>, x)) = 2
      /\ Append(<<y>>, x)[1] = y /\ Append(<<y>>, x)[2] = x
  OBVIOUS
<1>4. /\ <<y, x>> \o <<>> \in Seq(S) /\ Len(<<y, x>> \o <<>>) = 2
      /\ (<<y, x>> \o <<>>)[1] = y /\ (<<y, x>> \o <<>>)[2] = x
  OBVIOUS
<1>5. \A i \in 1 .. 1 : i = 1
  OBVIOUS
<1>6. \A i \in 1 .. 2 : i = 1 \/ i = 2
  OBVIOUS
<1>7. Append(<<>>, x) = <<x>> \o <<>>
  BY <1>1, <1>2, <1>5
<1>8. Append(<<y>>, x) = <<y, x>> \o <<>>
  BY <1>1, <1>3, <1>4, <1>6
<1> QED
  BY <1>7, <1>8

\* What the server's own callbacks may do: nothing, or send to a list that has someone
LEMMA BroadcastFacts ==
  ASSUME Inv, NEW calls \in Broadcasts
  PROVE  \/ calls = <<>>
         \/ \E f \in Calls : calls = <<f>> /\ f.op = "send" /\ f.at = "node" /\ f.h \in Streams
                             /\ f.c \in Clients /\ Holds(f.h, f.c) /\ CallLive(f)
<1> SUFFICES ASSUME NEW h \in Streams, list[h] # <<>>,
                    calls = <<Call("send", "node", h, Head(list[h]))>>
             PROVE  \E f \in Calls : calls = <<f>> /\ f.op = "send" /\ f.at = "node" /\ f.h \in Streams
                             /\ f.c \in Clients /\ Holds(f.h, f.c) /\ CallLive(f)
  BY DEF Broadcasts
<1>1. PICK c : c = Head(list[h])
  OBVIOUS
<1>2. c \in Clients /\ Holds(h, c) /\ Live(c)
  BY <1>1, StreamsAreEndpoints, HeadListed, ListedLive DEF Inv
<1>3. PICK f : f = Call("send", "node", h, c)
  OBVIOUS
<1>4. f \in Calls /\ f.op = "send" /\ f.at = "node" /\ f.h = h /\ f.c = c /\ CallLive(f)
  BY <1>2, <1>3, StreamsAreEndpoints, MadeCall
<1> QED
  BY <1>1, <1>2, <1>3, <1>4

LEMMA TellServerInv ==
  ASSUME Inv, TellServer
  PROVE  Inv'
<1>0. PICK f, c : f = Top(Httpd) /\ c = f.c
  OBVIOUS
<1> DEFINE call == [f EXCEPT !.at = "told"]
<1>1. /\ stack[Httpd] # <<>> /\ f.op = "close" /\ f.at = "visit" /\ f.todo = {}
      /\ UNCHANGED Rolls /\ Httpd \in Tasks
      /\ heard' = heard \ {<<c, None>>}
      /\ stray' = (stray \/ <<c, None>> \notin heard)
  BY <1>0 DEF TellServer, In, Top, Rolls, Tasks
<1>2. /\ f \in Calls /\ c \in Clients /\ c \in reg /\ Len(stack[Httpd]) = 1 /\ Bottom = f
      /\ Tail(stack[Httpd]) = <<>>
      /\ HttpdAlone => CallLive(f)
  BY <1>0, <1>1, TopFacts DEF Suits
<1>3. /\ call \in Calls /\ call.op = "close" /\ call.at = "told" /\ call.c = c
      /\ call.todo = f.todo /\ call.failed = f.failed
  BY <1>0, <1>1, <1>2 DEF Calls
<1>4. \A g \in Endpoints : ~ Holds(g, c)
  <2>1. ~ (Len(stack[Httpd]) >= 2)
    BY <1>2
  <2> QED
    BY <1>0, <1>1, <1>2, <2>1 DEF Inv, ClosingReaches, Dropping
<1>5. \A g \in Endpoints : ~ Holds(g, c)'
  BY <1>1, <1>4 DEF Holds, Rolls
<1>6. PICK calls \in Broadcasts : stack' = [stack EXCEPT ![Httpd] = Append(calls, call)]
  BY <1>0 DEF TellServer
<1> HIDE DEF call
<1>7. \/ Become(Httpd, call)
      \/ \E g \in Calls : Push(Httpd, call, g) /\ g.op = "send" /\ g.at = "node" /\ g.h \in Streams
                          /\ g.c \in Clients /\ Holds(g.h, g.c) /\ CallLive(g)
  <2>1. CASE calls = <<>>
    BY <1>2, <1>3, <1>6, <2>1, ShortLists DEF Become
  <2>2. ASSUME NEW g \in Calls, calls = <<g>> PROVE Push(Httpd, call, g)
    <3>1. Append(<<g>>, call) = <<g, call>> \o <<>>
      BY <1>3, ShortLists
    <3> QED
      BY <1>2, <1>6, <2>2, <3>1 DEF Push
  <2> QED
    BY <1>6, <2>1, <2>2, BroadcastFacts
<1> DEFINE Announced ==
             /\ stack' \in [Tasks -> Seq(Calls)] /\ \A t \in AppTasks : stack'[t] = stack[t]
             /\ stack'[Httpd] # <<>> /\ Bottom' = call
             /\ CallsNest'
             /\ call \in HttpdCalls'
             /\ \A g \in HttpdCalls' : g = call \/ (CallLive(g) /\ g.op = "send" /\ g.at = "node")
             /\ stack'[Httpd][1].at \in {"node", "use", "next"} =>
                  Holds(stack'[Httpd][1].h, stack'[Httpd][1].c)
<1>8. Announced
  <2>1. Suits(Httpd, call) /\ reg \subseteq reg' /\ call.at \in Waits
    BY <1>1, <1>2, <1>3 DEF Suits, Waits, Rolls
  <2>2. \A t \in AppTasks : t \in Tasks \ {Httpd}
    BY TasksAssumption DEF Tasks
  <2>3. Range(Tail(stack[Httpd])) = {}
    BY <1>2 DEF Range
  <2>4. CASE Become(Httpd, call)
    <3>1. /\ stack' \in [Tasks -> Seq(Calls)] /\ \A t \in AppTasks : stack'[t] = stack[t]
          /\ Len(stack'[Httpd]) = 1 /\ stack'[Httpd][1] = call /\ stack'[Httpd] # <<>>
      BY <1>1, <1>2, <1>3, <2>2, <2>4, BecomeStack DEF Inv
    <3>2. HttpdCalls' = {call}
      BY <1>1, <1>3, <2>3, <2>4, BecomeCalls DEF HttpdCalls, Inv
    <3>3. CallsNest'
      BY <1>0, <1>1, <1>3, <2>1, <2>4, NestBecome DEF Inv
    <3> QED
      BY <1>3, <3>1, <3>2, <3>3 DEF Bottom
  <2>5. ASSUME NEW g \in Calls, Push(Httpd, call, g), g.op = "send", g.at = "node",
               g.h \in Streams, g.c \in Clients, Holds(g.h, g.c), CallLive(g)
        PROVE  Announced
    <3>1. /\ stack' \in [Tasks -> Seq(Calls)] /\ \A t \in AppTasks : stack'[t] = stack[t]
          /\ Len(stack'[Httpd]) = Len(stack[Httpd]) + 1
          /\ stack'[Httpd][1] = g /\ stack'[Httpd][2] = call /\ stack'[Httpd] # <<>>
      BY <1>1, <1>3, <2>2, <2>5, PushStack DEF Inv
    <3>2. Len(stack'[Httpd]) = 2
      BY <1>2, <3>1
    <3>3. HttpdCalls' = {g, call}
      BY <1>1, <1>3, <2>3, <2>5, PushCalls DEF HttpdCalls, Inv
    <3>4. Suits(Httpd, g)
      BY <2>5 DEF Suits
    <3>5. CallsNest'
      BY <1>0, <1>1, <1>3, <2>1, <2>5, <3>4, NestPush DEF Inv
    <3> QED
      BY <2>5, <3>1, <3>2, <3>3, <3>5 DEF Bottom
  <2> QED
    BY <1>7, <2>4, <2>5
<1>9. ClosingReaches'
  BY <1>3, <1>5, <1>8 DEF ClosingReaches
<1>10. ASSUME HttpdAlone PROVE Undisturbed'
  <2>1. Undisturbed /\ CallLive(f) /\ HttpdCalls = {f}
    <3>1. Range(stack[Httpd]) = {f} \cup Range(Tail(stack[Httpd]))
      BY <1>0, <1>1, TopCall DEF Inv
    <3> QED
      BY <1>2, <1>10, <3>1 DEF HttpdCalls, Inv, Range
  <2>2. \A g : CallLive(g)' <=> CallLive(g)
    BY <1>1 DEF CallLive, Live, Rolls
  <2>3. CallLive(call)
    BY <1>0, <1>3, <2>1 DEF CallLive
  <2>4. CallsLive'
    BY <1>8, <2>2, <2>3 DEF CallsLive
  <2>5. SendsListed'
    BY <1>1, <1>8 DEF SendsListed, Listed, Holds, Rolls
  <2>6. \A h, d : ~ Told(h, d) /\ ~ Told(h, d)'
    BY <1>1, <1>3, <1>8, <2>1 DEF Told, IsTold
  <2>7. HeardOfHandlers'
    <3>1. \A h \in Handlers : \A d : <<d, h>> \in heard' <=> <<d, h>> \in heard
      BY <1>1, NoneAssumption
    <3> QED
      BY <1>1, <2>1, <2>6, <3>1 DEF Undisturbed, HeardOfHandlers, Holds, Rolls
  <2>8. \A d : ~ BeingDeleted(d) /\ (BeingDeleted(d)' <=> d = c)
    <3>1. f.at # "told" /\ \A g \in HttpdCalls' : g.at = "told" <=> g = call
      BY <1>1, <1>3, <1>8
    <3> QED
      BY <1>3, <1>8, <2>1, <3>1, BeingDeletedCall
  <2>9. HeardOfServer'
    BY <1>1, <2>1, <2>8 DEF Undisturbed, HeardOfServer, Rolls
  <2>10. ~ stray'
    BY <1>1, <1>2, <2>1, <2>8 DEF Undisturbed, HeardOfServer
  <2> QED
    BY <1>1, <1>8, <2>1, <2>4, <2>5, <2>7, <2>9, <2>10 DEF Undisturbed, Rolls
<1>11. heard' \subseteq Clients \X (Handlers \cup {None}) /\ stray' \in BOOLEAN
  BY <1>1 DEF Inv, TypeOK
<1>12. HttpdAlone' => HttpdAlone
  BY <1>1 DEF HttpdAlone, Rolls
<1> QED
  BY <1>1, <1>8, <1>9, <1>10, <1>11, <1>12, RollsKept DEF Inv

LEMMA DeleteClientInv ==
  ASSUME Inv, DeleteClient
  PROVE  Inv'
<1>0. PICK f, c : f = Top(Httpd) /\ c = f.c
  OBVIOUS
<1>1. /\ stack[Httpd] # <<>> /\ f.op = "close" /\ f.at = "told" /\ Httpd \in Tasks
      /\ open' = open \ {sock[c]} /\ reg' = reg \ {c} /\ sock' = [sock EXCEPT ![c] = None]
      /\ Pop(Httpd)
      /\ UNCHANGED <<server, list, friend, buddies, heard, stray, fault>>
  BY <1>0 DEF DeleteClient, Forget, In, Top, Tasks
<1>2. /\ c \in Clients /\ c \in reg /\ Len(stack[Httpd]) = 1 /\ Bottom = f
      /\ Tail(stack[Httpd]) = <<>>
  BY <1>0, <1>1, TopFacts DEF Suits
<1>3. \A h \in Endpoints : ~ Holds(h, c)
  BY <1>0, <1>1, <1>2 DEF Inv, ClosingReaches
<1>4. \A d \in Clients : Live(d)' <=> Live(d) /\ d # c
  BY <1>1, <1>2 DEF Inv, TypeOK, Live
<1>5. /\ stack' \in [Tasks -> Seq(Calls)] /\ stack'[Httpd] = <<>>
      /\ \A t \in AppTasks : stack'[t] = stack[t]
  BY <1>1, <1>2, TasksAssumption DEF Pop, Inv, TypeOK, Tasks
<1>6. TypeOK'
  BY <1>1, <1>2, <1>5 DEF Inv, TypeOK
<1>7. OneClientPerSession'
  <2>1. reg' = {d \in Clients : Live(d)'}
    BY <1>1, <1>4 DEF Inv, OneClientPerSession
  <2>2. \A d \in reg' : d \in reg /\ d # c /\ sock'[d] = sock[d] /\ d \in Clients
    BY <1>1 DEF Inv, TypeOK
  <2>3. \A d, e \in reg' : sock'[d] = sock'[e] => d = e
    BY <2>2 DEF Inv, OneClientPerSession
  <2>4. \A d \in reg' : sock[d] # sock[c]
    BY <1>2, <2>2 DEF Inv, OneClientPerSession
  <2>5. open' = {sock'[d] : d \in reg'}
    BY <1>1, <1>2, <2>2, <2>4 DEF Inv, OneClientPerSession
  <2> QED
    BY <2>1, <2>3, <2>5 DEF OneClientPerSession, Live
<1>8. BuddyOwned' /\ ListsServed'
  BY <1>1 DEF Inv, BuddyOwned, ListsServed, Holds
<1>9. NoStaleClient'
  <2>1. ASSUME NEW h \in Endpoints, NEW d \in Range(list[h]) PROVE d \in reg' /\ Live(d)'
    <3>1. Holds(h, d)
      BY <2>1 DEF Holds
    <3> QED
      BY <1>1, <1>3, <1>4, <3>1, ListedLive DEF Inv
  <2> QED
    BY <1>1, <2>1 DEF NoStaleClient
<1>10. CallsNest'
  BY <1>0, <1>1, NestPop DEF Inv
<1>11. ClosingReaches'
  BY <1>5 DEF ClosingReaches
<1>12. ASSUME HttpdAlone PROVE Undisturbed'
  <2>1. Undisturbed /\ HttpdCalls = {f} /\ HttpdCalls' = {}
    <3>1. Range(stack[Httpd]) = {f} \cup Range(Tail(stack[Httpd]))
      BY <1>0, <1>1, TopCall DEF Inv
    <3>2. Range(Tail(stack[Httpd])) = {} /\ Range(stack'[Httpd]) = {}
      BY <1>2, <1>5 DEF Range
    <3> QED
      BY <1>12, <3>1, <3>2 DEF HttpdCalls, Inv
  <2>2. CallsLive' /\ SendsListed'
    BY <1>5, <2>1 DEF CallsLive, SendsListed
  <2>3. \A h, d : ~ Told(h, d) /\ ~ Told(h, d)'
    BY <1>1, <2>1 DEF Told, IsTold
  <2>4. HeardOfHandlers'
    BY <1>1, <2>1, <2>3 DEF Undisturbed, HeardOfHandlers, Holds
  <2>5. \A d : (BeingDeleted(d) <=> d = c) /\ ~ BeingDeleted(d)'
    BY <1>0, <1>1, <2>1, BeingDeletedCall
  <2>6. HeardOfServer'
    BY <1>1, <2>1, <2>5 DEF Undisturbed, HeardOfServer
  <2> QED
    BY <1>1, <1>5, <2>1, <2>2, <2>4, <2>6 DEF Undisturbed
<1>13. HttpdAlone' => HttpdAlone
  BY <1>1 DEF HttpdAlone
<1> QED
  BY <1>6, <1>7, <1>8, <1>9, <1>10, <1>11, <1>12, <1>13 DEF Inv

-----------------------------------------------------------------------------
(* A handler drops a client. *)

\* The topmost call drops a client of an endpoint's handler.
LEMMA DropFacts ==
  ASSUME Inv, NEW t \in Tasks, stack[t] # <<>>, Top(t).op = "drop"
  PROVE  /\ Top(t) \in Calls /\ Top(t).h \in Endpoints /\ Top(t).h \in Handlers /\ Top(t).c \in Clients
         /\ HttpdAlone => t = Httpd /\ CallLive(Top(t))
<1> QED
  BY TopFacts, HandlersAssumption DEF Suits

LEMMA NoElements ==
  ASSUME NEW S, NEW s \in Seq(S), s # <<>>
  PROVE  Range(s) # {}
<1>1. 1 \in DOMAIN s
  OBVIOUS
<1> QED
  BY <1>1 DEF Range

LEMMA RemoveClientInv ==
  ASSUME Inv, NEW t \in Tasks, RemoveClient(t)
  PROVE  Inv'
<1>0. PICK f, h, c : f = Top(t) /\ h = f.h /\ c = f.c
  OBVIOUS
<1>1. stack[t] # <<>> /\ f.op = "drop" /\ f.at = "remove"
  BY <1>0 DEF RemoveClient, In, Top
<1>2. /\ f \in Calls /\ h \in Endpoints /\ h \in Handlers /\ c \in Clients
      /\ HttpdAlone => t = Httpd /\ CallLive(f)
  BY <1>0, <1>1, DropFacts
<1>3. CASE ~ Live(c) /\ Crash(h)
  BY <1>0, <1>2, <1>3, CrashInv DEF CallLive
<1>4. CASE /\ list' = [list EXCEPT ![h] = Without(@, {c})]
           /\ IF friend[c] = h
              THEN friend' = [friend EXCEPT ![c] = None] /\ buddies' = buddies \ {<<c, h>>}
              ELSE UNCHANGED <<friend, buddies>>
           /\ Pop(t)
           /\ UNCHANGED <<server, open, reg, sock, heard, stray, fault>>
  <2>1. Without(list[h], {c}) \in Seq(Clients) /\ Range(Without(list[h], {c})) = Range(list[h]) \ {c}
    BY <1>2, WithoutProperties DEF Inv, TypeOK
  <2>2. /\ list' \in [Handlers -> Seq(Clients)] /\ Range(list'[h]) = Range(list[h]) \ {c}
        /\ \A g \in Handlers \ {h} : list'[g] = list[g]
    BY <1>2, <1>4, <2>1 DEF Inv, TypeOK
  <2>3. \A g \in Handlers : \A d : Holds(g, d)' <=> Holds(g, d) /\ (g # h \/ d # c)
    BY <2>2 DEF Holds
  <2>4. stack' \in [Tasks -> Seq(Calls)]
    BY <1>1, <1>0, <1>4, PopStack DEF Inv
  <2>5. TypeOK'
    BY <1>2, <1>4, <2>2, <2>4 DEF Inv, TypeOK
  <2>6. OneClientPerSession'
    BY <1>4 DEF Inv, OneClientPerSession, Live
  <2>7. BuddyOwned'
    <3>1. ASSUME NEW g \in Streams, NEW d, Holds(g, d)' PROVE friend'[d] = g /\ <<d, g>> \in buddies'
      <4>1. Holds(g, d) /\ (g # h \/ d # c) /\ d \in Clients
        BY <2>3, <3>1, StreamsAreEndpoints, ListedLive DEF Inv
      <4>2. friend[d] = g /\ <<d, g>> \in buddies
        BY <4>1 DEF Inv, BuddyOwned, Holds
      <4> QED
        BY <1>2, <1>4, <4>1, <4>2 DEF Inv, TypeOK
    <3>2. ASSUME NEW b \in buddies' PROVE Holds(b[2], b[1])'
      <4>1. b \in buddies /\ b[2] \in Streams /\ b = <<b[1], b[2]>>
        BY <1>4, <3>2 DEF Inv, TypeOK
      <4>2. Holds(b[2], b[1])
        BY <4>1 DEF Inv, BuddyOwned
      <4>3. friend[b[1]] = b[2]
        BY <4>1, <4>2 DEF Inv, BuddyOwned, Holds
      <4>4. b # <<c, h>>
        BY <1>4, <3>2, <4>1, <4>3
      <4> QED
        BY <2>3, <4>1, <4>2, <4>4, StreamsAreEndpoints
    <3> QED
      BY <3>1, <3>2 DEF BuddyOwned, Holds
  <2>8. NoStaleClient'
    <3>1. ASSUME NEW g \in Endpoints, NEW d, Holds(g, d)' PROVE d \in reg /\ Live(d)
      BY <2>3, <3>1, HandlersAssumption, ListedLive DEF Inv
    <3> QED
      BY <1>4, <3>1 DEF NoStaleClient, Holds, Live
  <2>9. ListsServed'
    <3>1. ASSUME NEW g \in Handlers, list'[g] # <<>> PROVE list[g] # <<>>
      <4>1. CASE g = h
        <5>1. list'[h] \in Seq(Clients)
          BY <1>2, <2>2
        <5>2. Range(list'[h]) # {}
          BY <3>1, <4>1, <5>1, NoElements
        <5>3. Range(list[h]) # {}
          BY <2>2, <5>2
        <5> QED
          BY <4>1, <5>3 DEF Range
      <4> QED
        BY <2>2, <3>1, <4>1
    <3> QED
      BY <1>4, <3>1 DEF Inv, ListsServed
  <2>10. CallsNest'
    BY <1>0, <1>1, <1>4, NestPop DEF Inv
  <2>11. ClosingReaches'
    <3>1. \A g \in Endpoints, d \in Clients : Holds(g, d)' => Holds(g, d)
      BY <2>3, HandlersAssumption
    <3>2. c \notin Range(list'[h])
      BY <2>2
    <3> QED
      BY <1>0, <1>1, <1>4, <3>1, <3>2, ClosingPop DEF Inv
  <2>12. ASSUME HttpdAlone PROVE Undisturbed'
    <3>1. t = Httpd /\ Undisturbed
      BY <1>2, <2>12 DEF Inv
    <3>2. PICK R : HttpdCalls' = R /\ HttpdCalls = {f} \cup R
      BY <1>0, <1>1, <1>4, <3>1, PopCalls, TopCall DEF HttpdCalls, Inv
    <3>3. CallsLive'
      BY <1>4, <3>1, <3>2 DEF Undisturbed, CallsLive, CallLive, Live
    <3>4. SendsListed'
      BY <1>0, <1>1, <1>4, <3>1, ListedAfterPop DEF SendsListed, Listed, Inv
    <3>5. /\ Told(h, c)
          /\ \A g, d : Told(g, d)' => Told(g, d)
          /\ \A g, d : Told(g, d) => Told(g, d)' \/ (g = h /\ d = c)
      BY <1>0, <1>1, <3>2 DEF Told, IsTold
    <3>6. HeardOfHandlers'
      <4>1. <<c, h>> \notin heard
        BY <1>2, <3>1, <3>5 DEF Undisturbed, HeardOfHandlers
      <4>2. ASSUME NEW g \in Handlers, NEW d \in Clients
            PROVE  /\ Told(g, d)' => <<d, g>> \notin heard
                   /\ ~ Told(g, d)' => (<<d, g>> \in heard <=> Holds(g, d)')
        BY <2>3, <3>1, <3>5, <4>1 DEF Undisturbed, HeardOfHandlers
      <4> QED
        BY <1>4, <4>2 DEF HeardOfHandlers
    <3>7. \A d : BeingDeleted(d)' <=> BeingDeleted(d)
      BY <1>1, <3>2, BeingDeletedCall
    <3>8. HeardOfServer'
      BY <1>4, <3>1, <3>7 DEF Undisturbed, HeardOfServer
    <3>9. \A u \in AppTasks : stack'[u] = stack[u]
      BY <1>0, <1>1, <1>4, <3>1, PopStack, TasksAssumption DEF Tasks, Inv
    <3> QED
      BY <1>4, <3>1, <3>3, <3>4, <3>6, <3>8, <3>9 DEF Undisturbed
  <2>13. HttpdAlone' => HttpdAlone
    BY <1>4 DEF HttpdAlone
  <2> QED
    BY <2>5, <2>6, <2>7, <2>8, <2>9, <2>10, <2>11, <2>12, <2>13 DEF Inv
<1> QED
  BY <1>0, <1>3, <1>4 DEF RemoveClient

\* onClose has been called, or there was nobody to call.
LEMMA NotifyCloseInv ==
  ASSUME Inv, NEW t \in Tasks, NotifyClose(t)
  PROVE  Inv'
<1>0. PICK f, h, c : f = Top(t) /\ h = f.h /\ c = f.c
  OBVIOUS
<1> DEFINE rest == [f EXCEPT !.at = "remove"]
           told == c \in reg /\ Holds(h, c) /\ (h \in Streams => friend[c] = h)
<1>1. stack[t] # <<>> /\ f.op = "drop" /\ f.at = "notify"
  BY <1>0 DEF NotifyClose, In, Top
<1>2. /\ f \in Calls /\ h \in Endpoints /\ h \in Handlers /\ c \in Clients
      /\ HttpdAlone => t = Httpd /\ CallLive(f)
  BY <1>0, <1>1, DropFacts
<1>3. /\ rest \in Calls /\ rest.op = "drop" /\ rest.at = "remove" /\ rest.h = h /\ rest.c = c
      /\ rest.failed = f.failed
  BY <1>0, <1>1, <1>2 DEF Calls
<1>4. CASE ~ Live(c) /\ Crash(h)
  BY <1>0, <1>2, <1>4, CrashInv DEF CallLive
<1>5. CASE /\ UNCHANGED Rolls
           /\ \/ /\ told /\ heard' = heard \ {<<c, h>>}
                 /\ stray' = (stray \/ (<<c, h>> \notin heard /\ ~ Closing(t, h, c)))
              \/ ~ told /\ UNCHANGED <<heard, stray>>
           /\ CallBack(t, h, rest)
  <2> HIDE DEF rest
  <2>1. \/ Become(t, rest)
        \/ \E g \in Calls : Push(t, rest, g) /\ g.op = "send" /\ g.at = "node" /\ g.h \in Streams
                            /\ g.c \in Clients /\ Holds(g.h, g.c) /\ CallLive(g)
    <3>1. ASSUME h \in Streams, list[h] # <<>>,
                 Push(t, rest, Call("send", "node", h, Head(list[h])))
          PROVE  \E g \in Calls : Push(t, rest, g) /\ g.op = "send" /\ g.at = "node" /\ g.h \in Streams
                                  /\ g.c \in Clients /\ Holds(g.h, g.c) /\ CallLive(g)
      <4>1. PICK d : d = Head(list[h])
        OBVIOUS
      <4>2. d \in Clients /\ Holds(h, d) /\ Live(d)
        BY <1>2, <3>1, <4>1, HeadListed, ListedLive DEF Inv
      <4>3. PICK g : g = Call("send", "node", h, d)
        OBVIOUS
      <4>4. g \in Calls /\ g.op = "send" /\ g.at = "node" /\ g.h = h /\ g.c = d /\ CallLive(g)
        BY <1>2, <4>2, <4>3, MadeCall
      <4> QED
        BY <3>1, <4>1, <4>2, <4>3, <4>4
    <3>2. list' = list
      BY <1>5 DEF Rolls
    <3> QED
      BY <1>5, <3>1, <3>2 DEF CallBack
  <2>2. /\ Suits(t, rest) /\ rest.at \in Waits /\ rest.op # "close"
        /\ \A g : g.op = "send" /\ g.at = "node" /\ g.h \in Streams /\ g.c \in Clients => Suits(t, g)
    BY <1>2, <1>3 DEF Suits, Waits
  <2>3. reg \subseteq reg' /\ \A g \in Endpoints, d \in Clients : Holds(g, d)' => Holds(g, d)
    BY <1>5 DEF Rolls, Holds
  <2>4. stack' \in [Tasks -> Seq(Calls)] /\ CallsNest' /\ ClosingReaches'
    <3>1. CASE Become(t, rest)
      <4>1. CallsNest'
        BY <1>1, <1>3, <2>2, <2>3, <3>1, NestBecome DEF Inv
      <4>2. ClosingReaches'
        BY <1>0, <1>1, <1>3, <2>3, <3>1, ClosingBecome DEF Inv
      <4> QED
        BY <1>1, <1>3, <3>1, <4>1, <4>2, BecomeStack DEF Inv
    <3>2. ASSUME NEW g \in Calls, Push(t, rest, g), g.op = "send", g.at = "node",
                 g.h \in Streams, g.c \in Clients
          PROVE  stack' \in [Tasks -> Seq(Calls)] /\ CallsNest' /\ ClosingReaches'
      <4>1. Suits(t, g) /\ g.op # "close"
        BY <2>2, <3>2
      <4>2. CallsNest'
        BY <1>1, <1>3, <2>2, <2>3, <3>2, <4>1, NestPush DEF Inv
      <4>3. ClosingReaches'
        BY <1>0, <1>1, <1>3, <2>3, <3>2, ClosingPush DEF Inv
      <4> QED
        BY <1>1, <1>3, <3>2, <4>2, <4>3, PushStack DEF Inv
    <3> QED
      BY <2>1, <3>1, <3>2
  <2>5. heard' \subseteq Clients \X (Handlers \cup {None}) /\ stray' \in BOOLEAN
    BY <1>5 DEF Inv, TypeOK
  <2>6. ASSUME HttpdAlone PROVE Undisturbed'
    <3>1. t = Httpd /\ Undisturbed /\ CallLive(rest)
      BY <1>2, <1>0, <1>3, <2>6 DEF Inv, CallLive
    <3>2. PICK R : HttpdCalls = {f} \cup R /\ R = Range(Tail(stack[Httpd]))
      BY <1>0, <1>1, <3>1, TopCall DEF HttpdCalls, Inv
    <3> DEFINE Noted ==
                 /\ \A g \in HttpdCalls' : g \in R \/ g = rest
                                           \/ (CallLive(g) /\ g.op = "send" /\ g.at = "node")
                 /\ R \cup {rest} \subseteq HttpdCalls'
                 /\ stack'[Httpd][1].at \in {"node", "use", "next"} =>
                      Holds(stack'[Httpd][1].h, stack'[Httpd][1].c)
                 /\ \A u \in AppTasks : stack'[u] = stack[u]
    <3>3. Noted
      <4>1. \A u \in AppTasks : u \in Tasks \ {t}
        BY <3>1, TasksAssumption DEF Tasks
      <4>2. CASE Become(t, rest)
        <5>1. HttpdCalls' = {rest} \cup R
          BY <1>1, <1>3, <3>1, <3>2, <4>2, BecomeCalls DEF HttpdCalls, Inv
        <5>2. stack'[Httpd][1] = rest /\ \A u \in AppTasks : stack'[u] = stack[u]
          BY <1>1, <1>3, <3>1, <4>1, <4>2, BecomeStack DEF Inv
        <5> QED
          BY <1>3, <5>1, <5>2
      <4>3. ASSUME NEW g \in Calls, Push(t, rest, g), g.op = "send", g.at = "node",
                   Holds(g.h, g.c), CallLive(g)
            PROVE  Noted
        <5>1. HttpdCalls' = {g, rest} \cup R
          BY <1>1, <1>3, <3>1, <3>2, <4>3, PushCalls DEF HttpdCalls, Inv
        <5>2. stack'[Httpd][1] = g /\ \A u \in AppTasks : stack'[u] = stack[u]
          BY <1>1, <1>3, <3>1, <4>1, <4>3, PushStack DEF Inv
        <5> QED
          BY <4>3, <5>1, <5>2
      <4> QED
        BY <2>1, <4>2, <4>3
    <3> HIDE DEF Noted
    <3>4. CallsLive'
      BY <1>5, <3>1, <3>2, <3>3 DEF Noted, Undisturbed, CallsLive, CallLive, Live, Rolls
    <3>5. SendsListed'
      BY <1>5, <3>3 DEF Noted, SendsListed, Listed, Holds, Rolls
    <3>6. \A g, d : Told(g, d)' <=> Told(g, d) \/ (g = h /\ d = c)
      BY <1>1, <1>3, <3>2, <3>3 DEF Noted, Told, IsTold
    <3>7. told <=> Holds(h, c)
      BY <1>2, ListedLive DEF Inv, BuddyOwned, Holds
    <3>8. /\ <<c, h>> \notin heard'
          /\ \A g \in Handlers, d \in Clients : g # h \/ d # c => (<<d, g>> \in heard' <=> <<d, g>> \in heard)
      <4>1. ~ told => <<c, h>> \notin heard
        BY <1>2, <3>1, <3>7 DEF Undisturbed, HeardOfHandlers
      <4> QED
        BY <1>5, <4>1
    <3>9. HeardOfHandlers'
      BY <1>5, <3>1, <3>6, <3>8 DEF Undisturbed, HeardOfHandlers, Holds, Rolls
    <3>10. \A d : BeingDeleted(d)' <=> BeingDeleted(d)
      BY <1>1, <1>3, <3>2, <3>3, BeingDeletedCall DEF Noted
    <3>11. HeardOfServer'
      <4>1. \A d \in Clients : <<d, None>> \in heard' <=> <<d, None>> \in heard
        BY <1>2, <1>5, NoneAssumption
      <4> QED
        BY <1>5, <3>1, <3>10, <4>1 DEF Undisturbed, HeardOfServer, Rolls
    <3>12. ~ stray'
      <4>1. ASSUME <<c, h>> \notin heard, Holds(h, c) PROVE Closing(t, h, c)
        <5>1. PICK g \in HttpdCalls : IsTold(g, h, c)
          BY <1>2, <3>1, <4>1 DEF Undisturbed, HeardOfHandlers, Told
        <5>2. PICK n \in Nat \ {0} : n = Len(stack[t])
          BY <1>1, <1>0, TopCall DEF Inv
        <5>3. PICK k \in 1 .. n : g = stack[t][k]
          BY <3>1, <5>1, <5>2 DEF HttpdCalls, Range, Inv, TypeOK
        <5>4. k # 1
          BY <1>0, <1>1, <5>1, <5>3, TopCall DEF IsTold, Inv
        <5>5. k \in 2 .. n
          BY <5>4
        <5> QED
          BY <5>1, <5>2, <5>3, <5>5 DEF Closing, IsTold
      <4> QED
        BY <1>5, <3>1, <3>7, <4>1 DEF Undisturbed
    <3> QED
      BY <1>5, <3>1, <3>3, <3>4, <3>5, <3>9, <3>11, <3>12 DEF Undisturbed, Rolls, Noted
  <2>7. HttpdAlone' => HttpdAlone
    BY <1>5 DEF HttpdAlone, Rolls
  <2> QED
    BY <1>5, <2>4, <2>5, <2>6, <2>7, RollsKept DEF Inv
<1>6. CallBack(t, h, rest) \/ Become(t, rest) => CallBack(t, h, rest)
  BY DEF CallBack
<1> QED
  BY <1>0, <1>4, <1>5, <1>6 DEF NotifyClose, Rolls

-----------------------------------------------------------------------------
(* Clients come. *)

LEMMA OpenSessionInv ==
  ASSUME Inv, NEW s \in Sockets, NEW c \in Clients, OpenSession(s, c)
  PROVE  Inv'
<1>1. /\ stack[Httpd] = <<>> /\ Httpd \in Tasks /\ s \notin open
      /\ open' = open \cup {s}
      /\ heard' = heard \cup {<<c, None>>} /\ stray' = (stray \/ <<c, None>> \in heard)
      /\ UNCHANGED <<server, list, buddies, fault>>
  BY DEF OpenSession, Idle, Tasks
<1>2. GetClient(s) = {}
  BY <1>1 DEF GetClient, Inv, OneClientPerSession
<1>3. /\ ~ Live(c) /\ c \notin reg
      /\ reg' = reg \cup {c} /\ sock' = [sock EXCEPT ![c] = s] /\ friend' = [friend EXCEPT ![c] = None]
  BY <1>2 DEF OpenSession, AddClient, Fresh, Inv, OneClientPerSession
<1>4. /\ \A d \in Clients \ {c} : sock'[d] = sock[d] /\ (Live(d)' <=> Live(d))
      /\ sock'[c] = s /\ Live(c)'
  BY <1>3, NoneAssumption DEF Inv, TypeOK, Live
<1>5. \A h \in Endpoints : ~ Holds(h, c)
  BY <1>3, ListedLive DEF Inv
<1>6. PICK calls \in Broadcasts : stack' = [stack EXCEPT ![Httpd] = calls]
  BY DEF OpenSession
<1>7. \/ stack' = stack
      \/ \E g \in Calls : stack' = [stack EXCEPT ![Httpd] = <<g>>] /\ g.op = "send" /\ g.at = "node"
                          /\ g.h \in Streams /\ g.c \in Clients /\ Holds(g.h, g.c) /\ CallLive(g)
  <2>1. CASE calls = <<>>
    BY <1>1, <1>6, <2>1 DEF Inv, TypeOK
  <2> QED
    BY <1>6, <2>1, BroadcastFacts
<1>8. \A g \in Endpoints : \A d : Holds(g, d)' => Holds(g, d)
  BY <1>1 DEF Holds
<1>9. stack' \in [Tasks -> Seq(Calls)] /\ CallsNest' /\ ClosingReaches'
  <2>1. reg \subseteq reg'
    BY <1>3
  <2>2. CASE stack' = stack
    BY <1>1, <2>1, <2>2 DEF Inv, TypeOK, CallsNest, ClosingReaches
  <2>3. ASSUME NEW g \in Calls, stack' = [stack EXCEPT ![Httpd] = <<g>>],
               g.op = "send", g.at = "node", g.h \in Streams, g.c \in Clients
        PROVE  stack' \in [Tasks -> Seq(Calls)] /\ CallsNest' /\ ClosingReaches'
    <3>1. Suits(Httpd, g) /\ g.op # "close"
      BY <2>3 DEF Suits
    <3>2. CallsNest'
      BY <1>1, <2>1, <2>3, <3>1, NestBegin DEF Inv
    <3>3. ClosingReaches'
      BY <1>1, <1>8, <2>3, ClosingBegin DEF Inv
    <3> QED
      BY <1>1, <2>3, <3>2, <3>3, BeginStack DEF Inv
  <2> QED
    BY <1>7, <2>2, <2>3
<1>10. TypeOK'
  BY <1>1, <1>3, <1>9 DEF Inv, TypeOK
<1>11. OneClientPerSession'
  <2>1. reg' = {d \in Clients : Live(d)'}
    BY <1>3, <1>4 DEF Inv, OneClientPerSession
  <2>2. \A d \in reg : d \in Clients /\ d # c /\ sock'[d] = sock[d] /\ sock[d] \in open /\ sock[d] # s
    BY <1>1, <1>3, <1>4 DEF Inv, TypeOK, OneClientPerSession
  <2>3. \A d, e \in reg' : sock'[d] = sock'[e] => d = e
    BY <1>3, <1>4, <2>2 DEF Inv, OneClientPerSession
  <2>4. open' = {sock'[d] : d \in reg'}
    <3>1. \A p \in open' : \E d \in reg' : p = sock'[d]
      BY <1>1, <1>3, <1>4, <2>2 DEF Inv, OneClientPerSession
    <3>2. \A d \in reg' : sock'[d] \in open'
      BY <1>1, <1>3, <1>4, <2>2
    <3> QED
      BY <3>1, <3>2
  <2> QED
    BY <2>1, <2>3, <2>4 DEF OneClientPerSession, Live
<1>12. BuddyOwned'
  <2>1. ASSUME NEW g \in Streams, NEW d, Holds(g, d) PROVE friend'[d] = g /\ <<d, g>> \in buddies
    <3>1. d \in Clients /\ d # c
      BY <1>3, <2>1, StreamsAreEndpoints, ListedLive DEF Inv
    <3>2. friend[d] = g /\ <<d, g>> \in buddies
      BY <2>1 DEF Inv, BuddyOwned, Holds
    <3> QED
      BY <1>3, <3>1, <3>2 DEF Inv, TypeOK
  <2>2. \A b \in buddies : Holds(b[2], b[1])
    BY DEF Inv, BuddyOwned
  <2> QED
    BY <1>1, <2>1, <2>2 DEF BuddyOwned, Holds
<1>13. NoStaleClient'
  <2>1. ASSUME NEW h \in Endpoints, NEW d, Holds(h, d) PROVE d \in reg' /\ Live(d)'
    BY <1>3, <1>4, <1>5, <2>1, ListedLive DEF Inv
  <2> QED
    BY <1>1, <2>1 DEF NoStaleClient, Holds
<1>14. ListsServed'
  BY <1>1 DEF Inv, ListsServed
<1>15. ASSUME HttpdAlone PROVE Undisturbed'
  <2>1. Undisturbed /\ HttpdCalls = {}
    BY <1>1, <1>15 DEF Inv, HttpdCalls, Range
  <2>2. /\ \A u \in AppTasks : stack'[u] = stack[u]
        /\ \A g \in HttpdCalls' : CallLive(g) /\ g.op = "send" /\ g.at = "node" /\ g.c \in Clients
        /\ stack'[Httpd] # <<>> => Holds(stack'[Httpd][1].h, stack'[Httpd][1].c)
    <3>1. CASE stack' = stack
      BY <1>1, <2>1, <3>1 DEF HttpdCalls
    <3>2. ASSUME NEW g \in Calls, stack' = [stack EXCEPT ![Httpd] = <<g>>], g.c \in Clients,
                 g.op = "send", g.at = "node", Holds(g.h, g.c), CallLive(g)
          PROVE  /\ \A u \in AppTasks : stack'[u] = stack[u]
                 /\ \A f \in HttpdCalls' : CallLive(f) /\ f.op = "send" /\ f.at = "node" /\ f.c \in Clients
                 /\ stack'[Httpd] # <<>> => Holds(stack'[Httpd][1].h, stack'[Httpd][1].c)
      <4>1. HttpdCalls' = {g} /\ stack'[Httpd][1] = g
        BY <1>1, <3>2, BeginCalls, BeginStack DEF HttpdCalls, Inv
      <4>2. \A u \in AppTasks : stack'[u] = stack[u]
        BY <1>1, <3>2, BeginStack, TasksAssumption DEF Tasks, Inv
      <4> QED
        BY <3>2, <4>1, <4>2
    <3> QED
      BY <1>7, <3>1, <3>2
  <2>3. CallsLive'
    <3>1. \A d : Live(d) => Live(d)' \/ d \notin Clients
      BY <1>4
    <3>2. ASSUME NEW g \in HttpdCalls' PROVE CallLive(g)'
      <4>1. g \in Calls
        BY <1>1, <1>9 DEF HttpdCalls, Range
      <4>2. g.failed \in Seq(Clients)
        BY <4>1 DEF Calls
      <4>3. \A d \in Range(g.failed) : d \in Clients
        BY <4>2 DEF Range
      <4> QED
        BY <2>2, <3>1, <4>3 DEF CallLive
    <3> QED
      BY <3>2 DEF CallsLive
  <2>4. SendsListed'
    BY <1>1, <2>2 DEF SendsListed, Listed, Holds
  <2>5. \A g, d : ~ Told(g, d) /\ ~ Told(g, d)'
    BY <2>1, <2>2 DEF Told, IsTold
  <2>6. HeardOfHandlers'
    <3>1. \A h \in Handlers : \A d : <<d, h>> \in heard' <=> <<d, h>> \in heard
      BY <1>1, NoneAssumption
    <3> QED
      BY <1>1, <2>1, <2>5, <3>1 DEF Undisturbed, HeardOfHandlers, Holds
  <2>7. \A d : ~ BeingDeleted(d) /\ ~ BeingDeleted(d)'
    BY <2>1, <2>2, BeingDeletedCall
  <2>8. HeardOfServer'
    BY <1>1, <1>3, <2>1, <2>7 DEF Undisturbed, HeardOfServer
  <2>9. ~ stray'
    BY <1>1, <1>3, <2>1 DEF Undisturbed, HeardOfServer
  <2> QED
    BY <1>1, <2>1, <2>2, <2>3, <2>4, <2>6, <2>8, <2>9 DEF Undisturbed
<1>16. HttpdAlone' => HttpdAlone
  BY <1>1 DEF HttpdAlone
<1> QED
  BY <1>9, <1>10, <1>11, <1>12, <1>13, <1>14, <1>15, <1>16 DEF Inv

LEMMA NewClientInv ==
  ASSUME Inv, NEW h \in Handlers, NEW c \in Clients, NewClient(h, c)
  PROVE  Inv'
<1>1. /\ stack[Httpd] = <<>> /\ Httpd \in Tasks
      /\ h \in server.handlers /\ c \in reg /\ (h \in Streams => friend[c] = None)
      /\ ~ Holds(h, c)
      /\ list' = [list EXCEPT ![h] = Append(@, c)]
      /\ heard' = heard \cup {<<c, h>>} /\ stray' = (stray \/ <<c, h>> \in heard)
      /\ UNCHANGED <<server, open, reg, sock, fault>>
  BY DEF NewClient, Idle, Tasks
<1>2. /\ h \in Streams => friend' = [friend EXCEPT ![c] = h] /\ buddies' = buddies \cup {<<c, h>>}
      /\ h \notin Streams => UNCHANGED <<friend, buddies>>
  BY DEF NewClient
<1>3. Live(c) /\ \A d : Live(d)' <=> Live(d)
  BY <1>1 DEF Inv, OneClientPerSession, Live
<1>4. /\ list' \in [Handlers -> Seq(Clients)] /\ list'[h] = Append(list[h], c) /\ list'[h] # <<>>
      /\ \A g \in Handlers \ {h} : list'[g] = list[g]
  BY <1>1 DEF Inv, TypeOK
<1>5. Range(list'[h]) = Range(list[h]) \cup {c}
  BY <1>4, RangeAppend DEF Inv, TypeOK
<1>6. \A g \in Handlers : \A d : Holds(g, d)' <=> Holds(g, d) \/ (g = h /\ d = c)
  BY <1>4, <1>5 DEF Holds
<1>7. \/ stack' = stack
      \/ \E f \in Calls : stack' = [stack EXCEPT ![Httpd] = <<f>>] /\ f.op = "send" /\ f.at = "node"
                          /\ f.h \in Streams /\ f.c \in Clients /\ Holds(f.h, f.c)' /\ CallLive(f)
  <2>1. ASSUME h \in Streams, stack' = [stack EXCEPT ![Httpd] = <<Call("send", "node", h, Head(list'[h]))>>]
        PROVE  \E f \in Calls : stack' = [stack EXCEPT ![Httpd] = <<f>>] /\ f.op = "send" /\ f.at = "node"
                          /\ f.h \in Streams /\ f.c \in Clients /\ Holds(f.h, f.c)' /\ CallLive(f)
    <3>1. PICK r, d : r = list'[h] /\ d = Head(r)
      OBVIOUS
    <3>2. r \in Seq(Clients) /\ r # <<>>
      BY <1>4, <3>1
    <3>3. d \in Clients /\ d = r[1] /\ 1 \in DOMAIN r
      BY <3>1, <3>2
    <3>4. d \in Range(r)
      BY <3>3 DEF Range
    <3>5. Holds(h, d)'
      BY <3>1, <3>4 DEF Holds
    <3>6. Live(d)
      BY <1>3, <1>6, <2>1, <3>5, StreamsAreEndpoints, ListedLive DEF Inv
    <3>7. PICK f : f = Call("send", "node", h, d)
      OBVIOUS
    <3>8. f \in Calls /\ f.op = "send" /\ f.at = "node" /\ f.h = h /\ f.c = d /\ CallLive(f)
      BY <3>3, <3>6, <3>7, MadeCall
    <3> QED
      BY <2>1, <3>1, <3>3, <3>5, <3>7, <3>8
  <2> QED
    BY <2>1 DEF NewClient
<1>8. stack' \in [Tasks -> Seq(Calls)] /\ CallsNest' /\ (stack'[Httpd] # <<>> => Bottom'.op = "send")
  <2>1. CASE stack' = stack
    BY <1>1, <2>1 DEF Inv, TypeOK, CallsNest
  <2>2. ASSUME NEW f \in Calls, stack' = [stack EXCEPT ![Httpd] = <<f>>],
               f.op = "send", f.at = "node", f.h \in Streams, f.c \in Clients
        PROVE  stack' \in [Tasks -> Seq(Calls)] /\ CallsNest' /\ Bottom'.op = "send"
    <3>1. Suits(Httpd, f) /\ f.op # "close" /\ reg \subseteq reg'
      BY <1>1, <2>2 DEF Suits
    <3>2. CallsNest'
      BY <1>1, <2>2, <3>1, NestBegin DEF Inv
    <3>3. stack' \in [Tasks -> Seq(Calls)] /\ Len(stack'[Httpd]) = 1 /\ stack'[Httpd][1] = f
      BY <1>1, <2>2, BeginStack DEF Inv
    <3> QED
      BY <2>2, <3>2, <3>3 DEF Bottom
  <2> QED
    BY <1>7, <2>1, <2>2
<1>9. TypeOK'
  <2>1. friend' \in [Clients -> Streams \cup {None}] /\ buddies' \subseteq Clients \X Streams
    BY <1>2 DEF Inv, TypeOK
  <2> QED
    BY <1>1, <1>4, <1>8, <2>1 DEF Inv, TypeOK
<1>10. OneClientPerSession'
  BY <1>1 DEF Inv, OneClientPerSession, Live
<1>11. BuddyOwned'
  <2>1. ASSUME NEW g \in Streams, NEW d, Holds(g, d)'
        PROVE  friend'[d] = g /\ <<d, g>> \in buddies'
    <3>1. CASE Holds(g, d)
      <4>1. friend[d] = g /\ <<d, g>> \in buddies /\ d \in Clients
        BY <3>1, StreamsAreEndpoints, ListedLive DEF Inv, BuddyOwned, Holds
      <4>2. h \in Streams => d # c
        BY <1>1, <4>1, NoneAssumption, StreamsAreEndpoints
      <4> QED
        BY <1>2, <4>1, <4>2 DEF Inv, TypeOK
    <3>2. CASE g = h /\ d = c
      BY <1>2, <3>2 DEF Inv, TypeOK
    <3> QED
      BY <1>6, <2>1, <3>1, <3>2, StreamsAreEndpoints
  <2>2. ASSUME NEW b \in buddies' PROVE Holds(b[2], b[1])'
    <3>1. CASE b \in buddies
      <4>1. Holds(b[2], b[1]) /\ b[2] \in Handlers
        BY <3>1, StreamsAreEndpoints DEF Inv, BuddyOwned, TypeOK
      <4> QED
        BY <1>6, <4>1
    <3>2. CASE b = <<c, h>>
      BY <1>6, <3>2
    <3> QED
      BY <1>2, <2>2, <3>1, <3>2
  <2> QED
    BY <2>1, <2>2 DEF BuddyOwned, Holds
<1>12. NoStaleClient'
  <2>1. ASSUME NEW g \in Endpoints, NEW d, Holds(g, d)' PROVE d \in reg /\ Live(d)
    BY <1>1, <1>3, <1>6, <2>1, HandlersAssumption, ListedLive DEF Inv
  <2> QED
    BY <1>1, <1>3, <2>1 DEF NoStaleClient, Holds
<1>13. ListsServed'
  BY <1>1, <1>4 DEF Inv, ListsServed
<1>14. ClosingReaches'
  BY <1>8 DEF ClosingReaches
<1>15. ASSUME HttpdAlone PROVE Undisturbed'
  <2>1. Undisturbed /\ HttpdCalls = {}
    BY <1>1, <1>15 DEF Inv, HttpdCalls, Range
  <2>2. /\ \A u \in AppTasks : stack'[u] = stack[u]
        /\ \A g \in HttpdCalls' : CallLive(g) /\ g.op = "send" /\ g.at = "node"
        /\ SendsListed'
    <3>1. CASE stack' = stack
      BY <1>1, <2>1, <3>1 DEF HttpdCalls, SendsListed
    <3>2. ASSUME NEW g \in Calls, stack' = [stack EXCEPT ![Httpd] = <<g>>],
                 g.op = "send", g.at = "node", Holds(g.h, g.c)', CallLive(g)
          PROVE  /\ \A u \in AppTasks : stack'[u] = stack[u]
                 /\ \A f \in HttpdCalls' : CallLive(f) /\ f.op = "send" /\ f.at = "node"
                 /\ SendsListed'
      <4>1. HttpdCalls' = {g} /\ stack'[Httpd][1] = g
        BY <1>1, <3>2, BeginCalls, BeginStack DEF HttpdCalls, Inv
      <4>2. \A u \in AppTasks : stack'[u] = stack[u]
        BY <1>1, <3>2, BeginStack, TasksAssumption DEF Tasks, Inv
      <4>3. SendsListed'
        BY <3>2, <4>1 DEF SendsListed, Listed
      <4> QED
        BY <3>2, <4>1, <4>2, <4>3
    <3> QED
      BY <1>7, <3>1, <3>2
  <2>3. CallsLive'
    BY <1>3, <2>2 DEF CallsLive, CallLive
  <2>4. \A g, d : ~ Told(g, d) /\ ~ Told(g, d)'
    BY <2>1, <2>2 DEF Told, IsTold
  <2>5. HeardOfHandlers'
    <3>1. \A g \in Handlers : \A d : <<d, g>> \in heard' <=> <<d, g>> \in heard \/ (g = h /\ d = c)
      BY <1>1
    <3> QED
      BY <1>6, <2>1, <2>4, <3>1 DEF Undisturbed, HeardOfHandlers
  <2>6. \A d : ~ BeingDeleted(d) /\ ~ BeingDeleted(d)'
    BY <2>1, <2>2, BeingDeletedCall
  <2>7. HeardOfServer'
    <3>1. \A d : <<d, None>> \in heard' <=> <<d, None>> \in heard
      BY <1>1, NoneAssumption
    <3> QED
      BY <1>1, <2>1, <2>6, <3>1 DEF Undisturbed, HeardOfServer
  <2>8. ~ stray'
    BY <1>1, <2>1, <2>4 DEF Undisturbed, HeardOfHandlers
  <2> QED
    BY <1>1, <2>1, <2>2, <2>3, <2>5, <2>7, <2>8 DEF Undisturbed
<1>16. HttpdAlone' => HttpdAlone
  BY <1>1 DEF HttpdAlone
<1> QED
  BY <1>8, <1>9, <1>10, <1>11, <1>12, <1>13, <1>14, <1>15, <1>16 DEF Inv

\* An endpoint's handler meets no client that is gone.
LEMMA RequestFaultsInv ==
  ASSUME Inv, NEW h \in Handlers, NEW c \in Clients, RequestFaults(h, c)
  PROVE  Inv'
<1>1. PICK k \in DOMAIN list[h] : ~ Live(list[h][k])
  BY DEF RequestFaults, ScanFaults
<1>2. h \notin Endpoints
  BY <1>1 DEF Inv, NoStaleClient, Range
<1> QED
  BY <1>2, CrashInv DEF RequestFaults

-----------------------------------------------------------------------------
(* The theorems. *)

LEMMA InitInv == Init => Inv
<1> SUFFICES ASSUME Init PROVE Inv
  OBVIOUS
<1> USE DEF Init
<1>1. TypeOK
  <2>1. stack \in [Tasks -> Seq(Calls)] /\ list \in [Handlers -> Seq(Clients)]
    OBVIOUS
  <2>2. sock \in [Clients -> Sockets \cup {None}] /\ friend \in [Clients -> Streams \cup {None}]
    OBVIOUS
  <2> HIDE DEF Init
  <2>3. /\ server \in Servers /\ open = {} /\ reg = {} /\ buddies = {} /\ heard = {}
        /\ stray = FALSE /\ fault = None
    BY DEF Init
  <2> QED
    BY <2>1, <2>2, <2>3 DEF TypeOK
<1>2. \A h \in Handlers : list[h] = <<>> /\ Range(list[h]) = {}
  BY DEF Range
<1>3. OneClientPerSession /\ BuddyOwned /\ NoStaleClient /\ ListsServed
  BY <1>2, HandlersAssumption, StreamsAreEndpoints
  DEF OneClientPerSession, BuddyOwned, NoStaleClient, ListsServed, Live, Holds
<1>4. \A t \in Tasks : stack[t] = <<>>
  OBVIOUS
<1>5. CallsNest /\ ClosingReaches
  BY <1>4 DEF CallsNest, ClosingReaches, Tasks
<1>6. HttpdCalls = {}
  BY <1>4 DEF HttpdCalls, Range, Tasks
<1>7. CallsLive /\ SendsListed /\ HeardOfHandlers
  BY <1>2, <1>4, <1>6 DEF CallsLive, SendsListed, HeardOfHandlers, Told, Holds, Tasks
<1>8. HeardOfServer
  BY DEF HeardOfServer
<1>9. fault \notin Endpoints
  BY HandlersAssumption, NoneAssumption
<1>10. Undisturbed
  BY <1>4, <1>7, <1>8, <1>9 DEF Undisturbed, Tasks
<1> QED
  BY <1>1, <1>3, <1>5, <1>10 DEF Inv

LEMMA StutterInv ==
  ASSUME Inv, UNCHANGED vars
  PROVE  Inv'
<1>1. UNCHANGED Records /\ stack' = stack
  BY DEF vars, Records
<1>2. TypeOK' /\ OneClientPerSession' /\ BuddyOwned' /\ NoStaleClient' /\ ListsServed'
  BY <1>1, QuietRecords DEF Inv, TypeOK
<1>3. CallsNest' /\ ClosingReaches'
  BY DEF vars, Inv, CallsNest, ClosingReaches, Bottom, Dropping, Holds
<1>4. ASSUME HttpdAlone PROVE Undisturbed'
  <2>1. SendsListed'
    BY <1>1, <1>4 DEF Inv, Undisturbed, SendsListed, Listed, Holds, Records
  <2> QED
    BY <1>1, <1>4, <2>1, QuietUndisturbed DEF Inv, HttpdCalls
<1>5. HttpdAlone' => HttpdAlone
  BY DEF HttpdAlone, vars
<1> QED
  BY <1>2, <1>3, <1>4, <1>5 DEF Inv

LEMMA NextInv == Inv /\ [Next]_vars => Inv'
<1> SUFFICES ASSUME Inv, [Next]_vars PROVE Inv'
  OBVIOUS
<1>1. CASE HttpdStep
  BY <1>1, OpenSessionInv, NewClientInv, RequestFaultsInv, CloseSessionInv, VisitEndpointInv,
     TellServerInv, DeleteClientInv DEF HttpdStep
<1>2. ASSUME NEW t \in Tasks, CallStep(t) PROVE Inv'
  BY <1>2, NotifyCloseInv, RemoveClientInv, VisitNodeInv, UseBuddyInv, NextNodeInv, CleanUpInv,
     UseFoundInv DEF CallStep
<1>3. ASSUME NEW t \in Tasks, NEW h \in Streams, StartSend(t, h) PROVE Inv'
  BY <1>3, StartSendInv
<1>4. ASSUME NEW t \in AppTasks, NEW h \in Streams, NEW c \in Clients, LookUp(t, h, c) PROVE Inv'
  BY <1>4, LookUpInv
<1>5. CASE UNCHANGED vars
  BY <1>5, StutterInv
<1> QED
  BY <1>1, <1>2, <1>3, <1>4, <1>5 DEF Next, Faulted

LEMMA AlwaysInv == Spec => []Inv
<1> QED
  BY InitInv, NextInv, PTL DEF Spec

\* The types hold whoever calls.  While the httpd task alone calls, from inside onOpen and
\* onClose too, the server's clients are the sessions and the buddies go with the lists.
\* PsychicHttpServer::openCallback and closeCallback, addClient and removeClient of the handlers.
THEOREM RecordsAlwaysAgree == Spec => []RecordsAgree
<1>1. Inv => RecordsAgree
  BY DEF Inv, RecordsAgree
<1> QED
  BY <1>1, AlwaysInv, PTL

\* Whatever the application's tasks do meanwhile, closeCallback has every endpoint's handler
\* drop a client before it deletes it.
THEOREM NoStaleClientEver == Spec => []NoStaleClient
<1>1. Inv => NoStaleClient
  BY DEF Inv
<1> QED
  BY <1>1, AlwaysInv, PTL

\* Each onClose is for a client whose onOpen was called, and the application's picture of who
\* is there is the lists', however deep onClose sends from inside onClose.
THEOREM CallbacksAlwaysAgree == Spec => []CallbacksAgree
<1>1. ASSUME Inv PROVE CallbacksAgree
  <2>1. \A h \in Endpoints, c \in Clients : Told(h, c) => BeingDropped(h, c)
    BY DEF Told, IsTold, HttpdCalls, Range, BeingDropped, Tasks
  <2> QED
    BY <1>1, <2>1, HandlersAssumption
    DEF Inv, CallbacksAgree, Undisturbed, HeardOfHandlers, HeardOfServer
<1> QED
  BY <1>1, AlwaysInv, PTL

\* No client, buddy or list node of an endpoint's handler is used after it was deleted while the
\* httpd task alone calls: neither send() nor closeCallback() nor getClient() meets one.
THEOREM NeverUsedAfterFree == Spec => []NoUseAfterFree
<1>1. Inv => NoUseAfterFree
  BY DEF Inv, NoUseAfterFree, Undisturbed
<1> QED
  BY <1>1, AlwaysInv, PTL

=============================================================================
