---------------------------- MODULE WsSendProofs ----------------------------
(***************************************************************************)
(* Proofs about WsSend, for any number of tasks, clients, sockets and heap *)
(* blocks and any cap: the types; how far the cap may be overrun; each     *)
(* block has one owner, the pending-frame counters are exact and live as   *)
(* long as they are needed, and the whole implements SendBudget.           *)
(***************************************************************************)
EXTENDS WsSend, FiniteSetTheorems, SequenceTheorems, TLAPS

\* A call of sendMessage in progress holds a client object, and from its first
\* allocation on a block: what TypeOK needs to be inductive.
Registers ==
  \A t \in Tasks :
    /\ pc[t] # "idle" => this[t] \in Clients
    /\ pc[t] \notin {"idle", "frame"} => blk[t] \in Blocks

TypeInv == TypeOK /\ Registers

\* Adding to, or freeing, the parts of a block.
LEMMA PartsUpdate ==
  ASSUME NEW f \in [Blocks -> SUBSET Parts], NEW i, NEW S \in SUBSET Parts
  PROVE  /\ [f EXCEPT ![i] = S] \in [Blocks -> SUBSET Parts]
         /\ [f EXCEPT ![i] = @ \cup S] \in [Blocks -> SUBSET Parts]
  OBVIOUS

\* Counting up and down keeps a counter an integer.
LEMMA CountUpdate ==
  ASSUME NEW f \in [Clients -> Int], NEW o
  PROVE  /\ [f EXCEPT ![o] = @ + 1] \in [Clients -> Int]
         /\ [f EXCEPT ![o] = @ - 1] \in [Clients -> Int]
<1>1. \A x \in Clients : f[x] + 1 \in Int /\ f[x] - 1 \in Int
  OBVIOUS
<1> QED
  BY <1>1

\* What is allocated at each step of sendMessage is a set of parts.
LEMMA PartsSets == {{}, {"frame"}, {"payload"}, {"ctx"}} \subseteq SUBSET Parts
  BY DEF Parts

\* Initially nothing exists, so every variable has its type.
LEMMA InitTypeInv == Init => TypeInv
<1> SUFFICES ASSUME Init PROVE TypeInv
  OBVIOUS
<1>1. /\ peer \in [Sockets -> Clients \cup {None}]
      /\ live \subseteq Clients
      /\ serving \in Clients \cup {None}
  BY DEF Init
<1>2. /\ pc \in [Tasks -> Places]
      /\ this \in [Tasks -> Clients \cup {None}]
      /\ blk \in [Tasks -> Blocks \cup {None}]
      /\ Registers
  BY DEF Init, Registers, Places
<1>3. /\ parts \in [Blocks -> SUBSET Parts]
      /\ ctx \in [Blocks -> Clients \cup {None}]
  BY DEF Init
<1>4. /\ pending \in [Clients -> Int]
      /\ refs \in [Clients -> Int]
  BY DEF Init
<1>5. queue \in Seq(Blocks)
  BY DEF Init
<1>6. fault \in BOOLEAN
  BY DEF Init
<1> QED
  BY <1>1, <1>2, <1>3, <1>4, <1>5, <1>6 DEF TypeInv, TypeOK

\* No step of sendMessage or of the httpd task leaves the types.
LEMMA NextTypeInv == TypeInv /\ [Next]_vars => TypeInv'
<1> SUFFICES ASSUME TypeInv, [Next]_vars PROVE TypeInv'
  OBVIOUS
<1>a. /\ peer \in [Sockets -> Clients \cup {None}]
      /\ live \subseteq Clients
      /\ serving \in Clients \cup {None}
  BY DEF TypeInv, TypeOK
<1>b. /\ pc \in [Tasks -> Places]
      /\ this \in [Tasks -> Clients \cup {None}]
      /\ blk \in [Tasks -> Blocks \cup {None}]
      /\ Registers
  BY DEF TypeInv, TypeOK
<1>c. parts \in [Blocks -> SUBSET Parts]
  BY DEF TypeInv, TypeOK
<1>d. ctx \in [Blocks -> Clients \cup {None}]
  BY DEF TypeInv, TypeOK
<1>e. pending \in [Clients -> Int] /\ refs \in [Clients -> Int]
  BY DEF TypeInv, TypeOK
<1>f. queue \in Seq(Blocks)
  BY DEF TypeInv, TypeOK
<1>g. fault \in BOOLEAN
  BY DEF TypeInv, TypeOK
<1> DEFINE RegistersTyped ==
             /\ pc \in [Tasks -> Places]
             /\ this \in [Tasks -> Clients \cup {None}]
             /\ blk \in [Tasks -> Blocks \cup {None}]
             /\ Registers
<1>1. ASSUME NEW s \in Sockets, NEW o \in Clients, Open(s, o) PROVE TypeInv'
  BY <1>a, <1>b, <1>c, <1>d, <1>e, <1>f, <1>g, <1>1 DEF Open, Construct, TypeInv, TypeOK, Registers
<1>2. ASSUME NEW s \in Sockets, NEW r \in Clients, BeginFrame(s, r) PROVE TypeInv'
  BY <1>a, <1>b, <1>c, <1>d, <1>e, <1>f, <1>g, <1>2
  DEF BeginFrame, Construct, TypeInv, TypeOK, Registers
<1>3. ASSUME NEW s \in Sockets, Close(s) PROVE TypeInv'
  BY <1>a, <1>b, <1>c, <1>d, <1>e, <1>f, <1>g, <1>3
  DEF Close, Destroy, TypeInv, TypeOK, Registers
<1>4. CASE EndFrame
  BY <1>a, <1>b, <1>c, <1>d, <1>e, <1>f, <1>g, <1>4
  DEF EndFrame, Destroy, TypeInv, TypeOK, Registers
<1>5. CASE SendMessageCallback
  <2>1. queue' \in Seq(Blocks)
    BY <1>5, <1>f, HeadTailProperties DEF SendMessageCallback
  <2>2. ctx' \in [Blocks -> Clients \cup {None}]
    BY <1>5, <1>d DEF SendMessageCallback
  <2>3. parts' \in [Blocks -> SUBSET Parts]
    BY <1>5, <1>c, PartsUpdate, PartsSets DEF SendMessageCallback
  <2>4. pending' \in [Clients -> Int] /\ refs' \in [Clients -> Int]
    BY <1>5, <1>e, CountUpdate DEF SendMessageCallback
  <2> QED
    BY <1>5, <1>a, <1>b, <1>g, <2>1, <2>2, <2>3, <2>4
    DEF SendMessageCallback, TypeInv, TypeOK, Registers
<1>6. ASSUME NEW t \in Tasks, NEW o \in Clients, LoadPending(t, o) PROVE TypeInv'
  <2>1. RegistersTyped'
    BY <1>6, <1>b DEF LoadPending, Goto, Places, Registers, At
  <2> QED
    BY <1>6, <1>a, <1>c, <1>d, <1>e, <1>f, <1>g, <2>1 DEF LoadPending, TypeInv, TypeOK
<1>7. ASSUME NEW t \in Tasks, SendStep(t) PROVE TypeInv'
  <2>1. CASE AllocFrame(t)
    <3>1. parts' = parts \/ \E i \in Blocks : parts' = [parts EXCEPT ![i] = {"frame"}]
      BY <2>1 DEF AllocFrame
    <3>2. parts' \in [Blocks -> SUBSET Parts]
      BY <3>1, <1>c, PartsUpdate, PartsSets
    <3>3. RegistersTyped'
      BY <2>1, <1>b DEF AllocFrame, At, Goto, Return, Registers, Places
    <3> QED
      BY <2>1, <1>a, <1>d, <1>e, <1>f, <1>g, <3>2, <3>3 DEF AllocFrame, TypeInv, TypeOK
  <2>2. CASE AllocPayload(t)
    <3>1. \/ parts' = [parts EXCEPT ![blk[t]] = @ \cup {"payload"}]
          \/ parts' = [parts EXCEPT ![blk[t]] = {}]
      BY <2>2 DEF AllocPayload, Free
    <3>2. parts' \in [Blocks -> SUBSET Parts]
      BY <3>1, <1>c, PartsUpdate, PartsSets
    <3>3. RegistersTyped'
      BY <2>2, <1>b DEF AllocPayload, At, Goto, Return, Registers, Places
    <3> QED
      BY <2>2, <1>a, <1>d, <1>e, <1>f, <1>g, <3>2, <3>3 DEF AllocPayload, TypeInv, TypeOK
  <2>3. CASE AllocCtx(t)
    <3>1. this[t] \in Clients
      BY <2>3, <1>b DEF AllocCtx, At, Registers
    <3>2. \/ parts' = [parts EXCEPT ![blk[t]] = @ \cup {"ctx"}]
          \/ parts' = [parts EXCEPT ![blk[t]] = {}]
      BY <2>3 DEF AllocCtx, Free
    <3>3. parts' \in [Blocks -> SUBSET Parts]
      BY <3>2, <1>c, PartsUpdate, PartsSets
    <3>4. ctx' \in [Blocks -> Clients \cup {None}]
      BY <2>3, <3>1, <1>d DEF AllocCtx
    <3>5. refs' \in [Clients -> Int]
      BY <2>3, <1>e DEF AllocCtx
    <3>6. RegistersTyped'
      BY <2>3, <1>b DEF AllocCtx, At, Goto, Return, Registers, Places
    <3> QED
      BY <2>3, <1>a, <1>e, <1>f, <1>g, <3>3, <3>4, <3>5, <3>6 DEF AllocCtx, TypeInv, TypeOK
  <2>4. CASE CountFrame(t)
    <3>1. RegistersTyped'
      BY <2>4, <1>b DEF CountFrame, At, Goto, Registers, Places
    <3>2. pending' \in [Clients -> Int]
      BY <2>4, <1>e, CountUpdate DEF CountFrame
    <3> QED
      BY <2>4, <1>a, <1>c, <1>d, <1>e, <1>f, <1>g, <3>1, <3>2 DEF CountFrame, TypeInv, TypeOK
  <2>5. CASE QueueFrame(t)
    <3>1. blk[t] \in Blocks
      BY <2>5, <1>b DEF QueueFrame, At, Registers
    <3>2. queue' = queue \/ queue' = Append(queue, blk[t])
      BY <2>5 DEF QueueFrame
    <3>3. queue' \in Seq(Blocks)
      BY <3>1, <3>2, <1>f, AppendProperties
    <3>4. RegistersTyped'
      BY <2>5, <1>b DEF QueueFrame, At, Goto, Return, Registers, Places
    <3> QED
      BY <2>5, <1>a, <1>c, <1>d, <1>e, <1>g, <3>3, <3>4 DEF QueueFrame, TypeInv, TypeOK
  <2>6. CASE RollBack(t)
    <3>1. parts' \in [Blocks -> SUBSET Parts]
      BY <2>6, <1>c, PartsUpdate, PartsSets DEF RollBack, Free
    <3>2. ctx' \in [Blocks -> Clients \cup {None}]
      BY <2>6, <1>d DEF RollBack
    <3>3. pending' \in [Clients -> Int] /\ refs' \in [Clients -> Int]
      BY <2>6, <1>e, CountUpdate DEF RollBack
    <3>4. RegistersTyped'
      BY <2>6, <1>b DEF RollBack, Goto, Return, Registers, Places
    <3> QED
      BY <2>6, <1>a, <1>f, <1>g, <3>1, <3>2, <3>3, <3>4 DEF RollBack, TypeInv, TypeOK
  <2>7. CASE UseAfterDelete(t)
    BY <2>7, <1>a, <1>b, <1>c, <1>d, <1>e, <1>f DEF UseAfterDelete, TypeInv, TypeOK, Registers
  <2> QED
    BY <1>7, <2>1, <2>2, <2>3, <2>4, <2>5, <2>6, <2>7 DEF SendStep
<1>8. CASE UNCHANGED vars
  BY <1>8, <1>a, <1>b, <1>c, <1>d, <1>e, <1>f, <1>g DEF vars, TypeInv, TypeOK, Registers
<1> QED
  BY <1>1, <1>2, <1>3, <1>4, <1>5, <1>6, <1>7, <1>8 DEF Next, HttpdStep, Faulted

\* Type correctness of the send path, for every value of the constants.
THEOREM TypeCorrect == Spec => []TypeOK
<1>1. TypeInv => TypeOK
  BY DEF TypeInv
<1> QED
  BY InitTypeInv, NextTypeInv, <1>1, PTL DEF Spec

-----------------------------------------------------------------------------

\* The callers past the check are some of the tasks: finite, at most all.
LEMMA AdmittedBounded ==
  ASSUME NEW o
  PROVE  /\ IsFiniteSet(Admitted(o))
         /\ Cardinality(Admitted(o)) \in Nat
         /\ Cardinality(Admitted(o)) <= Cardinality(Tasks)
         /\ Cardinality(Tasks) \in Nat
  BY TasksAssumption, FS_Subset, FS_CardinalityType DEF Admitted

\* A step after which no more callers are past the check, and the counters
\* have not grown, keeps the bound.
LEMMA CapKept ==
  ASSUME TypeInv, TypeInv', CapInductive,
         \A o \in Clients : pending'[o] <= pending[o],
         \A o \in Clients : Admitted(o)' \subseteq Admitted(o)
  PROVE  CapInductive'
<1> SUFFICES ASSUME NEW o \in Clients
             PROVE  pending'[o] + Cardinality(Admitted(o)') <= Cap + Cardinality(Tasks) - 1
  BY DEF CapInductive
<1>1. Cardinality(Admitted(o)') \in Nat /\ Cardinality(Admitted(o)') <= Cardinality(Admitted(o))
  BY AdmittedBounded, FS_Subset, FS_CardinalityType
<1>2. pending[o] + Cardinality(Admitted(o)) <= Cap + Cardinality(Tasks) - 1
  BY DEF CapInductive
<1>3. pending[o] \in Int /\ pending'[o] \in Int /\ pending'[o] <= pending[o]
  BY DEF TypeInv, TypeOK
<1> QED
  BY <1>1, <1>2, <1>3, AdmittedBounded, CapAssumption

\* At first nothing is pending and nobody has passed the check.
LEMMA InitCap == Init => CapInductive
<1> SUFFICES ASSUME Init, NEW o \in Clients
             PROVE  pending[o] + Cardinality(Admitted(o)) <= Cap + Cardinality(Tasks) - 1
  BY DEF CapInductive
<1>1. pending[o] = 0 /\ Admitted(o) = {}
  BY DEF Init, Admitted
<1>2. Cardinality(Admitted(o)) = 0
  BY <1>1, FS_EmptySet
<1>3. Cardinality(Tasks) \in Nat /\ Cardinality(Tasks) # 0
  BY TasksAssumption, FS_EmptySet, FS_CardinalityType
<1> QED
  BY <1>1, <1>2, <1>3, CapAssumption

\* Passing the check: the counter was below the cap then, and there are only
\* so many tasks to be in between.
LEMMA CapAtLoad ==
  ASSUME TypeInv, CapInductive, NEW t \in Tasks, NEW o \in Clients, LoadPending(t, o)
  PROVE  CapInductive'
<1> SUFFICES ASSUME NEW c \in Clients
             PROVE  pending'[c] + Cardinality(Admitted(c)') <= Cap + Cardinality(Tasks) - 1
  BY DEF CapInductive
<1>1. pending' = pending /\ pending[c] \in Int
  BY DEF LoadPending, TypeInv, TypeOK
<1>2. /\ Admitted(c)' \subseteq Tasks
      /\ Cardinality(Admitted(c)') \in Nat
      /\ Cardinality(Admitted(c)') <= Cardinality(Tasks)
      /\ Cardinality(Tasks) \in Nat
  BY TasksAssumption, FS_Subset, FS_CardinalityType DEF Admitted
<1>3. CASE c = o
  BY <1>1, <1>2, <1>3, CapAssumption DEF LoadPending
<1>4. CASE c # o
  <2>1. Admitted(c)' = Admitted(c)
    BY <1>4 DEF LoadPending, Admitted, At, Goto, TypeInv, TypeOK
  <2> QED
    BY <1>1, <2>1 DEF CapInductive
<1> QED
  BY <1>3, <1>4

\* Counting the frame: what the counter gains, the callers in between lose.
LEMMA CapAtCount ==
  ASSUME TypeInv, CapInductive, NEW t \in Tasks, CountFrame(t)
  PROVE  CapInductive'
<1> DEFINE o == this[t]
<1>1. o \in Clients /\ t \in Admitted(o)
  BY DEF CountFrame, At, Admitted, TypeInv, TypeOK, Registers
<1> SUFFICES ASSUME NEW c \in Clients
             PROVE  pending'[c] + Cardinality(Admitted(c)') <= Cap + Cardinality(Tasks) - 1
  BY DEF CapInductive
<1>2. pending[c] \in Int /\ pending[c] + Cardinality(Admitted(c)) <= Cap + Cardinality(Tasks) - 1
  BY DEF CapInductive, TypeInv, TypeOK
<1>3. CASE c = o
  <2>1. pending'[c] = pending[c] + 1
    BY <1>1, <1>3 DEF CountFrame, TypeInv, TypeOK
  <2>2. Admitted(c)' = Admitted(c) \ {t}
    BY <1>3 DEF CountFrame, Admitted, At, Goto, TypeInv, TypeOK
  <2>3. Cardinality(Admitted(c)') = Cardinality(Admitted(c)) - 1
    BY <1>1, <1>3, <2>2, AdmittedBounded, FS_RemoveElement
  <2> QED
    BY <1>2, <2>1, <2>3, AdmittedBounded, CapAssumption
<1>4. CASE c # o
  <2>1. pending'[c] = pending[c]
    BY <1>4 DEF CountFrame, TypeInv, TypeOK
  <2>2. Admitted(c)' = Admitted(c)
    BY <1>4 DEF CountFrame, Admitted, At, Goto, TypeInv, TypeOK
  <2> QED
    BY <1>2, <2>1, <2>2
<1> QED
  BY <1>3, <1>4

\* Every step keeps the bound.
LEMMA NextCap == TypeInv /\ TypeInv' /\ CapInductive /\ [Next]_vars => CapInductive'
<1> SUFFICES ASSUME TypeInv, TypeInv', CapInductive, [Next]_vars PROVE CapInductive'
  OBVIOUS
<1> DEFINE NoneCounted == \A o \in Clients : pending'[o] <= pending[o]
           NoneAdmitted == \A o \in Clients : Admitted(o)' \subseteq Admitted(o)
<1>a. pending \in [Clients -> Int] /\ pc \in [Tasks -> Places]
  BY DEF TypeInv, TypeOK
<1>b. \A o \in Clients : pending[o] <= pending[o] /\ pending[o] - 1 <= pending[o]
  BY <1>a
<1>c. \A o \in Clients : pending[o] + Cardinality(Admitted(o)) <= Cap + Cardinality(Tasks) - 1
  BY DEF CapInductive
<1>1. ASSUME NEW s \in Sockets, NEW o \in Clients, Open(s, o) \/ BeginFrame(s, o)
      PROVE  CapInductive'
  <2>1. /\ pending' = [pending EXCEPT ![o] = 0]
        /\ Admitted(o)' = {}
        /\ \A c \in Clients : Admitted(c)' = Admitted(c)
    BY <1>1 DEF Open, BeginFrame, Construct, Fresh, Admitted
  <2> SUFFICES ASSUME NEW c \in Clients
               PROVE  pending'[c] + Cardinality(Admitted(c)') <= Cap + Cardinality(Tasks) - 1
    BY DEF CapInductive
  <2>2. CASE c = o
    <3>1. Cardinality(Admitted(c)') = 0
      BY <2>1, <2>2, FS_EmptySet
    <3>2. Cardinality(Tasks) \in Nat /\ Cardinality(Tasks) # 0
      BY TasksAssumption, FS_EmptySet, FS_CardinalityType
    <3> QED
      BY <2>1, <2>2, <3>1, <3>2, <1>a, CapAssumption
  <2>3. CASE c # o
    BY <2>1, <2>3, <1>a, <1>c
  <2> QED
    BY <2>2, <2>3
<1>2. ASSUME NEW s \in Sockets, Close(s) PROVE CapInductive'
  <2>1. NoneCounted
    BY <1>2, <1>b DEF Close, Destroy
  <2>2. NoneAdmitted
    BY <1>2 DEF Close, Admitted
  <2> QED
    BY <2>1, <2>2, CapKept
<1>3. CASE EndFrame
  <2>1. NoneCounted
    BY <1>3, <1>b DEF EndFrame, Destroy
  <2>2. NoneAdmitted
    BY <1>3 DEF EndFrame, Admitted
  <2> QED
    BY <2>1, <2>2, CapKept
<1>4. CASE SendMessageCallback
  <2>1. NoneCounted
    BY <1>4, <1>a, <1>b DEF SendMessageCallback
  <2>2. NoneAdmitted
    BY <1>4 DEF SendMessageCallback, Admitted
  <2> QED
    BY <2>1, <2>2, CapKept
<1>5. ASSUME NEW t \in Tasks, NEW o \in Clients, LoadPending(t, o) PROVE CapInductive'
  BY <1>5, CapAtLoad
<1>6. ASSUME NEW t \in Tasks, SendStep(t) PROVE CapInductive'
  <2>1. CASE CountFrame(t)
    BY <2>1, CapAtCount
  <2>2. CASE AllocFrame(t) \/ AllocPayload(t) \/ AllocCtx(t) \/ QueueFrame(t) \/ UseAfterDelete(t)
    <3>1. NoneCounted
      BY <2>2, <1>b DEF AllocFrame, AllocPayload, AllocCtx, QueueFrame, UseAfterDelete
    <3>2. NoneAdmitted
      BY <2>2, <1>a DEF AllocFrame, AllocPayload, AllocCtx, QueueFrame, UseAfterDelete, At,
                        Goto, Return, Admitted, TypeInv, TypeOK
    <3> QED
      BY <3>1, <3>2, CapKept
  <2>3. CASE RollBack(t)
    <3>1. NoneCounted
      BY <2>3, <1>a, <1>b DEF RollBack
    <3>2. NoneAdmitted
      BY <2>3, <1>a DEF RollBack, Return, Goto, Admitted
    <3> QED
      BY <3>1, <3>2, CapKept
  <2> QED
    BY <1>6, <2>1, <2>2, <2>3 DEF SendStep
<1>7. CASE UNCHANGED vars
  <2>1. NoneCounted /\ NoneAdmitted
    BY <1>7, <1>b DEF vars, Admitted
  <2> QED
    BY <2>1, CapKept
<1> QED
  BY <1>1, <1>2, <1>3, <1>4, <1>5, <1>6, <1>7 DEF Next, HttpdStep, Faulted

\* However many tasks send at once, a client's counter exceeds the cap by at
\* most the number of the other senders; the overrun is bounded and real.
THEOREM CapOverrunBounded == Spec => [](CapInductive /\ CapNearlyHolds)
<1>1. Init => TypeInv /\ CapInductive
  BY InitTypeInv, InitCap
<1>2. TypeInv /\ CapInductive /\ [Next]_vars => (TypeInv /\ CapInductive)'
  BY NextTypeInv, NextCap
<1>3. TypeInv /\ CapInductive => CapNearlyHolds
  <2> SUFFICES ASSUME TypeInv, CapInductive, NEW o \in Clients
               PROVE  pending[o] <= Cap + Cardinality(Tasks) - 1
    BY DEF CapNearlyHolds
  <2>1. pending[o] \in Int /\ pending[o] + Cardinality(Admitted(o)) <= Cap + Cardinality(Tasks) - 1
    BY DEF CapInductive, TypeInv, TypeOK
  <2> QED
    BY <2>1, AdmittedBounded, CapAssumption
<1> QED
  BY <1>1, <1>2, <1>3, PTL DEF Spec

-----------------------------------------------------------------------------
(* Who owns the blocks, the pending-frame counters, and the budget they    *)
(* implement.                                                              *)

Queued == Range(queue)
Counting == {"count", "queue", "rollback"}

\* Who has which block, what of it is allocated, and whose counter its ctx shares.
HoldersDiffer == \A t, u \in Tasks : blk[t] = blk[u] => blk[t] = None \/ t = u
HeldNotQueued == \A t \in Tasks : blk[t] \notin Queued
HoldsPastAlloc == \A t \in Tasks : blk[t] = None <=> pc[t] \in {"idle", "frame"}
HeldParts ==
  \A t \in Tasks : blk[t] # None =>
    /\ parts[blk[t]] = Owned(pc[t])
    /\ ctx[blk[t]] = IF pc[t] \in Counting THEN this[t] ELSE None
QueuedParts == \A i \in Queued : parts[i] = Parts /\ ctx[i] # None
FreeElse ==
  \A i \in Blocks : i \notin Queued /\ (\A t \in Tasks : blk[t] # i) => parts[i] = {} /\ ctx[i] = None
QueuedOnce == \A j, k \in DOMAIN queue : queue[j] = queue[k] => j = k

Ownership ==
  /\ HoldersDiffer /\ HeldNotQueued /\ HoldsPastAlloc /\ HeldParts
  /\ QueuedParts /\ FreeElse /\ QueuedOnce

-----------------------------------------------------------------------------
(* The work queue as a set.                                                *)

LEMMA QueueAppend ==
  ASSUME NEW q \in Seq(Blocks), NEW i \in Blocks
  PROVE  /\ Range(Append(q, i)) = Range(q) \cup {i}
         /\ (\A j, k \in DOMAIN q : q[j] = q[k] => j = k) /\ i \notin Range(q)
              => \A j, k \in DOMAIN Append(q, i) : Append(q, i)[j] = Append(q, i)[k] => j = k
<1>1. /\ DOMAIN Append(q, i) = 1 .. Len(q) + 1 /\ DOMAIN q = 1 .. Len(q) /\ Len(q) \in Nat
      /\ \A j \in 1 .. Len(q) : Append(q, i)[j] = q[j]
      /\ Append(q, i)[Len(q) + 1] = i
  OBVIOUS
<1> DEFINE a == Append(q, i)
<1> HIDE DEF a
<1>2. /\ DOMAIN a = 1 .. Len(q) + 1 /\ a[Len(q) + 1] = i
      /\ \A j \in 1 .. Len(q) : a[j] = q[j]
  BY <1>1 DEF a
<1>3. Range(a) = Range(q) \cup {i}
  BY <1>1, <1>2 DEF Range
<1>4. ASSUME \A j, k \in DOMAIN q : q[j] = q[k] => j = k, i \notin Range(q)
      PROVE  \A j, k \in DOMAIN a : a[j] = a[k] => j = k
  BY <1>1, <1>2, <1>4 DEF Range
<1> QED
  BY <1>3, <1>4 DEF a

LEMMA QueueTail ==
  ASSUME NEW q \in Seq(Blocks), q # <<>>, \A j, k \in DOMAIN q : q[j] = q[k] => j = k
  PROVE  /\ Head(q) \in Range(q) /\ Range(Tail(q)) = Range(q) \ {Head(q)}
         /\ \A j, k \in DOMAIN Tail(q) : Tail(q)[j] = Tail(q)[k] => j = k
<1>1. /\ Len(q) \in Nat \ {0} /\ DOMAIN q = 1 .. Len(q) /\ DOMAIN Tail(q) = 1 .. Len(q) - 1
      /\ Head(q) = q[1]
      /\ \A j \in 1 .. Len(q) - 1 : Tail(q)[j] = q[j + 1]
  OBVIOUS
<1> DEFINE a == Tail(q)
<1> HIDE DEF a
<1>2. DOMAIN a = 1 .. Len(q) - 1 /\ \A j \in 1 .. Len(q) - 1 : a[j] = q[j + 1]
  BY <1>1 DEF a
<1>3. \A x \in Range(q) \ {q[1]} : x \in Range(a)
  <2> SUFFICES ASSUME NEW j \in 2 .. Len(q) PROVE q[j] \in Range(a)
    BY <1>1 DEF Range
  <2> QED
    BY <1>1, <1>2, j - 1 \in DOMAIN a, a[j - 1] = q[j] DEF Range
<1>4. \A x \in Range(a) : x \in Range(q) \ {q[1]}
  BY <1>1, <1>2 DEF Range
<1>5. \A j, k \in DOMAIN a : a[j] = a[k] => j = k
  BY <1>1, <1>2
<1> QED
  BY <1>1, <1>3, <1>4, <1>5 DEF Range, a

-----------------------------------------------------------------------------
(* Ownership.                                                              *)

\* What a call owns at each place, one place at a time.
LEMMA OwnedAt ==
  /\ Owned("payload") = {"frame"} /\ Owned("ctx") = {"frame", "payload"}
  /\ Owned("count") = Parts /\ Owned("queue") = Parts /\ Owned("rollback") = Parts
<1>1. Owned("payload") = {"frame"}
  BY DEF Owned
<1>2. Owned("ctx") = {"frame", "payload"}
  BY DEF Owned
<1>3. Owned("count") = Parts
  BY DEF Owned
<1>4. Owned("queue") = Parts
  BY DEF Owned
<1>5. Owned("rollback") = Parts
  BY DEF Owned
<1> QED
  BY <1>1, <1>2, <1>3, <1>4, <1>5

\* The names in the queue are names of blocks.
LEMMA QueuedBlocks == TypeInv => \A j \in Queued : j \in Blocks
  BY DEF TypeInv, TypeOK, Queued, Range

LEMMA InitOwnership == Init => Ownership
<1> SUFFICES ASSUME Init PROVE Ownership
  OBVIOUS
<1>1. Queued = {} /\ DOMAIN queue = {}
  BY DEF Init, Queued, Range
<1> QED
  BY <1>1 DEF Init, Ownership, HoldersDiffer, HeldNotQueued, HoldsPastAlloc, HeldParts,
              QueuedParts, FreeElse, QueuedOnce

LEMMA OwnershipSame ==
  ASSUME Ownership, UNCHANGED <<pc, this, blk, parts, ctx, queue>>
  PROVE  Ownership'
  BY DEF Ownership, HoldersDiffer, HeldNotQueued, HoldsPastAlloc, HeldParts,
         QueuedParts, FreeElse, QueuedOnce, Queued

\* A task that holds no block goes to a place where it needs none.
LEMMA MoveOwnership ==
  ASSUME TypeInv, Ownership, NEW t \in Tasks, blk[t] = None, NEW place \in {"idle", "frame"},
         Goto(t, place), UNCHANGED <<blk, parts, ctx, queue>>,
         \A u \in Tasks \ {t} : this'[u] = this[u]
  PROVE  Ownership'
<1>1. \A u \in Tasks : pc'[u] = IF u = t THEN place ELSE pc[u]
  BY DEF Goto, TypeInv, TypeOK
<1> QED
  BY <1>1 DEF Ownership, HoldersDiffer, HeldNotQueued, HoldsPastAlloc, HeldParts,
         QueuedParts, FreeElse, QueuedOnce, Queued

\* malloc of the frame finds a block that nobody has.
LEMMA TakeOwnership ==
  ASSUME TypeInv, Ownership, NEW t \in Tasks, pc[t] = "frame", NEW i \in Blocks, parts[i] = {},
         parts' = [parts EXCEPT ![i] = {"frame"}], blk' = [blk EXCEPT ![t] = i],
         Goto(t, "payload"), UNCHANGED <<this, ctx, queue>>
  PROVE  Ownership'
<1>1. /\ \A u \in Tasks : pc'[u] = IF u = t THEN "payload" ELSE pc[u]
      /\ \A u \in Tasks : blk'[u] = IF u = t THEN i ELSE blk[u]
      /\ \A j \in Blocks : parts'[j] = IF j = i THEN {"frame"} ELSE parts[j]
      /\ \A u \in Tasks : blk[u] \in Blocks \cup {None} /\ pc[u] \in Places
  BY DEF Goto, TypeInv, TypeOK
<1>2. i \notin Queued
  BY DEF Ownership, QueuedParts, Parts
<1>3. \A u \in Tasks : blk[u] # i
  <2> SUFFICES ASSUME NEW u \in Tasks, blk[u] = i PROVE FALSE
    OBVIOUS
  <2>1. i # None
    BY NoneAssumption
  <2>2. parts[i] = Owned(pc[u]) /\ pc[u] \notin {"idle", "frame"} /\ pc[u] \in Places
    BY <1>1, <2>1 DEF Ownership, HeldParts, HoldsPastAlloc
  <2> QED
    BY <2>2, OwnedAt DEF Parts, Places
<1>4. ctx[i] = None /\ i # None
  BY <1>2, <1>3, NoneAssumption DEF Ownership, FreeElse
<1>5. HoldersDiffer' /\ HoldsPastAlloc'
  BY <1>1, <1>3, <1>4 DEF Ownership, HoldersDiffer, HoldsPastAlloc
<1>6. HeldNotQueued'
  BY <1>1, <1>2 DEF Ownership, HeldNotQueued, Queued
<1>7. HeldParts'
  BY <1>1, <1>3, <1>4, OwnedAt DEF Ownership, HeldParts, Counting
<1>8. QueuedParts' /\ QueuedOnce'
  BY <1>1, <1>2, <1>4, QueuedBlocks DEF Ownership, QueuedParts, QueuedOnce, Queued
<1>9. FreeElse'
  <2>1. blk[t] = None
    BY DEF Ownership, HoldsPastAlloc
  <2> QED
    BY <1>1, <2>1, NoneAssumption DEF Ownership, FreeElse, Queued
<1> QED
  BY <1>5, <1>6, <1>7, <1>8, <1>9 DEF Ownership

\* A call that holds a block goes on with it, having allocated what it needs there.
LEMMA KeepOwnership ==
  ASSUME TypeInv, Ownership, NEW t \in Tasks, pc[t] \notin {"idle", "frame"},
         NEW place \in Places \ {"idle", "frame"}, Goto(t, place),
         parts' = [parts EXCEPT ![blk[t]] = Owned(place)],
         ctx' = [ctx EXCEPT ![blk[t]] = IF place \in Counting THEN this[t] ELSE None],
         UNCHANGED <<this, blk, queue>>
  PROVE  Ownership'
<1> DEFINE i == blk[t]
<1>1. /\ i \in Blocks /\ i # None /\ i \notin Queued
      /\ \A u \in Tasks \ {t} : blk[u] # i
  BY NoneAssumption
  DEF TypeInv, TypeOK, Registers, Ownership, HeldNotQueued, HoldersDiffer
<1>2. /\ \A u \in Tasks : pc'[u] = IF u = t THEN place ELSE pc[u]
      /\ \A j \in Blocks : parts'[j] = IF j = i THEN Owned(place) ELSE parts[j]
      /\ \A j \in Blocks :
           ctx'[j] = IF j = i THEN IF place \in Counting THEN this[t] ELSE None ELSE ctx[j]
      /\ \A u \in Tasks : blk[u] \in Blocks \cup {None}
  BY <1>1 DEF Goto, TypeInv, TypeOK
<1>3. HoldersDiffer' /\ HeldNotQueued' /\ HoldsPastAlloc' /\ QueuedOnce'
  BY <1>1, <1>2
  DEF Ownership, HoldersDiffer, HeldNotQueued, HoldsPastAlloc, QueuedOnce, Queued
<1>4. HeldParts'
  BY <1>1, <1>2 DEF Ownership, HeldParts
<1>5. QueuedParts'
  BY <1>1, <1>2, QueuedBlocks DEF Ownership, QueuedParts, Queued
<1>6. FreeElse'
  BY <1>1, <1>2 DEF Ownership, FreeElse, Queued
<1> QED
  BY <1>3, <1>4, <1>5, <1>6 DEF Ownership

\* A call that fails frees its block and returns.
LEMMA FreeOwnership ==
  ASSUME TypeInv, Ownership, NEW t \in Tasks, pc[t] \notin {"idle", "frame"},
         Return(t), Free(blk[t]), ctx' = [ctx EXCEPT ![blk[t]] = None], UNCHANGED queue
  PROVE  Ownership'
<1> DEFINE i == blk[t]
<1>1. /\ i \in Blocks /\ i # None /\ i \notin Queued
      /\ \A u \in Tasks \ {t} : blk[u] # i
  BY NoneAssumption
  DEF TypeInv, TypeOK, Registers, Ownership, HeldNotQueued, HoldersDiffer
<1>2. /\ \A u \in Tasks : pc'[u] = IF u = t THEN "idle" ELSE pc[u]
      /\ \A u \in Tasks : blk'[u] = IF u = t THEN None ELSE blk[u]
      /\ \A u \in Tasks : this'[u] = IF u = t THEN None ELSE this[u]
      /\ \A j \in Blocks : parts'[j] = IF j = i THEN {} ELSE parts[j]
      /\ \A j \in Blocks : ctx'[j] = IF j = i THEN None ELSE ctx[j]
      /\ \A u \in Tasks : blk[u] \in Blocks \cup {None}
  BY <1>1 DEF Return, Free, Goto, TypeInv, TypeOK
<1>3. HoldersDiffer' /\ HoldsPastAlloc' /\ QueuedOnce'
  BY <1>1, <1>2 DEF Ownership, HoldersDiffer, HoldsPastAlloc, QueuedOnce
<1>4. HeldNotQueued'
  BY <1>1, <1>2, QueuedBlocks, NoneAssumption DEF Ownership, HeldNotQueued, Queued
<1>5. HeldParts'
  BY <1>1, <1>2 DEF Ownership, HeldParts
<1>6. QueuedParts'
  BY <1>1, <1>2, QueuedBlocks DEF Ownership, QueuedParts, Queued
<1>7. FreeElse'
  BY <1>1, <1>2 DEF Ownership, FreeElse, Queued
<1> QED
  BY <1>3, <1>4, <1>5, <1>6, <1>7 DEF Ownership

\* A block handed to the work queue is the queue's.
LEMMA QueueOwnership ==
  ASSUME TypeInv, Ownership, NEW t \in Tasks, pc[t] = "queue", Return(t),
         queue' = Append(queue, blk[t]), UNCHANGED <<parts, ctx>>
  PROVE  Ownership'
<1> DEFINE i == blk[t]
<1>1. /\ i \in Blocks /\ i # None /\ i \notin Queued
      /\ \A u \in Tasks \ {t} : blk[u] # i
      /\ queue \in Seq(Blocks) /\ this[t] \in Clients
  BY NoneAssumption
  DEF TypeInv, TypeOK, Registers, Ownership, HeldNotQueued, HoldersDiffer
<1>2. /\ \A u \in Tasks : pc'[u] = IF u = t THEN "idle" ELSE pc[u]
      /\ \A u \in Tasks : blk'[u] = IF u = t THEN None ELSE blk[u]
      /\ \A u \in Tasks : this'[u] = IF u = t THEN None ELSE this[u]
      /\ \A u \in Tasks : blk[u] \in Blocks \cup {None}
  BY DEF Return, Goto, TypeInv, TypeOK
<1>3. Queued' = Queued \cup {i}
  BY <1>1, QueueAppend DEF Queued
<1>4. HoldersDiffer' /\ HoldsPastAlloc'
  BY <1>1, <1>2 DEF Ownership, HoldersDiffer, HoldsPastAlloc
<1>5. HeldNotQueued'
  BY <1>1, <1>2, <1>3, QueuedBlocks, NoneAssumption DEF Ownership, HeldNotQueued
<1>6. HeldParts'
  BY <1>1, <1>2 DEF Ownership, HeldParts
<1>7. QueuedParts'
  <2>1. parts[i] = Parts /\ ctx[i] = this[t] /\ ctx[i] # None
    BY <1>1, OwnedAt, NoneAssumption DEF Ownership, HeldParts, Counting
  <2> QED
    BY <1>3, <2>1 DEF Ownership, QueuedParts
<1>8. FreeElse'
  BY <1>1, <1>2, <1>3 DEF Ownership, FreeElse
<1>9. QueuedOnce'
  BY <1>1, QueueAppend DEF Ownership, QueuedOnce, Queued
<1> QED
  BY <1>4, <1>5, <1>6, <1>7, <1>8, <1>9 DEF Ownership

\* The completion frees the block at the head of the queue.
LEMMA CompleteOwnership ==
  ASSUME TypeInv, Ownership, SendMessageCallback
  PROVE  Ownership'
<1> DEFINE i == Head(queue)
<1>1. /\ queue \in Seq(Blocks) /\ queue # <<>>
      /\ \A j, k \in DOMAIN queue : queue[j] = queue[k] => j = k
  BY DEF SendMessageCallback, TypeInv, TypeOK, Ownership, QueuedOnce
<1>2. i \in Queued /\ Queued' = Queued \ {i} /\ i \in Blocks /\ QueuedOnce'
  BY <1>1, QueueTail, QueuedBlocks DEF SendMessageCallback, Queued, QueuedOnce
<1>3. /\ \A j \in Blocks : parts'[j] = IF j = i THEN {} ELSE parts[j]
      /\ \A j \in Blocks : ctx'[j] = IF j = i THEN None ELSE ctx[j]
      /\ \A u \in Tasks : blk[u] \in Blocks \cup {None}
      /\ UNCHANGED <<pc, this, blk>>
  BY <1>2 DEF SendMessageCallback, TypeInv, TypeOK
<1>4. \A u \in Tasks : blk[u] # i
  BY <1>2 DEF Ownership, HeldNotQueued
<1>5. HoldersDiffer' /\ HeldNotQueued' /\ HoldsPastAlloc'
  BY <1>2, <1>3 DEF Ownership, HoldersDiffer, HeldNotQueued, HoldsPastAlloc
<1>6. HeldParts'
  BY <1>3, <1>4 DEF Ownership, HeldParts
<1>7. QueuedParts'
  BY <1>2, <1>3, QueuedBlocks DEF Ownership, QueuedParts
<1>8. FreeElse'
  BY <1>2, <1>3 DEF Ownership, FreeElse
<1> QED
  BY <1>2, <1>5, <1>6, <1>7, <1>8 DEF Ownership

\* Every step keeps to the owners.
LEMMA NextOwnership == TypeInv /\ Ownership /\ [Next]_vars => Ownership'
<1> SUFFICES ASSUME TypeInv, Ownership, [Next]_vars PROVE Ownership'
  OBVIOUS
<1>a. \A t \in Tasks : blk[t] = None <=> pc[t] \in {"idle", "frame"}
  BY DEF Ownership, HoldsPastAlloc
<1>b. ASSUME NEW t \in Tasks, blk[t] # None
      PROVE  /\ blk[t] \in Blocks /\ parts[blk[t]] = Owned(pc[t])
             /\ ctx[blk[t]] = IF pc[t] \in Counting THEN this[t] ELSE None
  BY <1>b DEF Ownership, HeldParts, TypeInv, TypeOK
<1>c. /\ blk \in [Tasks -> Blocks \cup {None}] /\ this \in [Tasks -> Clients \cup {None}]
      /\ parts \in [Blocks -> SUBSET Parts] /\ ctx \in [Blocks -> Clients \cup {None}]
  BY DEF TypeInv, TypeOK
<1>1. CASE HttpdStep
  <2>1. CASE SendMessageCallback
    BY <2>1, CompleteOwnership
  <2>2. CASE EndFrame \/ \E s \in Sockets : Close(s) \/ \E o \in Clients : Open(s, o) \/ BeginFrame(s, o)
    BY <2>2, OwnershipSame DEF EndFrame, Close, Open, BeginFrame
  <2> QED
    BY <1>1, <2>1, <2>2 DEF HttpdStep
<1>2. ASSUME NEW t \in Tasks, NEW o \in Clients, LoadPending(t, o) PROVE Ownership'
  BY <1>2, <1>a, <1>c, MoveOwnership DEF LoadPending, At
<1>3. ASSUME NEW t \in Tasks, SendStep(t) PROVE Ownership'
  <2>1. CASE AllocFrame(t)
    <3>1. CASE Return(t) /\ UNCHANGED parts
      <4>1. UNCHANGED blk /\ \A u \in Tasks \ {t} : this'[u] = this[u]
        BY <2>1, <3>1, <1>a, <1>c DEF AllocFrame, At, Return
      <4> QED
        BY <2>1, <3>1, <4>1, <1>a, MoveOwnership DEF AllocFrame, At, Return
    <3>2. CASE ~(Return(t) /\ UNCHANGED parts)
      BY <2>1, <3>2, TakeOwnership DEF AllocFrame, At
    <3> QED
      BY <3>1, <3>2
  <2>2. CASE AllocPayload(t)
    <3>1. /\ pc[t] = "payload" /\ ctx' = ctx /\ blk[t] # None
          /\ parts[blk[t]] = {"frame"} /\ ctx[blk[t]] = None
      BY <2>2, <1>a, <1>b, OwnedAt DEF AllocPayload, At, Counting
    <3>2. ctx' = [ctx EXCEPT ![blk[t]] = None]
      BY <3>1, <1>c
    <3>3. CASE Free(blk[t]) /\ Return(t)
      BY <2>2, <3>1, <3>2, <3>3, FreeOwnership DEF AllocPayload
    <3>4. CASE ~(Free(blk[t]) /\ Return(t))
      <4>1. parts' = [parts EXCEPT ![blk[t]] = Owned("ctx")] /\ Goto(t, "ctx")
        BY <2>2, <3>1, <3>4, OwnedAt, <1>c DEF AllocPayload
      <4> QED
        BY <2>2, <3>1, <3>2, <3>4, <4>1, KeepOwnership DEF AllocPayload, Places, Counting
    <3> QED
      BY <3>3, <3>4
  <2>3. CASE AllocCtx(t)
    <3>1. /\ pc[t] = "ctx" /\ blk[t] # None
          /\ parts[blk[t]] = {"frame", "payload"} /\ ctx[blk[t]] = None
      BY <2>3, <1>a, <1>b, OwnedAt DEF AllocCtx, At, Counting
    <3>2. CASE Free(blk[t]) /\ Return(t) /\ UNCHANGED <<ctx, refs>>
      <4>1. ctx' = [ctx EXCEPT ![blk[t]] = None]
        BY <3>1, <3>2, <1>c
      <4> QED
        BY <2>3, <3>1, <3>2, <4>1, FreeOwnership DEF AllocCtx
    <3>3. CASE ~(Free(blk[t]) /\ Return(t) /\ UNCHANGED <<ctx, refs>>)
      <4>1. parts' = [parts EXCEPT ![blk[t]] = Owned("count")] /\ Goto(t, "count")
        BY <2>3, <3>1, <3>3, OwnedAt, <1>c DEF AllocCtx, Parts
      <4> QED
        BY <2>3, <3>1, <3>3, <4>1, KeepOwnership DEF AllocCtx, Places, Counting
    <3> QED
      BY <3>2, <3>3
  <2>4. CASE CountFrame(t)
    <3>1. /\ pc[t] = "count" /\ blk[t] # None /\ Goto(t, "queue")
          /\ parts[blk[t]] = Owned("queue") /\ ctx[blk[t]] = this[t]
      BY <2>4, <1>a, <1>b, OwnedAt DEF CountFrame, At, Counting
    <3>2. /\ parts' = [parts EXCEPT ![blk[t]] = Owned("queue")]
          /\ ctx' = [ctx EXCEPT ![blk[t]] = this[t]]
      BY <2>4, <3>1, <1>c DEF CountFrame
    <3> QED
      BY <2>4, <3>1, <3>2, KeepOwnership DEF CountFrame, Places, Counting
  <2>5. CASE QueueFrame(t)
    <3>1. pc[t] = "queue" /\ parts' = parts /\ ctx' = ctx
      BY <2>5 DEF QueueFrame, At
    <3>2. CASE queue' = Append(queue, blk[t]) /\ Return(t)
      BY <3>1, <3>2, QueueOwnership
    <3>3. CASE Goto(t, "rollback") /\ UNCHANGED <<this, blk, queue>>
      <4>1. blk[t] # None /\ parts[blk[t]] = Owned("rollback") /\ ctx[blk[t]] = this[t]
        BY <3>1, <1>a, <1>b, OwnedAt DEF Counting
      <4>2. /\ parts' = [parts EXCEPT ![blk[t]] = Owned("rollback")]
            /\ ctx' = [ctx EXCEPT ![blk[t]] = this[t]]
        BY <3>1, <4>1, <1>c
      <4> QED
        BY <3>1, <3>3, <4>2, KeepOwnership DEF Places, Counting
    <3> QED
      BY <2>5, <3>2, <3>3 DEF QueueFrame
  <2>6. CASE RollBack(t)
    BY <2>6, FreeOwnership DEF RollBack, At
  <2>7. CASE UseAfterDelete(t)
    BY <2>7, OwnershipSame DEF UseAfterDelete
  <2> QED
    BY <1>3, <2>1, <2>2, <2>3, <2>4, <2>5, <2>6, <2>7 DEF SendStep
<1>4. CASE UNCHANGED vars
  BY <1>4, OwnershipSame DEF vars
<1> QED
  BY <1>1, <1>2, <1>3, <1>4 DEF Next, Faulted

\* No error path of sendMessage leaks or frees twice, whatever the other tasks
\* do meanwhile: each block belongs to one call, to the queue or to nobody.
THEOREM BlocksHaveOneOwner == Spec => []OneOwner
<1>1. Ownership => OneOwner
  <2> SUFFICES ASSUME Ownership PROVE OneOwner
    OBVIOUS
  <2>1. ASSUME NEW i \in Queued
        PROVE  {t \in Tasks : blk[t] = i} = {} /\ parts[i] = Parts
    BY DEF Ownership, HeldNotQueued, QueuedParts
  <2>2. ASSUME NEW i \in Blocks, i \notin Queued, NEW t \in Tasks, blk[t] = i
        PROVE  {u \in Tasks : blk[u] = i} = {t} /\ parts[i] = Owned(pc[t])
    BY <2>2, NoneAssumption DEF Ownership, HoldersDiffer, HeldParts
  <2>3. ASSUME NEW i \in Blocks, i \notin Queued, {t \in Tasks : blk[t] = i} = {}
        PROVE  parts[i] = {}
    BY <2>3 DEF Ownership, FreeElse
  <2> QED
    BY <2>1, <2>2, <2>3 DEF OneOwner, Ownership, QueuedOnce, Queued
<1> QED
  BY InitTypeInv, NextTypeInv, InitOwnership, NextOwnership, <1>1, PTL DEF Spec

-----------------------------------------------------------------------------
(* Counting.                                                               *)

\* The blocks whose ctx shares the counter of o.
Sharing(o) == {i \in Blocks : ctx[i] = o}

\* Connections have clients of their own that exist, and so has a received frame.
Connected ==
  /\ \A s \in Sockets : peer[s] # None => peer[s] \in live
  /\ \A r, s \in Sockets : peer[r] = peer[s] => peer[r] = None \/ r = s
  /\ serving # None => serving \in live /\ \A s \in Sockets : peer[s] # serving

Counters == CountersExact /\ Connected

\* Sets of blocks are finite; one block more or less counts as one.
LEMMA BlockSets ==
  ASSUME NEW S \in SUBSET Blocks, NEW i \in Blocks
  PROVE  /\ Cardinality(S) \in Nat
         /\ i \notin S => Cardinality(S \cup {i}) = Cardinality(S) + 1
         /\ i \in S => Cardinality(S \ {i}) = Cardinality(S) - 1
         /\ S = {} => Cardinality(S) = 0
  BY BlocksAssumption, FS_Subset, FS_CardinalityType, FS_AddElement, FS_RemoveElement, FS_EmptySet

LEMMA InitCounters == Init => Counters
<1> SUFFICES ASSUME Init PROVE Counters
  OBVIOUS
<1>1. \A o \in Clients : Counted(o) = {} /\ Sharing(o) = {}
  BY NoneAssumption DEF Init, Counted, Sharing
<1>2. Cardinality({}) = 0
  BY FS_EmptySet
<1>3. \A o \in Clients : pending[o] = 0 /\ refs[o] = 0 /\ ~Live(o)
  BY DEF Init, Live
<1>4. Connected
  BY DEF Init, Connected
<1> QED
  BY <1>1, <1>2, <1>3, <1>4 DEF Counters, CountersExact, PendingExact, CounterShared, Sharing

\* A step of a call outside the part that counts leaves the sets as they are.
LEMMA CountedKept ==
  ASSUME TypeInv, NEW t \in Tasks, pc[t] \notin {"queue", "rollback"}, UNCHANGED <<ctx, queue>>,
         NEW place \in Places \ {"queue", "rollback"}, Goto(t, place),
         \A u \in Tasks \ {t} : blk'[u] = blk[u]
  PROVE  \A o : Counted(o)' = Counted(o) /\ Sharing(o)' = Sharing(o)
<1>1. \A u \in Tasks : pc'[u] = IF u = t THEN place ELSE pc[u]
  BY DEF Goto, TypeInv, TypeOK
<1>2. \A i \in Blocks : (\E u \in Tasks : blk'[u] = i /\ pc'[u] \in {"queue", "rollback"})
                     <=> (\E u \in Tasks : blk[u] = i /\ pc[u] \in {"queue", "rollback"})
  BY <1>1
<1> QED
  BY <1>2 DEF Counted, Sharing

\* Counters, clients and connections left alone, as the sets they are about.
LEMMA CountersSame ==
  ASSUME Counters, UNCHANGED <<pending, refs, live, peer, serving>>,
         \A o : Counted(o)' = Counted(o) /\ Sharing(o)' = Sharing(o)
  PROVE  Counters'
BY DEF Counters, CountersExact, PendingExact, CounterShared, Connected, Live, Sharing

\* What exactness says of one client, in terms of Sharing.
LEMMA CountersOf ==
  Counters <=> /\ Connected
               /\ \A o \in Clients :
                    /\ pending[o] = Cardinality(Counted(o))
                    /\ refs[o] = Cardinality(Sharing(o)) + (IF Live(o) THEN 1 ELSE 0)
BY DEF Counters, CountersExact, PendingExact, CounterShared, Sharing

\* Opening a connection, or receiving a frame: the new client's counter starts
\* with nothing counted and with one reference.
LEMMA ConstructCounters ==
  ASSUME TypeInv, Counters, NEW o \in Clients, Fresh(o), Construct(o),
         UNCHANGED <<pc, blk, ctx, queue>>, Connected'
  PROVE  Counters'
<1>1. \A c : Counted(c)' = Counted(c) /\ Sharing(c)' = Sharing(c)
  BY DEF Counted, Sharing
<1>2. Cardinality({}) = 0 /\ \A c : c = o => Counted(c) = {} /\ Sharing(c) = {}
  BY FS_EmptySet DEF Fresh, Counted, Sharing
<1>3. /\ \A c \in Clients : pending'[c] = IF c = o THEN 0 ELSE pending[c]
      /\ \A c \in Clients : refs'[c] = IF c = o THEN 1 ELSE refs[c]
      /\ \A c \in Clients : Live(c)' <=> (c = o \/ Live(c))
  BY DEF Construct, Live, TypeInv, TypeOK
<1>4. ASSUME NEW c \in Clients
      PROVE  /\ pending'[c] = Cardinality(Counted(c))
             /\ refs'[c] = Cardinality(Sharing(c)) + (IF Live(c)' THEN 1 ELSE 0)
  <2>1. /\ pending[c] = Cardinality(Counted(c))
        /\ refs[c] = Cardinality(Sharing(c)) + (IF Live(c) THEN 1 ELSE 0)
    BY CountersOf
  <2>2. CASE c = o
    BY <1>2, <1>3, <2>1, <2>2
  <2>3. CASE c # o
    BY <1>3, <2>1, <2>3
  <2> QED
    BY <2>2, <2>3
<1> QED
  BY <1>1, <1>4 DEF Counters, CountersExact, PendingExact, CounterShared, Sharing

\* Deleting a client that exists takes one reference.
LEMMA DestroyCounters ==
  ASSUME TypeInv, Counters, NEW o \in live, Destroy(o), UNCHANGED <<pc, blk, ctx, queue>>, Connected'
  PROVE  Counters'
<1>1. \A c : Counted(c)' = Counted(c) /\ Sharing(c)' = Sharing(c)
  BY DEF Counted, Sharing
<1>2. \A c \in Clients : Cardinality(Sharing(c)) \in Nat
  BY BlocksAssumption, FS_Subset, FS_CardinalityType DEF Sharing
<1>3. /\ pending' = pending /\ o \in Clients /\ \A c : c = o => Live(c)
      /\ \A c \in Clients : refs'[c] = IF c = o THEN refs[c] - 1 ELSE refs[c]
      /\ \A c \in Clients : Live(c)' <=> (c # o /\ Live(c))
  BY DEF Destroy, Live, TypeInv, TypeOK
<1>4. ASSUME NEW c \in Clients
      PROVE  /\ pending'[c] = Cardinality(Counted(c))
             /\ refs'[c] = Cardinality(Sharing(c)) + (IF Live(c)' THEN 1 ELSE 0)
  <2>1. /\ pending[c] = Cardinality(Counted(c))
        /\ refs[c] = Cardinality(Sharing(c)) + (IF Live(c) THEN 1 ELSE 0)
    BY CountersOf
  <2>2. CASE c = o
    BY <1>2, <1>3, <2>1, <2>2
  <2>3. CASE c # o
    BY <1>3, <2>1, <2>3
  <2> QED
    BY <2>2, <2>3
<1> QED
  BY <1>1, <1>4 DEF Counters, CountersExact, PendingExact, CounterShared, Sharing

\* A new ctx shares the counter: one reference more.
LEMMA ShareCounters ==
  ASSUME TypeInv, Counters, NEW o \in Clients, NEW i \in Blocks, ctx[i] = None,
         ctx' = [ctx EXCEPT ![i] = o], refs' = [refs EXCEPT ![o] = @ + 1],
         UNCHANGED <<pending, live, peer, serving>>,
         \A c \in Clients : Counted(c)' = Counted(c)
  PROVE  Counters'
<1>1. \A c \in Clients : /\ c = o => Sharing(c)' = Sharing(c) \cup {i} /\ i \notin Sharing(c)
                         /\ c # o => Sharing(c)' = Sharing(c)
  BY NoneAssumption DEF Sharing, TypeInv, TypeOK
<1>2. /\ \A c \in Clients : refs[c] \in Int /\ refs'[c] = IF c = o THEN refs[c] + 1 ELSE refs[c]
      /\ \A c \in Clients : Live(c)' <=> Live(c)
      /\ Connected'
  BY DEF TypeInv, TypeOK, Live, Counters, Connected
<1>3. ASSUME NEW c \in Clients
      PROVE  /\ pending'[c] = Cardinality(Counted(c)')
             /\ refs'[c] = Cardinality(Sharing(c)') + (IF Live(c)' THEN 1 ELSE 0)
  <2>1. /\ pending[c] = Cardinality(Counted(c))
        /\ refs[c] = Cardinality(Sharing(c)) + (IF Live(c) THEN 1 ELSE 0)
    BY CountersOf
  <2>2. Sharing(c) \in SUBSET Blocks /\ Cardinality(Sharing(c)) \in Nat
    BY BlockSets DEF Sharing
  <2>3. CASE c = o
    <3>1. Sharing(c)' = Sharing(c) \cup {i} /\ i \notin Sharing(c)
      BY <1>1, <2>3
    <3>2. Cardinality(Sharing(c) \cup {i}) = Cardinality(Sharing(c)) + 1
      BY <2>2, <3>1, BlockSets
    <3> QED
      BY <1>2, <2>1, <2>2, <2>3, <3>1, <3>2
  <2>4. CASE c # o
    BY <1>1, <1>2, <2>1, <2>4
  <2> QED
    BY <2>3, <2>4
<1> QED
  BY <1>2, <1>3 DEF Counters, CountersExact, PendingExact, CounterShared, Sharing

\* fetch_add: one block more is counted, and by its own client.
LEMMA AddCounters ==
  ASSUME TypeInv, Counters, NEW o \in Clients, NEW i \in Blocks,
         pending' = [pending EXCEPT ![o] = @ + 1],
         UNCHANGED <<ctx, refs, live, peer, serving>>,
         \A c \in Clients : /\ c = o => Counted(c)' = Counted(c) \cup {i} /\ i \notin Counted(c)
                            /\ c # o => Counted(c)' = Counted(c)
  PROVE  Counters'
<1>1. /\ \A c \in Clients : Sharing(c)' = Sharing(c)
      /\ \A c \in Clients : pending[c] \in Int /\ pending'[c] = IF c = o THEN pending[c] + 1 ELSE pending[c]
      /\ \A c \in Clients : Live(c)' <=> Live(c)
      /\ Connected'
  BY DEF TypeInv, TypeOK, Live, Counters, Connected, Sharing
<1>2. ASSUME NEW c \in Clients
      PROVE  /\ pending'[c] = Cardinality(Counted(c)')
             /\ refs'[c] = Cardinality(Sharing(c)') + (IF Live(c)' THEN 1 ELSE 0)
  <2>1. /\ pending[c] = Cardinality(Counted(c))
        /\ refs[c] = Cardinality(Sharing(c)) + (IF Live(c) THEN 1 ELSE 0)
    BY CountersOf
  <2>2. Counted(c) \in SUBSET Blocks
    BY DEF Counted
  <2>3. CASE c = o
    <3>1. Counted(c)' = Counted(c) \cup {i} /\ i \notin Counted(c)
      BY <2>3
    <3>2. Cardinality(Counted(c) \cup {i}) = Cardinality(Counted(c)) + 1
      BY <2>2, <3>1, BlockSets
    <3> QED
      BY <1>1, <2>1, <2>3, <3>1, <3>2
  <2>4. CASE c # o
    BY <1>1, <2>1, <2>4
  <2> QED
    BY <2>3, <2>4
<1> QED
  BY <1>1, <1>2 DEF Counters, CountersExact, PendingExact, CounterShared, Sharing

\* fetch_sub and the delete of the ctx: one block less is counted, and shared.
LEMMA SubtractCounters ==
  ASSUME TypeInv, Counters, NEW o \in Clients, NEW i \in Blocks, ctx[i] = o,
         ctx' = [ctx EXCEPT ![i] = None],
         pending' = [pending EXCEPT ![o] = @ - 1], refs' = [refs EXCEPT ![o] = @ - 1],
         UNCHANGED <<live, peer, serving>>,
         \A c \in Clients : /\ c = o => i \in Counted(c)
                            /\ Counted(c)' = Counted(c) \ {i}
  PROVE  Counters'
<1>1. \A c \in Clients : /\ Sharing(c)' = Sharing(c) \ {i}
                         /\ c = o => i \in Sharing(c) /\ i \in Counted(c)
                         /\ c # o => i \notin Sharing(c) /\ i \notin Counted(c)
  <2> SUFFICES ASSUME NEW c \in Clients
               PROVE  /\ Sharing(c)' = Sharing(c) \ {i}
                      /\ c = o => i \in Sharing(c) /\ i \in Counted(c)
                      /\ c # o => i \notin Sharing(c) /\ i \notin Counted(c)
    OBVIOUS
  <2>1. Sharing(c)' = Sharing(c) \ {i}
    BY NoneAssumption DEF Sharing, TypeInv, TypeOK
  <2>2. c = o => i \in Sharing(c) /\ i \in Counted(c)
    BY DEF Sharing
  <2>3. c # o => i \notin Sharing(c) /\ i \notin Counted(c)
    BY DEF Sharing, Counted
  <2> QED
    BY <2>1, <2>2, <2>3
<1>2. /\ \A c \in Clients : pending[c] \in Int /\ pending'[c] = IF c = o THEN pending[c] - 1 ELSE pending[c]
      /\ \A c \in Clients : refs[c] \in Int /\ refs'[c] = IF c = o THEN refs[c] - 1 ELSE refs[c]
      /\ \A c \in Clients : Live(c)' <=> Live(c)
      /\ Connected'
  BY DEF TypeInv, TypeOK, Live, Counters, Connected
<1>3. ASSUME NEW c \in Clients
      PROVE  /\ pending'[c] = Cardinality(Counted(c)')
             /\ refs'[c] = Cardinality(Sharing(c)') + (IF Live(c)' THEN 1 ELSE 0)
  <2>1. /\ pending[c] = Cardinality(Counted(c))
        /\ refs[c] = Cardinality(Sharing(c)) + (IF Live(c) THEN 1 ELSE 0)
    BY CountersOf
  <2>2. Counted(c) \in SUBSET Blocks /\ Sharing(c) \in SUBSET Blocks
    BY DEF Counted, Sharing
  <2>3. Cardinality(Counted(c)) \in Nat /\ Cardinality(Sharing(c)) \in Nat
    BY <2>2, BlockSets
  <2>4. CASE c = o
    <3>1. /\ Counted(c)' = Counted(c) \ {i} /\ i \in Counted(c)
          /\ Sharing(c)' = Sharing(c) \ {i} /\ i \in Sharing(c)
      BY <1>1, <2>4
    <3>2. /\ Cardinality(Counted(c) \ {i}) = Cardinality(Counted(c)) - 1
          /\ Cardinality(Sharing(c) \ {i}) = Cardinality(Sharing(c)) - 1
      BY <2>2, <3>1, BlockSets
    <3> QED
      BY <1>2, <2>1, <2>3, <2>4, <3>1, <3>2
  <2>5. CASE c # o
    <3>1. i \notin Counted(c) /\ i \notin Sharing(c)
      BY <1>1, <2>5
    <3>2. Counted(c)' = Counted(c) \ {i} /\ Sharing(c)' = Sharing(c) \ {i}
      BY <1>1
    <3>3. Counted(c) \ {i} = Counted(c) /\ Sharing(c) \ {i} = Sharing(c)
      BY <3>1
    <3> QED
      BY <1>2, <2>1, <2>5, <3>2, <3>3
  <2> QED
    BY <2>4, <2>5
<1> QED
  BY <1>2, <1>3 DEF Counters, CountersExact, PendingExact, CounterShared, Sharing

\* The block of a call that counts: its ctx shares the counter of the call's
\* client, nobody else has it, and it is counted once the call has counted it.
LEMMA CallCounts ==
  ASSUME TypeInv, Ownership, NEW t \in Tasks, pc[t] \in Counting
  PROVE  /\ this[t] \in Clients /\ blk[t] \in Blocks /\ blk[t] \notin Queued
         /\ ctx[blk[t]] = this[t]
         /\ \A u \in Tasks \ {t} : blk[u] # blk[t]
<1>1. pc[t] \notin {"idle", "frame"} /\ this[t] \in Clients /\ blk[t] \in Blocks
  BY DEF Counting, TypeInv, Registers
<1>2. blk[t] # None
  BY <1>1, NoneAssumption
<1> QED
  BY <1>1, <1>2 DEF Ownership, HeldNotQueued, HoldersDiffer, HeldParts

\* The frame the completion is for is counted, on the counter its ctx shares.
LEMMA CallbackCounts ==
  ASSUME TypeInv, Ownership, SendMessageCallback
  PROVE  /\ Head(queue) \in Blocks /\ ctx[Head(queue)] \in Clients
         /\ Head(queue) \in Counted(ctx[Head(queue)])
         /\ Queued' = Queued \ {Head(queue)} /\ Head(queue) \in Queued
<1>1. /\ queue \in Seq(Blocks) /\ queue # <<>> /\ queue' = Tail(queue)
      /\ \A j, k \in DOMAIN queue : queue[j] = queue[k] => j = k
  BY DEF SendMessageCallback, TypeInv, TypeOK, Ownership, QueuedOnce
<1>2. Head(queue) \in Queued /\ Queued' = Queued \ {Head(queue)}
  BY <1>1, QueueTail DEF Queued
<1>3. Head(queue) \in Blocks /\ ctx[Head(queue)] \in Clients
  BY <1>2, QueuedBlocks DEF Ownership, QueuedParts, TypeInv, TypeOK
<1> QED
  BY <1>2, <1>3 DEF Counted, Queued

\* Every step keeps the counters exact.
LEMMA NextCounters == TypeInv /\ Ownership /\ Counters /\ [Next]_vars => Counters'
<1> SUFFICES ASSUME TypeInv, Ownership, Counters, [Next]_vars PROVE Counters'
  OBVIOUS
<1>a. Connected
  BY DEF Counters
<1>b. /\ peer \in [Sockets -> Clients \cup {None}] /\ blk \in [Tasks -> Blocks \cup {None}]
      /\ pc \in [Tasks -> Places]
  BY DEF TypeInv, TypeOK
<1>1. ASSUME NEW s \in Sockets, NEW o \in Clients, Open(s, o) PROVE Counters'
  <2>1. Connected'
    BY <1>1, <1>a, <1>b, NoneAssumption DEF Open, Construct, Fresh, Live, Connected
  <2> QED
    BY <1>1, <2>1, ConstructCounters DEF Open
<1>2. ASSUME NEW s \in Sockets, NEW o \in Clients, BeginFrame(s, o) PROVE Counters'
  <2>1. Connected'
    BY <1>2, <1>a, <1>b, NoneAssumption DEF BeginFrame, Construct, Fresh, Live, Connected
  <2> QED
    BY <1>2, <2>1, ConstructCounters DEF BeginFrame
<1>3. ASSUME NEW s \in Sockets, Close(s) PROVE Counters'
  <2>1. peer[s] \in live
    BY <1>3, <1>a DEF Close, Connected
  <2>2. Connected'
    BY <1>3, <1>a, <1>b DEF Close, Destroy, Connected
  <2> QED
    BY <1>3, <2>1, <2>2, DestroyCounters DEF Close
<1>4. CASE EndFrame
  <2>1. serving \in live
    BY <1>4, <1>a DEF EndFrame, Connected
  <2>2. Connected'
    BY <1>4, <1>a DEF EndFrame, Destroy, Connected
  <2> QED
    BY <1>4, <2>1, <2>2, DestroyCounters DEF EndFrame, Destroy
<1>5. CASE SendMessageCallback
  <2> DEFINE i == Head(queue)
  <2>1. i \in Blocks /\ ctx[i] \in Clients /\ i \in Queued /\ Queued' = Queued \ {i}
    BY <1>5, CallbackCounts
  <2>2. \A u \in Tasks : blk[u] # i
    BY <2>1 DEF Ownership, HeldNotQueued
  <2>3. ASSUME NEW c \in Clients
        PROVE  (c = ctx[i] => i \in Counted(c)) /\ Counted(c)' = Counted(c) \ {i}
    <3>1. c = ctx[i] => i \in Counted(c)
      BY <2>1 DEF Counted, Queued
    <3>2. Counted(c)' = Counted(c) \ {i}
      BY <1>5, <2>1, <2>2, NoneAssumption DEF SendMessageCallback, Counted, Queued, TypeInv, TypeOK
    <3> QED
      BY <3>1, <3>2
  <2> QED
    BY <1>5, <2>1, <2>3, SubtractCounters DEF SendMessageCallback
<1>6. ASSUME NEW t \in Tasks, NEW o \in Clients, LoadPending(t, o) PROVE Counters'
  <2>1. \A c : Counted(c)' = Counted(c) /\ Sharing(c)' = Sharing(c)
    BY <1>6, CountedKept DEF LoadPending, At, Places
  <2> QED
    BY <1>6, <2>1, CountersSame DEF LoadPending
<1>7. ASSUME NEW t \in Tasks, SendStep(t) PROVE Counters'
  <2>1. CASE AllocFrame(t) \/ AllocPayload(t)
    <3>1. PICK place \in {"idle", "payload", "ctx"} : Goto(t, place)
      BY <2>1 DEF AllocFrame, AllocPayload, Return
    <3>2. \A u \in Tasks \ {t} : blk'[u] = blk[u]
      BY <2>1, <1>b DEF AllocFrame, AllocPayload, Return
    <3>3. \A c : Counted(c)' = Counted(c) /\ Sharing(c)' = Sharing(c)
      BY <2>1, <3>1, <3>2, CountedKept DEF AllocFrame, AllocPayload, At, Places
    <3> QED
      BY <2>1, <3>3, CountersSame DEF AllocFrame, AllocPayload
  <2>2. CASE AllocCtx(t)
    <3>1. /\ pc[t] = "ctx" /\ this[t] \in Clients /\ blk[t] \in Blocks /\ blk[t] # None
          /\ UNCHANGED <<peer, live, serving, pending, queue>>
      BY <2>2, NoneAssumption DEF AllocCtx, At, TypeInv, Registers
    <3>2. CASE Free(blk[t]) /\ Return(t) /\ UNCHANGED <<ctx, refs>>
      <4>1. \A u \in Tasks \ {t} : blk'[u] = blk[u]
        BY <3>2, <1>b DEF Return
      <4>2. \A c : Counted(c)' = Counted(c) /\ Sharing(c)' = Sharing(c)
        BY <3>1, <3>2, <4>1, CountedKept DEF Return, Places
      <4> QED
        BY <3>1, <3>2, <4>2, CountersSame
    <3>3. CASE ~(Free(blk[t]) /\ Return(t) /\ UNCHANGED <<ctx, refs>>)
      <4> DEFINE i == blk[t]
                 o == this[t]
      <4>1. /\ ctx' = [ctx EXCEPT ![i] = o] /\ refs' = [refs EXCEPT ![o] = @ + 1]
            /\ Goto(t, "count") /\ blk' = blk
        BY <2>2, <3>3 DEF AllocCtx
      <4>2. /\ ctx[i] = None /\ i \notin Queued
            /\ \A u \in Tasks \ {t} : blk[u] # i
        BY <3>1 DEF Ownership, HeldNotQueued, HoldersDiffer, HeldParts, Counting
      <4>3. \A c \in Clients : Counted(c)' = Counted(c)
        <5>1. \A u \in Tasks : pc'[u] = IF u = t THEN "count" ELSE pc[u]
          BY <4>1, <1>b DEF Goto
        <5>2. \A j \in Blocks : ctx'[j] = IF j = i THEN o ELSE ctx[j]
          BY <4>1 DEF TypeInv, TypeOK
        <5> QED
          BY <3>1, <4>1, <4>2, <5>1, <5>2, NoneAssumption DEF Counted, Queued
      <4> QED
        BY <3>1, <4>1, <4>2, <4>3, ShareCounters
    <3> QED
      BY <3>2, <3>3
  <2>3. CASE CountFrame(t)
    <3> DEFINE i == blk[t]
               o == this[t]
    <3>1. /\ pc[t] = "count" /\ o \in Clients /\ i \in Blocks /\ i \notin Queued /\ ctx[i] = o
          /\ \A u \in Tasks \ {t} : blk[u] # i
      BY <2>3, CallCounts DEF CountFrame, At, Counting
    <3>2. \A u \in Tasks : pc'[u] = IF u = t THEN "queue" ELSE pc[u]
      BY <2>3, <1>b DEF CountFrame, Goto
    <3>3. \A c \in Clients : c = o => Counted(c)' = Counted(c) \cup {i} /\ i \notin Counted(c)
      BY <2>3, <3>1, <3>2 DEF CountFrame, Counted, Queued
    <3>4. \A c \in Clients : c # o => Counted(c)' = Counted(c)
      BY <2>3, <3>1, <3>2 DEF CountFrame, Counted, Queued
    <3> QED
      BY <2>3, <3>1, <3>3, <3>4, AddCounters DEF CountFrame
  <2>4. CASE QueueFrame(t)
    <3>1. /\ pc[t] = "queue" /\ blk[t] \in Blocks /\ queue \in Seq(Blocks)
          /\ UNCHANGED <<peer, live, serving, pending, refs, ctx>>
      BY <2>4, CallCounts DEF QueueFrame, At, Counting, TypeInv, TypeOK
    <3>2. \A c : Counted(c)' = Counted(c)
      <4>1. CASE queue' = Append(queue, blk[t]) /\ Return(t)
        <5>1. Queued' = Queued \cup {blk[t]}
          BY <3>1, <4>1, QueueAppend DEF Queued
        <5>2. /\ \A u \in Tasks : pc'[u] = IF u = t THEN "idle" ELSE pc[u]
              /\ \A u \in Tasks : blk'[u] = IF u = t THEN None ELSE blk[u]
          BY <4>1, <1>b DEF Return, Goto
        <5> QED
          BY <3>1, <5>1, <5>2 DEF Counted, Queued
      <4>2. CASE Goto(t, "rollback") /\ UNCHANGED <<this, blk, queue>>
        <5>1. \A u \in Tasks : pc'[u] = IF u = t THEN "rollback" ELSE pc[u]
          BY <4>2, <1>b DEF Goto
        <5> QED
          BY <3>1, <4>2, <5>1 DEF Counted
      <4> QED
        BY <2>4, <4>1, <4>2 DEF QueueFrame
    <3>3. \A c : Sharing(c)' = Sharing(c)
      BY <3>1 DEF Sharing
    <3> QED
      BY <3>1, <3>2, <3>3, CountersSame
  <2>5. CASE RollBack(t)
    <3> DEFINE i == blk[t]
               o == this[t]
    <3>1. /\ pc[t] = "rollback" /\ o \in Clients /\ i \in Blocks /\ i \notin Queued /\ ctx[i] = o
          /\ \A u \in Tasks \ {t} : blk[u] # i
      BY <2>5, CallCounts DEF RollBack, At, Counting
    <3>2. /\ \A u \in Tasks : pc'[u] = IF u = t THEN "idle" ELSE pc[u]
          /\ \A u \in Tasks : blk'[u] = IF u = t THEN None ELSE blk[u]
          /\ \A j \in Blocks : ctx'[j] = IF j = i THEN None ELSE ctx[j]
      BY <2>5, <1>b DEF RollBack, Return, Goto, TypeInv, TypeOK
    <3>3. \A c \in Clients : c = o => i \in Counted(c)
      BY <3>1 DEF Counted
    <3>4. \A c \in Clients : Counted(c)' = Counted(c) \ {i}
      BY <2>5, <3>1, <3>2, NoneAssumption DEF RollBack, Counted, Queued
    <3> QED
      BY <2>5, <3>1, <3>3, <3>4, SubtractCounters DEF RollBack
  <2>6. CASE UseAfterDelete(t)
    <3>1. \A c : Counted(c)' = Counted(c) /\ Sharing(c)' = Sharing(c)
      BY <2>6 DEF UseAfterDelete, Counted, Sharing
    <3> QED
      BY <2>6, <3>1, CountersSame DEF UseAfterDelete
  <2> QED
    BY <1>7, <2>1, <2>2, <2>3, <2>4, <2>5, <2>6 DEF SendStep
<1>8. CASE UNCHANGED vars
  <2>1. \A c : Counted(c)' = Counted(c) /\ Sharing(c)' = Sharing(c)
    BY <1>8 DEF vars, Counted, Sharing
  <2> QED
    BY <1>8, <2>1, CountersSame DEF vars
<1> QED
  BY <1>1, <1>2, <1>3, <1>4, <1>5, <1>6, <1>7, <1>8 DEF Next, HttpdStep, Faulted

\* The pending counter of each client is the number of its frames on their way,
\* and its shared_ptr lives as long as one of them or the client itself.
THEOREM PendingCountersExact == Spec => []CountersExact
<1>1. Counters => CountersExact
  BY DEF Counters
<1> QED
  BY InitTypeInv, NextTypeInv, InitOwnership, NextOwnership, InitCounters, NextCounters, <1>1, PTL
  DEF Spec

-----------------------------------------------------------------------------
(* sendMessage implements the budget of slots.                             *)

\* A counted frame takes a slot that was free: the caller itself is one of those
\* that have passed the check, whom CapInductive counts in.
LEMMA CountTakes ==
  ASSUME TypeInv, CapInductive, NEW t \in Tasks, CountFrame(t)
  PROVE  this[t] \in Clients /\ Budget!Take(this[t])
<1> DEFINE o == this[t]
<1>1. o \in Clients /\ t \in Admitted(o) /\ pending[o] \in Int
  BY DEF CountFrame, At, Admitted, TypeInv, TypeOK, Registers
<1>2. Admitted(o) # {} /\ Cardinality(Admitted(o)) # 0 /\ Cardinality(Admitted(o)) \in Nat
  BY <1>1, AdmittedBounded, FS_EmptySet
<1>3. pending[o] + Cardinality(Admitted(o)) <= Cap + Cardinality(Tasks) - 1
  BY <1>1 DEF CapInductive
<1>4. pending[o] < Cap + Cardinality(Tasks) - 1
  BY <1>1, <1>2, <1>3, AdmittedBounded, CapAssumption
<1> QED
  BY <1>1, <1>4 DEF Budget!Take, CountFrame

\* A counter that counts a block is not zero.
LEMMA CountedPositive ==
  ASSUME Counters, NEW o \in Clients, NEW i \in Counted(o)
  PROVE  pending[o] > 0
<1>1. pending[o] = Cardinality(Counted(o))
  BY CountersOf
<1>2. IsFiniteSet(Counted(o)) /\ Counted(o) # {}
  BY BlocksAssumption, FS_Subset DEF Counted
<1>3. Cardinality(Counted(o)) \in Nat /\ Cardinality(Counted(o)) # 0
  BY <1>2, FS_EmptySet, FS_CardinalityType
<1> QED
  BY <1>1, <1>3

\* Every step takes one slot, gives one back or leaves the budget alone.
LEMMA StepIsBudgetStep ==
  TypeInv /\ Ownership /\ Counters /\ CapInductive /\ [Next]_vars => [Budget!Next]_pending
<1> SUFFICES ASSUME TypeInv, Ownership, Counters, CapInductive, [Next]_vars
             PROVE  [Budget!Next]_pending
  OBVIOUS
<1>1. ASSUME NEW o \in Clients, Fresh(o), Construct(o) PROVE pending' = pending
  <2>1. Counted(o) = {} /\ Cardinality({}) = 0
    BY <1>1, FS_EmptySet DEF Fresh, Counted
  <2>2. pending[o] = 0
    BY <2>1, CountersOf
  <2> QED
    BY <1>1, <2>2 DEF Construct, TypeInv, TypeOK
<1>2. CASE HttpdStep
  <2>1. ASSUME NEW s \in Sockets, NEW o \in Clients, Open(s, o) \/ BeginFrame(s, o)
        PROVE  pending' = pending
    BY <2>1, <1>1 DEF Open, BeginFrame
  <2>2. CASE EndFrame \/ \E s \in Sockets : Close(s)
    BY <2>2 DEF EndFrame, Close, Destroy
  <2>3. CASE SendMessageCallback
    <3>1. /\ ctx[Head(queue)] \in Clients
          /\ Head(queue) \in Counted(ctx[Head(queue)])
      BY <2>3, CallbackCounts
    <3>2. pending[ctx[Head(queue)]] > 0
      BY <3>1, CountedPositive
    <3>3. Budget!GiveBack(ctx[Head(queue)])
      BY <2>3, <3>2 DEF SendMessageCallback, Budget!GiveBack
    <3> QED
      BY <3>1, <3>3 DEF Budget!Next
  <2> QED
    BY <1>2, <2>1, <2>2, <2>3 DEF HttpdStep
<1>3. ASSUME NEW t \in Tasks, SendStep(t) PROVE [Budget!Next]_pending
  <2>1. CASE CountFrame(t)
    BY <2>1, CountTakes DEF Budget!Next
  <2>2. CASE RollBack(t)
    <3>1. /\ this[t] \in Clients /\ blk[t] \in Blocks /\ ctx[blk[t]] = this[t] /\ pc[t] = "rollback"
      BY <2>2, CallCounts DEF RollBack, At, Counting
    <3>2. blk[t] \in Counted(this[t])
      BY <3>1 DEF Counted
    <3>3. pending[this[t]] > 0
      BY <3>1, <3>2, CountedPositive
    <3>4. Budget!GiveBack(this[t])
      BY <2>2, <3>3 DEF RollBack, Budget!GiveBack
    <3> QED
      BY <3>1, <3>4 DEF Budget!Next
  <2>3. CASE AllocFrame(t) \/ AllocPayload(t) \/ AllocCtx(t) \/ QueueFrame(t) \/ UseAfterDelete(t)
    BY <2>3 DEF AllocFrame, AllocPayload, AllocCtx, QueueFrame, UseAfterDelete
  <2> QED
    BY <1>3, <2>1, <2>2, <2>3 DEF SendStep
<1>4. ASSUME NEW t \in Tasks, NEW o \in Clients, LoadPending(t, o) PROVE pending' = pending
  BY <1>4 DEF LoadPending
<1>5. CASE UNCHANGED vars
  BY <1>5 DEF vars
<1> QED
  BY <1>2, <1>3, <1>4, <1>5 DEF Next, Faulted

\* sendMessage and its completion implement SendBudget: whatever interleaves,
\* each frame takes one slot of its client and gives it back once, and no client
\* has more than Cap plus the other callers out.
THEOREM SendImplementsBudget == Spec => ImplementsBudget
<1>1. Init => Budget!Init
  BY DEF Init, Budget!Init
<1>2. Spec => [](TypeInv /\ Ownership /\ Counters /\ CapInductive)
  BY InitTypeInv, NextTypeInv, InitOwnership, NextOwnership, InitCounters, NextCounters,
     InitCap, NextCap, PTL
  DEF Spec
<1> QED
  BY <1>1, <1>2, StepIsBudgetStep, PTL DEF Spec, ImplementsBudget, Budget!Spec

=============================================================================
