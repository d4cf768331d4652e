------------------------- MODULE AsyncWorkersProofs -------------------------
(***************************************************************************)
(* Proofs about AsyncWorkers, for any number of workers, copies and starts:*)
(* a copied request has one owner, who frees it, and every token stands    *)
(* for a worker that waits.                                                *)
(***************************************************************************)
EXTENDS AsyncWorkers, FiniteSetTheorems, TLAPS

\* Who is where, and what it holds there.  A queue has one place.
Whereabouts ==
  /\ running => gen \in Starts
  /\ pc[Httpd] \in {"idle", "take", "push"}
  /\ \A w \in Workers : pc[w] # "idle"
  /\ \A t \in Tasks : pc[t] \in {"none", "idle"} \/ gen \in Starts
  /\ \A t \in Tasks : pc[t] \in {"wait", "push"} => on[t] \in Starts
  /\ \A t \in Tasks : new[t] # None <=> pc[t] \in {"take", "push"}
  /\ \A w \in Workers : job[w] # None <=> pc[w] \in {"run", "done", "take", "push"}
  /\ \A g \in Starts : queue[g] = <<>> \/ \E c \in Copies : queue[g] = <<c>>

TypeInv == TypeOK /\ Whereabouts

LEMMA InitTypeInv == Init => TypeInv
<1> SUFFICES ASSUME Init PROVE TypeOK /\ Whereabouts
  BY DEF TypeInv
<1> USE DEF Tasks, Starts, Places
<1>1. /\ queue \in [Starts -> Seq(Copies)]
      /\ sem \in 0 .. Count /\ gen \in 0 .. MaxStarts
  BY CountAssumption DEF Init
<1>2. /\ handles \in [1 .. Count -> Workers \cup {None}]
      /\ pc \in [Tasks -> Places] /\ on \in [Tasks -> 0 .. MaxStarts]
      /\ job \in [Workers -> Copies \cup {None}] /\ new \in [Tasks -> Copies \cup {None}]
  BY CountAssumption DEF Init
<1>3. TypeOK
  BY <1>1, <1>2 DEF Init, TypeOK
<1>4. Whereabouts
  BY FiniteAssumption DEF Init, Whereabouts
<1> QED
  BY <1>3, <1>4

\* A call of Begin, Take, Push or PushTimeout by a task that has no job or is a worker.
LEMMA SubmitTypeInv ==
  ASSUME TypeInv, NEW t \in Tasks, SubmitStep(t)
  PROVE  TypeInv'
<1> USE DEF Tasks, Starts, Places, Goto, Return
<1>1. CASE Take(t)
  <2>1. TypeOK'
    <3>1. sem' \in 0 .. Count
      BY <1>1, CountAssumption DEF Take, TypeInv, TypeOK
    <3>2. on' \in [Tasks -> 0 .. MaxStarts] /\ pc' \in [Tasks -> Places]
      BY <1>1 DEF Take, TypeInv, TypeOK
    <3>3. new' \in [Tasks -> Copies \cup {None}] /\ copies' \subseteq Copies
      BY <1>1 DEF Take, TypeInv, TypeOK
    <3> QED
      BY <1>1, <3>1, <3>2, <3>3 DEF Take, TypeInv, TypeOK
  <2>2. Whereabouts'
    BY <1>1, FiniteAssumption, SMTT(30) DEF Take, TypeInv, TypeOK, Whereabouts
  <2> QED
    BY <2>1, <2>2 DEF TypeInv
<1>2. CASE Push(t)
  <2>1. new[t] \in Copies /\ on[t] \in Starts
    BY <1>2 DEF Push, TypeInv, TypeOK, Whereabouts
  <2>2. queue' = [queue EXCEPT ![on[t]] = <<new[t]>>]
    BY <1>2, <2>1 DEF Push, TypeInv, TypeOK
  <2>3. TypeOK'
    BY <1>2, <2>1, <2>2 DEF Push, TypeInv, TypeOK
  <2>4. Whereabouts'
    BY <1>2, <2>1, <2>2, FiniteAssumption DEF Push, TypeInv, TypeOK, Whereabouts
  <2> QED
    BY <2>3, <2>4 DEF TypeInv
<1>3. CASE PushTimeout(t)
  <2>1. TypeOK'
    BY <1>3 DEF PushTimeout, TypeInv, TypeOK
  <2>2. Whereabouts'
    BY <1>3, FiniteAssumption DEF PushTimeout, TypeInv, TypeOK, Whereabouts
  <2> QED
    BY <2>1, <2>2 DEF TypeInv
<1> QED
  BY <1>1, <1>2, <1>3 DEF SubmitStep

LEMMA BeginTypeInv ==
  ASSUME TypeInv, NEW t \in Tasks, Begin(t), pc[t] = "run" \/ (t = Httpd /\ running)
  PROVE  TypeInv'
<1> USE DEF Tasks, Starts, Places, Goto
<1>1. TypeOK'
  BY DEF Begin, TypeInv, TypeOK
<1>2. gen \in Starts
  BY DEF TypeInv, Whereabouts
<1>3. Whereabouts'
  BY <1>2, NoneAssumption, FiniteAssumption DEF Begin, TypeInv, TypeOK, Whereabouts
<1> QED
  BY <1>1, <1>3 DEF TypeInv

\* What a worker takes from the queue leaves it empty.
LEMMA Received ==
  ASSUME TypeInv, NEW w \in Workers, Receive(w)
  PROVE  /\ on[w] \in Starts /\ Head(queue[on[w]]) \in Copies
         /\ queue[on[w]] = <<Head(queue[on[w]])>>
         /\ queue' = [queue EXCEPT ![on[w]] = <<>>]
<1>1. on[w] \in Starts
  BY DEF Receive, TypeInv, Whereabouts, Tasks
<1>2. PICK c \in Copies : queue[on[w]] = <<c>>
  BY <1>1 DEF Receive, TypeInv, Whereabouts
<1>3. Head(queue[on[w]]) = c /\ Tail(queue[on[w]]) = <<>>
  BY <1>2
<1> QED
  BY <1>1, <1>2, <1>3 DEF Receive

LEMMA WorkerTypeInv ==
  ASSUME TypeInv, NEW w \in Workers, WorkerStep(w)
  PROVE  TypeInv'
<1> USE DEF Tasks, Starts, Places, Goto
<1>1. CASE Give(w)
  <2>1. TypeOK'
    BY <1>1, CountAssumption DEF Give, TypeInv, TypeOK
  <2>2. Whereabouts'
    BY <1>1, FiniteAssumption DEF Give, TypeInv, TypeOK, Whereabouts
  <2> QED
    BY <2>1, <2>2 DEF TypeInv
<1>2. CASE Receive(w)
  <2>1. TypeOK'
    <3>0. queue \in [Starts -> Seq(Copies)] /\ <<>> \in Seq(Copies)
      BY DEF TypeInv, TypeOK
    <3>1. queue' \in [Starts -> Seq(Copies)]
      BY <1>2, <3>0, Received
    <3>2. job' \in [Workers -> Copies \cup {None}]
      BY <1>2, Received DEF Receive, TypeInv, TypeOK
    <3> QED
      BY <1>2, <3>1, <3>2 DEF Receive, TypeInv, TypeOK
  <2>2. Whereabouts'
    BY <1>2, Received, FiniteAssumption, NoneAssumption DEF Receive, TypeInv, TypeOK, Whereabouts
  <2> QED
    BY <2>1, <2>2 DEF TypeInv
<1>3. CASE Run(w)
  <2>1. CASE Begin(w)
    BY <1>3, <2>1, BeginTypeInv DEF Run
  <2>2. CASE ~Begin(w)
    <3>1. TypeOK'
      BY <1>3, <2>2 DEF Run, TypeInv, TypeOK
    <3>2. /\ pc[w] = "run" /\ pc' = [pc EXCEPT ![w] = "done"]
          /\ UNCHANGED <<running, gen, queue, on, job, new>>
      BY <1>3, <2>2, Zenon DEF Run
    <3>3. pc \in [Tasks -> Places] /\ w \in Tasks /\ w # Httpd
      BY FiniteAssumption DEF TypeInv, TypeOK
    <3>4. /\ pc'[w] = "done" /\ \A t \in Tasks : t # w => pc'[t] = pc[t]
          /\ pc'[Httpd] = pc[Httpd]
      BY <3>2, <3>3
    <3>5. Whereabouts'
      BY <3>2, <3>4 DEF TypeInv, Whereabouts
    <3> QED
      BY <3>1, <3>5 DEF TypeInv
  <2> QED
    BY <2>1, <2>2
<1>4. CASE Complete(w)
  <2>1. TypeOK'
    BY <1>4 DEF Complete, TypeInv, TypeOK
  <2>2. Whereabouts'
    BY <1>4, FiniteAssumption DEF Complete, TypeInv, TypeOK, Whereabouts
  <2> QED
    BY <2>1, <2>2 DEF TypeInv
<1> QED
  BY <1>1, <1>2, <1>3, <1>4 DEF WorkerStep

\* start() puts new workers where they give their first token.
LEMMA StartTypeInv == TypeInv /\ Start => TypeInv'
<1> SUFFICES ASSUME TypeInv, Start PROVE TypeInv'
  OBVIOUS
<1> USE DEF Tasks, Starts, Places
<1>1. PICK made \in [1 .. Count -> {w \in Workers : pc[w] = "none"} \cup {None}] :
        /\ handles' = [i \in 1 .. Count |-> IF made[i] = None THEN handles[i] ELSE made[i]]
        /\ pc' = [t \in Tasks |-> IF \E i \in 1 .. Count : made[i] = t THEN "give" ELSE pc[t]]
  BY DEF Start
<1>2. \A t \in Tasks : pc'[t] = pc[t] \/ (pc[t] = "none" /\ pc'[t] = "give")
  BY <1>1, NoneAssumption, FiniteAssumption
<1>3. gen \in 0 .. MaxStarts /\ gen' = gen + 1 /\ gen' \in Starts
  BY CountAssumption DEF Start, TypeInv, TypeOK
<1>4. TypeOK'
  <2>1. handles' \in [1 .. Count -> Workers \cup {None}]
    BY <1>1 DEF TypeInv, TypeOK
  <2>2. pc' \in [Tasks -> Places]
    BY <1>1 DEF TypeInv, TypeOK
  <2>3. running' \in BOOLEAN
    BY Zenon DEF Start
  <2>4. sem' \in 0 .. Count /\ gen' \in 0 .. MaxStarts
    BY <1>3, CountAssumption DEF Start
  <2> QED
    BY <2>1, <2>2, <2>3, <2>4 DEF Start, TypeInv, TypeOK
<1>5. Whereabouts'
  <2>1. UNCHANGED <<queue, on, job, new>>
    BY Zenon DEF Start
  <2>2. pc'[Httpd] \in {"idle", "take", "push"} /\ \A w \in Workers : pc'[w] # "idle"
    BY <1>2 DEF TypeInv, Whereabouts
  <2>3. /\ \A t \in Tasks : pc'[t] \in {"wait", "push"} => on[t] \in Starts
        /\ \A t \in Tasks : new[t] # None <=> pc'[t] \in {"take", "push"}
        /\ \A w \in Workers : job[w] # None <=> pc'[w] \in {"run", "done", "take", "push"}
    BY <1>2 DEF TypeInv, Whereabouts
  <2>4. \A g \in Starts : queue[g] = <<>> \/ \E c \in Copies : queue[g] = <<c>>
    BY DEF TypeInv, Whereabouts
  <2> QED
    BY <1>3, <2>1, <2>2, <2>3, <2>4 DEF Whereabouts
<1> QED
  BY <1>4, <1>5 DEF TypeInv

LEMMA NextTypeInv == TypeInv /\ [Next]_vars => TypeInv'
<1> SUFFICES ASSUME TypeInv, [Next]_vars PROVE TypeInv'
  OBVIOUS
<1>1. CASE Start
  BY <1>1, StartTypeInv
<1>2. CASE Stop
  BY <1>2 DEF Stop, TypeInv, TypeOK, Whereabouts
<1>3. CASE Request
  BY <1>3, BeginTypeInv DEF Request, Tasks
<1>4. ASSUME NEW t \in Tasks, SubmitStep(t) PROVE TypeInv'
  BY <1>4, SubmitTypeInv
<1>5. ASSUME NEW w \in Workers, WorkerStep(w) PROVE TypeInv'
  BY <1>5, WorkerTypeInv
<1>6. CASE UNCHANGED vars
  BY <1>6 DEF vars, TypeInv, TypeOK, Whereabouts
<1> QED
  BY <1>1, <1>2, <1>3, <1>4, <1>5, <1>6 DEF Next

\* Every reachable state has its types.
THEOREM PoolTypeCorrect == Spec => []TypeOK
<1>1. TypeInv => TypeOK
  BY DEF TypeInv
<1> QED
  BY InitTypeInv, NextTypeInv, <1>1, PTL DEF Spec

-----------------------------------------------------------------------------
(* Ownership.  What a task submits, what a worker has received and what is *)
(* in a queue are allocated and differ, and nothing else is allocated.     *)

In(c, g) == queue[g] = <<c>>

InUse ==
  /\ \A t \in Tasks : new[t] # None => new[t] \in copies
  /\ \A w \in Workers : job[w] # None => job[w] \in copies
  /\ \A g \in Starts, c \in Copies : In(c, g) => c \in copies

Apart ==
  /\ \A t, u \in Tasks : new[t] = new[u] => new[t] = None \/ t = u
  /\ \A v, w \in Workers : job[v] = job[w] => job[v] = None \/ v = w
  /\ \A g, h \in Starts, c \in Copies : In(c, g) /\ In(c, h) => g = h
  /\ \A t \in Tasks, w \in Workers : new[t] = job[w] => new[t] = None
  /\ \A t \in Tasks, g \in Starts, c \in Copies : ~(In(c, g) /\ new[t] = c)
  /\ \A w \in Workers, g \in Starts, c \in Copies : ~(In(c, g) /\ job[w] = c)

NoLeak ==
  \A c \in copies : \/ \E t \in Tasks : new[t] = c
                    \/ \E w \in Workers : job[w] = c
                    \/ \E g \in Starts : In(c, g)

Owned == InUse /\ Apart /\ NoLeak

\* Apart, one pair of places at a time
SubmitsApart == \A t, u \in Tasks : new[t] = new[u] => new[t] = None \/ t = u
JobsApart == \A v, w \in Workers : job[v] = job[w] => job[v] = None \/ v = w
QueuesApart == \A g, h \in Starts, c \in Copies : In(c, g) /\ In(c, h) => g = h
SubmitNotJob == \A t \in Tasks, w \in Workers : new[t] = job[w] => new[t] = None
SubmitNotQueued == \A t \in Tasks, g \in Starts, c \in Copies : ~(In(c, g) /\ new[t] = c)
JobNotQueued == \A w \in Workers, g \in Starts, c \in Copies : ~(In(c, g) /\ job[w] = c)

LEMMA ApartParts ==
  Apart <=> /\ SubmitsApart /\ JobsApart /\ QueuesApart
            /\ SubmitNotJob /\ SubmitNotQueued /\ JobNotQueued
  BY DEF Apart, SubmitsApart, JobsApart, QueuesApart, SubmitNotJob, SubmitNotQueued, JobNotQueued

LEMMA InitOwned == Init => Owned
<1> SUFFICES ASSUME Init PROVE Owned
  OBVIOUS
<1>1. \A g \in Starts, c \in Copies : ~In(c, g)
  BY DEF Init, In
<1> QED
  BY <1>1 DEF Init, Owned, InUse, Apart, NoLeak

\* A copy is made for a task that has none.
LEMMA BeginOwned ==
  ASSUME TypeInv, Owned, NEW t \in Tasks, Begin(t), new[t] = None
  PROVE  Owned'
<1>inuse. InUse
  BY DEF Owned
<1>apart. /\ SubmitsApart /\ JobsApart /\ QueuesApart
          /\ SubmitNotJob /\ SubmitNotQueued /\ JobNotQueued
  BY ApartParts DEF Owned
<1>1. PICK c \in Copies \ copies : copies' = copies \cup {c} /\ new' = [new EXCEPT ![t] = c]
  BY DEF Begin
<1>2. \A g \in Starts, d \in Copies : In(d, g)' <=> In(d, g)
  BY DEF Begin, In
<1>3. UNCHANGED job /\ new \in [Tasks -> Copies \cup {None}] /\ copies \subseteq Copies
  BY DEF Begin, TypeInv, TypeOK
<1>4. InUse'
  BY <1>1, <1>2, <1>3 DEF Owned, InUse
<1>5. Apart'
  <2>1. SubmitsApart'
    BY <1>apart, <1>inuse, <1>1, <1>2, <1>3, NoneAssumption DEF InUse, SubmitsApart
  <2>2. JobsApart'
    BY <1>apart, <1>inuse, <1>1, <1>2, <1>3, NoneAssumption DEF InUse, JobsApart
  <2>3. QueuesApart'
    BY <1>apart, <1>inuse, <1>1, <1>2, <1>3, NoneAssumption DEF InUse, QueuesApart
  <2>4. SubmitNotJob'
    BY <1>apart, <1>inuse, <1>1, <1>2, <1>3, NoneAssumption DEF InUse, SubmitNotJob
  <2>5. SubmitNotQueued'
    BY <1>apart, <1>inuse, <1>1, <1>2, <1>3, NoneAssumption DEF InUse, SubmitNotQueued
  <2>6. JobNotQueued'
    BY <1>apart, <1>inuse, <1>1, <1>2, <1>3, NoneAssumption DEF InUse, JobNotQueued
  <2> QED
    BY <2>1, <2>2, <2>3, <2>4, <2>5, <2>6
    DEF Apart, SubmitsApart, JobsApart, QueuesApart, SubmitNotJob, SubmitNotQueued, JobNotQueued
<1>6. NoLeak'
  BY <1>1, <1>2, <1>3, NoneAssumption DEF Owned, InUse, NoLeak
<1> QED
  BY <1>4, <1>5, <1>6 DEF Owned

\* A task gives up its submission and frees the copy.
LEMMA FreeOwned ==
  ASSUME TypeInv, Owned, NEW t \in Tasks, new[t] # None,
         copies' = copies \ {new[t]}, new' = [new EXCEPT ![t] = None], UNCHANGED <<queue, job>>
  PROVE  Owned'
<1>apart. /\ SubmitsApart /\ JobsApart /\ QueuesApart
          /\ SubmitNotJob /\ SubmitNotQueued /\ JobNotQueued
  BY ApartParts DEF Owned
<1>2. \A g \in Starts, d \in Copies : In(d, g)' <=> In(d, g)
  BY DEF In
<1>3. new \in [Tasks -> Copies \cup {None}] /\ copies \subseteq Copies
  BY DEF TypeInv, TypeOK
<1>4. InUse'
  BY <1>2, <1>3 DEF Owned, InUse, Apart
<1>5. Apart'
  <2>1. SubmitsApart'
    BY <1>apart, <1>2, <1>3 DEF SubmitsApart
  <2>2. JobsApart'
    BY <1>apart, <1>2, <1>3 DEF JobsApart
  <2>3. QueuesApart'
    BY <1>apart, <1>2, <1>3 DEF QueuesApart
  <2>4. SubmitNotJob'
    BY <1>apart, <1>2, <1>3 DEF SubmitNotJob
  <2>5. SubmitNotQueued'
    BY <1>apart, <1>2, <1>3, NoneAssumption DEF SubmitNotQueued
  <2>6. JobNotQueued'
    BY <1>apart, <1>2, <1>3 DEF JobNotQueued
  <2> QED
    BY <2>1, <2>2, <2>3, <2>4, <2>5, <2>6
    DEF Apart, SubmitsApart, JobsApart, QueuesApart, SubmitNotJob, SubmitNotQueued, JobNotQueued
<1>6. NoLeak'
  BY <1>2, <1>3 DEF Owned, NoLeak
<1> QED
  BY <1>4, <1>5, <1>6 DEF Owned

LEMMA PushOwned ==
  ASSUME TypeInv, Owned, NEW t \in Tasks, Push(t)
  PROVE  Owned'
<1>apart. /\ SubmitsApart /\ JobsApart /\ QueuesApart
          /\ SubmitNotJob /\ SubmitNotQueued /\ JobNotQueued
  BY ApartParts DEF Owned
<1> DEFINE c == new[t]
<1>1. c \in Copies /\ on[t] \in Starts
  BY DEF Push, TypeInv, TypeOK, Whereabouts
<1>2. /\ queue' = [queue EXCEPT ![on[t]] = <<c>>] /\ queue[on[t]] = <<>>
      /\ new' = [new EXCEPT ![t] = None] /\ UNCHANGED <<job, copies>>
  BY <1>1 DEF Push, Return, TypeInv, TypeOK
<1>3. /\ new \in [Tasks -> Copies \cup {None}] /\ copies \subseteq Copies
      /\ queue \in [Starts -> Seq(Copies)] /\ c # None
  BY <1>1, NoneAssumption DEF TypeInv, TypeOK
<1>4. \A g \in Starts, d \in Copies : In(d, g)' <=> In(d, g) \/ (g = on[t] /\ d = c)
  BY <1>1, <1>2, <1>3 DEF In
<1>c. c = new[t]
  OBVIOUS
<1> HIDE DEF c
<1>5. InUse'
  BY <1>1, <1>2, <1>3, <1>4, <1>c DEF Owned, InUse
<1>6. Apart'
  <2>1. SubmitsApart'
    BY <1>apart, <1>c, <1>1, <1>2, <1>3, <1>4 DEF SubmitsApart
  <2>2. JobsApart'
    BY <1>apart, <1>c, <1>1, <1>2, <1>3, <1>4 DEF JobsApart
  <2>3. QueuesApart'
    BY <1>apart, <1>c, <1>1, <1>2, <1>3, <1>4 DEF QueuesApart, SubmitNotQueued
  <2>4. SubmitNotJob'
    BY <1>apart, <1>c, <1>1, <1>2, <1>3, <1>4 DEF SubmitNotJob
  <2>5. SubmitNotQueued'
    BY <1>apart, <1>c, <1>1, <1>2, <1>3, <1>4, NoneAssumption DEF SubmitNotQueued, SubmitsApart
  <2>6. JobNotQueued'
    BY <1>apart, <1>c, <1>1, <1>2, <1>3, <1>4 DEF JobNotQueued, SubmitNotJob
  <2> QED
    BY <2>1, <2>2, <2>3, <2>4, <2>5, <2>6
    DEF Apart, SubmitsApart, JobsApart, QueuesApart, SubmitNotJob, SubmitNotQueued, JobNotQueued
<1>7. NoLeak'
  BY <1>1, <1>2, <1>3, <1>4, <1>c DEF Owned, NoLeak
<1> QED
  BY <1>5, <1>6, <1>7 DEF Owned

LEMMA ReceiveOwned ==
  ASSUME TypeInv, Owned, NEW w \in Workers, Receive(w)
  PROVE  Owned'
<1>apart. /\ SubmitsApart /\ JobsApart /\ QueuesApart
          /\ SubmitNotJob /\ SubmitNotQueued /\ JobNotQueued
  BY ApartParts DEF Owned
<1> DEFINE c == Head(queue[on[w]])
<1>1. /\ c \in Copies /\ on[w] \in Starts /\ In(c, on[w])
      /\ queue' = [queue EXCEPT ![on[w]] = <<>>]
  BY Received DEF In
<1>2. job' = [job EXCEPT ![w] = c] /\ UNCHANGED <<new, copies>>
  BY DEF Receive
<1>3. /\ job \in [Workers -> Copies \cup {None}] /\ job[w] = None
      /\ queue \in [Starts -> Seq(Copies)] /\ c # None
  BY <1>1, NoneAssumption DEF Receive, TypeInv, TypeOK, Whereabouts
<1> HIDE DEF c
<1>4. \A g \in Starts, d \in Copies : In(d, g)' <=> In(d, g) /\ g # on[w]
  BY <1>1, <1>3 DEF In
<1>5. \A d \in Copies : In(d, on[w]) <=> d = c
  BY <1>1 DEF In
<1>6. InUse'
  BY <1>1, <1>2, <1>3, <1>4 DEF Owned, InUse
<1>7. Apart'
  <2>1. SubmitsApart'
    BY <1>apart, <1>1, <1>2, <1>3, <1>4 DEF SubmitsApart
  <2>2. JobsApart'
    BY <1>apart, <1>1, <1>2, <1>3, <1>4 DEF JobsApart, JobNotQueued
  <2>3. QueuesApart'
    BY <1>apart, <1>1, <1>2, <1>3, <1>4 DEF QueuesApart
  <2>4. SubmitNotJob'
    BY <1>apart, <1>1, <1>2, <1>3, <1>4 DEF SubmitNotJob, SubmitNotQueued
  <2>5. SubmitNotQueued'
    BY <1>apart, <1>1, <1>2, <1>3, <1>4 DEF SubmitNotQueued
  <2>6. JobNotQueued'
    BY <1>apart, <1>1, <1>2, <1>3, <1>4 DEF JobNotQueued, QueuesApart
  <2> QED
    BY <2>1, <2>2, <2>3, <2>4, <2>5, <2>6
    DEF Apart, SubmitsApart, JobsApart, QueuesApart, SubmitNotJob, SubmitNotQueued, JobNotQueued
<1>8. NoLeak'
  <2>1. \A d \in copies : job'[w] = c
    BY <1>2, <1>3
  <2>2. NoLeak /\ copies \subseteq Copies
    BY DEF Owned, TypeInv, TypeOK
  <2> QED
    BY <2>1, <2>2, <1>1, <1>2, <1>3, <1>4, <1>5, NoneAssumption DEF NoLeak
<1> QED
  BY <1>6, <1>7, <1>8 DEF Owned

LEMMA CompleteOwned ==
  ASSUME TypeInv, Owned, NEW w \in Workers, Complete(w)
  PROVE  Owned'
<1>apart. /\ SubmitsApart /\ JobsApart /\ QueuesApart
          /\ SubmitNotJob /\ SubmitNotQueued /\ JobNotQueued
  BY ApartParts DEF Owned
<1>1. /\ copies' = copies \ {job[w]} /\ job' = [job EXCEPT ![w] = None]
      /\ UNCHANGED <<new, queue>>
  BY DEF Complete
<1>2. /\ job \in [Workers -> Copies \cup {None}] /\ copies \subseteq Copies
      /\ job[w] # None
  BY DEF Complete, TypeInv, TypeOK, Whereabouts
<1>3. \A g \in Starts, d \in Copies : In(d, g)' <=> In(d, g)
  BY <1>1 DEF In
<1>4. InUse'
  BY <1>1, <1>2, <1>3 DEF Owned, InUse, Apart
<1>5. Apart'
  <2>1. SubmitsApart'
    BY <1>apart, <1>1, <1>2, <1>3 DEF SubmitsApart
  <2>2. JobsApart'
    BY <1>apart, <1>1, <1>2, <1>3 DEF JobsApart
  <2>3. QueuesApart'
    BY <1>apart, <1>1, <1>2, <1>3 DEF QueuesApart
  <2>4. SubmitNotJob'
    BY <1>apart, <1>1, <1>2, <1>3 DEF SubmitNotJob
  <2>5. SubmitNotQueued'
    BY <1>apart, <1>1, <1>2, <1>3 DEF SubmitNotQueued
  <2>6. JobNotQueued'
    BY <1>apart, <1>1, <1>2, <1>3, NoneAssumption DEF JobNotQueued
  <2> QED
    BY <2>1, <2>2, <2>3, <2>4, <2>5, <2>6
    DEF Apart, SubmitsApart, JobsApart, QueuesApart, SubmitNotJob, SubmitNotQueued, JobNotQueued
<1>6. NoLeak'
  BY <1>1, <1>2, <1>3 DEF Owned, NoLeak
<1> QED
  BY <1>4, <1>5, <1>6 DEF Owned

LEMMA NextOwned == TypeInv /\ Owned /\ [Next]_vars => Owned'
<1> SUFFICES ASSUME TypeInv, Owned, [Next]_vars PROVE Owned'
  OBVIOUS
<1>a. ASSUME UNCHANGED <<queue, job, new, copies>> PROVE Owned'
  BY <1>a DEF Owned, InUse, Apart, NoLeak, In
<1>1. CASE Start \/ Stop \/ UNCHANGED vars
  BY <1>1, <1>a DEF Start, Stop, vars
<1>2. CASE Request
  BY <1>2, BeginOwned DEF Request, Tasks, TypeInv, Whereabouts
<1>3. ASSUME NEW t \in Tasks, SubmitStep(t) PROVE Owned'
  <2>1. CASE Take(t)
    <3>1. CASE sem > 0
      BY <2>1, <3>1, <1>a DEF Take, TypeInv, TypeOK
    <3>2. CASE ~(sem > 0)
      BY <2>1, <3>2, FreeOwned DEF Take, Return, TypeInv, Whereabouts
    <3> QED
      BY <3>1, <3>2
  <2>2. CASE Push(t)
    BY <2>2, PushOwned
  <2>3. CASE PushTimeout(t)
    BY <2>3, FreeOwned DEF PushTimeout, Return, TypeInv, Whereabouts
  <2> QED
    BY <1>3, <2>1, <2>2, <2>3 DEF SubmitStep
<1>4. ASSUME NEW w \in Workers, WorkerStep(w) PROVE Owned'
  <2>1. CASE Give(w)
    BY <2>1, <1>a DEF Give
  <2>2. CASE Receive(w)
    BY <2>2, ReceiveOwned
  <2>3. CASE Run(w)
    <3>1. CASE Begin(w)
      BY <2>3, <3>1, BeginOwned DEF Run, Tasks, TypeInv, Whereabouts
    <3>2. CASE ~Begin(w)
      BY <2>3, <3>2, <1>a DEF Run
    <3> QED
      BY <3>1, <3>2
  <2>4. CASE Complete(w)
    BY <2>4, CompleteOwned
  <2> QED
    BY <1>4, <2>1, <2>2, <2>3, <2>4 DEF WorkerStep
<1> QED
  BY <1>1, <1>2, <1>3, <1>4 DEF Next

\* A set of one name, or of none, when no two of its members differ
LEMMA AtMostOne ==
  ASSUME NEW S, \A x, y \in S : x = y
  PROVE  /\ S = {} => Cardinality(S) = 0
         /\ S # {} => Cardinality(S) = 1
<1>1. ASSUME NEW x \in S PROVE S = {x}
  BY <1>1
<1> QED
  BY <1>1, FS_EmptySet, FS_Singleton

\* What one queue holds is what is in it.
LEMMA QueueRange ==
  ASSUME TypeInv, NEW g \in Starts, NEW c \in Copies
  PROVE  c \in Range(queue[g]) <=> In(c, g)
<1>1. CASE queue[g] = <<>>
  BY <1>1 DEF Range, In
<1>2. ASSUME NEW d \in Copies, queue[g] = <<d>> PROVE c \in Range(queue[g]) <=> In(c, g)
  <2>1. DOMAIN queue[g] = {1} /\ queue[g][1] = d
    BY <1>2
  <2>2. Range(queue[g]) = {d}
    BY <2>1 DEF Range
  <2> QED
    BY <1>2, <2>1, <2>2 DEF In
<1> QED
  BY <1>1, <1>2 DEF TypeInv, Whereabouts

LEMMA OwnedOnce == TypeInv /\ Owned => OneOwner
<1> SUFFICES ASSUME TypeInv, Owned, NEW c \in Copies
             PROVE  Owners(c) = IF c \in copies THEN 1 ELSE 0
  BY DEF OneOwner, TypeInv
<1> DEFINE S == {t \in Tasks : new[t] = c}
           J == {w \in Workers : job[w] = c}
           Q == {g \in Starts : c \in Range(queue[g])}
<1>1. Q = {g \in Starts : In(c, g)}
  BY QueueRange
<1>2. c # None /\ Owners(c) = Cardinality(S) + Cardinality(J) + Cardinality(Q)
  BY NoneAssumption DEF Owners
<1>3. /\ \A x, y \in S : x = y
      /\ \A x, y \in J : x = y
      /\ \A x, y \in Q : x = y
  BY <1>1, <1>2 DEF Owned, Apart
<1>4. /\ S = {} \/ J = {}
      /\ S = {} \/ Q = {}
      /\ J = {} \/ Q = {}
  BY <1>1, <1>2 DEF Owned, Apart
<1>5. c \in copies <=> S # {} \/ J # {} \/ Q # {}
  BY <1>1, <1>2 DEF Owned, InUse, NoLeak
<1> HIDE DEF S, J, Q
<1>6. /\ Cardinality(S) = IF S = {} THEN 0 ELSE 1
      /\ Cardinality(J) = IF J = {} THEN 0 ELSE 1
      /\ Cardinality(Q) = IF Q = {} THEN 0 ELSE 1
  BY <1>3, AtMostOne
<1> QED
  BY <1>2, <1>4, <1>5, <1>6

\* Each copy of a request has one owner, who will free it, for any number of workers,
\* starts and copies.
THEOREM CopiesHaveOneOwner == Spec => []OneOwner
  BY InitTypeInv, NextTypeInv, InitOwned, NextOwned, OwnedOnce, PTL DEF Spec

-----------------------------------------------------------------------------
(* Tokens.                                                                 *)

LEMMA Finite ==
  ASSUME NEW S, S \subseteq Tasks
  PROVE  IsFiniteSet(S) /\ Cardinality(S) \in Nat
<1>1. IsFiniteSet(Tasks)
  BY FiniteAssumption, FS_AddElement DEF Tasks
<1> QED
  BY <1>1, FS_Subset, FS_CardinalityType

\* What is promised and what is there, for the queue of one start
Promised(g) == Tokens(g) + Cardinality(Pushing(g)) + Len(queue[g])
Enough(g) == Promised(g) <= Cardinality(Waiting(g))

LEMMA Numbers ==
  ASSUME TypeInv, NEW g \in Starts
  PROVE  /\ Tokens(g) \in Nat /\ Len(queue[g]) \in Nat
         /\ IsFiniteSet(Pushing(g)) /\ Cardinality(Pushing(g)) \in Nat
         /\ IsFiniteSet(Waiting(g)) /\ Cardinality(Waiting(g)) \in Nat
<1>1. Tokens(g) \in Nat /\ Len(queue[g]) \in Nat
  BY CountAssumption DEF TypeInv, TypeOK, Tokens
<1>2. Pushing(g) \subseteq Tasks /\ Waiting(g) \subseteq Tasks
  BY DEF Pushing, Waiting, Tasks
<1> QED
  BY <1>1, <1>2, Finite

\* Nobody's promise changes and nobody comes or goes.
LEMMA EnoughSame ==
  ASSUME NEW g \in Starts, Enough(g), Waiting(g)' = Waiting(g), Pushing(g)' = Pushing(g),
         queue'[g] = queue[g], Tokens(g)' = Tokens(g)
  PROVE  Enough(g)'
  BY DEF Enough, Promised

LEMMA StartEnough ==
  ASSUME TypeInv, Start, NEW g \in Starts, Enough(g)
  PROVE  Enough(g)'
<1>1. PICK made \in [1 .. Count -> {w \in Workers : pc[w] = "none"} \cup {None}] :
        pc' = [t \in Tasks |-> IF \E i \in 1 .. Count : made[i] = t THEN "give" ELSE pc[t]]
  BY DEF Start
<1>2. \A t \in Tasks : pc'[t] = pc[t] \/ (pc[t] = "none" /\ pc'[t] = "give")
  BY <1>1, NoneAssumption, FiniteAssumption DEF Tasks
<1>3. Waiting(g)' = Waiting(g) /\ Pushing(g)' = Pushing(g)
  BY <1>2 DEF Start, Waiting, Pushing, Tasks
<1>4. Tokens(g)' = 0 /\ queue' = queue
  BY DEF Start, Tokens
<1> QED
  BY <1>3, <1>4, Numbers DEF Enough, Promised

\* A token is taken for a place among those that push.
LEMMA TakeEnough ==
  ASSUME TypeInv, NEW t \in Tasks, Take(t), NEW g \in Starts, Enough(g)
  PROVE  Enough(g)'
<1>0. /\ pc[t] = "take" /\ pc \in [Tasks -> Places] /\ on \in [Tasks -> 0 .. MaxStarts]
      /\ UNCHANGED <<gen, queue>>
  BY DEF Take, TypeInv, TypeOK
<1>1. CASE sem > 0 /\ sem' = sem - 1 /\ on' = [on EXCEPT ![t] = gen] /\ Goto(t, "push")
  <2>1. Waiting(g)' = Waiting(g)
    BY <1>0, <1>1 DEF Goto, Waiting, Tasks
  <2>2. CASE g = gen
    <3>1. Pushing(g)' = Pushing(g) \cup {t} /\ t \notin Pushing(g)
      BY <1>0, <1>1, <2>2 DEF Goto, Pushing
    <3>2. Cardinality(Pushing(g)') = Cardinality(Pushing(g)) + 1
      BY <3>1, Numbers, FS_AddElement
    <3>3. Tokens(g) = sem /\ Tokens(g)' = sem - 1
      BY <1>0, <1>1, <2>2 DEF Tokens
    <3> QED
      BY <1>0, <2>1, <3>2, <3>3, Numbers DEF Enough, Promised
  <2>3. CASE g # gen
    <3>1. Pushing(g)' = Pushing(g)
      BY <1>0, <1>1, <2>3 DEF Goto, Pushing
    <3>2. Tokens(g)' = Tokens(g)
      BY <1>0, <2>3 DEF Tokens
    <3> QED
      BY <1>0, <2>1, <3>1, <3>2, EnoughSame
  <2> QED
    BY <2>2, <2>3
<1>2. CASE UNCHANGED <<sem, on>> /\ Return(t)
  <2>1. Waiting(g)' = Waiting(g) /\ Pushing(g)' = Pushing(g)
    BY <1>0, <1>2 DEF Return, Goto, Waiting, Pushing, Tasks
  <2> QED
    BY <1>0, <1>2, <2>1, EnoughSame DEF Tokens
<1> QED
  BY <1>1, <1>2 DEF Take

\* A task leaves those that push; what it puts into the queue is one at most.
LEMMA PushEnough ==
  ASSUME TypeInv, TypeInv', NEW t \in Tasks, Push(t) \/ PushTimeout(t), NEW g \in Starts, Enough(g)
  PROVE  Enough(g)'
<1>0. /\ pc[t] = "push" /\ pc \in [Tasks -> Places]
      /\ pc' = [pc EXCEPT ![t] = IF t = Httpd THEN "idle" ELSE "done"]
      /\ UNCHANGED <<gen, sem, on>>
  BY DEF Push, PushTimeout, Return, Goto, TypeInv, TypeOK
<1>1. Waiting(g)' = Waiting(g) /\ Tokens(g)' = Tokens(g)
  BY <1>0 DEF Waiting, Tokens, Tasks
<1>2. CASE g = on[t]
  <2>1. Pushing(g)' = Pushing(g) \ {t} /\ t \in Pushing(g)
    BY <1>0, <1>2 DEF Pushing
  <2>2. Cardinality(Pushing(g)') = Cardinality(Pushing(g)) - 1
    BY <2>1, Numbers, FS_RemoveElement
  <2>3. Len(queue'[g]) <= Len(queue[g]) + 1 /\ Len(queue'[g]) \in Nat
    BY <1>2 DEF Push, PushTimeout, TypeInv, TypeOK
  <2> QED
    BY <1>1, <2>2, <2>3, Numbers DEF Enough, Promised
<1>3. CASE g # on[t]
  <2>1. Pushing(g)' = Pushing(g)
    BY <1>0, <1>3 DEF Pushing
  <2>2. queue'[g] = queue[g]
    BY <1>3 DEF Push, PushTimeout, TypeInv, TypeOK
  <2> QED
    BY <1>1, <2>1, <2>2, EnoughSame
<1> QED
  BY <1>2, <1>3

\* A worker gives a token, if there is room for it, and waits for what it promises.
LEMMA GiveEnough ==
  ASSUME TypeInv, NEW w \in Workers, Give(w), NEW g \in Starts, Enough(g)
  PROVE  Enough(g)'
<1>0. /\ pc[w] = "give" /\ pc \in [Tasks -> Places] /\ on \in [Tasks -> 0 .. MaxStarts]
      /\ pc' = [pc EXCEPT ![w] = "wait"] /\ on' = [on EXCEPT ![w] = gen]
      /\ UNCHANGED <<gen, queue>> /\ w \in Tasks
  BY DEF Give, Goto, TypeInv, TypeOK, Tasks
<1>1. Pushing(g)' = Pushing(g)
  BY <1>0 DEF Pushing
<1>2. CASE g = gen
  <2>1. Waiting(g)' = Waiting(g) \cup {w} /\ w \notin Waiting(g)
    BY <1>0, <1>2 DEF Waiting, Tasks
  <2>2. Cardinality(Waiting(g)') = Cardinality(Waiting(g)) + 1
    BY <2>1, Numbers, FS_AddElement
  <2>3. sem' \in Nat /\ sem \in Nat /\ sem' <= sem + 1
    BY CountAssumption DEF Give, TypeInv, TypeOK
  <2>4. Tokens(g) = sem /\ Tokens(g)' = sem'
    BY <1>0, <1>2 DEF Tokens
  <2> QED
    BY <1>0, <1>1, <2>2, <2>3, <2>4, Numbers, SMTT(30) DEF Enough, Promised
<1>3. CASE g # gen
  <2>1. Waiting(g)' = Waiting(g) /\ Tokens(g)' = Tokens(g)
    BY <1>0, <1>3 DEF Waiting, Tokens, Tasks
  <2> QED
    BY <1>0, <1>1, <2>1, EnoughSame
<1> QED
  BY <1>2, <1>3

\* A request goes from the queue to a worker that waited there.
LEMMA ReceiveEnough ==
  ASSUME TypeInv, NEW w \in Workers, Receive(w), NEW g \in Starts, Enough(g)
  PROVE  Enough(g)'
<1>0. /\ pc[w] = "wait" /\ pc \in [Tasks -> Places]
      /\ pc' = [pc EXCEPT ![w] = "run"] /\ UNCHANGED <<gen, sem, on>> /\ w \in Tasks
  BY DEF Receive, Goto, TypeInv, TypeOK, Tasks
<1>1. Pushing(g)' = Pushing(g) /\ Tokens(g)' = Tokens(g)
  BY <1>0 DEF Pushing, Tokens
<1>2. CASE g = on[w]
  <2>1. Waiting(g)' = Waiting(g) \ {w} /\ w \in Waiting(g)
    BY <1>0, <1>2 DEF Waiting, Tasks
  <2>2. Cardinality(Waiting(g)') = Cardinality(Waiting(g)) - 1
    BY <2>1, Numbers, FS_RemoveElement
  <2>3. Len(queue[g]) = 1 /\ Len(queue'[g]) = 0
    <3>1. queue[g] = <<Head(queue[g])>> /\ queue'[g] = <<>>
      BY <1>2, Received DEF TypeInv, TypeOK
    <3> QED
      BY <3>1
  <2> QED
    BY <1>1, <2>2, <2>3, Numbers DEF Enough, Promised
<1>3. CASE g # on[w]
  <2>1. Waiting(g)' = Waiting(g)
    BY <1>0, <1>3 DEF Waiting, Tasks
  <2>2. queue'[g] = queue[g]
    BY <1>3 DEF Receive, TypeInv, TypeOK
  <2> QED
    BY <1>1, <2>1, <2>2, EnoughSame
<1> QED
  BY <1>2, <1>3

\* A task that neither waits nor pushes goes on to such a place.
LEMMA ElsewhereEnough ==
  ASSUME TypeInv, NEW t \in Tasks, pc[t] \notin {"wait", "push"}, NEW place,
         place \notin {"wait", "push"}, Goto(t, place), UNCHANGED <<gen, sem, queue, on>>,
         NEW g \in Starts, Enough(g)
  PROVE  Enough(g)'
<1>1. Waiting(g)' = Waiting(g) /\ Pushing(g)' = Pushing(g)
  BY DEF Goto, Waiting, Pushing, Tasks, TypeInv, TypeOK
<1> QED
  BY <1>1, EnoughSame DEF Tokens

LEMMA NextEnough ==
  ASSUME TypeInv, TypeInv', [Next]_vars, NEW g \in Starts, Enough(g)
  PROVE  Enough(g)'
<1>1. CASE Start
  BY <1>1, StartEnough
<1>2. CASE Stop \/ UNCHANGED vars
  BY <1>2, EnoughSame DEF Stop, vars, Waiting, Pushing, Tokens
<1>3. CASE Request
  <2>1. Httpd \in Tasks /\ pc[Httpd] = "idle" /\ Goto(Httpd, "take") /\ UNCHANGED <<gen, sem, queue, on>>
    BY <1>3 DEF Request, Begin, Tasks
  <2> QED
    BY <2>1, ElsewhereEnough
<1>4. ASSUME NEW t \in Tasks, SubmitStep(t) PROVE Enough(g)'
  BY <1>4, TakeEnough, PushEnough DEF SubmitStep
<1>5. ASSUME NEW w \in Workers, WorkerStep(w) PROVE Enough(g)'
  <2>0. w \in Tasks
    BY DEF Tasks
  <2>1. CASE Run(w)
    <3>1. PICK place \in {"done", "take"} : Goto(w, place)
      BY <2>1 DEF Run, Begin
    <3>2. pc[w] = "run" /\ UNCHANGED <<gen, sem, queue, on>>
      BY <2>1 DEF Run, Begin
    <3> QED
      BY <2>0, <3>1, <3>2, ElsewhereEnough
  <2>2. CASE Complete(w)
    <3>1. pc[w] = "done" /\ Goto(w, "give") /\ UNCHANGED <<gen, sem, queue, on>>
      BY <2>2 DEF Complete
    <3> QED
      BY <2>0, <3>1, ElsewhereEnough
  <2> QED
    BY <1>5, <2>1, <2>2, GiveEnough, ReceiveEnough DEF WorkerStep
<1> QED
  BY <1>1, <1>2, <1>3, <1>4, <1>5 DEF Next

LEMMA InitEnough == Init => TokenMeansWorker
<1> SUFFICES ASSUME Init, NEW g \in Starts
             PROVE  Tokens(g) + Cardinality(Pushing(g)) + Len(queue[g]) <= Cardinality(Waiting(g))
  BY DEF TokenMeansWorker
<1>1. Tokens(g) = 0 /\ Len(queue[g]) = 0
  BY DEF Init, Tokens
<1>2. Pushing(g) = {} /\ Waiting(g) = {}
  BY DEF Init, Pushing, Waiting, Tasks
<1> QED
  BY <1>1, <1>2, FS_EmptySet

\* Every token, wherever it is, stands for a worker that waits, however many starts there
\* have been, whatever task creation failed and whichever deadlines passed.
THEOREM TokensMeanWorkers == Spec => []TokenMeansWorker
<1>1. TokenMeansWorker <=> \A g \in Starts : Enough(g)
  BY DEF TokenMeansWorker, Enough, Promised
<1>2. TypeInv /\ TypeInv' /\ TokenMeansWorker /\ [Next]_vars => TokenMeansWorker'
  <2> SUFFICES ASSUME TypeInv, TypeInv', TokenMeansWorker, [Next]_vars, NEW g \in Starts
               PROVE  Enough(g)'
    BY DEF TokenMeansWorker, Enough, Promised
  <2> QED
    BY <1>1, NextEnough
<1> QED
  BY InitTypeInv, NextTypeInv, InitEnough, <1>2, PTL DEF Spec

=============================================================================
