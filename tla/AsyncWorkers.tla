---------------------------- MODULE AsyncWorkers ----------------------------
(***************************************************************************)
(* The worker pool of ENABLE_ASYNC builds (async_worker.cpp).  The httpd   *)
(* task copies a request, takes a token of the semaphore that counts free  *)
(* workers and puts the copy into a queue of one place; a worker receives  *)
(* it, runs the handler and frees the copy.  start() makes a semaphore, a  *)
(* queue and a set of workers, at every call; nothing ends the workers of  *)
(* the calls before, which go on with the globals they read.               *)
(***************************************************************************)
EXTENDS Integers, Sequences, FiniteSets, Functions

CONSTANTS
  Workers,    \* tasks that start() can create
  Httpd,      \* the task of esp_http_server
  Copies,     \* copies of requests on the heap
  Count,      \* ASYNC_WORKER_COUNT
  Deadlines,  \* a full queue may stay full for the 100 ms xQueueSend waits
  MaxStarts,  \* bound on the calls of start()
  None

ASSUME CountAssumption == Count \in Nat \ {0} /\ MaxStarts \in Nat \ {0}
ASSUME FiniteAssumption == IsFiniteSet(Workers) /\ Httpd \notin Workers
ASSUME NoneAssumption == None \notin Workers \cup {Httpd} \cup Copies
ASSUME DeadlinesAssumption == Deadlines \in BOOLEAN

Tasks == Workers \cup {Httpd}
Starts == 1 .. MaxStarts

VARIABLES
  running,  \* PsychicHttpServer::_running
  gen,      \* calls of start() so far: which semaphore, queue the globals name
  sem,      \* worker_ready_count of that call
  queue,    \* start |-> its async_req_queue
  handles,  \* worker_handles
  pc,       \* task |-> where it is
  on,       \* task |-> the queue it is blocked on, by the start that made it
  job,      \* worker |-> the copy it received
  new,      \* task |-> the copy it is submitting
  copies    \* the copies allocated

vars == <<running, gen, sem, queue, handles, pc, on, job, new, copies>>

\* A worker is about to give the semaphore, blocked on the queue, in the
\* handler, or freeing the copy; a task that submits is about to take the
\* semaphore or to send to the queue.
Places == {"none", "idle", "give", "wait", "run", "done", "take", "push"}

TypeOK ==
  /\ running \in BOOLEAN
  /\ gen \in 0 .. MaxStarts
  /\ sem \in 0 .. Count
  /\ queue \in [Starts -> Seq(Copies)]
  /\ handles \in [1 .. Count -> Workers \cup {None}]
  /\ pc \in [Tasks -> Places]
  /\ on \in [Tasks -> 0 .. MaxStarts]
  /\ job \in [Workers -> Copies \cup {None}]
  /\ new \in [Tasks -> Copies \cup {None}]
  /\ copies \subseteq Copies

Init ==
  /\ running = FALSE
  /\ gen = 0
  /\ sem = 0
  /\ queue = [g \in Starts |-> <<>>]
  /\ handles = [i \in 1 .. Count |-> None]
  /\ pc = [t \in Tasks |-> IF t = Httpd THEN "idle" ELSE "none"]
  /\ on = [t \in Tasks |-> 0]
  /\ job = [w \in Workers |-> None]
  /\ new = [t \in Tasks |-> None]
  /\ copies = {}

Goto(t, place) == pc' = [pc EXCEPT ![t] = place]

-----------------------------------------------------------------------------
(* start(), called by the application, and stop(). *)

\* start_async_req_workers: xTaskCreate may fail for some of the workers, and
\* then leaves the old handle in its place.  The workers are there before
\* httpd_start is called and stay when it fails; the next start makes others.  (The last start of
\* an instance succeeds.)
Start ==
  /\ ~running /\ gen < MaxStarts
  /\ \E made \in [1 .. Count -> {w \in Workers : pc[w] = "none"} \cup {None}] :
       /\ \A i, j \in 1 .. Count : i # j /\ made[i] # None => made[i] # made[j]
       /\ handles' = [i \in 1 .. Count |-> IF made[i] = None THEN handles[i] ELSE made[i]]
       /\ pc' = [t \in Tasks |-> IF \E i \in 1 .. Count : made[i] = t THEN "give" ELSE pc[t]]
  /\ running' \in {TRUE, gen + 1 = MaxStarts}
  /\ gen' = gen + 1
  /\ sem' = 0
  /\ UNCHANGED <<queue, on, job, new, copies>>

\* httpd_stop waits for the httpd task to end, not for the workers.  (The
\* last start of an instance is not stopped.)
Stop ==
  /\ running /\ pc[Httpd] = "idle"
  /\ gen < MaxStarts
  /\ running' = FALSE
  /\ UNCHANGED <<gen, sem, queue, handles, pc, on, job, new, copies>>

-----------------------------------------------------------------------------
(* submit_async_req, on the task that runs PsychicEndpoint::requestCallback *)
(* and is not a known worker.                                               *)

\* Where the call returns to: the server's loop, or the worker's.
Return(t) ==
  /\ Goto(t, IF t = Httpd THEN "idle" ELSE "done")
  /\ new' = [new EXCEPT ![t] = None]

\* httpd_req_async_handler_begin.  If it fails, 503 and nothing has changed.
Begin(t) ==
  /\ \E c \in Copies \ copies :
       /\ copies' = copies \cup {c}
       /\ new' = [new EXCEPT ![t] = c]
  /\ Goto(t, "take")
  /\ UNCHANGED <<running, gen, sem, queue, handles, on, job>>

\* Take as it would be if a token were looked at and not taken.
TakeKeepsToken(t) ==
  /\ pc[t] = "take"
  /\ sem > 0
  /\ on' = [on EXCEPT ![t] = gen]
  /\ Goto(t, "push")
  /\ UNCHANGED <<running, gen, sem, queue, handles, job, new, copies>>

\* xSemaphoreTake without waiting: a token, or 503.
Take(t) ==
  /\ pc[t] = "take"
  /\ \/ /\ sem > 0
        /\ sem' = sem - 1
        /\ on' = [on EXCEPT ![t] = gen]
        /\ Goto(t, "push")
        /\ UNCHANGED <<new, copies>>
     \/ /\ sem = 0
        /\ copies' = copies \ {new[t]}
        /\ Return(t)
        /\ UNCHANGED <<sem, on>>
  /\ UNCHANGED <<running, gen, queue, handles, job>>

\* xQueueSend into the one place.
Push(t) ==
  /\ pc[t] = "push"
  /\ queue[on[t]] = <<>>
  /\ queue' = [queue EXCEPT ![on[t]] = Append(@, new[t])]
  /\ Return(t)
  /\ UNCHANGED <<running, gen, sem, handles, on, job, copies>>

\* No place for 100 ms: the copy is freed, 503; the token is not given back.
PushTimeout(t) ==
  /\ Deadlines
  /\ pc[t] = "push"
  /\ queue[on[t]] # <<>>
  /\ copies' = copies \ {new[t]}
  /\ Return(t)
  /\ UNCHANGED <<running, gen, sem, queue, handles, on, job>>

\* The httpd task has a request for a WebSocket endpoint.
Request == running /\ pc[Httpd] = "idle" /\ Begin(Httpd)

-----------------------------------------------------------------------------
(* async_req_worker_task *)

\* xSemaphoreGive, which does nothing at the maximum; then it waits.
Give(w) ==
  /\ pc[w] = "give"
  /\ sem' = IF sem < Count THEN sem + 1 ELSE sem
  /\ on' = [on EXCEPT ![w] = gen]
  /\ Goto(w, "wait")
  /\ UNCHANGED <<running, gen, queue, handles, job, new, copies>>

Receive(w) ==
  /\ pc[w] = "wait"
  /\ queue[on[w]] # <<>>
  /\ job' = [job EXCEPT ![w] = Head(queue[on[w]])]
  /\ queue' = [queue EXCEPT ![on[w]] = Tail(@)]
  /\ Goto(w, "run")
  /\ UNCHANGED <<running, gen, sem, handles, on, new, copies>>

\* requestCallback serves the request on a known worker; on a worker whose
\* handle start() has overwritten it submits it once more, or fails to copy it
\* and answers 503.
Run(w) ==
  /\ pc[w] = "run"
  /\ \/ /\ Goto(w, "done")
        /\ UNCHANGED <<running, gen, sem, queue, handles, on, job, new, copies>>
     \/ w \notin Range(handles) /\ Begin(w)

\* Complete as it would be if the copy were not freed.
CompleteLeaks(w) ==
  /\ pc[w] = "done"
  /\ job' = [job EXCEPT ![w] = None]
  /\ Goto(w, "give")
  /\ UNCHANGED <<running, gen, sem, queue, handles, on, new, copies>>

\* httpd_req_async_handler_complete
Complete(w) ==
  /\ pc[w] = "done"
  /\ copies' = copies \ {job[w]}
  /\ job' = [job EXCEPT ![w] = None]
  /\ Goto(w, "give")
  /\ UNCHANGED <<running, gen, sem, queue, handles, on, new>>

SubmitStep(t) == Take(t) \/ Push(t) \/ PushTimeout(t)
WorkerStep(w) == Give(w) \/ Receive(w) \/ Run(w) \/ Complete(w)

Next ==
  \/ Start \/ Stop \/ Request
  \/ \E t \in Tasks : SubmitStep(t)
  \/ \E w \in Workers : WorkerStep(w)

Spec == Init /\ [][Next]_vars

\* Every task is scheduled and every handler returns.
Fairness ==
  /\ \A t \in Tasks : WF_vars(SubmitStep(t))
  /\ \A w \in Workers : WF_vars(WorkerStep(w))

FairSpec == Spec /\ Fairness

-----------------------------------------------------------------------------
(* What must hold. *)

Waiting(g) == {w \in Workers : pc[w] = "wait" /\ on[w] = g}
Pushing(g) == {t \in Tasks : pc[t] = "push" /\ on[t] = g}
Tokens(g) == IF g = gen THEN sem ELSE 0

\* A token is the promise of a worker (async_worker.cpp:35-36): for every one
\* still in the semaphore, in a submitter's hand or spent on a queued request
\* there is a worker blocked on that queue.
TokenMeansWorker ==
  \A g \in Starts :
    Tokens(g) + Cardinality(Pushing(g)) + Len(queue[g]) <= Cardinality(Waiting(g))

\* The state has its types, and each copy of a request has one owner, who will free it: a
\* submitter, a queue or a worker.
Owners(c) ==
  Cardinality({t \in Tasks : new[t] = c}) + Cardinality({w \in Workers : job[w] = c})
    + Cardinality({g \in Starts : c \in Range(queue[g])})
OneOwner == TypeOK /\ \A c \in Copies : Owners(c) = IF c \in copies THEN 1 ELSE 0

\* async_worker.h:22 and async_worker.cpp:30-32: the semaphore is the number of
\* free workers, so a request is turned away only when there are none.  A free
\* worker is one that no token out of the semaphore is already meant for.
RefusedOnlyWhenBusy ==
  pc[Httpd] = "take" /\ sem = 0 =>
    Cardinality(Waiting(gen)) = Cardinality(Pushing(gen)) + Len(queue[gen])

\* A request that was accepted is served, and its copy freed, whatever
\* restarts and deadlines happen meanwhile.
AcceptedIsServed ==
  \A c \in Copies : (\E g \in Starts : c \in Range(queue[g])) ~> (c \notin copies)

=============================================================================
