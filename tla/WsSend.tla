------------------------------- MODULE WsSend -------------------------------
(***************************************************************************)
(* The outgoing path of a WebSocket client: PsychicWebSocketClient::       *)
(* sendMessage(), which copies a frame, counts it against the client's     *)
(* pending-frame counter and queues it on the httpd task, and              *)
(* _sendMessageCallback(), which the httpd task runs once the frame has    *)
(* been sent or has failed.  sendMessage() is called by handlers on the    *)
(* httpd task and by application tasks; nothing locks it.                  *)
(*                                                                         *)
(* A PsychicWebSocketClient object is made for each WebSocket connection   *)
(* (PsychicWebSocketHandler::addClient) and, for the time of one received  *)
(* frame, as the _client member of a PsychicWebSocketRequest.  Each object *)
(* has a counter of its own, held through a shared_ptr.                    *)
(*                                                                         *)
(* The names of Clients, Sockets and Blocks are those of heap objects and  *)
(* descriptors: they are used again once nothing refers to them.           *)
(***************************************************************************)
EXTENDS Integers, Sequences, FiniteSets, Functions

CONSTANTS
  Tasks,    \* the tasks that call sendMessage
  Httpd,    \* the one that runs esp_http_server: handlers and the work queue
  Clients,  \* PsychicWebSocketClient objects
  Sockets,  \* socket descriptors, which lwip hands out again after close()
  Blocks,   \* heap: a block holds one copied frame, its payload and its ctx
  Cap,      \* PSYCHIC_WS_MAX_PENDING_FRAMES
  None

ASSUME TasksAssumption == IsFiniteSet(Tasks) /\ Httpd \in Tasks
ASSUME BlocksAssumption == IsFiniteSet(Blocks)
ASSUME CapAssumption == Cap \in Nat \ {0}
ASSUME NoneAssumption == None \notin Clients \cup Sockets \cup Blocks

VARIABLES
  peer,     \* socket |-> the client object of the connection that has it
  live,     \* the client objects that exist
  serving,  \* the PsychicWebSocketRequest's own client while onFrame runs
  pc,       \* task |-> where it is in sendMessage
  this,     \* task |-> the client object it sends on
  blk,      \* task |-> the block it allocated
  parts,    \* block |-> what of it is allocated: frame, payload, ctx
  ctx,      \* block |-> the counter its PsychicWsSendCtx shares
  pending,  \* client object |-> the value of its pending-frame counter
  refs,     \* client object |-> the use count of that counter's shared_ptr
  queue,    \* the httpd work queue: blocks in the order they will be sent
  fault     \* freed memory has been touched

vars == <<peer, live, serving, pc, this, blk, parts, ctx, pending, refs, queue, fault>>

\* Where sendMessage is: about to allocate (frame, payload, ctx), to count,
\* to queue, to roll back.
Places == {"idle", "frame", "payload", "ctx", "count", "queue", "rollback"}

\* What sendMessage allocates for one frame.
Parts == {"frame", "payload", "ctx"}

TypeOK ==
  /\ peer \in [Sockets -> Clients \cup {None}]
  /\ live \subseteq Clients
  /\ serving \in Clients \cup {None}
  /\ pc \in [Tasks -> Places]
  /\ this \in [Tasks -> Clients \cup {None}]
  /\ blk \in [Tasks -> Blocks \cup {None}]
  /\ parts \in [Blocks -> SUBSET Parts]
  /\ ctx \in [Blocks -> Clients \cup {None}]
  /\ pending \in [Clients -> Int]
  /\ refs \in [Clients -> Int]
  /\ queue \in Seq(Blocks)
  /\ fault \in BOOLEAN

Live(o) == o \in live

Busy(t) == pc[t] # "idle"

\* A name nothing in the heap, the queue or a task's registers refers to.
Fresh(o) ==
  /\ ~Live(o)
  /\ refs[o] = 0
  /\ \A t \in Tasks : this[t] # o
  /\ \A i \in Blocks : ctx[i] # o

Init ==
  /\ peer = [s \in Sockets |-> None]
  /\ live = {}
  /\ serving = None
  /\ pc = [t \in Tasks |-> "idle"]
  /\ this = [t \in Tasks |-> None]
  /\ blk = [t \in Tasks |-> None]
  /\ parts = [i \in Blocks |-> {}]
  /\ ctx = [i \in Blocks |-> None]
  /\ pending = [o \in Clients |-> 0]
  /\ refs = [o \in Clients |-> 0]
  /\ queue = <<>>
  /\ fault = FALSE

-----------------------------------------------------------------------------
(* The httpd task between two calls of sendMessage: it opens and closes     *)
(* connections, hands received frames to onFrame, drains the work queue.    *)

HttpdFree == ~fault /\ ~Busy(Httpd)

\* The constructor: make_shared gives the counter its first reference.
Construct(o) ==
  /\ live' = live \cup {o}
  /\ pending' = [pending EXCEPT ![o] = 0]
  /\ refs' = [refs EXCEPT ![o] = 1]

\* The destructor drops the object's own reference to the counter.
Destroy(o) ==
  /\ live' = live \ {o}
  /\ refs' = [refs EXCEPT ![o] = @ - 1]
  /\ UNCHANGED pending

\* A handshake arrives on a new connection: addClient makes its buddy.
Open(s, o) ==
  /\ HttpdFree /\ serving = None
  /\ peer[s] = None /\ Fresh(o)
  /\ peer' = [peer EXCEPT ![s] = o]
  /\ Construct(o)
  /\ UNCHANGED <<serving, pc, this, blk, parts, ctx, queue, fault>>

\* The session is deleted: removeClient deletes the buddy, then close(sockfd)
\* makes the descriptor available again.
Close(s) ==
  /\ HttpdFree /\ serving = None
  /\ peer[s] # None
  /\ Destroy(peer[s])
  /\ peer' = [peer EXCEPT ![s] = None]
  /\ UNCHANGED <<serving, pc, this, blk, parts, ctx, queue, fault>>

\* A frame arrives: handleRequest makes a PsychicWebSocketRequest, whose
\* member _client is a PsychicWebSocketClient of its own for this socket, and
\* receives the frame.  Each failure of that returns at once: EndFrame follows
\* and onFrame, with the sends in it, does not take place.
BeginFrame(s, r) ==
  /\ HttpdFree /\ serving = None
  /\ peer[s] # None /\ Fresh(r)
  /\ Construct(r)
  /\ serving' = r
  /\ UNCHANGED <<peer, pc, this, blk, parts, ctx, queue, fault>>

\* onFrame has returned: the request and its client go out of scope.
EndFrame ==
  /\ HttpdFree /\ serving # None
  /\ Destroy(serving)
  /\ serving' = None
  /\ UNCHANGED <<peer, pc, this, blk, parts, ctx, pending, queue, fault>>

\* One item of the work queue: the frame is sent, well or badly, to whoever
\* has its socket now, and _sendMessageCallback gives the slot back and frees
\* the frame, its payload and the ctx with its reference to the counter.
SendMessageCallback ==
  /\ HttpdFree /\ serving = None
  /\ queue # <<>>
  /\ LET i == Head(queue)
         o == ctx[i]
     IN  /\ pending' = [pending EXCEPT ![o] = @ - 1]
         /\ refs' = [refs EXCEPT ![o] = @ - 1]
         /\ parts' = [parts EXCEPT ![i] = {}]
         /\ ctx' = [ctx EXCEPT ![i] = None]
  /\ queue' = Tail(queue)
  /\ UNCHANGED <<peer, live, serving, pc, this, blk, fault>>

-----------------------------------------------------------------------------
(* sendMessage, step by step.  The task runs the steps between two accesses *)
(* to shared memory; every other task may run in between.                   *)

\* The client objects a task can hold: an application task gets a buddy from
\* getClient() or sendAll(), a handler has the request's own client as well.
Reachable(t) ==
  {o \in Clients : Live(o) /\ (t = Httpd \/ o # serving)}

At(t, place) == ~fault /\ pc[t] = place

Goto(t, place) == pc' = [pc EXCEPT ![t] = place]

Return(t) ==
  /\ Goto(t, "idle")
  /\ this' = [this EXCEPT ![t] = None]
  /\ blk' = [blk EXCEPT ![t] = None]

Free(i) == parts' = [parts EXCEPT ![i] = {}]

\* LoadPending as it would be with the wrong comparison.
LoadPendingOffByOne(t, o) ==
  /\ At(t, "idle")
  /\ o \in Reachable(t)
  /\ pending[o] <= Cap
  /\ this' = [this EXCEPT ![t] = o]
  /\ Goto(t, "frame")
  /\ UNCHANGED <<peer, live, serving, blk, parts, ctx, pending, refs, queue, fault>>

\* _pendingFrames->load() below the cap.  At the cap the call returns
\* ESP_ERR_NO_MEM, having changed nothing: that is a stuttering step.
LoadPending(t, o) ==
  /\ At(t, "idle")
  /\ o \in Reachable(t)
  /\ pending[o] < Cap
  /\ this' = [this EXCEPT ![t] = o]
  /\ Goto(t, "frame")
  /\ UNCHANGED <<peer, live, serving, blk, parts, ctx, pending, refs, queue, fault>>

\* malloc of the frame; each allocation may fail at any time.
AllocFrame(t) ==
  /\ At(t, "frame")
  /\ UNCHANGED <<peer, live, serving, ctx, pending, refs, queue, fault>>
  /\ \/ \E i \in Blocks :
          /\ parts[i] = {}
          /\ parts' = [parts EXCEPT ![i] = {"frame"}]
          /\ blk' = [blk EXCEPT ![t] = i]
          /\ Goto(t, "payload")
          /\ UNCHANGED this
     \/ Return(t) /\ UNCHANGED parts

\* AllocPayload as it would be if the failure forgot to free the frame.
AllocPayloadLeaks(t) ==
  /\ At(t, "payload")
  /\ UNCHANGED <<peer, live, serving, ctx, pending, refs, queue, fault>>
  /\ \/ /\ parts' = [parts EXCEPT ![blk[t]] = @ \cup {"payload"}]
        /\ Goto(t, "ctx")
        /\ UNCHANGED <<this, blk>>
     \/ Return(t) /\ UNCHANGED parts

\* malloc of the payload and the copy of the data.
AllocPayload(t) ==
  /\ At(t, "payload")
  /\ UNCHANGED <<peer, live, serving, ctx, pending, refs, queue, fault>>
  /\ \/ /\ parts' = [parts EXCEPT ![blk[t]] = @ \cup {"payload"}]
        /\ Goto(t, "ctx")
        /\ UNCHANGED <<this, blk>>
     \/ Free(blk[t]) /\ Return(t)

\* AllocCtx as it would be with a plain pointer to the counter in the ctx.
AllocCtxRaw(t) ==
  /\ At(t, "ctx")
  /\ Live(this[t])
  /\ parts' = [parts EXCEPT ![blk[t]] = @ \cup {"ctx"}]
  /\ ctx' = [ctx EXCEPT ![blk[t]] = this[t]]
  /\ Goto(t, "count")
  /\ UNCHANGED <<peer, live, serving, this, blk, pending, refs, queue, fault>>

\* new PsychicWsSendCtx: it copies the object's shared_ptr.
AllocCtx(t) ==
  /\ At(t, "ctx")
  /\ Live(this[t])
  /\ UNCHANGED <<peer, live, serving, pending, queue, fault>>
  /\ \/ LET o == this[t] IN
          /\ parts' = [parts EXCEPT ![blk[t]] = @ \cup {"ctx"}]
          /\ ctx' = [ctx EXCEPT ![blk[t]] = o]
          /\ refs' = [refs EXCEPT ![o] = @ + 1]
          /\ Goto(t, "count")
          /\ UNCHANGED <<this, blk>>
     \/ Free(blk[t]) /\ Return(t) /\ UNCHANGED <<ctx, refs>>

\* _pendingFrames->fetch_add(1)
CountFrame(t) ==
  /\ At(t, "count")
  /\ Live(this[t])
  /\ pending' = [pending EXCEPT ![this[t]] = @ + 1]
  /\ Goto(t, "queue")
  /\ UNCHANGED <<peer, live, serving, this, blk, parts, ctx, refs, queue, fault>>

\* QueueFrame as it would be if the frame were forgotten before it is queued.
QueueFrameLate(t) ==
  /\ At(t, "queue")
  /\ Live(this[t])
  /\ Return(t)
  /\ queue' = Append(queue, blk'[t])
  /\ UNCHANGED <<peer, live, serving, parts, ctx, pending, refs, fault>>

\* httpd_ws_send_data_async(server(), socket(), ...): queued, or refused.
QueueFrame(t) ==
  /\ At(t, "queue")
  /\ Live(this[t])
  /\ UNCHANGED <<peer, live, serving, parts, ctx, pending, refs, fault>>
  /\ \/ queue' = Append(queue, blk[t]) /\ Return(t)
     \/ Goto(t, "rollback") /\ UNCHANGED <<this, blk, queue>>

\* RollBack as it would be without the fetch_sub.
RollBackKeepsCount(t) ==
  /\ At(t, "rollback")
  /\ Live(this[t])
  /\ refs' = [refs EXCEPT ![this[t]] = @ - 1]
  /\ ctx' = [ctx EXCEPT ![blk[t]] = None]
  /\ Free(blk[t])
  /\ Return(t)
  /\ UNCHANGED <<peer, live, serving, pending, queue, fault>>

\* RollBack as it would be without the delete of the ctx.
RollBackKeepsCtx(t) ==
  /\ At(t, "rollback")
  /\ Live(this[t])
  /\ pending' = [pending EXCEPT ![this[t]] = @ - 1]
  /\ Free(blk[t])
  /\ Return(t)
  /\ UNCHANGED <<peer, live, serving, ctx, refs, queue, fault>>

\* The call was refused: fetch_sub(1), free everything.
RollBack(t) ==
  /\ At(t, "rollback")
  /\ Live(this[t])
  /\ pending' = [pending EXCEPT ![this[t]] = @ - 1]
  /\ refs' = [refs EXCEPT ![this[t]] = @ - 1]
  /\ ctx' = [ctx EXCEPT ![blk[t]] = None]
  /\ Free(blk[t])
  /\ Return(t)
  /\ UNCHANGED <<peer, live, serving, queue, fault>>

\* A step that reads a member of `this` after the object has been deleted.
\* What happens then is undefined; nothing is said of the states that follow.
UseAfterDelete(t) ==
  /\ ~fault
  /\ pc[t] \in {"ctx", "count", "queue", "rollback"}
  /\ ~Live(this[t])
  /\ fault' = TRUE
  /\ UNCHANGED <<peer, live, serving, pc, this, blk, parts, ctx, pending, refs, queue>>

\* The state after that stands for every outcome.
Faulted == fault /\ UNCHANGED vars

\* The steps of a call that has passed the check of the cap.
SendStep(t) ==
  \/ AllocFrame(t) \/ AllocPayload(t) \/ AllocCtx(t) \/ CountFrame(t)
  \/ QueueFrame(t) \/ RollBack(t) \/ UseAfterDelete(t)

HttpdStep ==
  \/ \E s \in Sockets, o \in Clients : Open(s, o) \/ BeginFrame(s, o)
  \/ \E s \in Sockets : Close(s)
  \/ EndFrame
  \/ SendMessageCallback

Next ==
  \/ HttpdStep
  \/ \E t \in Tasks, o \in Clients : LoadPending(t, o)
  \/ \E t \in Tasks : SendStep(t)
  \/ Faulted

Spec == Init /\ [][Next]_vars

\* A call once started runs to its end, a callback returns, and the loop of
\* the httpd task serves its control socket, that is the work queue, on each
\* turn, between the requests of the sessions.
Fairness ==
  /\ \A t \in Tasks : WF_vars(SendStep(t))
  /\ SF_vars(EndFrame)
  /\ SF_vars(SendMessageCallback)

FairSpec == Spec /\ Fairness

-----------------------------------------------------------------------------
(* What must hold. *)

\* The blocks a counter has counted: queued, or about to be.
Counted(o) ==
  {i \in Blocks :
     /\ ctx[i] = o
     /\ \/ i \in Range(queue)
        \/ \E t \in Tasks : blk[t] = i /\ pc[t] \in {"queue", "rollback"}}

\* The counter is neither lost nor doubled by any interleaving of sends,
\* failures, completions and the client's death: it is the number of frames
\* counted and not yet completed (PsychicWebSocket.h, _pendingFrames).
PendingExact == \A o \in Clients : pending[o] = Cardinality(Counted(o))

\* The shared counter lives exactly as long as somebody needs it: the object,
\* or a ctx on its way through the queue; and a completion that runs after
\* the client is gone still finds it (the comment above PsychicWsSendCtx).
CounterShared ==
  \A o \in Clients :
    refs[o] = Cardinality({i \in Blocks : ctx[i] = o}) + (IF Live(o) THEN 1 ELSE 0)

\* The pending counter says how many frames are on their way, and is there for as long as
\* a frame or the object needs it.
CountersExact == PendingExact /\ CounterShared

\* What a call of sendMessage owns of its block at each place.
Owned(place) ==
  CASE place \in {"idle", "frame"} -> {}
    [] place = "payload" -> {"frame"}
    [] place = "ctx" -> {"frame", "payload"}
    [] OTHER -> Parts

\* Every allocation has exactly one owner, a call or the work queue, so each
\* is freed once: no error path of sendMessage leaks or frees twice.
OneOwner ==
  /\ \A i, j \in DOMAIN queue : queue[i] = queue[j] => i = j
  /\ \A i \in Blocks :
       LET holders == {t \in Tasks : blk[t] = i}
       IN  IF i \in Range(queue)
           THEN holders = {} /\ parts[i] = Parts
           ELSE \/ holders = {} /\ parts[i] = {}
                \/ \E t \in holders : holders = {t} /\ parts[i] = Owned(pc[t])

\* The calls that have passed the check of the cap and not yet counted.
Admitted(o) == {t \in Tasks : this[t] = o /\ pc[t] \in {"frame", "payload", "ctx", "count"}}

\* load() and fetch_add() are two steps, so the cap can be overrun, but only
\* by the other callers that were in between: never more than one each.
CapNearlyHolds == \A o \in Clients : pending[o] <= Cap + Cardinality(Tasks) - 1

\* The same with the callers in between, which makes it inductive.
CapInductive ==
  \A o \in Clients :
    pending[o] + Cardinality(Admitted(o)) <= Cap + Cardinality(Tasks) - 1

\* sendMessage implements a budget of slots: each is taken once and given back
\* once, and no more than Cap plus the other callers are ever out.
Budget == INSTANCE SendBudget
            WITH Limit <- Cap + Cardinality(Tasks) - 1, inFlight <- pending

ImplementsBudget == Budget!Spec

\* A full queue is not full for ever: a client that refuses frames accepts
\* them again once the httpd task has worked off what it holds.
QueueDrains ==
  \A o \in Clients : (pending[o] >= Cap) ~> (pending[o] < Cap \/ fault)

\* The counter of a client that has gone is given back to the heap.
CounterReclaimed ==
  \A o \in Clients : (~Live(o) /\ refs[o] > 0) ~> (refs[o] = 0 \/ fault)

=============================================================================
