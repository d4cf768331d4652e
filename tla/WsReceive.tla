----------------------------- MODULE WsReceive ------------------------------
(***************************************************************************)
(* PsychicWebSocketHandler::handleRequest receives one frame: its header,  *)
(* then, if it has a payload, memory for it, then the payload; and hands   *)
(* it to the application.  The memory is the heap's, or, in a build with   *)
(* PSYCHIC_WS_RX_STATIC_BUFFER, one buffer under one mutex.  Frames are    *)
(* received by the httpd task or, in an ENABLE_ASYNC build, by the workers.*)
(*                                                                         *)
(* What esp-idf has read of a frame does not come again: a frame that is   *)
(* left half read must be the last of its connection.                      *)
(***************************************************************************)
EXTENDS Naturals, FiniteSets

CONSTANTS
  Httpd,    \* the task of esp_http_server
  Workers,  \* the tasks of the worker pool, used by ENABLE_ASYNC builds
  Conns,    \* WebSocket connections
  MaxMade   \* bound on the mutexes ever made

Tasks == Workers \cup {Httpd}

ASSUME TasksAssumption == Httpd \notin Workers
ASSUME MadeAssumption == MaxMade \in Nat \ {0}

\* The build options; a static buffer requires a cap on the frame's size.
Builds == {b \in [static: BOOLEAN, cap: BOOLEAN, async: BOOLEAN] : b.static => b.cap}

\* A frame as httpd_ws_recv_frame reports it: its length against the cap, and whether
\* the peer has sent such a frame.
Frames == [size: {"none", "fits", "big"}, sent: BOOLEAN]
NoFrame == [size |-> "none", sent |-> TRUE]

NoMutex == 0
Nobody == "nobody"
NoConn == "no connection"

ASSUME NamesAssumption == Nobody \notin Tasks /\ NoConn \notin Conns

VARIABLES
  build,   \* the options the program was built with
  conn,    \* connection |-> closed, ready for its next frame, or lent to a task
  half,    \* the connections whose next byte is not the first of a frame
  pc,      \* task |-> where it is in handleRequest
  at,      \* task |-> the connection it serves
  frame,   \* task |-> the frame it has the header of
  ret,     \* task |-> what handleRequest will return
  mutex,   \* s_ws_rx_mutex
  owner,   \* mutex |-> the task that has taken it
  made,    \* how many mutexes have been made
  buffer,  \* s_ws_rx_buf is there
  want,    \* task |-> the mutex it waits for
  alone,   \* no two tasks have been in psychic_ws_preinit_rx_buf at a time
  fault    \* a mutex was given by a task that does not hold it, or the buffer was used
           \* while s_ws_rx_buf was NULL

vars == <<build, conn, half, pc, at, frame, ret, mutex, owner, made, buffer, want, alone, fault>>

\* pc of a task in psychic_ws_preinit_rx_buf
Preparing == {"preinit", "create", "allocbuf"}
\* pc of a task that uses the static buffer, if it has one
Reading == {"payload", "handle", "give"}

TypeOK ==
  /\ build \in Builds
  /\ conn \in [Conns -> {"closed", "ready", "lent"}]
  /\ half \subseteq Conns
  /\ pc \in [Tasks -> {"idle", "header", "calloc", "check", "avail", "take", "leave"} \cup Preparing \cup Reading]
  /\ at \in [Tasks -> Conns \cup {NoConn}]
  /\ frame \in [Tasks -> Frames]
  /\ ret \in [Tasks -> {"ok", "fail"}]
  /\ made \in 0 .. MaxMade /\ mutex \in 0 .. made
  /\ owner \in [1 .. MaxMade -> Tasks \cup {Nobody}]
  /\ buffer \in BOOLEAN
  /\ want \in [Tasks -> 0 .. made]
  /\ alone \in BOOLEAN /\ fault \in BOOLEAN
  \* a connection is lent to one task, which serves it until it leaves
  /\ \A t \in Tasks : pc[t] = "idle" <=> at[t] = NoConn
  /\ \A c \in Conns : conn[c] = "lent" <=> \E t \in Tasks : at[t] = c
  /\ \A t, u \in Tasks : at[t] = at[u] => t = u \/ at[t] = NoConn

\* start() has made the mutex and the buffer, as far as there was memory, and the
\* handshakes are over.
Init ==
  /\ build \in Builds
  /\ made \in IF build.static THEN {0, 1} ELSE {0}
  /\ buffer \in IF made = 1 THEN BOOLEAN ELSE {FALSE}
  /\ mutex = made
  /\ conn = [c \in Conns |-> "ready"]
  /\ half = {}
  /\ pc = [t \in Tasks |-> "idle"]
  /\ at = [t \in Tasks |-> NoConn]
  /\ frame = [t \in Tasks |-> NoFrame]
  /\ ret = [t \in Tasks |-> "ok"]
  /\ owner = [m \in 1 .. MaxMade |-> Nobody]
  /\ want = [t \in Tasks |-> NoMutex]
  /\ alone = TRUE /\ fault = FALSE

-----------------------------------------------------------------------------
(* esp-idf and the way of a frame to its task.                             *)

\* The handshake of the next client: the handler returns before it receives anything.
Connect(c) ==
  /\ ~fault /\ conn[c] = "closed"
  /\ conn' = [conn EXCEPT ![c] = "ready"]
  /\ half' = half \ {c}
  /\ UNCHANGED <<build, pc, at, frame, ret, mutex, owner, made, buffer, want, alone, fault>>

\* The httpd task handles one request at a time.  In an ENABLE_ASYNC build it
\* hands them all to workers.
Serves(t) == t = Httpd <=> ~build.async

\* The first byte of a frame has come, and the request it makes reaches its task.
Arrive(t, c) ==
  /\ ~fault /\ conn[c] = "ready" /\ Serves(t) /\ pc[t] = "idle"
  /\ conn' = [conn EXCEPT ![c] = "lent"]
  /\ at' = [at EXCEPT ![t] = c]
  /\ pc' = [pc EXCEPT ![t] = "header"]
  /\ UNCHANGED <<build, half, frame, ret, mutex, owner, made, buffer, want, alone, fault>>

\* All workers are busy: requestCallback sends "503 Busy" and returns ESP_OK, and
\* the frame stays where it is, but for its first byte.
Refuse(c) ==
  /\ ~fault /\ conn[c] = "ready" /\ build.async
  /\ \A w \in Workers : pc[w] # "idle"
  /\ half' = half \cup {c}
  /\ UNCHANGED <<build, conn, pc, at, frame, ret, mutex, owner, made, buffer, want, alone, fault>>

-----------------------------------------------------------------------------
(* handleRequest                                                           *)

At(t, place) == ~fault /\ pc[t] = place
Goto(t, place) == pc' = [pc EXCEPT ![t] = place]

\* A return with an error: what the frame has left unread is noted.
Abandon(t) ==
  /\ Goto(t, "leave")
  /\ ret' = [ret EXCEPT ![t] = "fail"]
  /\ half' = half \cup {at[t]}

\* PSYCHIC_WS_MAX_FRAME_SIZE
TooBig(f) == build.cap /\ f.size = "big"

\* httpd_ws_recv_frame with max_len 0: the length, unless the socket fails.  On a
\* half-read connection any bytes make a header.
ReadHeader(t, f) ==
  /\ At(t, "header")
  /\ f.sent = (at[t] \notin half)
  /\ ~TooBig(f)
  /\ frame' = [frame EXCEPT ![t] = f]
  /\ Goto(t, IF f.size = "none" THEN "handle" ELSE IF build.static THEN "check" ELSE "calloc")
  /\ UNCHANGED <<build, conn, half, at, ret, mutex, owner, made, buffer, want, alone, fault>>

\* The socket failed, or the frame is above the cap.
RejectHeader(t) ==
  /\ At(t, "header")
  /\ Abandon(t)
  /\ UNCHANGED <<build, conn, at, frame, mutex, owner, made, buffer, want, alone, fault>>

\* calloc of a payload, which may fail
Calloc(t) ==
  /\ At(t, "calloc")
  /\ \/ Goto(t, "payload") /\ UNCHANGED <<ret, half>>
     \/ Abandon(t)
  /\ UNCHANGED <<build, conn, at, frame, mutex, owner, made, buffer, want, alone, fault>>

\* if (!s_ws_rx_mutex) psychic_ws_preinit_rx_buf();
Check(t) ==
  /\ At(t, "check")
  /\ IF mutex = NoMutex
     THEN Goto(t, "preinit") /\ alone' = (alone /\ \A u \in Tasks : pc[u] \notin Preparing)
     ELSE Goto(t, "avail") /\ UNCHANGED alone
  /\ UNCHANGED <<build, conn, half, at, frame, ret, mutex, owner, made, buffer, want, fault>>

\* if (s_ws_rx_mutex && !s_ws_rx_buf)
BufferNext == IF mutex' # NoMutex /\ ~buffer THEN "allocbuf" ELSE "avail"

\* psychic_ws_preinit_rx_buf() looks at the mutex once more.
Preinit(t) ==
  /\ At(t, "preinit")
  /\ UNCHANGED mutex
  /\ Goto(t, IF mutex = NoMutex THEN "create" ELSE BufferNext)
  /\ UNCHANGED <<build, conn, half, at, frame, ret, owner, made, buffer, want, alone, fault>>

\* s_ws_rx_mutex = xSemaphoreCreateMutex(), which returns NULL without memory
Create(t) ==
  /\ At(t, "create")
  /\ \/ mutex' = NoMutex /\ UNCHANGED made
     \/ made < MaxMade /\ made' = made + 1 /\ mutex' = made'
  /\ Goto(t, BufferNext)
  /\ UNCHANGED <<build, conn, half, at, frame, ret, owner, buffer, want, alone, fault>>

\* s_ws_rx_buf = heap_caps_malloc(), whether or not another task has made one meanwhile
AllocBuf(t) ==
  /\ At(t, "allocbuf")
  /\ buffer' \in BOOLEAN
  /\ Goto(t, "avail")
  /\ UNCHANGED <<build, conn, half, at, frame, ret, mutex, owner, made, want, alone, fault>>

\* Without mutex or buffer the frame is dropped: ESP_ERR_NO_MEM.
Avail(t) ==
  /\ At(t, "avail")
  /\ IF mutex = NoMutex \/ ~buffer
     THEN Abandon(t) /\ UNCHANGED want
     ELSE /\ Goto(t, "take")
          /\ want' = [want EXCEPT ![t] = mutex]
          /\ UNCHANGED <<ret, half>>
  /\ UNCHANGED <<build, conn, at, frame, mutex, owner, made, buffer, alone, fault>>

\* Take as it would be with a timeout that is not looked at
TakeTimesOut(t) ==
  /\ At(t, "take")
  /\ IF owner[want[t]] = Nobody THEN owner' = [owner EXCEPT ![want[t]] = t] ELSE UNCHANGED owner
  /\ want' = [want EXCEPT ![t] = NoMutex]
  /\ Goto(t, "payload")
  /\ UNCHANGED <<build, conn, half, at, frame, ret, mutex, made, buffer, alone, fault>>

\* xSemaphoreTake(portMAX_DELAY) comes back with the mutex, and memset clears the buffer.
Take(t) ==
  /\ At(t, "take") /\ owner[want[t]] = Nobody
  /\ owner' = [owner EXCEPT ![want[t]] = t]
  /\ want' = [want EXCEPT ![t] = NoMutex]
  /\ Goto(t, "payload")
  /\ fault' = ~buffer
  /\ UNCHANGED <<build, conn, half, at, frame, ret, mutex, made, buffer, alone>>

\* The second httpd_ws_recv_frame.
ReadPayload(t) ==
  /\ At(t, "payload")
  /\ Goto(t, "handle")
  /\ UNCHANGED <<build, conn, half, at, frame, ret, mutex, owner, made, buffer, want, alone, fault>>

\* LosePayload as it would be if the mutex were kept.
LosePayloadLocked(t) ==
  /\ At(t, "payload")
  /\ Abandon(t)
  /\ UNCHANGED <<build, conn, at, frame, mutex, owner, made, buffer, want, alone, fault>>

\* The second httpd_ws_recv_frame fails; the error path gives the memory back.
LosePayload(t) ==
  /\ At(t, "payload")
  /\ Goto(t, "give")
  /\ ret' = [ret EXCEPT ![t] = "fail"]
  /\ half' = half \cup {at[t]}
  /\ UNCHANGED <<build, conn, at, frame, mutex, owner, made, buffer, want, alone, fault>>

\* A ping is answered (it comes here only with handle_ws_control_frames, a field of
\* my_uri that on() leaves as it finds it), data goes to _onFrame; either may fail.
Handle(t) ==
  /\ At(t, "handle")
  /\ \E r \in {"ok", "fail"} : ret' = [ret EXCEPT ![t] = r]
  /\ Goto(t, "give")
  /\ UNCHANGED <<build, conn, half, at, frame, mutex, owner, made, buffer, want, alone, fault>>

\* ws_rx_locked
Locked(t) == build.static /\ frame[t].size # "none"

\* xSemaphoreGive(s_ws_rx_mutex), or free(buf).  FreeRTOS does not take a mutex back
\* from a task that is not its holder.
Give(t) ==
  /\ At(t, "give")
  /\ IF Locked(t)
     THEN IF mutex # NoMutex /\ owner[mutex] = t
          THEN owner' = [owner EXCEPT ![mutex] = Nobody] /\ UNCHANGED fault
          ELSE fault' = TRUE /\ UNCHANGED owner
     ELSE UNCHANGED <<owner, fault>>
  /\ frame' = [frame EXCEPT ![t] = NoFrame]
  /\ Goto(t, "leave")
  /\ UNCHANGED <<build, conn, half, at, ret, mutex, made, buffer, want, alone>>

\* Leave as it would be if a failed handler did not end its session
LeaveOpen(t) ==
  /\ At(t, "leave")
  /\ conn' = [conn EXCEPT ![at[t]] = "ready"]
  /\ at' = [at EXCEPT ![t] = NoConn]
  /\ ret' = [ret EXCEPT ![t] = "ok"]
  /\ Goto(t, "idle")
  /\ UNCHANGED <<build, half, frame, mutex, owner, made, buffer, want, alone, fault>>

\* On the httpd task esp-idf closes the session of a handler that failed.  A worker
\* does not look at what the handler returned.
Leave(t) ==
  /\ At(t, "leave")
  /\ conn' = [conn EXCEPT ![at[t]] = IF t = Httpd /\ ret[t] = "fail" THEN "closed" ELSE "ready"]
  /\ at' = [at EXCEPT ![t] = NoConn]
  /\ ret' = [ret EXCEPT ![t] = "ok"]
  /\ Goto(t, "idle")
  /\ UNCHANGED <<build, half, frame, mutex, owner, made, buffer, want, alone, fault>>

Faulted == fault /\ UNCHANGED vars

\* The steps that wait for nothing but memory or the socket's timeout
Step(t) ==
  \/ \E f \in Frames : ReadHeader(t, f)
  \/ RejectHeader(t) \/ Calloc(t)
  \/ Check(t) \/ Preinit(t) \/ Create(t) \/ AllocBuf(t) \/ Avail(t)
  \/ ReadPayload(t) \/ LosePayload(t) \/ Handle(t) \/ Give(t) \/ Leave(t)

Next ==
  \/ \E c \in Conns : Connect(c) \/ Refuse(c)
  \/ \E t \in Tasks, c \in Conns : Arrive(t, c)
  \/ \E t \in Tasks : Step(t) \/ Take(t)
  \/ Faulted

Spec == Init /\ [][Next]_vars

\* esp-idf's receive times out, the application's callback returns, and FreeRTOS gives
\* a mutex that comes back again and again to each of the tasks of one priority.  (The
\* place a task leaves tells whose step it is.)
Moving(t) ==
  /\ ~fault /\ pc[t] \notin {"idle", "take"}
  /\ \E place \in {"idle", "calloc", "check", "avail", "take", "leave"} \cup Preparing \cup Reading :
       place # pc[t] /\ Goto(t, place)
Taking(t) == At(t, "take") /\ owner[want[t]] = Nobody /\ Goto(t, "payload")
FairSpec == Spec /\ \A t \in Tasks : WF_pc(Moving(t)) /\ SF_pc(Taking(t))

-----------------------------------------------------------------------------
(* Properties                                                              *)

Readers == {t \in Tasks : pc[t] \in Reading /\ Locked(t)}

\* The state has its types; and however the workers take turns and whichever way a frame
\* ends, the static buffer holds the frame of one task at a time, that task has the mutex,
\* no task keeps it beyond its frame, and the buffer is there.  Not so when two workers
\* have been in psychic_ws_preinit_rx_buf at once, which start() prevents if it has memory
\* for the mutex: without a lock they may make one each, or a malloc that fails may
\* overwrite the pointer to the buffer of the other.
ReadersLocked ==
  /\ ~fault
  /\ \A t \in Tasks : t \in Readers <=> \E m \in 1 .. MaxMade : owner[m] = t
  /\ \A t, u \in Readers : t = u
OneReader == TypeOK /\ (alone => ReadersLocked)

\* What the application's onFrame is given is a frame the peer has sent: a frame that
\* was left half read ends its connection.  (Not so in ENABLE_ASYNC builds.)
FramesAsSent ==
  ~build.async => \A t \in Tasks : pc[t] = "handle" => frame[t].sent

\* A task that has begun with a frame comes to its end: it never waits for good.
FrameEnds == \A t \in Tasks : (pc[t] = "header") ~> (pc[t] = "idle" \/ ~alone)

=============================================================================
