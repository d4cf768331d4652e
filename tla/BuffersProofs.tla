--------------------------- MODULE BuffersProofs ----------------------------
(***************************************************************************)
(* Proofs about the two buffers of a request: the one a frame is received  *)
(* into (WsReceive) and the one a long response is printed into (Output).  *)
(* For any number of workers and connections, the static buffer has one    *)
(* reader at a time, and the httpd task gives the application no frame     *)
(* that the peer has not sent. For any text, parameters and buffer size, a *)
(* long response ends once, is sent in full chunks unless it is flushed,   *)
(* and is what its source says.                                            *)
(***************************************************************************)
EXTENDS WsReceive, Output, ListsProofs

-----------------------------------------------------------------------------
(* Receiving frames                                                        *)

\* The two halves of TypeOK: the types, and who has which connection.
Types ==
  /\ build \in Builds
  /\ conn \in [Conns -> {"closed", "ready", "lent"}]
  /\ half \subseteq Conns
  /\ pc \in [Tasks -> {"idle", "header", "calloc", "check", "avail", "take", "leave"} \cup Preparing \cup Reading]
  /\ at \in [Tasks -> Conns \cup {NoConn}]
  /\ frame \in [Tasks -> Frames]
  /\ ret \in [Tasks -> {"ok", "fail"}]
  /\ made \in 0 .. MaxMade /\ mutex \in 0 .. made
  /\ owner \in [1 .. MaxMade -> Tasks \cup {Nobody}]
  /\ buffer \in BOOLEAN
  /\ want \in [Tasks -> 0 .. made]
  /\ alone \in BOOLEAN /\ fault \in BOOLEAN

Lending ==
  /\ \A t \in Tasks : pc[t] = "idle" <=> at[t] = NoConn
  /\ \A c \in Conns : conn[c] = "lent" <=> \E t \in Tasks : at[t] = c
  /\ \A t, u \in Tasks : at[t] = at[u] => t = u \/ at[t] = NoConn

LEMMA TypeOKParts == TypeOK <=> Types /\ Lending
  BY DEF TypeOK, Types, Lending

\* A task outside its callbacks serves a connection, as long as its next place is not "idle".
LEMMA StaysServing ==
  ASSUME Types, Lending, NEW t \in Tasks, NEW place,
         pc[t] # "idle", place # "idle", Goto(t, place), UNCHANGED <<conn, at>>
  PROVE  Lending'
<1>1. \A u \in Tasks : pc'[u] = "idle" <=> pc[u] = "idle"
  BY DEF Types, Goto
<1> QED
  BY <1>1 DEF Lending

LEMMA InitTypeOK == Init => TypeOK
<1> SUFFICES ASSUME Init PROVE TypeOK
  OBVIOUS
<1>1. /\ build \in Builds /\ half \subseteq Conns
      /\ alone \in BOOLEAN /\ fault \in BOOLEAN
  BY DEF Init
<1>a. /\ made \in {0, 1} /\ mutex = made
      /\ buffer \in BOOLEAN
  BY DEF Init
<1>b. made \in 0 .. MaxMade /\ mutex \in 0 .. made
  BY <1>a, MadeAssumption
<1>2. /\ frame \in [Tasks -> Frames]
      /\ owner \in [1 .. MaxMade -> Tasks \cup {Nobody}]
      /\ want \in [Tasks -> 0 .. made]
  BY <1>b DEF Init, Frames, NoFrame, NoMutex
<1>3. Types
  BY <1>1, <1>a, <1>b, <1>2 DEF Init, Types
<1>4. Lending
  BY NamesAssumption DEF Init, Lending
<1> QED
  BY <1>3, <1>4, TypeOKParts

LEMMA NextTypeOK == TypeOK /\ [Next]_vars => TypeOK'
<1> SUFFICES ASSUME Types, Lending, [Next]_vars PROVE Types' /\ Lending'
  BY TypeOKParts DEF TypeOK, Types, Lending
<1> USE DEF Preparing, Reading
<1>1. ASSUME NEW c \in Conns, Connect(c) PROVE Types' /\ Lending'
  BY <1>1 DEF Connect, Types, Lending
<1>2. ASSUME NEW c \in Conns, Refuse(c) PROVE Types' /\ Lending'
  BY <1>2 DEF Refuse, Types, Lending
<1>3. ASSUME NEW t \in Tasks, NEW c \in Conns, Arrive(t, c) PROVE Types' /\ Lending'
  <2>1. Types'
    BY <1>3 DEF Arrive, Types
  <2>2. Lending'
    BY <1>3, NamesAssumption DEF Arrive, Types, Lending
  <2> QED
    BY <2>1, <2>2
<1>4. ASSUME NEW t \in Tasks, NEW f \in Frames, ReadHeader(t, f) PROVE Types' /\ Lending'
  <2>1. PICK place \in {"handle", "check", "calloc"} : Goto(t, place)
    BY <1>4 DEF ReadHeader
  <2>2. Types'
    BY <1>4, <2>1 DEF ReadHeader, Goto, Types
  <2> QED
    BY <1>4, <2>1, <2>2, StaysServing DEF ReadHeader, At
<1>5. ASSUME NEW t \in Tasks, RejectHeader(t) PROVE Types' /\ Lending'
  <2>1. at[t] \in Conns
    BY <1>5 DEF RejectHeader, At, Types, Lending
  <2>2. Types'
    BY <1>5, <2>1 DEF RejectHeader, Abandon, Goto, Types
  <2> QED
    BY <1>5, <2>2, StaysServing DEF RejectHeader, Abandon, At
<1>6. ASSUME NEW t \in Tasks, Calloc(t) PROVE Types' /\ Lending'
  <2>1. at[t] \in Conns
    BY <1>6 DEF Calloc, At, Types, Lending
  <2>2. Types'
    BY <1>6, <2>1 DEF Calloc, Abandon, Goto, Types
  <2> QED
    BY <1>6, <2>2, StaysServing DEF Calloc, Abandon, At
<1>7. ASSUME NEW t \in Tasks, Check(t) PROVE Types' /\ Lending'
  <2>1. Types'
    BY <1>7 DEF Check, Goto, Types
  <2> QED
    BY <1>7, <2>1, StaysServing DEF Check, At
<1>8. ASSUME NEW t \in Tasks, Preinit(t) PROVE Types' /\ Lending'
  <2>1. PICK place \in {"create", "allocbuf", "avail"} : Goto(t, place)
    BY <1>8 DEF Preinit, BufferNext
  <2>2. Types'
    BY <1>8, <2>1 DEF Preinit, Goto, Types
  <2> QED
    BY <1>8, <2>1, <2>2, StaysServing DEF Preinit, At
<1>9. ASSUME NEW t \in Tasks, Create(t) PROVE Types' /\ Lending'
  <2>1. PICK place \in {"allocbuf", "avail"} : Goto(t, place)
    BY <1>9 DEF Create, BufferNext
  <2>2. /\ made' \in 0 .. MaxMade /\ mutex' \in 0 .. made'
        /\ want' \in [Tasks -> 0 .. made']
    BY <1>9, MadeAssumption DEF Create, Types, NoMutex
  <2>3. Types'
    BY <1>9, <2>1, <2>2 DEF Create, Goto, Types
  <2> QED
    BY <1>9, <2>1, <2>3, StaysServing DEF Create, At
<1>10. ASSUME NEW t \in Tasks, AllocBuf(t) PROVE Types' /\ Lending'
  <2>1. Types'
    BY <1>10 DEF AllocBuf, Goto, Types
  <2> QED
    BY <1>10, <2>1, StaysServing DEF AllocBuf, At
<1>11. ASSUME NEW t \in Tasks, Avail(t) PROVE Types' /\ Lending'
  <2>1. at[t] \in Conns
    BY <1>11 DEF Avail, At, Types, Lending
  <2>2. CASE mutex = NoMutex \/ ~buffer
    <3>1. Abandon(t) /\ want' = want
      BY <1>11, <2>2 DEF Avail
    <3> QED
      BY <1>11, <2>1, <3>1, StaysServing DEF Avail, Abandon, Goto, Types, At
  <2>3. CASE ~(mutex = NoMutex \/ ~buffer)
    <3>1. /\ Goto(t, "take") /\ ret' = ret /\ half' = half
          /\ want' = [want EXCEPT ![t] = mutex]
      BY <1>11, <2>3 DEF Avail
    <3>2. want' \in [Tasks -> 0 .. made']
      BY <1>11, <3>1 DEF Avail, Types
    <3> QED
      BY <1>11, <3>1, <3>2, StaysServing DEF Avail, Goto, Types, At
  <2> QED
    BY <2>2, <2>3
<1>12. ASSUME NEW t \in Tasks, Take(t) PROVE Types' /\ Lending'
  <2>1. want' \in [Tasks -> 0 .. made']
    BY <1>12 DEF Take, Types, NoMutex
  <2>2. owner' \in [1 .. MaxMade -> Tasks \cup {Nobody}]
    BY <1>12 DEF Take, Types
  <2>3. Types'
    BY <1>12, <2>1, <2>2 DEF Take, Goto, Types
  <2> QED
    BY <1>12, <2>3, StaysServing DEF Take, At
<1>13. ASSUME NEW t \in Tasks, ReadPayload(t) PROVE Types' /\ Lending'
  <2>1. Types'
    BY <1>13 DEF ReadPayload, Goto, Types
  <2> QED
    BY <1>13, <2>1, StaysServing DEF ReadPayload, At
<1>14. ASSUME NEW t \in Tasks, LosePayload(t) PROVE Types' /\ Lending'
  <2>1. at[t] \in Conns
    BY <1>14 DEF LosePayload, At, Types, Lending
  <2>2. Types'
    BY <1>14, <2>1 DEF LosePayload, Goto, Types
  <2> QED
    BY <1>14, <2>2, StaysServing DEF LosePayload, At
<1>15. ASSUME NEW t \in Tasks, Handle(t) PROVE Types' /\ Lending'
  <2>1. Types'
    BY <1>15 DEF Handle, Goto, Types
  <2> QED
    BY <1>15, <2>1, StaysServing DEF Handle, At
<1>16. ASSUME NEW t \in Tasks, Give(t) PROVE Types' /\ Lending'
  <2>1. Types'
    BY <1>16 DEF Give, Goto, Types, NoFrame, Frames
  <2> QED
    BY <1>16, <2>1, StaysServing DEF Give, At
<1>17. ASSUME NEW t \in Tasks, Leave(t) PROVE Types' /\ Lending'
  <2>1. at[t] \in Conns
    BY <1>17 DEF Leave, At, Types, Lending
  <2>2. Types'
    BY <1>17, <2>1 DEF Leave, Goto, Types
  <2>3. Lending'
    BY <1>17, <2>1, NamesAssumption DEF Leave, At, Goto, Types, Lending
  <2> QED
    BY <2>2, <2>3
<1>18. CASE UNCHANGED vars
  BY <1>18 DEF vars, Types, Lending
<1> QED
  BY <1>1, <1>2, <1>3, <1>4, <1>5, <1>6, <1>7, <1>8, <1>9, <1>10, <1>11, <1>12, <1>13, <1>14,
     <1>15, <1>16, <1>17, <1>18
  DEF Next, Step, Faulted

\* Whatever the workers, the memory and the socket do, the state has its types and each
\* lent connection has one task.
THEOREM ReceiveTypeCorrect == Spec => []TypeOK
  BY InitTypeOK, NextTypeOK, PTL DEF Spec

-----------------------------------------------------------------------------
(* The static buffer.                                                      *)

\* The frame that a task is on its way to read into the static buffer has a payload.
PayloadBound ==
  \A t \in Tasks :
    /\ pc[t] \in {"check", "avail", "take"} \cup Preparing => Locked(t)
    /\ pc[t] = "calloc" => ~build.static

\* While no two tasks have been in psychic_ws_preinit_rx_buf at once, there is one mutex
\* at most, which is there for good, as is the buffer; and the owner of the mutex is the
\* reader of the buffer.
Mutex ==
  /\ ~fault
  /\ made \in {0, 1} /\ mutex = made
  /\ \A t, u \in Tasks : pc[t] \in Preparing /\ pc[u] \in Preparing => t = u
  /\ \A t \in Tasks :
       /\ pc[t] = "create" => mutex = 0
       /\ pc[t] = "allocbuf" => ~buffer
       /\ pc[t] = "take" => want[t] = 1 /\ mutex = 1 /\ buffer
       /\ t \in Readers => mutex = 1 /\ buffer
  /\ \A m \in 2 .. MaxMade : owner[m] = Nobody
  /\ \A t \in Tasks : t \in Readers <=> owner[1] = t

LockInv == PayloadBound /\ (alone => Mutex)

LEMMA NextPayloadBound == TypeOK /\ PayloadBound /\ [Next]_vars => PayloadBound'
<1> SUFFICES ASSUME Types, Lending, PayloadBound, [Next]_vars PROVE PayloadBound'
  BY TypeOKParts
<1>1. ASSUME NEW c \in Conns, Connect(c) PROVE PayloadBound'
  BY <1>1 DEF Connect, At, Goto, Types, PayloadBound, Locked, Preparing, Reading, NoFrame
<1>2. ASSUME NEW c \in Conns, Refuse(c) PROVE PayloadBound'
  BY <1>2 DEF Refuse, At, Goto, Types, PayloadBound, Locked, Preparing, Reading, NoFrame
<1>3. ASSUME NEW t \in Tasks, NEW c \in Conns, Arrive(t, c) PROVE PayloadBound'
  BY <1>3 DEF Arrive, At, Goto, Types, PayloadBound, Locked, Preparing, Reading, NoFrame
<1>4. ASSUME NEW t \in Tasks, NEW f \in Frames, ReadHeader(t, f) PROVE PayloadBound'
  BY <1>4 DEF ReadHeader, At, Goto, Types, PayloadBound, Locked, Preparing, Reading, NoFrame
<1>5. ASSUME NEW t \in Tasks, RejectHeader(t) PROVE PayloadBound'
  BY <1>5 DEF RejectHeader, At, Abandon, Goto, Types, PayloadBound, Locked, Preparing, Reading, NoFrame
<1>6. ASSUME NEW t \in Tasks, Calloc(t) PROVE PayloadBound'
  BY <1>6 DEF Calloc, At, Abandon, Goto, Types, PayloadBound, Locked, Preparing, Reading, NoFrame
<1>7. ASSUME NEW t \in Tasks, Check(t) PROVE PayloadBound'
  BY <1>7 DEF Check, At, Goto, Types, PayloadBound, Locked, Preparing, Reading, NoFrame
<1>8. ASSUME NEW t \in Tasks, Preinit(t) PROVE PayloadBound'
  BY <1>8 DEF Preinit, At, BufferNext, Goto, Types, PayloadBound, Locked, Preparing, Reading, NoFrame
<1>9. ASSUME NEW t \in Tasks, Create(t) PROVE PayloadBound'
  BY <1>9 DEF Create, At, BufferNext, Goto, Types, PayloadBound, Locked, Preparing, Reading, NoFrame
<1>10. ASSUME NEW t \in Tasks, AllocBuf(t) PROVE PayloadBound'
  BY <1>10 DEF AllocBuf, At, Goto, Types, PayloadBound, Locked, Preparing, Reading, NoFrame
<1>11. ASSUME NEW t \in Tasks, Avail(t) PROVE PayloadBound'
  BY <1>11 DEF Avail, At, Abandon, Goto, Types, PayloadBound, Locked, Preparing, Reading, NoFrame
<1>12. ASSUME NEW t \in Tasks, Take(t) PROVE PayloadBound'
  BY <1>12 DEF Take, At, Goto, Types, PayloadBound, Locked, Preparing, Reading, NoFrame
<1>13. ASSUME NEW t \in Tasks, ReadPayload(t) PROVE PayloadBound'
  BY <1>13 DEF ReadPayload, At, Goto, Types, PayloadBound, Locked, Preparing, Reading, NoFrame
<1>14. ASSUME NEW t \in Tasks, LosePayload(t) PROVE PayloadBound'
  BY <1>14 DEF LosePayload, At, Goto, Types, PayloadBound, Locked, Preparing, Reading, NoFrame
<1>15. ASSUME NEW t \in Tasks, Handle(t) PROVE PayloadBound'
  BY <1>15 DEF Handle, At, Goto, Types, PayloadBound, Locked, Preparing, Reading, NoFrame
<1>16. ASSUME NEW t \in Tasks, Give(t) PROVE PayloadBound'
  BY <1>16 DEF Give, At, Goto, Types, PayloadBound, Locked, Preparing, Reading, NoFrame
<1>17. ASSUME NEW t \in Tasks, Leave(t) PROVE PayloadBound'
  BY <1>17 DEF Leave, At, Goto, Types, PayloadBound, Locked, Preparing, Reading, NoFrame
<1>18. CASE UNCHANGED vars
  BY <1>18 DEF vars, Types, PayloadBound, Locked, Preparing, Reading, NoFrame
<1> QED
  BY <1>1, <1>2, <1>3, <1>4, <1>5, <1>6, <1>7, <1>8, <1>9, <1>10, <1>11, <1>12, <1>13, <1>14, <1>15, <1>16, <1>17, <1>18
  DEF Next, Step, Faulted

LEMMA NextMutex == TypeOK /\ Mutex /\ PayloadBound /\ alone' /\ [Next]_vars => Mutex'
<1> SUFFICES ASSUME Types, Lending, Mutex /\ PayloadBound /\ alone', [Next]_vars PROVE Mutex'
  BY TypeOKParts
<1>1. ASSUME NEW c \in Conns, Connect(c) PROVE Mutex'
  BY <1>1 DEF Connect, At, Goto, Types, Mutex, PayloadBound, Readers, Locked, Preparing, Reading, NoFrame, NoMutex, Nobody
<1>2. ASSUME NEW c \in Conns, Refuse(c) PROVE Mutex'
  BY <1>2 DEF Refuse, At, Goto, Types, Mutex, PayloadBound, Readers, Locked, Preparing, Reading, NoFrame, NoMutex, Nobody
<1>3. ASSUME NEW t \in Tasks, NEW c \in Conns, Arrive(t, c) PROVE Mutex'
  BY <1>3 DEF Arrive, At, Goto, Types, Mutex, PayloadBound, Readers, Locked, Preparing, Reading, NoFrame, NoMutex, Nobody
<1>4. ASSUME NEW t \in Tasks, NEW f \in Frames, ReadHeader(t, f) PROVE Mutex'
  BY <1>4 DEF ReadHeader, At, Goto, Types, Mutex, PayloadBound, Readers, Locked, Preparing, Reading, NoFrame, NoMutex, Nobody
<1>5. ASSUME NEW t \in Tasks, RejectHeader(t) PROVE Mutex'
  BY <1>5 DEF RejectHeader, At, Abandon, Goto, Types, Mutex, PayloadBound, Readers, Locked, Preparing, Reading, NoFrame, NoMutex, Nobody
<1>6. ASSUME NEW t \in Tasks, Calloc(t) PROVE Mutex'
  BY <1>6 DEF Calloc, At, Abandon, Goto, Types, Mutex, PayloadBound, Readers, Locked, Preparing, Reading, NoFrame, NoMutex, Nobody
<1>7. ASSUME NEW t \in Tasks, Check(t) PROVE Mutex'
  <2>1. /\ pc[t] = "check"
        /\ UNCHANGED <<build, frame, mutex, owner, made, buffer, want, fault>>
    BY <1>7 DEF Check, At
  <2>2. CASE pc' = [pc EXCEPT ![t] = "preinit"]
    <3>1. pc'[t] = "preinit"
      BY <2>2 DEF Types
    <3>2. mutex = NoMutex
      BY <1>7, <3>1 DEF Check, Goto, Types
    <3>3. \A u \in Tasks : pc[u] \notin Preparing
      BY <1>7, <3>2, Zenon DEF Check
    <3> QED
      BY <2>1, <2>2, <3>2, <3>3 DEF Types, Mutex, PayloadBound, Readers, Locked, Preparing, Reading, NoFrame, NoMutex, Nobody
  <2>3. CASE pc' = [pc EXCEPT ![t] = "avail"]
    BY <2>1, <2>3 DEF Types, Mutex, PayloadBound, Readers, Locked, Preparing, Reading, NoFrame, NoMutex, Nobody
  <2> QED
    BY <1>7, <2>2, <2>3, Zenon DEF Check, Goto
<1>8. ASSUME NEW t \in Tasks, Preinit(t) PROVE Mutex'
  BY <1>8 DEF Preinit, At, BufferNext, Goto, Types, Mutex, PayloadBound, Readers, Locked, Preparing, Reading, NoFrame, NoMutex, Nobody
<1>9. ASSUME NEW t \in Tasks, Create(t) PROVE Mutex'
  BY <1>9 DEF Create, At, BufferNext, Goto, Types, Mutex, PayloadBound, Readers, Locked, Preparing, Reading, NoFrame, NoMutex, Nobody
<1>10. ASSUME NEW t \in Tasks, AllocBuf(t) PROVE Mutex'
  BY <1>10 DEF AllocBuf, At, Goto, Types, Mutex, PayloadBound, Readers, Locked, Preparing, Reading, NoFrame, NoMutex, Nobody
<1>11. ASSUME NEW t \in Tasks, Avail(t) PROVE Mutex'
  BY <1>11 DEF Avail, At, Abandon, Goto, Types, Mutex, PayloadBound, Readers, Locked, Preparing, Reading, NoFrame, NoMutex, Nobody
<1>12. ASSUME NEW t \in Tasks, Take(t) PROVE Mutex'
  <2>1. want[t] = 1 /\ mutex = 1 /\ buffer /\ owner[1] = Nobody /\ Locked(t)
    BY <1>12 DEF Take, At, Mutex, PayloadBound
  <2>2. /\ owner' = [owner EXCEPT ![1] = t] /\ ~fault'
        /\ pc' = [pc EXCEPT ![t] = "payload"]
        /\ UNCHANGED <<build, frame, mutex, made, buffer>>
        /\ want' = [want EXCEPT ![t] = 0]
    BY <1>12, <2>1 DEF Take, Goto, NoMutex
  <2>3. 1 \in 1 .. MaxMade
    BY MadeAssumption
  <2>4. \A u \in Tasks : u \in Readers' <=> u \in Readers \/ u = t
    BY <2>1, <2>2 DEF Types, Readers, Locked, Reading
  <2>5. \A u \in Tasks : u \notin Readers
    BY <2>1, NamesAssumption DEF Mutex
  <2>6. \A u \in Tasks : u \in Readers' <=> owner'[1] = u
    BY <2>2, <2>3, <2>4, <2>5 DEF Types
  <2>7. \A m \in 2 .. MaxMade : owner'[m] = Nobody
    BY <2>2 DEF Mutex
  <2>8. pc' \in [Tasks -> {pc[u] : u \in Tasks} \cup {"payload"}] /\ \A u \in Tasks : pc'[u] = pc[u] \/ pc'[u] = "payload"
    BY <2>2 DEF Types
  <2>9. \A u, v \in Tasks : pc'[u] \in Preparing /\ pc'[v] \in Preparing => u = v
    BY <2>8 DEF Mutex, Preparing
  <2>10. \A u \in Tasks : /\ pc'[u] = "create" => mutex' = 0
                          /\ pc'[u] = "allocbuf" => ~buffer'
                          /\ pc'[u] = "take" => want'[u] = 1 /\ mutex' = 1 /\ buffer'
                          /\ u \in Readers' => mutex' = 1 /\ buffer'
    <3> SUFFICES ASSUME NEW u \in Tasks
                 PROVE  /\ pc'[u] = "create" => mutex' = 0
                        /\ pc'[u] = "allocbuf" => ~buffer'
                        /\ pc'[u] = "take" => want'[u] = 1 /\ mutex' = 1 /\ buffer'
                        /\ u \in Readers' => mutex' = 1 /\ buffer'
      OBVIOUS
    <3>1. pc'[u] = "take" => u # t
      BY <2>2 DEF Types
    <3> QED
      BY <2>1, <2>2, <2>4, <2>8, <3>1 DEF Mutex, Types
  <2>11. ~fault' /\ made' \in {0, 1} /\ mutex' = made'
    BY <2>2 DEF Mutex
  <2> QED
    BY <2>6, <2>7, <2>9, <2>10, <2>11 DEF Mutex
<1>13. ASSUME NEW t \in Tasks, ReadPayload(t) PROVE Mutex'
  BY <1>13 DEF ReadPayload, At, Goto, Types, Mutex, PayloadBound, Readers, Locked, Preparing, Reading, NoFrame, NoMutex, Nobody
<1>14. ASSUME NEW t \in Tasks, LosePayload(t) PROVE Mutex'
  BY <1>14 DEF LosePayload, At, Goto, Types, Mutex, PayloadBound, Readers, Locked, Preparing, Reading, NoFrame, NoMutex, Nobody
<1>15. ASSUME NEW t \in Tasks, Handle(t) PROVE Mutex'
  BY <1>15 DEF Handle, At, Goto, Types, Mutex, PayloadBound, Readers, Locked, Preparing, Reading, NoFrame, NoMutex, Nobody
<1>16. ASSUME NEW t \in Tasks, Give(t) PROVE Mutex'
  <2>1. /\ pc' = [pc EXCEPT ![t] = "leave"]
        /\ frame' = [frame EXCEPT ![t] = NoFrame]
        /\ pc[t] = "give"
        /\ UNCHANGED <<build, mutex, made, buffer, want>>
    BY <1>16 DEF Give, At, Goto
  <2>2. \A u \in Tasks : u \in Readers' <=> u \in Readers /\ u # t
    BY <2>1 DEF Types, Readers, Locked, Reading
  <2>3. CASE Locked(t)
    <3>1. t \in Readers /\ owner[1] = t /\ mutex = 1
      BY <2>1, <2>3 DEF Mutex, Readers, Reading
    <3>2. owner' = [owner EXCEPT ![1] = Nobody] /\ ~fault'
      BY <1>16, <2>3, <3>1 DEF Give, Mutex, NoMutex
    <3>3. \A u \in Tasks : u \in Readers' <=> owner'[1] = u
      BY <2>2, <3>1, <3>2, MadeAssumption, NamesAssumption DEF Mutex, Types
    <3>4. \A m \in 2 .. MaxMade : owner'[m] = Nobody
      BY <3>2 DEF Mutex
    <3> QED
      BY <2>1, <2>2, <3>2, <3>3, <3>4 DEF Mutex, Types, Preparing
  <2>4. CASE ~Locked(t)
    <3>1. UNCHANGED <<owner, fault>> /\ t \notin Readers
      BY <1>16, <2>4 DEF Give, Readers
    <3> QED
      BY <2>1, <2>2, <3>1 DEF Mutex, Types, Preparing
  <2> QED
    BY <2>3, <2>4
<1>17. ASSUME NEW t \in Tasks, Leave(t) PROVE Mutex'
  BY <1>17 DEF Leave, At, Goto, Types, Mutex, PayloadBound, Readers, Locked, Preparing, Reading, NoFrame, NoMutex, Nobody
<1>18. CASE UNCHANGED vars
  BY <1>18 DEF vars, Types, Mutex, PayloadBound, Readers, Locked, Preparing, Reading, NoFrame, NoMutex, Nobody
<1> QED
  BY <1>1, <1>2, <1>3, <1>4, <1>5, <1>6, <1>7, <1>8, <1>9, <1>10, <1>11, <1>12, <1>13, <1>14, <1>15, <1>16, <1>17, <1>18
  DEF Next, Step, Faulted

-----------------------------------------------------------------------------
(* The frames of the httpd task.                                           *)

\* Outside ENABLE_ASYNC builds, a half-read connection is closed or about to be.
HalfReadEnds ==
  ~build.async =>
  /\ \A t \in Tasks : pc[t] # "idle" => t = Httpd
  /\ \A c \in half :
       \/ conn[c] = "closed"
       \/ at[Httpd] = c /\ pc[Httpd] \in {"give", "leave"} /\ ret[Httpd] = "fail"
  /\ \A t \in Tasks :
       pc[t] \in {"calloc", "check", "avail", "take", "payload", "handle"} \cup Preparing => frame[t].sent

LEMMA NextHalfReadEnds == TypeOK /\ HalfReadEnds /\ [Next]_vars => HalfReadEnds'
<1> SUFFICES ASSUME Types, Lending, HalfReadEnds, [Next]_vars PROVE HalfReadEnds'
  BY TypeOKParts
<1>1. ASSUME NEW c \in Conns, Connect(c) PROVE HalfReadEnds'
  BY <1>1 DEF Connect, At, Goto, Types, Lending, HalfReadEnds, Serves, Preparing, Reading, NoFrame
<1>2. ASSUME NEW c \in Conns, Refuse(c) PROVE HalfReadEnds'
  BY <1>2 DEF Refuse, At, Goto, Types, Lending, HalfReadEnds, Serves, Preparing, Reading, NoFrame
<1>3. ASSUME NEW t \in Tasks, NEW c \in Conns, Arrive(t, c) PROVE HalfReadEnds'
  BY <1>3, SMTT(30) DEF Arrive, At, Goto, Types, Lending, HalfReadEnds, Serves, Preparing, Reading, NoFrame
<1>4. ASSUME NEW t \in Tasks, NEW f \in Frames, ReadHeader(t, f) PROVE HalfReadEnds'
  <2>1. /\ pc[t] = "header"
        /\ f.sent = (at[t] \notin half)
        /\ frame' = [frame EXCEPT ![t] = f]
        /\ UNCHANGED <<build, conn, half, at, ret>>
    BY <1>4, Zenon DEF ReadHeader, At
  <2>2. PICK place \in {"handle", "check", "calloc"} : pc' = [pc EXCEPT ![t] = place]
    BY <1>4 DEF ReadHeader, Goto
  <2>3. ~build.async => f.sent
    <3>1. SUFFICES ASSUME ~build.async, at[t] \in half PROVE FALSE
      BY <2>1, Zenon
    <3>2. t = Httpd /\ conn[at[t]] = "lent"
      BY <2>1, <3>1 DEF HalfReadEnds, Lending, Types
    <3> QED
      BY <2>1, <3>1, <3>2 DEF HalfReadEnds
  <2> QED
    BY <2>1, <2>2, <2>3 DEF Types, Lending, HalfReadEnds, Serves, Preparing, Reading, NoFrame
<1>5. ASSUME NEW t \in Tasks, RejectHeader(t) PROVE HalfReadEnds'
  BY <1>5 DEF RejectHeader, At, Abandon, Goto, Types, Lending, HalfReadEnds, Serves, Preparing, Reading, NoFrame
<1>6. ASSUME NEW t \in Tasks, Calloc(t) PROVE HalfReadEnds'
  <2>1. CASE Abandon(t)
    BY <1>6, <2>1 DEF Calloc, At, Abandon, Goto, Types, Lending, HalfReadEnds, Serves, Preparing, Reading, NoFrame
  <2>2. CASE Goto(t, "payload") /\ UNCHANGED <<ret, half>>
    BY <1>6, <2>2 DEF Calloc, At, Goto, Types, Lending, HalfReadEnds, Serves, Preparing, Reading, NoFrame
  <2> QED
    BY <1>6, <2>1, <2>2 DEF Calloc
<1>7. ASSUME NEW t \in Tasks, Check(t) PROVE HalfReadEnds'
  <2>1. /\ pc[t] = "check"
        /\ UNCHANGED <<build, conn, half, at, frame, ret>>
    BY <1>7 DEF Check, At
  <2>2. CASE pc' = [pc EXCEPT ![t] = "preinit"]
    BY <2>1, <2>2 DEF Types, Lending, HalfReadEnds, Serves, Preparing, Reading, NoFrame
  <2>3. CASE pc' = [pc EXCEPT ![t] = "avail"]
    BY <2>1, <2>3 DEF Types, Lending, HalfReadEnds, Serves, Preparing, Reading, NoFrame
  <2> QED
    BY <1>7, <2>2, <2>3, Zenon DEF Check, Goto
<1>8. ASSUME NEW t \in Tasks, Preinit(t) PROVE HalfReadEnds'
  BY <1>8 DEF Preinit, At, BufferNext, Goto, Types, Lending, HalfReadEnds, Serves, Preparing, Reading, NoFrame
<1>9. ASSUME NEW t \in Tasks, Create(t) PROVE HalfReadEnds'
  BY <1>9 DEF Create, At, BufferNext, Goto, Types, Lending, HalfReadEnds, Serves, Preparing, Reading, NoFrame
<1>10. ASSUME NEW t \in Tasks, AllocBuf(t) PROVE HalfReadEnds'
  BY <1>10 DEF AllocBuf, At, Goto, Types, Lending, HalfReadEnds, Serves, Preparing, Reading, NoFrame
<1>11. ASSUME NEW t \in Tasks, Avail(t) PROVE HalfReadEnds'
  <2>1. CASE mutex = NoMutex \/ ~buffer
    BY <1>11, <2>1 DEF Avail, At, Abandon, Goto, Types, Lending, HalfReadEnds, Serves, Preparing, Reading, NoFrame
  <2>2. CASE ~(mutex = NoMutex \/ ~buffer)
    BY <1>11, <2>2, SMTT(30) DEF Avail, At, Goto, Types, Lending, HalfReadEnds, Serves, Preparing, Reading, NoFrame
  <2> QED
    BY <1>11, <2>1, <2>2 DEF Avail
<1>12. ASSUME NEW t \in Tasks, Take(t) PROVE HalfReadEnds'
  BY <1>12 DEF Take, At, Goto, Types, Lending, HalfReadEnds, Serves, Preparing, Reading, NoFrame
<1>13. ASSUME NEW t \in Tasks, ReadPayload(t) PROVE HalfReadEnds'
  BY <1>13 DEF ReadPayload, At, Goto, Types, Lending, HalfReadEnds, Serves, Preparing, Reading, NoFrame
<1>14. ASSUME NEW t \in Tasks, LosePayload(t) PROVE HalfReadEnds'
  BY <1>14 DEF LosePayload, At, Goto, Types, Lending, HalfReadEnds, Serves, Preparing, Reading, NoFrame
<1>15. ASSUME NEW t \in Tasks, Handle(t) PROVE HalfReadEnds'
  BY <1>15 DEF Handle, At, Goto, Types, Lending, HalfReadEnds, Serves, Preparing, Reading, NoFrame
<1>16. ASSUME NEW t \in Tasks, Give(t) PROVE HalfReadEnds'
  BY <1>16 DEF Give, At, Goto, Types, Lending, HalfReadEnds, Serves, Preparing, Reading, NoFrame
<1>17. ASSUME NEW t \in Tasks, Leave(t) PROVE HalfReadEnds'
  BY <1>17, SMTT(30) DEF Leave, At, Goto, Types, Lending, HalfReadEnds, Serves, Preparing, Reading, NoFrame
<1>18. CASE UNCHANGED vars
  BY <1>18 DEF vars, Types, Lending, HalfReadEnds, Serves, Preparing, Reading, NoFrame
<1> QED
  BY <1>1, <1>2, <1>3, <1>4, <1>5, <1>6, <1>7, <1>8, <1>9, <1>10, <1>11, <1>12, <1>13, <1>14, <1>15, <1>16, <1>17, <1>18
  DEF Next, Step, Faulted

-----------------------------------------------------------------------------
(* The theorems.                                                           *)

LEMMA InitInvariants == Init => LockInv /\ HalfReadEnds
<1> SUFFICES ASSUME Init PROVE LockInv /\ HalfReadEnds
  OBVIOUS
<1>1. /\ \A t \in Tasks : pc[t] = "idle"
      /\ \A m \in 1 .. MaxMade : owner[m] = Nobody
      /\ made \in {0, 1} /\ mutex = made /\ ~fault /\ half = {}
  BY DEF Init
<1>2. PayloadBound /\ HalfReadEnds
  BY <1>1 DEF PayloadBound, HalfReadEnds, Preparing
<1>3. owner[1] = Nobody /\ \A m \in 2 .. MaxMade : owner[m] = Nobody
  BY <1>1, MadeAssumption
<1>4. Mutex
  BY <1>1, <1>3, NamesAssumption DEF Mutex, Preparing, Readers, Reading
<1> QED
  BY <1>2, <1>4 DEF LockInv

LEMMA NextLockInv == TypeOK /\ LockInv /\ [Next]_vars => LockInv'
<1> SUFFICES ASSUME TypeOK, LockInv, [Next]_vars PROVE LockInv'
  OBVIOUS
<1>1. PayloadBound'
  BY NextPayloadBound DEF LockInv
<1>2. alone' => alone
  <2>1. ASSUME NEW t \in Tasks, Check(t) PROVE alone' => alone
    BY <2>1, Zenon DEF Check
  <2>2. CASE \A t \in Tasks : ~Check(t)
    BY <2>2, Zenon
    DEF Next, Step, Faulted, vars, Connect, Refuse, Arrive, ReadHeader, RejectHeader, Calloc, Preinit,
        Create, AllocBuf, Avail, Take, ReadPayload, LosePayload, Handle, Give, Leave
  <2> QED
    BY <2>1, <2>2
<1>3. alone' => Mutex'
  BY <1>2, NextMutex DEF LockInv
<1> QED
  BY <1>1, <1>3 DEF LockInv

\* The owner of the one mutex there is, is the one reader of the buffer.
LEMMA LockedIsOneReader == TypeOK /\ LockInv => OneReader
<1> SUFFICES ASSUME TypeOK, Mutex PROVE ReadersLocked
  BY DEF OneReader, LockInv
<1>1. 1 \in 1 .. MaxMade /\ \A m \in 1 .. MaxMade : m = 1 \/ m \in 2 .. MaxMade
  BY MadeAssumption
<1>2. \A t \in Tasks : (\E m \in 1 .. MaxMade : owner[m] = t) <=> owner[1] = t
  BY <1>1, NamesAssumption DEF Mutex
<1>3. \A t \in Readers : t \in Tasks
  BY DEF Readers
<1> QED
  BY <1>2, <1>3 DEF Mutex, ReadersLocked

\* For any number of workers and connections, in every build: unless two tasks have been
\* in psychic_ws_preinit_rx_buf at once, the static buffer is there, has one reader at a
\* time, which has the mutex, and the mutex is free when nobody reads.
THEOREM BufferHasOneReader == Spec => []OneReader
<1>1. Init => TypeOK /\ LockInv
  BY InitTypeOK, InitInvariants
<1>2. TypeOK /\ LockInv /\ [Next]_vars => (TypeOK /\ LockInv)'
  BY NextTypeOK, NextLockInv
<1> QED
  BY <1>1, <1>2, LockedIsOneReader, PTL DEF Spec

\* For any number of connections: in a build that receives on the httpd task, the
\* application is given no frame that the peer has not sent.
THEOREM HttpdFramesAsSent == Spec => []FramesAsSent
<1>1. Init => TypeOK /\ HalfReadEnds
  BY InitTypeOK, InitInvariants
<1>2. TypeOK /\ HalfReadEnds /\ [Next]_vars => (TypeOK /\ HalfReadEnds)'
  BY NextTypeOK, NextHalfReadEnds
<1>3. HalfReadEnds => FramesAsSent
  BY DEF HalfReadEnds, FramesAsSent
<1> QED
  BY <1>1, <1>2, <1>3, PTL DEF Spec

-----------------------------------------------------------------------------
(* Long responses: the types                                               *)

\* Every symbol that a text, a value or an event is made of
Writable == UNION {UNION {Range(t) : t \in Inputs[m]} : m \in Modes \ {"events"}}
Printable == UNION {Range(Values[name]) : name \in DOMAIN Values}
Sendable == UNION {Range(EventText(e)) : e \in UNION {Range(t) : t \in Inputs["events"]}}
Symbols ==
  {Delim} \cup Writable
          \cup Printable
          \cup Sendable

Calls ==
  {c \in [op : {"byte", "block", "flush", "copy"}, data : Seq(Symbols)] :
     /\ c.op = "byte" => Len(c.data) = 1
     /\ c.op = "flush" => c.data = <<>>}

Items == [kind : {"chunk", "end", "whole", "error", "head", "text"}, data : Seq(Symbols)]

\* How much of the input the application has written
Written == Len(input) - Len(todo)

Texts ==
  /\ mode \in Modes /\ input \in Inputs[mode]
  /\ todo \in Seq(Range(input)) /\ Len(todo) <= Len(input)
  /\ \A i \in 1 .. Len(todo) : todo[i] = input[Written + i]

Buffering ==
  /\ inParam \in BOOLEAN /\ param \in Seq(Symbols) /\ Len(param) <= ParamMax
  /\ ~inParam => param = <<>>
  /\ buf \in Seq(Symbols) /\ Len(buf) <= Size
  /\ wire \in Seq(Items)
  /\ holding \in BOOLEAN /\ failed \in BOOLEAN /\ flushes \in 0 .. MaxFlushes

\* What one call of the application sets off: up to three calls on the ChunkPrinter, with
\* a flush for the last one, if at all
Queue ==
  /\ pending \in Seq(Calls) /\ Len(pending) <= 3
  /\ \A i \in 1 .. Len(pending) : pending[i].op = "flush" => i = Len(pending)

\* Where the response is, and what there is then
Place ==
  /\ phase \in {"begin", "write", "file", "events", "ending", "ended", "done"}
  /\ mode = "events" => phase \in {"begin", "events", "done"}
  /\ phase = "events" => mode = "events"
  /\ mode = "file" => phase \in {"begin", "file", "done"}
  /\ phase = "file" => mode = "file"
  /\ phase = "begin" => todo = input /\ wire = <<>> /\ ~failed
  /\ phase \in {"ending", "ended"} => todo = <<>>
  /\ holding <=> phase \in {"write", "file", "ending"}
  /\ inParam => phase = "write" /\ mode = "template"
  /\ phase \notin {"write", "ending"} => pending = <<>> /\ buf = <<>>
  /\ phase = "ending" =>
       IF pending = <<>> THEN buf = <<>> ELSE pending[Len(pending)].op = "flush"

OutTypes == Texts /\ Buffering /\ Queue /\ Place

LEMMA SymbolsOfTexts ==
  /\ Delim \in Symbols
  /\ \A m \in Modes \ {"events"} : \A t \in Inputs[m] : t \in Seq(Symbols)
  /\ \A name \in DOMAIN Values : Values[name] \in Seq(Symbols)
  /\ \A t \in Inputs["events"] : t \in Seq(Range(t)) /\ \A e \in Range(t) : IsEvent(e)

<1>1. ASSUME NEW t, IsText(t), Range(t) \subseteq Symbols PROVE t \in Seq(Symbols)
  BY <1>1 DEF IsText
<1>2. ASSUME NEW m \in Modes \ {"events"}, NEW t \in Inputs[m] PROVE IsText(t) /\ Range(t) \subseteq Symbols
  <2>1. IsText(t)
    BY InputsAssumption
  <2>2. Range(t) \subseteq UNION {Range(u) : u \in Inputs[m]}
    OBVIOUS
  <2>3. UNION {Range(u) : u \in Inputs[m]} \subseteq Symbols
    <3>1. PICK X : X = UNION {Range(u) : u \in Inputs[m]}
      OBVIOUS
    <3>2. X \in {UNION {Range(u) : u \in Inputs[k]} : k \in Modes \ {"events"}}
      BY <3>1
    <3>3. X \subseteq UNION {UNION {Range(u) : u \in Inputs[k]} : k \in Modes \ {"events"}}
      BY <3>2
    <3>4. X \subseteq Writable
      BY <3>3 DEF Writable
    <3> QED
      BY <3>1, <3>4 DEF Symbols
  <2> QED
    BY <2>1, <2>2, <2>3
<1>3. ASSUME NEW name \in DOMAIN Values PROVE IsText(Values[name]) /\ Range(Values[name]) \subseteq Symbols
  <2>1. IsText(Values[name])
    BY ValuesAssumption
  <2>2. Range(Values[name]) \subseteq Symbols
    BY DEF Symbols, Printable
  <2> QED
    BY <2>1, <2>2
<1>4. \A t \in Inputs["events"] : IsText(t) /\ \A e \in Range(t) : IsEvent(e)
  BY InputsAssumption DEF Modes
<1> QED
  BY <1>1, <1>2, <1>3, <1>4 DEF Symbols, IsText

LEMMA TailProperties ==
  ASSUME NEW A, NEW s \in Seq(A), s # <<>>
  PROVE  /\ Tail(s) \in Seq(A) /\ Head(s) \in A /\ Head(s) = s[1]
         /\ Len(Tail(s)) = Len(s) - 1
         /\ \A i \in 1 .. Len(s) - 1 : Tail(s)[i] = s[i + 1]
OBVIOUS

LEMMA SubSeqProperties ==
  ASSUME NEW A, NEW s \in Seq(A), NEW m \in 1 .. Len(s) + 1, NEW n \in m - 1 .. Len(s)
  PROVE  /\ SubSeq(s, m, n) \in Seq(A) /\ Len(SubSeq(s, m, n)) = n - m + 1
         /\ \A i \in 1 .. n - m + 1 : SubSeq(s, m, n)[i] = s[m + i - 1]
OBVIOUS

\* Two parts of a sequence make the sequence.
LEMMA Splitting ==
  ASSUME NEW A, NEW s \in Seq(A), NEW n \in 0 .. Len(s)
  PROVE  /\ SubSeq(s, 1, n) \in Seq(A) /\ Len(SubSeq(s, 1, n)) = n
         /\ SubSeq(s, n + 1, Len(s)) \in Seq(A) /\ Len(SubSeq(s, n + 1, Len(s))) = Len(s) - n
         /\ s = SubSeq(s, 1, n) \o SubSeq(s, n + 1, Len(s))
<1>1. PICK u : u = SubSeq(s, 1, n)
  OBVIOUS
<1>2. PICK v : v = SubSeq(s, n + 1, Len(s))
  OBVIOUS
<1>3. u \in Seq(A) /\ Len(u) = n /\ \A i \in 1 .. n : u[i] = s[i]
  BY <1>1
<1>4. v \in Seq(A) /\ Len(v) = Len(s) - n /\ \A i \in 1 .. Len(s) - n : v[i] = s[n + i]
  BY <1>2
<1>5. u \o v \in Seq(A) /\ Len(u \o v) = Len(s)
  BY <1>3, <1>4
<1>6. ASSUME NEW i \in 1 .. Len(s) PROVE (u \o v)[i] = s[i]
  <2>1. CASE i <= n
    BY <1>3, <2>1
  <2>2. CASE i > n
    <3>1. (u \o v)[i] = v[i - n]
      BY <1>3, <1>4, <2>2
    <3>2. i - n \in 1 .. Len(s) - n /\ n + (i - n) = i
      BY <2>2
    <3>3. v[i - n] = s[n + (i - n)]
      BY <1>4, <3>2
    <3> QED
      BY <3>1, <3>2, <3>3
  <2>3. i <= n \/ i > n
    OBVIOUS
  <2> QED
    BY <2>1, <2>2, <2>3, Zenon
<1>7. u \o v = s
  BY <1>5, <1>6, SameSequence
<1> QED
  BY <1>1, <1>2, <1>3, <1>4, <1>7

-----------------------------------------------------------------------------
(* What the ChunkPrinter does                                              *)

SentOf(w) == FlattenSeq([i \in 1 .. Len(w) |-> w[i].data])

LEMMA SentProperties ==
  ASSUME NEW w \in Seq(Items)
  PROVE  /\ SentOf(w) \in Seq(Symbols) /\ SentOf(<<>>) = <<>>
         /\ \A x \in Items : SentOf(Append(w, x)) = SentOf(w) \o x.data
<1>1. ASSUME NEW u \in Seq(Items)
      PROVE  /\ SentOf(u) \in Seq(Symbols)
             /\ u # <<>> => SentOf(u) = FlattenSeq([i \in 1 .. Len(u) - 1 |-> u[i].data]) \o u[Len(u)].data
             /\ FlattenSeq([i \in 1 .. 0 |-> u[i].data]) = <<>>
  <2>1. PICK v : v = [i \in 1 .. Len(u) |-> u[i].data]
    OBVIOUS
  <2>2. Len(u) \in Nat /\ v \in [1 .. Len(u) -> Seq(Symbols)] /\ \A i \in 1 .. Len(u) : v[i] = u[i].data
    <3>1. \A i \in 1 .. Len(u) : u[i] \in Items
      OBVIOUS
    <3>2. \A x \in Items : x.data \in Seq(Symbols)
      BY DEF Items
    <3>3. \A i \in 1 .. Len(u) : u[i].data \in Seq(Symbols)
      BY <3>1, <3>2
    <3> QED
      BY <2>1, <3>3
  <2>3. /\ FlattenSeq([i \in 1 .. 0 |-> v[i]]) = <<>>
        /\ \A k \in 0 .. Len(u) : FlattenSeq([i \in 1 .. k |-> v[i]]) \in Seq(Symbols)
        /\ \A k \in 1 .. Len(u) : FlattenSeq([i \in 1 .. k |-> v[i]])
                                    = FlattenSeq([i \in 1 .. k - 1 |-> v[i]]) \o v[k]
    BY <2>2, FlattenProperties
  <2>4. \A k \in 0 .. Len(u) : [i \in 1 .. k |-> v[i]] = [i \in 1 .. k |-> u[i].data]
    BY <2>2
  <2>5. Len(u) \in 0 .. Len(u) /\ 0 \in 0 .. Len(u) /\ (u # <<>> => Len(u) \in 1 .. Len(u) /\ Len(u) - 1 \in 0 .. Len(u))
    BY <2>2
  <2> QED
    BY <2>2, <2>3, <2>4, <2>5 DEF SentOf
<1>2. SentOf(<<>>) = <<>>
  <2>1. <<>> \in Seq(Items) /\ Len(<<>>) = 0
    OBVIOUS
  <2>2. PICK e : e = <<>>
    OBVIOUS
  <2>3. FlattenSeq([i \in 1 .. 0 |-> e[i].data]) = <<>>
    BY <1>1, <2>1, <2>2
  <2> QED
    BY <2>1, <2>2, <2>3 DEF SentOf
<1>3. ASSUME NEW x \in Items PROVE SentOf(Append(w, x)) = SentOf(w) \o x.data
  <2>1. PICK u : u = Append(w, x)
    OBVIOUS
  <2>2. /\ u \in Seq(Items) /\ u # <<>> /\ Len(u) = Len(w) + 1 /\ u[Len(u)] = x
        /\ \A i \in 1 .. Len(w) : u[i] = w[i]
    BY <2>1
  <2>3. [i \in 1 .. Len(u) - 1 |-> u[i].data] = [i \in 1 .. Len(w) |-> w[i].data]
    BY <2>2
  <2> QED
    BY <1>1, <2>1, <2>2, <2>3 DEF SentOf
<1> QED
  BY <1>1, <1>2, <1>3

\* The text of the calls that are pending
CallText(p, i) == IF i <= Len(p) THEN p[i].data ELSE <<>>
QueueText(p) == CallText(p, 1) \o (CallText(p, 2) \o CallText(p, 3))

LEMMA QueueTexts ==
  ASSUME NEW p \in Seq(Calls), Len(p) <= 3
  PROVE  /\ QueueText(p) \in Seq(Symbols)
         /\ p # <<>> => QueueText(p) = Cat(Head(p).data, QueueText(Tail(p)))
         /\ QueueText(<<>>) = <<>>
<1>1. ASSUME NEW q \in Seq(Calls), NEW i \in 1 .. 4 PROVE CallText(q, i) \in Seq(Symbols)
  <2>1. <<>> \in Seq(Symbols)
    OBVIOUS
  <2>2. CASE i <= Len(q)
    BY <2>2 DEF CallText, Calls
  <2>3. CASE ~(i <= Len(q))
    BY <2>1, <2>3 DEF CallText
  <2> QED
    BY <2>2, <2>3
<1>2. ASSUME NEW q \in Seq(Calls) PROVE QueueText(q) \in Seq(Symbols)
  <2>1. PICK a \in Seq(Symbols), b \in Seq(Symbols), c \in Seq(Symbols) :
          a = CallText(q, 1) /\ b = CallText(q, 2) /\ c = CallText(q, 3)
    BY <1>1
  <2> QED
    BY <2>1 DEF QueueText
<1>3. ASSUME p # <<>> PROVE QueueText(p) = Cat(Head(p).data, QueueText(Tail(p)))
  <2>1. Tail(p) \in Seq(Calls) /\ Len(Tail(p)) = Len(p) - 1 /\ Head(p) = p[1] /\ Len(p) \in Nat
        /\ \A i \in 1 .. Len(p) - 1 : Tail(p)[i] = p[i + 1]
    BY <1>3, TailProperties
  <2>2. CallText(Tail(p), 1) = CallText(p, 2)
    BY <2>1 DEF CallText
  <2>3. CallText(Tail(p), 2) = CallText(p, 3)
    BY <2>1 DEF CallText
  <2>4. CallText(Tail(p), 3) = <<>>
    BY <2>1 DEF CallText
  <2>5. CallText(p, 1) = Head(p).data
    BY <2>1, <1>3 DEF CallText
  <2>6. PICK b \in Seq(Symbols), c \in Seq(Symbols) : b = CallText(p, 2) /\ c = CallText(p, 3)
    BY <1>1
  <2>7. b \o (c \o <<>>) = b \o c
    OBVIOUS
  <2> QED
    BY <2>2, <2>3, <2>4, <2>5, <2>6, <2>7 DEF QueueText, Cat
<1>4. QueueText(<<>>) = <<>>
  BY DEF QueueText, CallText
<1> QED
  BY <1>2, <1>3, <1>4

\* A call that is not done yet takes the place of what it was.
LEMMA QueueGoesOn ==
  ASSUME NEW p \in Seq(Calls), Len(p) <= 3, p # <<>>, NEW x \in Calls
  PROVE  /\ <<x>> \o Tail(p) \in Seq(Calls) /\ Len(<<x>> \o Tail(p)) = Len(p)
         /\ (<<x>> \o Tail(p))[1] = x
         /\ \A i \in 2 .. Len(p) : (<<x>> \o Tail(p))[i] = p[i]
         /\ QueueText(<<x>> \o Tail(p)) = Cat(x.data, QueueText(Tail(p)))
<1>1. PICK t : t = Tail(p)
  OBVIOUS
<1>2. t \in Seq(Calls) /\ Len(t) = Len(p) - 1 /\ \A i \in 1 .. Len(p) - 1 : t[i] = p[i + 1]
  BY <1>1, TailProperties
<1>3. PICK q : q = <<x>> \o t
  OBVIOUS
<1>4. q \in Seq(Calls) /\ Len(q) = Len(p) /\ q[1] = x /\ \A i \in 2 .. Len(p) : q[i] = t[i - 1]
  BY <1>2, <1>3
<1>5. ASSUME NEW i \in 2 .. Len(p) PROVE q[i] = p[i]
  <2>1. i - 1 \in 1 .. Len(p) - 1 /\ (i - 1) + 1 = i
    OBVIOUS
  <2> QED
    BY <1>2, <1>4, <2>1
<1>6. Head(q) = x /\ q # <<>>
  BY <1>4
<1>7. Tail(q) = t
  <2>1. Tail(q) \in Seq(Calls) /\ Len(Tail(q)) = Len(q) - 1 /\ \A i \in 1 .. Len(q) - 1 : Tail(q)[i] = q[i + 1]
    BY <1>4, <1>6, TailProperties
  <2>2. \A i \in 1 .. Len(p) - 1 : i + 1 \in 2 .. Len(p) /\ (i + 1) - 1 = i
    OBVIOUS
  <2>3. \A i \in 1 .. Len(p) - 1 : Tail(q)[i] = t[i]
    BY <1>4, <2>1, <2>2
  <2> QED
    BY <1>2, <1>4, <2>1, <2>3, SameSequence
<1>8. QueueText(q) = Cat(x.data, QueueText(t))
  BY <1>4, <1>6, <1>7, QueueTexts
<1> QED
  BY <1>1, <1>3, <1>4, <1>5, <1>8

\* What one round of a call on the ChunkPrinter does: it hands over at most one chunk, and
\* if that was sent, what was sent, buffered and pending is what it was.
Hands(ok) ==
  \/ UNCHANGED <<wire, failed>>
  \/ \E d \in Seq(Symbols) : /\ SendChunk(d, ok) /\ Len(d) \in 1 .. Size
                             /\ Len(d) = Size \/ Head(pending).op = "flush"

GoesOn ==
  \/ pending' = Tail(pending)
  \/ \E x \in Calls : x.op = Head(pending).op /\ x.op # "flush" /\ pending' = <<x>> \o Tail(pending)

Printed == Cat(Cat(SentOf(wire), buf), QueueText(pending))

Prints(ok) ==
  /\ pending # <<>> /\ UNCHANGED Application /\ GoesOn /\ Hands(ok)
  /\ buf' \in Seq(Symbols) /\ Len(buf') <= Size
  /\ Head(pending).op = "flush" => buf' = <<>> /\ pending' = Tail(pending)
  /\ ~failed' => Printed' = Printed

\* The algebra of it
LEMMA Joined ==
  ASSUME NEW A, NEW s \in Seq(A), NEW t \in Seq(A)
  PROVE  Cat(s, t) \in Seq(A) /\ Len(Cat(s, t)) = Len(s) + Len(t)
BY DEF Cat

LEMMA JoinedNone ==
  ASSUME NEW A, NEW s \in Seq(A)
  PROVE  Cat(s, <<>>) = s /\ Cat(<<>>, s) = s
BY DEF Cat

LEMMA TextMoves ==
  ASSUME NEW A, NEW s \in Seq(A), NEW b \in Seq(A), NEW d \in Seq(A), NEW q \in Seq(A)
  PROVE  /\ Cat(Cat(Cat(s, b), d), q) = Cat(Cat(s, b), Cat(d, q))
         /\ Cat(Cat(s, Cat(b, d)), q) = Cat(Cat(s, b), Cat(d, q))
<1>1. Cat(s, b) \in Seq(A)
  BY Joined, Zenon
<1>2. Cat(Cat(Cat(s, b), d), q) = Cat(Cat(s, b), Cat(d, q))
  BY <1>1, CatAssociative
<1>3. Cat(Cat(s, b), d) = Cat(s, Cat(b, d))
  BY CatAssociative
<1> QED
  BY <1>2, <1>3, Zenon

LEMMA MovingPart ==
  ASSUME NEW A, NEW s \in Seq(A), NEW b \in Seq(A), NEW d \in Seq(A), NEW e \in Seq(A), NEW q \in Seq(A)
  PROVE  /\ Cat(Cat(Cat(s, b), d), Cat(e, q)) = Cat(Cat(s, b), Cat(Cat(d, e), q))
         /\ Cat(Cat(s, Cat(b, d)), Cat(e, q)) = Cat(Cat(s, b), Cat(Cat(d, e), q))
<1>1. Cat(e, q) \in Seq(A)
  BY Joined, Zenon
<1>2. /\ Cat(Cat(Cat(s, b), d), Cat(e, q)) = Cat(Cat(s, b), Cat(d, Cat(e, q)))
      /\ Cat(Cat(s, Cat(b, d)), Cat(e, q)) = Cat(Cat(s, b), Cat(d, Cat(e, q)))
  BY <1>1, TextMoves
<1>3. Cat(Cat(d, e), q) = Cat(d, Cat(e, q))
  BY CatAssociative
<1> QED
  BY <1>2, <1>3, Zenon

LEMMA Sending ==
  ASSUME OutTypes, NEW ok \in BOOLEAN, NEW d \in Seq(Symbols), SendChunk(d, ok)
  PROVE  ~failed' => SentOf(wire') = Cat(SentOf(wire), d)
<1> SUFFICES ASSUME ~failed' PROVE SentOf(wire') = Cat(SentOf(wire), d)
  OBVIOUS
<1>1. wire \in Seq(Items) /\ Chunk(d) \in Items /\ Chunk(d).data = d
  BY DEF OutTypes, Buffering, Chunk, Items
<1>2. wire' = Append(wire, Chunk(d))
  BY DEF SendChunk, Put
<1> QED
  BY <1>1, <1>2, SentProperties DEF Cat

LEMMA PendingParts ==
  ASSUME OutTypes, pending # <<>>
  PROVE  /\ pending \in Seq(Calls) /\ Len(pending) \in 1 .. 3
         /\ Head(pending) = pending[1] /\ Head(pending) \in Calls
         /\ Data \in Seq(Symbols) /\ Rest \in Seq(Calls) /\ Len(Rest) = Len(pending) - 1
         /\ QueueText(Rest) \in Seq(Symbols)
         /\ QueueText(pending) = Cat(Data, QueueText(Rest))
         /\ buf \in Seq(Symbols) /\ Len(buf) <= Size /\ Len(buf) \in Nat /\ SentOf(wire) \in Seq(Symbols)
         /\ wire \in Seq(Items)
<1>1. pending \in Seq(Calls) /\ Len(pending) <= 3 /\ buf \in Seq(Symbols) /\ Len(buf) <= Size /\ wire \in Seq(Items)
  BY DEF OutTypes, Queue, Buffering
<1>2. /\ Tail(pending) \in Seq(Calls) /\ Len(Tail(pending)) = Len(pending) - 1
      /\ Head(pending) = pending[1] /\ Head(pending) \in Calls
  BY <1>1, TailProperties
<1>7. Len(pending) \in 1 .. 3
  <2>1. \A p \in Seq(Calls) : Len(p) \in Nat /\ (Len(p) = 0 => p = <<>>)
    OBVIOUS
  <2>2. PICK n \in Nat : n = Len(pending)
    BY <1>1, <2>1
  <2>3. n # 0 /\ n <= 3
    BY <1>1, <2>1, <2>2
  <2>4. n \in 1 .. 3
    BY <2>3
  <2> QED
    BY <2>2, <2>4
<1>3. Head(pending).data \in Seq(Symbols)
  BY <1>2 DEF Calls
<1>4. Len(Tail(pending)) <= 3
  BY <1>2, <1>7
<1>5. QueueText(Tail(pending)) \in Seq(Symbols) /\ QueueText(pending) = Cat(Head(pending).data, QueueText(Tail(pending)))
  BY <1>1, <1>2, <1>4, QueueTexts
<1>6. Len(buf) \in Nat
  BY <1>1
<1> QED
  BY <1>1, <1>2, <1>3, <1>5, <1>6, <1>7, SentProperties DEF Data, Rest

LEMMA PrintsByte ==
  ASSUME OutTypes, NEW ok \in BOOLEAN, DoByte(ok)
  PROVE  Prints(ok)
<1>1. /\ pending # <<>> /\ Head(pending).op = "byte" /\ pending' = Rest /\ UNCHANGED Application
      /\ IF Len(buf) = Size
           THEN SendChunk(buf, ok) /\ buf' = IF ok THEN Data ELSE <<>>
           ELSE buf' = buf \o Data /\ UNCHANGED <<wire, failed>>
  BY DEF DoByte, Doing
<1>2. PICK s \in Seq(Symbols), b \in Seq(Symbols), d \in Seq(Symbols), q \in Seq(Symbols) :
        s = SentOf(wire) /\ b = buf /\ d = Data /\ q = QueueText(Rest)
  BY <1>1, PendingParts
<1>3. QueueText(pending) = Cat(d, q) /\ QueueText(pending') = q /\ Head(pending) \in Calls
  BY <1>1, <1>2, PendingParts
<1>4. Len(d) = 1 /\ Len(b) <= Size /\ Size \in Nat /\ Size # 0 /\ Len(b) \in Nat
  BY <1>1, <1>2, <1>3, PendingParts, SizeAssumption DEF Calls, Data
<1>5. Printed = Cat(Cat(s, b), Cat(d, q))
  BY <1>2, <1>3 DEF Printed
<1>6. GoesOn
  BY <1>1 DEF GoesOn, Rest
<1>7. CASE Len(buf) = Size
  <2>1. SendChunk(b, ok) /\ buf' = IF ok THEN d ELSE <<>>
    BY <1>1, <1>2, <1>7
  <2>2. Hands(ok)
    BY <1>2, <1>4, <1>7, <2>1 DEF Hands
  <2>3. buf' \in Seq(Symbols) /\ Len(buf') <= Size
    <3>1. <<>> \in Seq(Symbols) /\ Len(<<>>) = 0
      OBVIOUS
    <3>2. CASE ok
      <4>1. buf' = d
        BY <2>1, <3>2
      <4>2. Len(d) <= Size
        BY <1>4
      <4> QED
        BY <4>1, <4>2
    <3>3. CASE ~ok
      BY <1>4, <2>1, <3>1, <3>3
    <3> QED
      BY <3>2, <3>3
  <2>4. ASSUME ~failed' PROVE Printed' = Printed
    <3>1. SentOf(wire') = Cat(s, b)
      BY <1>2, <2>1, <2>4, Sending
    <3>2. ok
      BY <2>1, <2>4 DEF SendChunk
    <3>3. buf' = d
      BY <2>1, <3>2
    <3>4. Printed' = Cat(Cat(Cat(s, b), d), q)
      BY <1>3, <3>1, <3>3 DEF Printed
    <3>5. Cat(Cat(Cat(s, b), d), q) = Cat(Cat(s, b), Cat(d, q))
      BY TextMoves
    <3> QED
      BY <1>5, <3>4, <3>5
  <2> QED
    BY <1>1, <1>6, <2>2, <2>3, <2>4 DEF Prints
<1>8. CASE Len(buf) # Size
  <2>1. buf' = Cat(b, d) /\ UNCHANGED <<wire, failed>>
    BY <1>1, <1>2, <1>8 DEF Cat
  <2>2. buf' \in Seq(Symbols) /\ Len(buf') <= Size
    <3>0. Cat(b, d) \in Seq(Symbols) /\ Len(Cat(b, d)) = Len(b) + Len(d)
      BY Joined, Zenon
    <3>1. Cat(b, d) \in Seq(Symbols) /\ Len(Cat(b, d)) = Len(b) + 1
      BY <1>4, <3>0
    <3> QED
      BY <1>2, <1>4, <1>8, <2>1, <3>1
  <2>3. Printed' = Printed
    <3>1. Printed' = Cat(Cat(s, Cat(b, d)), q)
      BY <1>2, <1>3, <2>1 DEF Printed
    <3>2. Cat(Cat(s, Cat(b, d)), q) = Cat(Cat(s, b), Cat(d, q))
      BY TextMoves
    <3> QED
      BY <1>5, <3>1, <3>2
  <2>4. Hands(ok)
    BY <2>1 DEF Hands
  <2> QED
    BY <1>1, <1>6, <2>2, <2>3, <2>4 DEF Prints
<1> QED
  BY <1>7, <1>8

LEMMA PrintsFlush ==
  ASSUME OutTypes, NEW ok \in BOOLEAN, DoFlush(ok)
  PROVE  Prints(ok)
<1>1. /\ pending # <<>> /\ Head(pending).op = "flush" /\ pending' = Rest /\ UNCHANGED Application
      /\ IF buf # <<>> THEN SendChunk(buf, ok) /\ buf' = <<>> ELSE UNCHANGED <<wire, failed, buf>>
  BY DEF DoFlush, Doing
<1>2. PICK s \in Seq(Symbols), b \in Seq(Symbols), q \in Seq(Symbols) :
        s = SentOf(wire) /\ b = buf /\ q = QueueText(Rest)
  BY <1>1, PendingParts
<1>3. QueueText(pending) = Cat(Data, q) /\ QueueText(pending') = q /\ Head(pending) \in Calls
  BY <1>1, <1>2, PendingParts
<1>4. Data = <<>> /\ Len(b) <= Size /\ Size \in Nat /\ Len(b) \in Nat
  BY <1>1, <1>2, <1>3, PendingParts, SizeAssumption DEF Calls, Data
<1>5. Printed = Cat(Cat(s, b), q)
  <2>1. Cat(<<>>, q) = q
    BY JoinedNone
  <2> QED
    BY <1>2, <1>3, <1>4, <2>1 DEF Printed
<1>6. GoesOn
  BY <1>1 DEF GoesOn, Rest
<1>7. buf' = <<>> /\ buf' \in Seq(Symbols) /\ Len(buf') <= Size
  <2>1. <<>> \in Seq(Symbols) /\ Len(<<>>) = 0
    OBVIOUS
  <2>2. buf' = <<>>
    BY <1>1
  <2> QED
    BY <1>4, <2>1, <2>2
<1>8. CASE buf # <<>>
  <2>1. SendChunk(b, ok)
    BY <1>1, <1>2, <1>8
  <2>2. Hands(ok)
    BY <1>1, <1>2, <1>4, <1>8, <2>1 DEF Hands
  <2>3. ASSUME ~failed' PROVE Printed' = Printed
    <3>1. SentOf(wire') = Cat(s, b)
      BY <1>2, <2>1, <2>3, Sending
    <3>2. Printed' = Cat(Cat(Cat(s, b), <<>>), q)
      BY <1>3, <1>7, <3>1 DEF Printed
    <3>3. Cat(s, b) \in Seq(Symbols)
      BY Joined
    <3>4. Cat(Cat(s, b), <<>>) = Cat(s, b)
      BY <3>3, JoinedNone
    <3> QED
      BY <1>5, <3>2, <3>4
  <2> QED
    BY <1>1, <1>6, <1>7, <2>2, <2>3 DEF Prints, Rest
<1>9. CASE buf = <<>>
  <2>1. UNCHANGED <<wire, failed, buf>>
    BY <1>1, <1>9
  <2>2. Printed' = Printed
    BY <1>2, <1>3, <1>5, <2>1 DEF Printed
  <2>3. Hands(ok)
    BY <2>1 DEF Hands
  <2> QED
    BY <1>1, <1>6, <1>7, <2>2, <2>3 DEF Prints, Rest
<1> QED
  BY <1>8, <1>9

\* What does not fit into the buffer stays where the whole was.
Fits(A, d, b, size, n) ==
  /\ SubSeq(d, 1, n) \in Seq(A) /\ SubSeq(d, n + 1, Len(d)) \in Seq(A)
  /\ d = Cat(SubSeq(d, 1, n), SubSeq(d, n + 1, Len(d)))
  /\ Cat(b, SubSeq(d, 1, n)) \in Seq(A) /\ Len(Cat(b, SubSeq(d, 1, n))) <= size

LEMMA Fitting ==
  ASSUME NEW A, NEW d \in Seq(A), NEW b \in Seq(A), NEW size \in Nat, Len(b) <= size,
         NEW n, n = Least(size - Len(b), Len(d))
  PROVE  Fits(A, d, b, size, n)
<1>1. Len(b) \in Nat /\ Len(d) \in Nat
  OBVIOUS
<1>2. n \in 0 .. Len(d) /\ Len(b) + n <= size
  BY <1>1 DEF Least
<1>3. /\ SubSeq(d, 1, n) \in Seq(A) /\ Len(SubSeq(d, 1, n)) = n
      /\ SubSeq(d, n + 1, Len(d)) \in Seq(A)
      /\ d = SubSeq(d, 1, n) \o SubSeq(d, n + 1, Len(d))
  BY <1>2, Splitting
<1>4. PICK e : e = SubSeq(d, 1, n)
  OBVIOUS
<1>5. Cat(b, e) \in Seq(A) /\ Len(Cat(b, e)) = Len(b) + Len(e)
  BY <1>3, <1>4, Joined
<1> QED
  BY <1>2, <1>3, <1>4, <1>5 DEF Cat, Fits

LEMMA QueueLeft ==
  ASSUME OutTypes, pending # <<>>, NEW left \in Seq(Symbols), NEW x \in Calls, NEW p,
         x.data = left, p = IF left = <<>> THEN Rest ELSE <<x>> \o Rest
  PROVE  QueueText(p) = Cat(left, QueueText(Rest))
<1>1. pending \in Seq(Calls) /\ Len(pending) \in 1 .. 3 /\ QueueText(Rest) \in Seq(Symbols)
  BY PendingParts, Zenon
<1>2. CASE left = <<>>
  BY <1>1, <1>2, JoinedNone
<1>3. CASE left # <<>>
  <2>1. Len(pending) <= 3
    BY PendingParts DEF OutTypes, Queue
  <2> QED
    BY <1>1, <1>3, <2>1, QueueGoesOn DEF Rest
<1> QED
  BY <1>2, <1>3

LEMMA PrintsBlock ==
  ASSUME OutTypes, NEW ok \in BOOLEAN, DoBlock(ok)
  PROVE  Prints(ok)
<1>1. PICK m, e, l, on :
        /\ pending # <<>> /\ Head(pending).op = "block" /\ UNCHANGED Application
        /\ m = Least(Size - Len(buf), Len(Data))
        /\ e = SubSeq(Data, 1, m) /\ l = SubSeq(Data, m + 1, Len(Data))
        /\ on = IF l = <<>> THEN Rest ELSE <<Block(l)>> \o Rest
        /\ IF Len(Cat(buf, e)) = Size
             THEN SendChunk(Cat(buf, e), ok) /\ buf' = <<>> /\ pending' = IF ok THEN on ELSE Rest
             ELSE buf' = Cat(buf, e) /\ pending' = on /\ UNCHANGED <<wire, failed>>
  BY DEF DoBlock, Doing, Cat
<1>2. PICK s \in Seq(Symbols), b \in Seq(Symbols), d \in Seq(Symbols), q \in Seq(Symbols) :
        s = SentOf(wire) /\ b = buf /\ d = Data /\ q = QueueText(Rest)
  BY <1>1, PendingParts
<1>3. QueueText(pending) = Cat(d, q) /\ Len(b) <= Size /\ Size \in Nat /\ Size # 0
  BY <1>1, <1>2, PendingParts, SizeAssumption
<1>4. e \in Seq(Symbols) /\ l \in Seq(Symbols) /\ d = Cat(e, l) /\ Cat(b, e) \in Seq(Symbols) /\ Len(Cat(b, e)) <= Size
  <2>1. m = Least(Size - Len(b), Len(d)) /\ e = SubSeq(d, 1, m) /\ l = SubSeq(d, m + 1, Len(d))
    BY <1>1, <1>2
  <2>2. /\ SubSeq(d, 1, m) \in Seq(Symbols) /\ SubSeq(d, m + 1, Len(d)) \in Seq(Symbols)
        /\ d = Cat(SubSeq(d, 1, m), SubSeq(d, m + 1, Len(d)))
        /\ Cat(b, SubSeq(d, 1, m)) \in Seq(Symbols) /\ Len(Cat(b, SubSeq(d, 1, m))) <= Size
    <3>1. Fits(Symbols, d, b, Size, m)
      BY <1>3, <2>1, Fitting, Zenon
    <3> QED
      BY <3>1 DEF Fits
  <2> QED
    BY <2>1, <2>2
<1>5. Block(l) \in Calls /\ Block(l).data = l /\ Block(l).op = "block"
  BY <1>4 DEF Block, Calls
<1>6. QueueText(on) = Cat(l, q)
  BY <1>1, <1>2, <1>4, <1>5, QueueLeft
<1>7. Printed = Cat(Cat(s, b), Cat(Cat(e, l), q))
  BY <1>2, <1>3, <1>4 DEF Printed
<1>8. ASSUME pending' = on \/ pending' = Rest PROVE GoesOn
  BY <1>1, <1>5, <1>8 DEF GoesOn, Rest
<1>9. <<>> \in Seq(Symbols) /\ Len(<<>>) = 0
  OBVIOUS
<1>10. CASE Len(Cat(buf, e)) = Size
  <2>1. SendChunk(Cat(b, e), ok) /\ buf' = <<>> /\ pending' = (IF ok THEN on ELSE Rest) /\ Len(Cat(b, e)) = Size
    BY <1>1, <1>2, <1>10
  <2>2. Hands(ok)
    <3>1. Len(Cat(b, e)) \in 1 .. Size
      BY <1>3, <2>1
    <3> QED
      BY <1>4, <2>1, <3>1 DEF Hands
  <2>3. buf' \in Seq(Symbols) /\ Len(buf') <= Size
    BY <1>3, <1>9, <2>1
  <2>4. ASSUME ~failed' PROVE Printed' = Printed
    <3>1. SentOf(wire') = Cat(s, Cat(b, e))
      BY <1>2, <1>4, <2>1, <2>4, Sending
    <3>2. ok
      BY <2>1, <2>4 DEF SendChunk
    <3>3. Printed' = Cat(Cat(Cat(s, Cat(b, e)), <<>>), Cat(l, q))
      BY <1>6, <2>1, <3>1, <3>2 DEF Printed
    <3>4. Cat(s, Cat(b, e)) \in Seq(Symbols)
      BY <1>4, Joined
    <3>5. Cat(Cat(s, Cat(b, e)), <<>>) = Cat(s, Cat(b, e))
      BY <3>4, JoinedNone
    <3>6. Cat(Cat(s, Cat(b, e)), Cat(l, q)) = Cat(Cat(s, b), Cat(Cat(e, l), q))
      BY <1>4, MovingPart
    <3> QED
      BY <1>7, <3>3, <3>5, <3>6
  <2>5. GoesOn
    BY <1>8, <2>1
  <2> QED
    BY <1>1, <2>2, <2>3, <2>4, <2>5 DEF Prints
<1>11. CASE Len(Cat(buf, e)) # Size
  <2>1. buf' = Cat(b, e) /\ pending' = on /\ UNCHANGED <<wire, failed>>
    BY <1>1, <1>2, <1>11
  <2>2. Hands(ok)
    BY <2>1 DEF Hands
  <2>3. Printed' = Printed
    <3>1. Printed' = Cat(Cat(s, Cat(b, e)), Cat(l, q))
      BY <1>2, <1>6, <2>1 DEF Printed
    <3>2. Cat(Cat(s, Cat(b, e)), Cat(l, q)) = Cat(Cat(s, b), Cat(Cat(e, l), q))
      BY <1>4, MovingPart
    <3> QED
      BY <1>7, <3>1, <3>2
  <2>4. GoesOn
    BY <1>8, <2>1
  <2> QED
    BY <1>1, <1>4, <2>1, <2>2, <2>3, <2>4 DEF Prints
<1> QED
  BY <1>10, <1>11

LEMMA PrintsCopy ==
  ASSUME OutTypes, NEW ok \in BOOLEAN, DoCopy(ok)
  PROVE  Prints(ok)
<1>1. PICK k, m, e, l :
        /\ pending # <<>> /\ Head(pending).op = "copy" /\ UNCHANGED Application
        /\ k = IF Len(buf) = Size THEN <<>> ELSE buf
        /\ m = Least(Size - Len(k), Len(Data))
        /\ e = SubSeq(Data, 1, m) /\ l = SubSeq(Data, m + 1, Len(Data))
        /\ IF Len(buf) = Size THEN SendChunk(buf, ok) ELSE UNCHANGED <<wire, failed>>
        /\ buf' = Cat(k, e)
        /\ pending' = IF l = <<>> THEN Rest ELSE <<Copy(l)>> \o Rest
  BY DEF DoCopy, Doing, Cat
<1>2. PICK s \in Seq(Symbols), b \in Seq(Symbols), d \in Seq(Symbols), q \in Seq(Symbols) :
        s = SentOf(wire) /\ b = buf /\ d = Data /\ q = QueueText(Rest)
  BY <1>1, PendingParts
<1>3. QueueText(pending) = Cat(d, q) /\ Len(b) <= Size /\ Size \in Nat /\ Size # 0
  BY <1>1, <1>2, PendingParts, SizeAssumption
<1>9. <<>> \in Seq(Symbols) /\ Len(<<>>) = 0
  OBVIOUS
<1>4. k \in Seq(Symbols) /\ Len(k) <= Size
  BY <1>1, <1>2, <1>3, <1>9
<1>5. e \in Seq(Symbols) /\ l \in Seq(Symbols) /\ d = Cat(e, l) /\ Cat(k, e) \in Seq(Symbols) /\ Len(Cat(k, e)) <= Size
  <2>1. m = Least(Size - Len(k), Len(d)) /\ e = SubSeq(d, 1, m) /\ l = SubSeq(d, m + 1, Len(d))
    BY <1>1, <1>2
  <2>2. /\ SubSeq(d, 1, m) \in Seq(Symbols) /\ SubSeq(d, m + 1, Len(d)) \in Seq(Symbols)
        /\ d = Cat(SubSeq(d, 1, m), SubSeq(d, m + 1, Len(d)))
        /\ Cat(k, SubSeq(d, 1, m)) \in Seq(Symbols) /\ Len(Cat(k, SubSeq(d, 1, m))) <= Size
    <3>1. Fits(Symbols, d, k, Size, m)
      BY <1>3, <1>4, <2>1, Fitting, Zenon
    <3> QED
      BY <3>1 DEF Fits
  <2> QED
    BY <2>1, <2>2
<1>6. Copy(l) \in Calls /\ Copy(l).data = l /\ Copy(l).op = "copy"
  BY <1>5 DEF Copy, Calls
<1>7. QueueText(pending') = Cat(l, q)
  <2>1. PICK x, on : x = Copy(l) /\ on = pending'
    OBVIOUS
  <2>2. x \in Calls /\ x.data = l /\ on = IF l = <<>> THEN Rest ELSE <<x>> \o Rest
    BY <1>1, <1>6, <2>1
  <2>3. QueueText(on) = Cat(l, QueueText(Rest))
    BY <1>1, <1>5, <2>2, QueueLeft
  <2> QED
    BY <1>2, <2>1, <2>3
<1>8. Printed = Cat(Cat(s, b), Cat(Cat(e, l), q))
  BY <1>2, <1>3, <1>5 DEF Printed
<1>10. GoesOn
  BY <1>1, <1>6 DEF GoesOn, Rest
<1>11. CASE Len(buf) = Size
  <2>1. SendChunk(b, ok) /\ buf' = Cat(<<>>, e) /\ Len(b) = Size
    BY <1>1, <1>2, <1>11
  <2>2. Hands(ok)
    <3>1. Len(b) \in 1 .. Size
      BY <1>3, <2>1
    <3> QED
      BY <2>1, <3>1 DEF Hands
  <2>3. ASSUME ~failed' PROVE Printed' = Printed
    <3>1. SentOf(wire') = Cat(s, b)
      BY <1>2, <2>1, <2>3, Sending
    <3>2. Cat(<<>>, e) = e
      BY <1>5, JoinedNone
    <3>3. Printed' = Cat(Cat(Cat(s, b), e), Cat(l, q))
      BY <1>7, <2>1, <3>1, <3>2 DEF Printed
    <3>4. Cat(Cat(Cat(s, b), e), Cat(l, q)) = Cat(Cat(s, b), Cat(Cat(e, l), q))
      BY <1>5, MovingPart
    <3> QED
      BY <1>8, <3>3, <3>4
  <2> QED
    BY <1>1, <1>5, <1>10, <2>2, <2>3 DEF Prints
<1>12. CASE Len(buf) # Size
  <2>1. UNCHANGED <<wire, failed>> /\ buf' = Cat(b, e)
    BY <1>1, <1>2, <1>12
  <2>2. Hands(ok)
    BY <2>1 DEF Hands
  <2>3. Printed' = Printed
    <3>1. Printed' = Cat(Cat(s, Cat(b, e)), Cat(l, q))
      BY <1>2, <1>7, <2>1 DEF Printed
    <3>2. Cat(Cat(s, Cat(b, e)), Cat(l, q)) = Cat(Cat(s, b), Cat(Cat(e, l), q))
      BY <1>5, MovingPart
    <3> QED
      BY <1>8, <3>1, <3>2
  <2> QED
    BY <1>1, <1>5, <1>10, <2>2, <2>3 DEF Prints
<1> QED
  BY <1>11, <1>12

-----------------------------------------------------------------------------
(* The types                                                               *)

\* What is pending after a round
LEMMA QueueAfter ==
  ASSUME OutTypes, pending # <<>>, GoesOn
  PROVE  /\ Queue'
         /\ pending' = <<>> => Len(pending) = 1 /\ pending' = Tail(pending)
         /\ pending' # <<>> => pending'[Len(pending')].op = pending[Len(pending)].op
         /\ \A i \in 1 .. Len(pending') : pending'[i].op = "flush" =>
              \E j \in 1 .. Len(pending) : pending[j].op = "flush"
<1>1. /\ pending \in Seq(Calls) /\ Len(pending) \in 1 .. 3
      /\ \A i \in 1 .. Len(pending) : pending[i].op = "flush" => i = Len(pending)
  BY PendingParts DEF OutTypes, Queue
<1>2. PICK n \in 1 .. 3 : n = Len(pending)
  BY <1>1
<1>3. CASE pending' = Tail(pending)
  <2>1. PICK t : t = Tail(pending)
    OBVIOUS
  <2>2. t \in Seq(Calls) /\ Len(t) = n - 1 /\ \A i \in 1 .. n - 1 : t[i] = pending[i + 1]
    BY <1>1, <1>2, <2>1, TailProperties
  <2>3. \A i \in 1 .. n - 1 : i + 1 \in 1 .. n
    OBVIOUS
  <2>4. \A i \in 1 .. Len(t) : t[i].op = "flush" => i = Len(t) /\ i + 1 \in 1 .. n /\ pending[i + 1].op = "flush"
    BY <1>1, <1>2, <2>2, <2>3
  <2>5. t = <<>> => n = 1
    BY <2>2
  <2>6. ASSUME t # <<>> PROVE t[Len(t)].op = pending[n].op
    <3>1. Len(t) \in 1 .. n - 1 /\ Len(t) + 1 = n
      BY <2>2, <2>6
    <3> QED
      BY <2>2, <3>1
  <2>7. Len(t) <= 3
    BY <2>2
  <2> QED
    BY <1>2, <1>3, <2>1, <2>2, <2>4, <2>5, <2>6, <2>7 DEF Queue
<1>4. ASSUME NEW x \in Calls, x.op = Head(pending).op, x.op # "flush", pending' = <<x>> \o Tail(pending)
      PROVE  /\ Queue'
             /\ pending' # <<>>
             /\ pending'[Len(pending')].op = pending[Len(pending)].op
             /\ \A i \in 1 .. Len(pending') : pending'[i].op = "flush" =>
                  \E j \in 1 .. Len(pending) : pending[j].op = "flush"
  <2>1. PICK q : q = pending'
    OBVIOUS
  <2>2. Len(pending) <= 3 /\ Head(pending) = pending[1]
    BY PendingParts DEF OutTypes, Queue
  <2>3. q \in Seq(Calls) /\ Len(q) = n /\ q[1] = x /\ \A i \in 2 .. n : q[i] = pending[i]
    BY <1>1, <1>2, <1>4, <2>1, <2>2, QueueGoesOn
  <2>4. ASSUME NEW i \in 1 .. n PROVE q[i].op = pending[i].op
    <3>1. CASE i = 1
      BY <1>4, <2>2, <2>3, <3>1
    <3>2. CASE i # 1
      BY <2>3, <3>2
    <3> QED
      BY <3>1, <3>2
  <2>5. q # <<>>
    BY <2>3
  <2>6. n \in 1 .. n /\ n <= 3
    OBVIOUS
  <2> QED
    BY <1>1, <1>2, <2>1, <2>3, <2>4, <2>5, <2>6 DEF Queue
<1> QED
  BY <1>3, <1>4 DEF GoesOn

LEMMA Handing ==
  ASSUME OutTypes, NEW ok \in BOOLEAN, Hands(ok)
  PROVE  wire' \in Seq(Items) /\ failed' \in BOOLEAN
<1>1. wire \in Seq(Items) /\ failed \in BOOLEAN
  BY DEF OutTypes, Buffering
<1>2. CASE UNCHANGED <<wire, failed>>
  BY <1>1, <1>2
<1>3. ASSUME NEW d \in Seq(Symbols), SendChunk(d, ok) PROVE wire' \in Seq(Items) /\ failed' \in BOOLEAN
  <2>1. <<>> \in Seq(Symbols)
    OBVIOUS
  <2>2. Chunk(d) \in Items /\ Terminator \in Items
    BY <2>1 DEF Chunk, Terminator, Items
  <2> QED
    BY <1>1, <1>3, <2>2 DEF SendChunk, Put
<1> QED
  BY <1>2, <1>3 DEF Hands

LEMMA PrintsTypes ==
  ASSUME OutTypes, NEW ok \in BOOLEAN, Prints(ok)
  PROVE  OutTypes'
<1>1. /\ pending # <<>> /\ GoesOn /\ Hands(ok)
      /\ UNCHANGED <<mode, input, todo, inParam, param, holding, flushes, phase>>
      /\ buf' \in Seq(Symbols) /\ Len(buf') <= Size
      /\ Head(pending).op = "flush" => buf' = <<>>
  BY DEF Prints, Application
<1>2. Texts'
  BY <1>1 DEF OutTypes, Texts, Written
<1>3. Buffering'
  BY <1>1, Handing DEF OutTypes, Buffering
<1>4. Queue'
  BY <1>1, QueueAfter
<1>5. Place'
  <2>1. Place /\ phase \in {"write", "ending"}
    BY <1>1 DEF OutTypes, Place
  <2>2. ASSUME phase = "ending"
        PROVE  IF pending' = <<>> THEN buf' = <<>> ELSE pending'[Len(pending')].op = "flush"
    <3>1. pending[Len(pending)].op = "flush"
      BY <1>1, <2>1, <2>2 DEF Place
    <3>2. CASE pending' = <<>>
      <4>1. Len(pending) = 1
        BY <1>1, <3>2, QueueAfter
      <4>2. Head(pending).op = "flush"
        BY <1>1, <3>1, <4>1, PendingParts
      <4> QED
        BY <1>1, <3>2, <4>2
    <3>3. CASE pending' # <<>>
      BY <1>1, <3>1, <3>3, QueueAfter
    <3> QED
      BY <3>2, <3>3
  <2> QED
    BY <1>1, <2>1, <2>2 DEF Place
<1> QED
  BY <1>2, <1>3, <1>4, <1>5 DEF OutTypes

\* The application has written n symbols more.
LEMMA TakenTexts ==
  ASSUME Texts, NEW n \in 0 .. Len(todo), Taken(n), UNCHANGED <<mode, input>>
  PROVE  Texts' /\ Len(todo') = Len(todo) - n /\ \A i \in 1 .. Len(todo) - n : todo'[i] = todo[n + i]
<1>1. todo \in Seq(Range(input)) /\ todo' = SubSeq(todo, n + 1, Len(todo))
  BY DEF Texts, Taken
<1>2. PICK t, l : t = todo' /\ l = Len(todo)
  OBVIOUS
<1>3. /\ t \in Seq(Range(input)) /\ l \in Nat /\ n \in 0 .. l /\ Len(t) = l - n
      /\ \A i \in 1 .. l - n : t[i] = todo[n + i]
  BY <1>1, <1>2
<1>4. Len(input) \in Nat /\ l <= Len(input) /\ \A i \in 1 .. l : todo[i] = input[Len(input) - l + i]
  <2>1. \A m \in Modes : \A u \in Inputs[m] : Len(u) \in Nat
    BY InputsAssumption DEF IsText
  <2> QED
    BY <1>2, <2>1 DEF Texts, Written
<1>5. ASSUME NEW i \in 1 .. l - n PROVE t[i] = input[Len(input) - (l - n) + i]
  <2>1. n + i \in 1 .. l /\ Len(input) - l + (n + i) = Len(input) - (l - n) + i
    BY <1>3, <1>4
  <2> QED
    BY <1>3, <1>4, <2>1
<1>6. mode' \in Modes /\ input' \in Inputs[mode'] /\ input' = input
  BY DEF Texts
<1>7. l - n <= Len(input)
  BY <1>3, <1>4
<1> QED
  BY <1>2, <1>3, <1>5, <1>6, <1>7 DEF Texts, Written

LEMMA TodoSymbols ==
  ASSUME Texts, mode # "events"
  PROVE  todo \in Seq(Symbols) /\ input \in Seq(Symbols) /\ \A i \in 1 .. Len(todo) : todo[i] \in Symbols
<1>1. input \in Seq(Symbols)
  BY SymbolsOfTexts DEF Texts
<1>2. Range(input) \subseteq Symbols
  BY <1>1 DEF Range
<1> QED
  BY <1>1, <1>2 DEF Texts

LEMMA NewQueue ==
  ASSUME NEW p \in Seq(Calls), Len(p) <= 2, \A i \in 1 .. Len(p) : p[i].op # "flush", NEW x \in Calls,
         NEW q, q = p \o <<x>>
  PROVE  /\ q \in Seq(Calls) /\ Len(q) <= 3 /\ q # <<>> /\ q[Len(q)] = x
         /\ \A i \in 1 .. Len(q) : q[i].op = "flush" => i = Len(q)
<1>1. q \in Seq(Calls) /\ Len(q) = Len(p) + 1 /\ q[Len(p) + 1] = x /\ Len(p) \in Nat
      /\ \A i \in 1 .. Len(p) : q[i] = p[i]
  OBVIOUS
<1>2. \A i \in 1 .. Len(q) : i \in 1 .. Len(p) \/ i = Len(q)
  BY <1>1
<1> QED
  BY <1>1, <1>2

LEMMA PlaceholderCalls ==
  ASSUME Buffering
  PROVE  /\ Placeholder \in Seq(Calls) /\ Len(Placeholder) <= 2
         /\ \A i \in 1 .. Len(Placeholder) : Placeholder[i].op # "flush"
<1>1. CASE ~inParam
  BY <1>1 DEF Placeholder
<1>2. CASE inParam
  <2>1. Byte(Delim) \in Calls /\ Byte(Delim).op = "byte"
    BY SymbolsOfTexts DEF Byte, Calls
  <2>2. Block(param) \in Calls /\ Block(param).op = "block"
    BY DEF Block, Calls, Buffering
  <2>3. PICK x \in Calls, y \in Calls : x = Byte(Delim) /\ y = Block(param)
    BY <2>1, <2>2
  <2>4. CASE param = <<>>
    <3>1. Placeholder = <<x>> \o <<>>
      BY <1>2, <2>3, <2>4 DEF Placeholder
    <3>2. PICK p : p = <<x>> \o <<>>
      OBVIOUS
    <3>3. p \in Seq(Calls) /\ Len(p) = 1 /\ p[1] = x
      BY <3>2
    <3> QED
      BY <2>1, <2>3, <3>1, <3>2, <3>3
  <2>5. CASE param # <<>>
    <3>1. Placeholder = <<x>> \o <<y>>
      BY <1>2, <2>3, <2>5 DEF Placeholder
    <3>2. PICK p : p = <<x>> \o <<y>>
      OBVIOUS
    <3>3. p \in Seq(Calls) /\ Len(p) = 2 /\ p[1] = x /\ p[2] = y
      BY <3>2
    <3>4. \A i \in 1 .. 2 : i = 1 \/ i = 2
      OBVIOUS
    <3> QED
      BY <2>1, <2>2, <2>3, <3>1, <3>2, <3>3, <3>4
  <2> QED
    BY <2>4, <2>5
<1> QED
  BY <1>1, <1>2

\* One call, or none
LEMMA ShortQueue ==
  ASSUME NEW x \in Calls
  PROVE  /\ <<x>> \in Seq(Calls) /\ Len(<<x>>) = 1 /\ <<x>> # <<>> /\ <<x>>[1] = x
         /\ \A i \in 1 .. 1 : i = 1
OBVIOUS

LEMMA InitTypes == OutInit => OutTypes
<1> SUFFICES ASSUME OutInit PROVE OutTypes
  OBVIOUS
<1>1. input \in Seq(Range(input)) /\ mode \in Modes /\ input \in Inputs[mode]
  BY InputsAssumption DEF OutInit, IsText
<1>2. Texts
  BY <1>1 DEF OutInit, Texts, Written
<1>3. Buffering /\ Queue
  <2>1. Len(<<>>) = 0 /\ <<>> \in Seq(Symbols) /\ <<>> \in Seq(Items) /\ <<>> \in Seq(Calls)
    OBVIOUS
  <2>2. 0 <= ParamMax /\ 0 <= Size /\ 0 \in 0 .. MaxFlushes /\ 0 <= 3 /\ \A i \in 1 .. 0 : FALSE
    BY SizeAssumption, ParamAssumption, FlushesAssumption
  <2>3. /\ inParam = FALSE /\ param = <<>> /\ buf = <<>> /\ wire = <<>> /\ holding = FALSE
        /\ failed = FALSE /\ flushes = 0 /\ pending = <<>>
    BY DEF OutInit
  <2> QED
    BY <2>1, <2>2, <2>3 DEF Buffering, Queue
<1>4. Place
  BY DEF OutInit, Place
<1> QED
  BY <1>2, <1>3, <1>4 DEF OutTypes

\* A call of the application sets off calls on the ChunkPrinter, and no more.
LEMMA Writes ==
  ASSUME OutTypes, phase = "write", Texts', Queue',
         inParam' \in BOOLEAN, param' \in Seq(Symbols), Len(param') <= ParamMax, ~inParam' => param' = <<>>,
         inParam' => mode = "template", flushes' \in 0 .. MaxFlushes, UNCHANGED Printer
  PROVE  OutTypes'
<1>1. Buffering'
  BY DEF OutTypes, Buffering, Printer
<1>2. Place'
  BY DEF OutTypes, Place, Printer
<1> QED
  BY <1>1, <1>2 DEF OutTypes

LEMMA WriteTypes ==
  ASSUME OutTypes, WriteByte \/ (\E n \in 1 .. Len(todo) : WriteBlock(n)) \/ CopyFrom
  PROVE  OutTypes'
<1>1. /\ phase = "write" /\ pending = <<>> /\ mode # "events"
      /\ UNCHANGED <<inParam, param, flushes, Printer>>
  BY DEF WriteByte, WriteBlock, CopyFrom, Writing
<1>2. /\ Texts /\ inParam \in BOOLEAN /\ param \in Seq(Symbols) /\ Len(param) <= ParamMax
      /\ ~inParam => param = <<>>
      /\ (inParam => mode = "template") /\ flushes \in 0 .. MaxFlushes
  BY DEF OutTypes, Buffering, Place
<1>9. /\ inParam' \in BOOLEAN /\ param' \in Seq(Symbols) /\ Len(param') <= ParamMax
      /\ (~inParam' => param' = <<>>)
      /\ (inParam' => mode = "template") /\ flushes' \in 0 .. MaxFlushes
      /\ UNCHANGED Printer
  <2>1. inParam' = inParam /\ param' = param /\ flushes' = flushes
    BY <1>1
  <2> QED
    <3>1. inParam' \in BOOLEAN
      BY <1>1, <1>2
    <3>2. param' \in Seq(Symbols) /\ Len(param') <= ParamMax /\ flushes' \in 0 .. MaxFlushes
      <4>1. param' = param /\ flushes' = flushes
        BY <1>1
      <4> QED
        BY <1>2, <4>1
    <3>3. (~inParam' => param' = <<>>) /\ (inParam' => mode = "template")
      <4>1. CASE inParam
        BY <1>2, <2>1, <4>1
      <4>2. CASE ~inParam
        BY <1>2, <2>1, <4>2
      <4> QED
        BY <4>1, <4>2
    <3> QED
      BY <1>1, <3>1, <3>2, <3>3
<1>3. /\ todo \in Seq(Symbols) /\ \A i \in 1 .. Len(todo) : todo[i] \in Symbols
  BY <1>1, <1>2, TodoSymbols
<1>4. ASSUME NEW x \in Calls, pending' = <<x>> PROVE Queue'
  <2>1. <<x>> \in Seq(Calls) /\ Len(<<x>>) = 1 /\ \A i \in 1 .. 1 : i = 1
    BY ShortQueue
  <2> QED
    BY <1>4, <2>1 DEF Queue
<1>5. UNCHANGED <<mode, input>>
  BY <1>1 DEF Printer
<1>6. CASE WriteByte
  <2>1. pending' = <<Byte(Head(todo))>> /\ Taken(1) /\ todo # <<>>
    BY <1>6 DEF WriteByte
  <2>2. Head(todo) \in Symbols /\ 1 \in 0 .. Len(todo)
    BY <1>3, <2>1
  <2>3. Byte(Head(todo)) \in Calls
    BY <2>2 DEF Byte, Calls
  <2>4. Texts'
    BY <1>2, <1>5, <2>1, <2>2, TakenTexts
  <2>5. Queue'
    BY <1>4, <2>1, <2>3
  <2> QED
    BY <1>1, <1>9, <2>4, <2>5, Writes
<1>7. ASSUME NEW n \in 1 .. Len(todo), WriteBlock(n) PROVE OutTypes'
  <2>1. pending' = <<Block(SubSeq(todo, 1, n))>> /\ Taken(n)
    BY <1>7 DEF WriteBlock
  <2>2. n \in 0 .. Len(todo) /\ SubSeq(todo, 1, n) \in Seq(Symbols)
    BY <1>3
  <2>3. Block(SubSeq(todo, 1, n)) \in Calls
    BY <2>2 DEF Block, Calls
  <2>4. Texts'
    BY <1>2, <1>5, <2>1, <2>2, TakenTexts
  <2>5. Queue'
    BY <1>4, <2>1, <2>3
  <2> QED
    BY <1>1, <1>9, <2>4, <2>5, Writes
<1>8. CASE CopyFrom
  <2>1. pending' = <<Copy(todo)>> /\ todo' = <<>>
    BY <1>8 DEF CopyFrom
  <2>2. Copy(todo) \in Calls
    BY <1>3 DEF Copy, Calls
  <2>3. Len(todo) \in 0 .. Len(todo) /\ SubSeq(todo, Len(todo) + 1, Len(todo)) = <<>>
    BY <1>3
  <2>4. Taken(Len(todo))
    BY <2>1, <2>3 DEF Taken
  <2>5. Texts'
    BY <1>2, <1>5, <2>3, <2>4, TakenTexts
  <2>6. Queue'
    BY <1>4, <2>1, <2>2
  <2> QED
    BY <1>1, <1>9, <2>5, <2>6, Writes
<1> QED
  BY <1>6, <1>7, <1>8

LEMMA FlushNowTypes ==
  ASSUME OutTypes, FlushNow
  PROVE  OutTypes'
<1>1. /\ phase = "write" /\ ~inParam /\ flushes < MaxFlushes /\ pending' = <<Flush>> /\ flushes' = flushes + 1
      /\ UNCHANGED <<todo, inParam, param, Printer>>
  BY DEF FlushNow, Writing
<1>2. Texts'
  BY <1>1 DEF OutTypes, Texts, Written, Printer
<1>3. Queue'
  <2>1. Flush \in Calls
    <3>1. <<>> \in Seq(Symbols)
      OBVIOUS
    <3> QED
      BY <3>1 DEF Flush, Calls
  <2>2. <<Flush>> \in Seq(Calls) /\ Len(<<Flush>>) = 1 /\ \A i \in 1 .. 1 : i = 1
    BY <2>1, ShortQueue
  <2> QED
    BY <1>1, <2>2 DEF Queue
<1>4. flushes' \in 0 .. MaxFlushes
  BY <1>1, FlushesAssumption DEF OutTypes, Buffering
<1>5. /\ inParam' \in BOOLEAN /\ param' \in Seq(Symbols) /\ Len(param') <= ParamMax
      /\ (~inParam' => param' = <<>>) /\ (inParam' => mode = "template")
  BY <1>1 DEF OutTypes, Buffering, Place
<1> QED
  BY <1>1, <1>2, <1>3, <1>4, <1>5, Writes

LEMMA TemplateTypes ==
  ASSUME OutTypes, TemplateWrite
  PROVE  OutTypes'
<1>1. PICK c : /\ phase = "write" /\ pending = <<>> /\ mode = "template" /\ todo # <<>>
               /\ c = Head(todo) /\ (TemplateOther(c) \/ TemplateName(c) \/ TemplateDelim(c))
               /\ Taken(1) /\ UNCHANGED <<flushes, Printer>>
  BY DEF TemplateWrite, Writing
<1>2. Texts /\ Buffering /\ inParam \in BOOLEAN /\ flushes \in 0 .. MaxFlushes
  BY DEF OutTypes, Buffering
<1>3. todo \in Seq(Symbols) /\ Len(todo) >= 1
  BY <1>1, <1>2, TodoSymbols
<1>4. c \in Symbols /\ 1 \in 0 .. Len(todo)
  BY <1>1, <1>3
<1>5. UNCHANGED <<mode, input>>
  BY <1>1 DEF Printer
<1>6. Texts'
  BY <1>1, <1>2, <1>4, <1>5, TakenTexts
<1>7. /\ Byte(c) \in Calls /\ Byte(c).op = "byte"
      /\ Placeholder \in Seq(Calls) /\ Len(Placeholder) <= 2
      /\ \A i \in 1 .. Len(Placeholder) : Placeholder[i].op # "flush"
  BY <1>2, <1>4, PlaceholderCalls DEF Byte, Calls
<1>8. /\ param \in Seq(Symbols) /\ Len(param) <= ParamMax /\ Len(param) \in Nat /\ ParamMax \in Nat
      /\ <<>> \in Seq(Symbols) /\ Len(<<>>) = 0 /\ (~inParam => param = <<>>)
  BY <1>2, ParamAssumption DEF Buffering
<1>9. ASSUME Queue', \/ NoParam
                     \/ inParam' \in BOOLEAN /\ inParam' /\ param' \in Seq(Symbols) /\ Len(param') <= ParamMax
                     \/ UNCHANGED <<inParam, param>>
      PROVE  OutTypes'
  <2>1. inParam' \in BOOLEAN /\ param' \in Seq(Symbols) /\ Len(param') <= ParamMax /\ (~inParam' => param' = <<>>)
    <3>1. CASE NoParam
      <4>1. inParam' = FALSE /\ param' = <<>>
        BY <3>1 DEF NoParam
      <4>2. inParam' \in BOOLEAN
        BY <4>1
      <4>3. param' \in Seq(Symbols) /\ Len(param') <= ParamMax
        BY <1>8, <4>1
      <4> QED
        BY <4>1, <4>2, <4>3
    <3>2. CASE inParam' \in BOOLEAN /\ inParam' /\ param' \in Seq(Symbols) /\ Len(param') <= ParamMax
      BY <3>2
    <3>3. CASE UNCHANGED <<inParam, param>>
      <4>1. inParam' = inParam /\ param' = param
        BY <3>3
      <4> QED
        BY <1>2, <1>8, <4>1
    <3> QED
      BY <1>9, <3>1, <3>2, <3>3
  <2> QED
    BY <1>1, <1>2, <1>6, <1>9, <2>1, Writes
<1>10. ASSUME NEW x \in Calls, pending' = <<x>> PROVE Queue'
  <2>1. <<x>> \in Seq(Calls) /\ Len(<<x>>) = 1 /\ \A i \in 1 .. 1 : i = 1
    BY ShortQueue
  <2> QED
    BY <1>10, <2>1 DEF Queue
<1>11. ASSUME pending' = pending \/ pending' = Placeholder PROVE Queue'
  <2>1. CASE pending' = pending
    BY <2>1 DEF OutTypes, Queue
  <2>2. CASE pending' = Placeholder
    BY <1>7, <2>2 DEF Queue
  <2> QED
    BY <1>11, <2>1, <2>2
<1>12. ASSUME pending' = Placeholder \o <<Byte(c)>> PROVE Queue'
  <2>1. PICK q : q = Placeholder \o <<Byte(c)>>
    OBVIOUS
  <2>2. q \in Seq(Calls) /\ Len(q) <= 3 /\ \A i \in 1 .. Len(q) : q[i].op = "flush" => i = Len(q)
    BY <1>7, <2>1, NewQueue
  <2> QED
    BY <1>12, <2>1, <2>2 DEF Queue
<1>13. CASE TemplateOther(c)
  BY <1>9, <1>12, <1>13 DEF TemplateOther
<1>14. CASE TemplateName(c)
  <2>1. CASE ~inParam
    BY <1>7, <1>9, <1>10, <1>14, <2>1 DEF TemplateName
  <2>2. CASE inParam /\ Len(param) < ParamMax
    <3>1. param' = Append(param, c) /\ inParam' = inParam /\ pending' = pending
      BY <1>14, <2>2 DEF TemplateName
    <3>2. Append(param, c) \in Seq(Symbols) /\ Len(Append(param, c)) = Len(param) + 1
      BY <1>4, <1>8
    <3>3. Len(param') <= ParamMax
      BY <1>8, <2>2, <3>1, <3>2
    <3> QED
      BY <1>2, <1>9, <1>11, <2>2, <3>1, <3>2, <3>3
  <2>3. CASE inParam /\ ~(Len(param) < ParamMax)
    BY <1>9, <1>11, <1>14, <2>3 DEF TemplateName
  <2> QED
    BY <2>1, <2>2, <2>3
<1>15. CASE TemplateDelim(c)
  <2>1. CASE ~inParam
    <3>1. inParam' = TRUE /\ param' = param /\ pending' = pending
      BY <1>15, <2>1 DEF TemplateDelim
    <3> QED
      BY <1>8, <1>9, <1>11, <3>1
  <2>2. CASE inParam /\ param # <<>> /\ param \in DOMAIN Values
    <3>1. pending' = <<Block(Values[param])>> /\ NoParam
      BY <1>15, <2>2 DEF TemplateDelim
    <3>2. Block(Values[param]) \in Calls
      BY <2>2, SymbolsOfTexts DEF Block, Calls
    <3> QED
      BY <1>9, <1>10, <3>1, <3>2
  <2>3. CASE inParam /\ ~(param # <<>> /\ param \in DOMAIN Values)
    BY <1>9, <1>12, <1>15, <2>3 DEF TemplateDelim
  <2> QED
    BY <2>1, <2>2, <2>3
<1> QED
  BY <1>1, <1>13, <1>14, <1>15

LEMMA FinishTypes ==
  ASSUME OutTypes, Finish
  PROVE  OutTypes'
<1>1. /\ phase = "write" /\ todo = <<>> /\ pending' = Placeholder \o <<Flush>> /\ NoParam /\ phase' = "ending"
      /\ UNCHANGED <<mode, input, todo, buf, holding, wire, failed, flushes>>
  BY DEF Finish, Writing
<1>2. Texts'
  BY <1>1 DEF OutTypes, Texts, Written
<1>3. Buffering'
  <2>1. <<>> \in Seq(Symbols) /\ Len(<<>>) = 0 /\ 0 <= ParamMax
    BY ParamAssumption
  <2>2. inParam' = FALSE /\ param' = <<>>
    BY <1>1 DEF NoParam
  <2> QED
    BY <1>1, <2>1, <2>2 DEF OutTypes, Buffering
<1>4. PICK q : q = pending'
  OBVIOUS
<1>5. Flush \in Calls /\ Flush.op = "flush"
  <2>1. <<>> \in Seq(Symbols)
    OBVIOUS
  <2> QED
    BY <2>1 DEF Flush, Calls
<1>6. /\ q \in Seq(Calls) /\ Len(q) <= 3 /\ q # <<>> /\ q[Len(q)] = Flush
      /\ \A i \in 1 .. Len(q) : q[i].op = "flush" => i = Len(q)
  <2>1. /\ Placeholder \in Seq(Calls) /\ Len(Placeholder) <= 2
        /\ \A i \in 1 .. Len(Placeholder) : Placeholder[i].op # "flush"
    BY PlaceholderCalls DEF OutTypes
  <2>2. q = Placeholder \o <<Flush>>
    BY <1>1, <1>4
  <2> QED
    BY <1>5, <2>1, <2>2, NewQueue
<1>7. Queue'
  BY <1>4, <1>6 DEF Queue
<1>8. Place'
  <2>1. mode # "events" /\ mode # "file" /\ holding
    BY <1>1 DEF OutTypes, Place
  <2>2. inParam' = FALSE
    BY <1>1 DEF NoParam
  <2>3. pending' # <<>> /\ pending'[Len(pending')].op = "flush"
    BY <1>4, <1>5, <1>6
  <2> QED
    BY <1>1, <2>1, <2>2, <2>3 DEF Place
<1> QED
  BY <1>2, <1>3, <1>7, <1>8 DEF OutTypes

\* The steps that put something on the wire and nothing in the buffer
LEMMA Puts ==
  ASSUME OutTypes, NEW x \in Items, wire' = wire \/ wire' = Append(wire, x), Texts',
         failed' \in BOOLEAN, holding' \in BOOLEAN, UNCHANGED <<pending, inParam, param, buf, flushes>>
  PROVE  Buffering' /\ Queue'
<1>1. wire' \in Seq(Items)
  <2>1. wire \in Seq(Items)
    BY DEF OutTypes, Buffering
  <2>2. Append(wire, x) \in Seq(Items)
    BY <2>1
  <2> QED
    BY <2>1, <2>2
<1>2. Buffering'
  BY <1>1 DEF OutTypes, Buffering
<1>3. Queue'
  BY DEF OutTypes, Queue
<1> QED
  BY <1>2, <1>3

LEMMA BeginTypes ==
  ASSUME OutTypes, NEW allocated \in BOOLEAN, BeginStream(allocated) \/ BeginWhole(allocated) \/ BeginEvents(allocated)
  PROVE  OutTypes'
<1>1. <<>> \in Seq(Symbols)
  OBVIOUS
<1>2. ErrorPage \in Items /\ StreamHead \in Items
  BY <1>1 DEF ErrorPage, StreamHead, Items
<1>3. /\ phase = "begin" /\ todo = input /\ ~failed /\ ~holding /\ ~inParam /\ pending = <<>> /\ buf = <<>>
      /\ Texts /\ holding \in BOOLEAN /\ failed \in BOOLEAN
  BY DEF OutTypes, Place, Buffering, BeginStream, BeginWhole, BeginEvents
<1>4. CASE BeginStream(allocated)
  <2>1. Texts' /\ failed' \in BOOLEAN /\ holding' \in BOOLEAN /\ UNCHANGED <<pending, inParam, param, buf, flushes>>
    BY <1>3, <1>4 DEF BeginStream, Texts, Written
  <2>2. wire' = wire \/ wire' = Append(wire, ErrorPage)
    BY <1>4 DEF BeginStream, Put
  <2>3. Place'
    BY <1>3, <1>4 DEF BeginStream, Place
  <2> QED
    BY <1>2, <2>1, <2>2, <2>3, Puts DEF OutTypes
<1>5. CASE BeginWhole(allocated)
  <2>1. /\ mode \in {"json", "file"}
        /\ UNCHANGED <<mode, input, pending, inParam, param, buf, failed, flushes>>
        /\ \/ wire' = Append(wire, ErrorPage) /\ phase' = "done" /\ UNCHANGED <<holding, todo>>
           \/ wire' = Append(wire, Whole(input)) /\ todo' = <<>> /\ phase' = "done" /\ UNCHANGED holding
           \/ holding' = TRUE /\ phase' = (IF mode = "json" THEN "write" ELSE "file") /\ UNCHANGED <<wire, todo>>
    BY <1>5 DEF BeginWhole, Put
  <2>2. Whole(input) \in Items
    BY <1>3, <2>1, TodoSymbols DEF Whole, Items
  <2>3. Texts'
    <3>1. CASE todo' = todo
      BY <1>3, <2>1, <3>1 DEF Texts, Written
    <3>2. CASE todo' = <<>>
      <4>1. Len(todo) \in 0 .. Len(todo) /\ SubSeq(todo, Len(todo) + 1, Len(todo)) = <<>>
        BY <1>3 DEF Texts
      <4>2. Taken(Len(todo)) /\ UNCHANGED <<mode, input>>
        BY <2>1, <3>2, <4>1 DEF Taken
      <4> QED
        BY <1>3, <4>1, <4>2, TakenTexts
    <3> QED
      BY <2>1, <3>1, <3>2
  <2>4. failed' \in BOOLEAN /\ holding' \in BOOLEAN
    BY <1>3, <2>1
  <2>5. wire' = wire \/ wire' = Append(wire, ErrorPage) \/ wire' = Append(wire, Whole(input))
    BY <2>1
  <2>6. Buffering' /\ Queue'
    BY <1>2, <2>1, <2>2, <2>3, <2>4, <2>5, Puts
  <2>7. Place'
    BY <1>3, <2>1 DEF Place
  <2> QED
    BY <2>3, <2>6, <2>7 DEF OutTypes
<1>6. CASE BeginEvents(allocated)
  <2>1. Texts' /\ failed' \in BOOLEAN /\ holding' \in BOOLEAN /\ UNCHANGED <<pending, inParam, param, buf, flushes>>
    BY <1>3, <1>6 DEF BeginEvents, Texts, Written
  <2>2. wire' = wire \/ wire' = Append(wire, StreamHead)
    BY <1>6 DEF BeginEvents, Put
  <2>3. Place'
    BY <1>3, <1>6 DEF BeginEvents, Place
  <2> QED
    BY <1>2, <2>1, <2>2, <2>3, Puts DEF OutTypes
<1> QED
  BY <1>4, <1>5, <1>6

LEMMA EndTypes ==
  ASSUME OutTypes, EndSend \/ Destroy \/ FileEnd \/ LoseEvents
  PROVE  OutTypes'
<1>1. Terminator \in Items
  <2>1. <<>> \in Seq(Symbols)
    OBVIOUS
  <2> QED
    BY <2>1 DEF Terminator, Items
<1>2. Texts' /\ UNCHANGED <<pending, inParam, param, buf, flushes>>
  BY DEF OutTypes, Texts, Written, EndSend, Destroy, FileEnd, LoseEvents
<1>3. failed' \in BOOLEAN /\ holding' \in BOOLEAN
  BY DEF OutTypes, Buffering, EndSend, Destroy, FileEnd, LoseEvents
<1>4. wire' = wire \/ wire' = Append(wire, Terminator)
  BY DEF EndSend, Destroy, FileEnd, LoseEvents, Put
<1>5. Buffering' /\ Queue'
  BY <1>1, <1>2, <1>3, <1>4, Puts
<1>6. Place'
  <2>1. CASE EndSend
    BY <2>1 DEF OutTypes, Place, EndSend
  <2>2. CASE Destroy
    BY <2>2 DEF OutTypes, Place, Destroy
  <2>3. CASE FileEnd
    BY <2>3 DEF OutTypes, Place, FileEnd
  <2>4. CASE LoseEvents
    BY <2>4 DEF OutTypes, Place, LoseEvents
  <2> QED
    BY <2>1, <2>2, <2>3, <2>4
<1> QED
  BY <1>2, <1>5, <1>6 DEF OutTypes

\* A piece of a file
LEMMA FileChunkParts ==
  ASSUME OutTypes, NEW ok \in BOOLEAN, FileChunk(ok)
  PROVE  \E n \in 1 .. Len(todo) :
           /\ n <= Size /\ (n < Size => n = Len(todo)) /\ Taken(n)
           /\ SubSeq(todo, 1, n) \in Seq(Symbols) /\ Len(SubSeq(todo, 1, n)) = n
           /\ SendChunk(SubSeq(todo, 1, n), ok)
<1>1. mode = "file" /\ todo # <<>>
  BY DEF OutTypes, Place, FileChunk
<1>2. todo \in Seq(Symbols)
  BY <1>1, TodoSymbols DEF OutTypes
<1>3. PICK n : n = Least(Size, Len(todo))
  OBVIOUS
<1>4. Len(todo) \in Nat /\ Len(todo) # 0
  BY <1>1, <1>2
<1>5. n \in 1 .. Len(todo) /\ n <= Size /\ (n < Size => n = Len(todo))
  BY <1>3, <1>4, SizeAssumption DEF Least
<1>6. SubSeq(todo, 1, n) \in Seq(Symbols) /\ Len(SubSeq(todo, 1, n)) = n
  BY <1>2, <1>5, Splitting
<1>7. Taken(n) /\ SendChunk(SubSeq(todo, 1, n), ok)
  BY <1>3 DEF FileChunk
<1> QED
  BY <1>5, <1>6, <1>7

LEMMA FileChunkTypes ==
  ASSUME OutTypes, NEW ok \in BOOLEAN, FileChunk(ok)
  PROVE  OutTypes'
<1>1. PICK n \in 1 .. Len(todo) :
        /\ Taken(n) /\ SubSeq(todo, 1, n) \in Seq(Symbols) /\ SendChunk(SubSeq(todo, 1, n), ok)
  BY FileChunkParts
<1>2. /\ phase = "file" /\ todo # <<>>
      /\ IF ok THEN UNCHANGED <<phase, holding>> ELSE phase' = "done" /\ holding' = FALSE
      /\ UNCHANGED <<mode, input, pending, inParam, param, buf, flushes>>
  BY DEF FileChunk
<1>3. Texts'
  <2>1. n \in 0 .. Len(todo)
    OBVIOUS
  <2> QED
    BY <1>1, <1>2, <2>1, TakenTexts DEF OutTypes
<1>4. PICK x \in Items : wire' = Append(wire, x)
  <2>1. <<>> \in Seq(Symbols)
    OBVIOUS
  <2>2. Chunk(SubSeq(todo, 1, n)) \in Items /\ Terminator \in Items
    BY <1>1, <2>1 DEF Chunk, Terminator, Items
  <2> QED
    BY <1>1, <2>2 DEF SendChunk, Put
<1>5. failed' \in BOOLEAN /\ holding' \in BOOLEAN
  <2>1. failed \in BOOLEAN /\ holding \in BOOLEAN
    BY DEF OutTypes, Buffering
  <2>2. failed' \in BOOLEAN
    BY <1>1, <2>1 DEF SendChunk
  <2> QED
    BY <1>2, <2>1, <2>2
<1>6. Buffering' /\ Queue'
  BY <1>2, <1>3, <1>4, <1>5, Puts
<1>7. Place'
  BY <1>2 DEF OutTypes, Place
<1> QED
  BY <1>3, <1>6, <1>7 DEF OutTypes

\* An event's text is made of symbols.
LEMMA EventTexts ==
  ASSUME Texts, mode = "events", todo # <<>>
  PROVE  /\ IsEvent(Head(todo)) /\ EventText(Head(todo)) \in Seq(Symbols)
         /\ Len(todo) \in Nat \ {0} /\ Head(todo) = todo[1]
<1>1. /\ input \in Inputs["events"] /\ todo \in Seq(Range(input))
      /\ \A e \in Range(input) : IsEvent(e)
  BY InputsAssumption DEF Texts, Modes
<1>2. PICK e : e = Head(todo)
  OBVIOUS
<1>3. e \in Range(input) /\ IsEvent(e) /\ Len(todo) \in Nat \ {0} /\ e = todo[1]
  BY <1>1, <1>2
<1>4. \E A : EventText(e) \in Seq(A)
  <2> DEFINE A == {e.reconnect, e.id, e.event, EndOfLine, "retry: ", "id: ", "event: ", "data: "} \cup Range(e.message[1])
  <2>1. e.message # <<>> => e.message[1] \in Seq(Range(e.message[1]))
    <3>1. e.message \in Seq(Range(e.message)) /\ \A m \in Range(e.message) : m \in Seq(Range(m))
      BY <1>3 DEF IsEvent, IsText
    <3> QED
      BY <3>1
  <2>2. /\ "retry: " \in A /\ "id: " \in A /\ "event: " \in A /\ "data: " \in A /\ EndOfLine \in A
        /\ e.reconnect \in A /\ e.id \in A /\ e.event \in A /\ Range(e.message[1]) \subseteq A
    OBVIOUS
  <2> HIDE DEF A
  <2>3. e.message # <<>> => e.message[1] \in Seq(A)
    <3>1. \A t, S : t \in Seq(S) /\ S \subseteq A => t \in Seq(A)
      OBVIOUS
    <3>2. PICK t, S : t = e.message[1] /\ S = Range(e.message[1])
      OBVIOUS
    <3> QED
      BY <2>1, <2>2, <3>1, <3>2
  <2>4. \A x \in A : <<x>> \in Seq(A)
    OBVIOUS
  <2>5. \A s, t \in Seq(A) : s \o t \in Seq(A)
    OBVIOUS
  <2>6. <<>> \in Seq(A)
    OBVIOUS
  <2> DEFINE a == IF e.reconnect = "0" THEN <<>> ELSE <<"retry: ">> \o <<e.reconnect>> \o <<EndOfLine>>
             b == IF e.id = "0" THEN <<>> ELSE <<"id: ">> \o <<e.id>> \o <<EndOfLine>>
             c == IF e.event = "" THEN <<>> ELSE <<"event: ">> \o <<e.event>> \o <<EndOfLine>>
             d == IF e.message = <<>> THEN <<>> ELSE <<"data: ">> \o e.message[1] \o <<EndOfLine>>
  <2>7. a \in Seq(A) /\ b \in Seq(A) /\ c \in Seq(A) /\ d \in Seq(A)
    BY <2>2, <2>3, <2>4, <2>5, <2>6
  <2>8. EventText(e) = a \o b \o c \o d \o <<EndOfLine>>
    BY DEF EventText
  <2> HIDE DEF a, b, c, d
  <2>9. a \o b \o c \o d \o <<EndOfLine>> \in Seq(A)
    BY <2>2, <2>4, <2>5, <2>7
  <2> QED
    BY <2>8, <2>9
<1>5. EventText(e) \in Seq(Range(EventText(e)))
  <2>1. PICK A, u : u \in Seq(A) /\ u = EventText(e)
    BY <1>4
  <2>2. \A i \in 1 .. Len(u) : u[i] \in Range(u)
    BY <2>1 DEF Range
  <2>3. u \in Seq(Range(u))
    <3>1. PICK R : R = Range(u)
      OBVIOUS
    <3>2. u \in [1 .. Len(u) -> R] /\ Len(u) \in Nat
      BY <2>1, <2>2, <3>1
    <3> QED
      BY <3>1, <3>2
  <2> QED
    BY <2>1, <2>3
<1>6. Range(EventText(e)) \subseteq Symbols
  <2>1. e \in UNION {Range(t) : t \in Inputs["events"]}
    BY <1>1, <1>3
  <2>2. PICK E : E = UNION {Range(t) : t \in Inputs["events"]}
    OBVIOUS
  <2>3. Range(EventText(e)) \subseteq UNION {Range(EventText(f)) : f \in E}
    BY <2>1, <2>2
  <2> QED
    <3>1. PICK X : X = UNION {Range(EventText(f)) : f \in E}
      OBVIOUS
    <3>2. X = Sendable
      BY <2>2, <3>1 DEF Sendable
    <3>3. Sendable \subseteq Symbols
      BY DEF Symbols
    <3> QED
      BY <2>3, <3>1, <3>2, <3>3
<1>7. EventText(e) \in Seq(Symbols)
  BY <1>5, <1>6
<1> QED
  BY <1>2, <1>3, <1>7

LEMMA SendEventTypes ==
  ASSUME OutTypes, NEW n, SendEvent(n)
  PROVE  OutTypes'
<1>1. /\ phase = "events" /\ todo # <<>> /\ mode = "events"
      /\ n \in 1 .. Len(EventText(Head(todo)))
      /\ wire' = Append(wire, Text(SubSeq(EventText(Head(todo)), 1, n)))
      /\ failed' = (failed \/ n < Len(EventText(Head(todo)))) /\ Taken(1)
      /\ UNCHANGED <<mode, input, pending, inParam, param, buf, holding, flushes, phase>>
  BY DEF OutTypes, Place, SendEvent, Put
<1>2. EventText(Head(todo)) \in Seq(Symbols) /\ 1 \in 0 .. Len(todo)
  BY <1>1, EventTexts DEF OutTypes
<1>3. Texts'
  BY <1>1, <1>2, TakenTexts DEF OutTypes
<1>4. Text(SubSeq(EventText(Head(todo)), 1, n)) \in Items
  <2>1. n \in 0 .. Len(EventText(Head(todo)))
    BY <1>1
  <2>2. SubSeq(EventText(Head(todo)), 1, n) \in Seq(Symbols)
    BY <1>2, <2>1, Splitting
  <2> QED
    BY <2>2 DEF Text, Items
<1>5. failed' \in BOOLEAN /\ holding' \in BOOLEAN
  BY <1>1 DEF OutTypes, Buffering
<1>6. Buffering' /\ Queue'
  BY <1>1, <1>3, <1>4, <1>5, Puts
<1>7. Place'
  BY <1>1 DEF OutTypes, Place
<1> QED
  BY <1>3, <1>6, <1>7 DEF OutTypes

LEMMA NextTypes == OutTypes /\ [OutNext]_outVars => OutTypes'
<1> SUFFICES ASSUME OutTypes, [OutNext]_outVars PROVE OutTypes'
  OBVIOUS
<1>1. ASSUME NEW ok \in BOOLEAN, DoByte(ok) \/ DoBlock(ok) \/ DoFlush(ok) \/ DoCopy(ok) PROVE OutTypes'
  BY <1>1, PrintsByte, PrintsBlock, PrintsFlush, PrintsCopy, PrintsTypes
<1>2. CASE UNCHANGED outVars
  BY <1>2 DEF outVars, OutTypes, Texts, Buffering, Queue, Place, Written
<1> QED
  BY <1>1, <1>2, BeginTypes, SendEventTypes, EndTypes, FileChunkTypes, WriteTypes, FlushNowTypes, TemplateTypes, FinishTypes
     DEF OutNext

LEMMA SuffixOfInput == Texts => IsSuffix(todo, input)
<1> SUFFICES ASSUME Texts PROVE IsSuffix(todo, input)
  OBVIOUS
<1>1. /\ input \in Seq(Range(input)) /\ todo \in Seq(Range(input)) /\ Len(todo) <= Len(input)
      /\ \A i \in 1 .. Len(todo) : todo[i] = input[Len(input) - Len(todo) + i]
  BY InputsAssumption DEF Texts, IsText, Written
<1>2. PICK A, m, n : A = Range(input) /\ m = Len(todo) /\ n = Len(input)
  OBVIOUS
<1>3. m \in Nat /\ n \in Nat /\ m <= n
  BY <1>1, <1>2
<1>4. PICK s, t : s = Reverse(todo) /\ t = Reverse(input)
  OBVIOUS
<1>5. /\ s \in Seq(A) /\ Len(s) = m /\ \A i \in 1 .. m : s[i] = todo[m - i + 1]
      /\ t \in Seq(A) /\ Len(t) = n /\ \A i \in 1 .. n : t[i] = input[n - i + 1]
  <2>1. \A i \in 1 .. m : m - i + 1 \in 1 .. m
    BY <1>3
  <2>2. \A i \in 1 .. n : n - i + 1 \in 1 .. n
    BY <1>3
  <2>3. \A i \in 1 .. m : todo[m - i + 1] \in A
    BY <1>1, <1>2, <2>1
  <2>4. \A i \in 1 .. n : input[n - i + 1] \in A
    BY <1>1, <1>2, <2>2
  <2>5. s = [i \in 1 .. m |-> todo[m - i + 1]] /\ t = [i \in 1 .. n |-> input[n - i + 1]]
    BY <1>2, <1>4 DEF Reverse
  <2>6. \A f, k : k \in Nat /\ f \in [1 .. k -> A] => f \in Seq(A) /\ Len(f) = k
    OBVIOUS
  <2>7. s \in [1 .. m -> A] /\ t \in [1 .. n -> A]
    BY <2>3, <2>4, <2>5
  <2> QED
    BY <1>3, <2>5, <2>6, <2>7
<1>6. ASSUME NEW i \in 1 .. m PROVE s[i] = t[i]
  <2>1. m - i + 1 \in 1 .. m /\ i \in 1 .. n /\ n - m + (m - i + 1) = n - i + 1
    BY <1>3
  <2>2. todo[m - i + 1] = input[n - m + (m - i + 1)]
    BY <1>1, <1>2, <2>1
  <2> QED
    BY <1>5, <2>1, <2>2
<1>7. IsPrefix(s, t)
  BY <1>3, <1>5, <1>6, PrefixPointwise
<1> QED
  BY <1>4, <1>7 DEF IsSuffix

LEMMA TypesGiveTypeOK == OutTypes => OutTypeOK
<1> SUFFICES ASSUME OutTypes PROVE OutTypeOK
  OBVIOUS
<1>1. IsSuffix(todo, input)
  BY SuffixOfInput DEF OutTypes
<1>2. ~holding => buf = <<>>
  BY DEF OutTypes, Place
<1> QED
  BY <1>1, <1>2 DEF OutTypes, Texts, Buffering, Place, OutTypeOK

-----------------------------------------------------------------------------
(* The end of a response                                                   *)

LEMMA KindAfter ==
  ASSUME wire \in Seq(Items), NEW x \in Items, wire' = Append(wire, x), NEW k
  PROVE  /\ Kind(k)' = Kind(k) \cup {i \in {Len(wire) + 1} : x.kind = k}
         /\ Len(wire') = Len(wire) + 1 /\ Len(wire) \in Nat
         /\ wire'[Len(wire) + 1] = x
         /\ \A i \in 1 .. Len(wire) : wire'[i] = wire[i]
         /\ Kind(k) \subseteq 1 .. Len(wire)
<1>1. PICK w : w = wire'
  OBVIOUS
<1>2. /\ Len(w) = Len(wire) + 1 /\ w[Len(wire) + 1] = x /\ Len(wire) \in Nat
      /\ \A i \in 1 .. Len(wire) : w[i] = wire[i]
  BY <1>1
<1>3. \A i : i \in 1 .. Len(w) <=> i \in 1 .. Len(wire) \/ i = Len(wire) + 1
  BY <1>2
<1>4. {i \in 1 .. Len(w) : w[i].kind = k} = Kind(k) \cup {i \in {Len(wire) + 1} : x.kind = k}
  BY <1>2, <1>3 DEF Kind
<1> QED
  BY <1>1, <1>2, <1>4 DEF Kind

\* The ends on the wire: none before the response ends, then the last thing there is
Ended ==
  ~failed \/ mode = "file" =>
    /\ phase \notin {"ended", "done"} => Kind("end") = {}
    /\ phase = "ended" => Kind("end") # {}
    /\ \A i \in Kind("end") : i = Len(wire)
    /\ phase = "done" /\ mode # "events" => Kind("end") # {} \/ Len(wire) = 1

LEMMA InitEnded == OutInit => Ended
  BY DEF OutInit, Ended, Kind

\* Nothing but an end is the end.
LEMMA NoEnd ==
  ASSUME OutTypes, Ended, phase \notin {"ended", "done"}, NEW x \in Items, x.kind # "end",
         wire' = wire \/ wire' = Append(wire, x),
         (~failed' \/ mode' = "file") => (~failed \/ mode = "file"),
         phase' # "ended",
         phase' = "done" => (wire = <<>> /\ wire' = Append(wire, x)) \/ mode' = "events"
  PROVE  Ended'
<1> SUFFICES ASSUME ~failed' \/ mode' = "file"
             PROVE  /\ Kind("end")' = {}
                    /\ phase' = "done" /\ mode' # "events" => Len(wire') = 1
  BY DEF Ended
<1>1. Kind("end") = {} /\ wire \in Seq(Items)
  BY DEF Ended, OutTypes, Buffering
<1>2. CASE wire' = wire
  <2>1. Kind("end")' = {}
    BY <1>1, <1>2 DEF Kind
  <2>2. ASSUME phase' = "done", mode' # "events" PROVE Len(wire') = 1
    BY <1>1, <1>2, <2>2
  <2> QED
    BY <2>1, <2>2
<1>3. CASE wire' = Append(wire, x)
  <2>1. Kind("end")' = {}
    BY <1>1, <1>3, KindAfter
  <2>2. ASSUME phase' = "done", mode' # "events" PROVE Len(wire') = 1
    BY <1>1, <1>3, <2>2, KindAfter
  <2> QED
    BY <2>1, <2>2
<1> QED
  BY <1>2, <1>3

LEMMA OneEnd ==
  ASSUME OutTypes, Ended, phase \notin {"ended", "done"}, wire' = Append(wire, Terminator),
         (~failed' \/ mode' = "file") => (~failed \/ mode = "file"),
         phase' \in {"ended", "done"}
  PROVE  Ended'
<1> SUFFICES ASSUME ~failed' \/ mode' = "file"
             PROVE  Kind("end")' # {} /\ \A i \in Kind("end")' : i = Len(wire')
  BY DEF Ended
<1>1. Kind("end") = {} /\ wire \in Seq(Items)
  BY DEF Ended, OutTypes, Buffering
<1>2. Terminator \in Items /\ Terminator.kind = "end"
  <2>1. <<>> \in Seq(Symbols)
    OBVIOUS
  <2> QED
    BY <2>1 DEF Terminator, Items
<1>3. /\ Kind("end")' = Kind("end") \cup {i \in {Len(wire) + 1} : Terminator.kind = "end"}
      /\ Len(wire') = Len(wire) + 1
  BY <1>1, <1>2, KindAfter
<1> QED
  BY <1>1, <1>2, <1>3

LEMMA NextEnded == OutTypes /\ Ended /\ [OutNext]_outVars => Ended'
<1> SUFFICES ASSUME OutTypes, Ended, [OutNext]_outVars PROVE Ended'
  OBVIOUS
<1>1. <<>> \in Seq(Symbols)
  OBVIOUS
<1>2. /\ ErrorPage \in Items /\ ErrorPage.kind # "end" /\ StreamHead \in Items /\ StreamHead.kind # "end"
      /\ \A d \in Seq(Symbols) : /\ Chunk(d) \in Items /\ Chunk(d).kind # "end"
                                 /\ Whole(d) \in Items /\ Whole(d).kind # "end"
                                 /\ Text(d) \in Items /\ Text(d).kind # "end"
  BY <1>1 DEF ErrorPage, StreamHead, Chunk, Whole, Text, Items
<1>3. ASSUME UNCHANGED <<wire, failed, mode>>, phase' # "done", phase \in {"ended", "done"} <=> phase' \in {"ended", "done"},
             phase' = "ended" <=> phase = "ended", phase # "done"
      PROVE  Ended'
  BY <1>3 DEF Ended, Kind
<1>4. ASSUME NEW ok \in BOOLEAN, Prints(ok) PROVE Ended'
  <2>1. pending # <<>> /\ Hands(ok) /\ UNCHANGED <<mode, phase>>
    BY <1>4 DEF Prints, Application
  <2>2. phase \in {"write", "ending"} /\ mode # "file"
    BY <2>1 DEF OutTypes, Place
  <2>3. CASE UNCHANGED <<wire, failed>>
    BY <1>3, <2>1, <2>2, <2>3
  <2>4. ASSUME NEW d \in Seq(Symbols), SendChunk(d, ok) PROVE Ended'
    <3>1. CASE ok
      <4>1. wire' = Append(wire, Chunk(d)) /\ (~failed' => ~failed)
        BY <2>4, <3>1 DEF SendChunk, Put
      <4> QED
        BY <1>2, <2>1, <2>2, <4>1, NoEnd
    <3>2. CASE ~ok
      <4>1. failed' /\ mode' # "file"
        BY <2>1, <2>2, <2>4, <3>2 DEF SendChunk
      <4> QED
        BY <4>1 DEF Ended
    <3> QED
      BY <3>1, <3>2
  <2> QED
    BY <2>1, <2>3, <2>4 DEF Hands
<1>5. ASSUME NEW ok \in BOOLEAN, DoByte(ok) \/ DoBlock(ok) \/ DoFlush(ok) \/ DoCopy(ok) PROVE Ended'
  BY <1>4, <1>5, PrintsByte, PrintsBlock, PrintsFlush, PrintsCopy
<1>6. ASSUME NEW allocated \in BOOLEAN, BeginStream(allocated) PROVE Ended'
  <2>1. phase = "begin" /\ wire = <<>>
    BY <1>6 DEF BeginStream, OutTypes, Place
  <2> QED
    BY <1>2, <1>6, <2>1, NoEnd DEF BeginStream, Put
<1>7. ASSUME NEW allocated \in BOOLEAN, BeginWhole(allocated) PROVE Ended'
  <2>1. phase = "begin" /\ wire = <<>> /\ mode \in {"json", "file"} /\ UNCHANGED <<mode, failed>>
    BY <1>7 DEF BeginWhole, OutTypes, Place
  <2>2. input \in Seq(Symbols)
    BY <2>1, TodoSymbols DEF OutTypes
  <2>3. \/ wire' = Append(wire, ErrorPage) /\ phase' = "done"
        \/ wire' = Append(wire, Whole(input)) /\ phase' = "done"
        \/ wire' = wire /\ phase' \in {"write", "file"}
    BY <1>7 DEF BeginWhole, Put
  <2>4. CASE wire' = Append(wire, ErrorPage) /\ phase' = "done"
    BY <1>2, <2>1, <2>4, NoEnd
  <2>5. CASE wire' = Append(wire, Whole(input)) /\ phase' = "done"
    BY <1>2, <2>1, <2>2, <2>5, NoEnd
  <2>6. CASE wire' = wire /\ phase' \in {"write", "file"}
    BY <1>3, <2>1, <2>6
  <2> QED
    BY <2>3, <2>4, <2>5, <2>6
<1>8. ASSUME NEW ok \in BOOLEAN, BeginEvents(ok) PROVE Ended'
  <2>1. phase = "begin" /\ ~failed /\ phase' = "events"
    BY <1>8 DEF BeginEvents, OutTypes, Place
  <2>2. wire' = wire \/ wire' = Append(wire, StreamHead)
    BY <1>8 DEF BeginEvents, Put
  <2> QED
    BY <1>2, <2>1, <2>2, NoEnd
<1>9. ASSUME NEW n, SendEvent(n) PROVE Ended'
  <2>1. phase = "events" /\ mode = "events" /\ todo # <<>> /\ UNCHANGED <<mode, phase>> /\ (~failed' => ~failed)
        /\ n \in 1 .. Len(EventText(Head(todo)))
        /\ wire' = Append(wire, Text(SubSeq(EventText(Head(todo)), 1, n)))
    BY <1>9 DEF SendEvent, OutTypes, Place, Put
  <2>2. SubSeq(EventText(Head(todo)), 1, n) \in Seq(Symbols)
    <3>1. EventText(Head(todo)) \in Seq(Symbols)
      BY <2>1, EventTexts DEF OutTypes
    <3>2. n \in 0 .. Len(EventText(Head(todo)))
      BY <2>1
    <3> QED
      BY <3>1, <3>2, Splitting
  <2> QED
    BY <1>2, <2>1, <2>2, NoEnd
<1>10. CASE LoseEvents
  <2>1. failed' /\ mode' # "file"
    BY <1>10 DEF LoseEvents, OutTypes, Place
  <2> QED
    BY <2>1 DEF Ended
<1>11. CASE WriteByte \/ (\E n \in 1 .. Len(todo) : WriteBlock(n)) \/ CopyFrom \/ FlushNow \/ TemplateWrite
  <2>1. phase = "write" /\ UNCHANGED Printer
    BY <1>11 DEF WriteByte, WriteBlock, CopyFrom, FlushNow, TemplateWrite, Writing
  <2> QED
    BY <1>3, <2>1 DEF Printer
<1>12. CASE Finish
  BY <1>3, <1>12 DEF Finish, Writing
<1>13. CASE EndSend
  BY <1>13, OneEnd DEF EndSend, Put
<1>14. CASE Destroy
  <2>1. ~holding /\ phase = "ended"
    BY <1>14 DEF Destroy, OutTypes, Place
  <2>2. UNCHANGED <<wire, failed, mode>> /\ phase' = "done"
    BY <1>14, <2>1 DEF Destroy
  <2> QED
    BY <2>1, <2>2 DEF Ended, Kind
<1>15. CASE FileEnd
  BY <1>15, OneEnd DEF FileEnd, Put
<1>16. ASSUME NEW ok \in BOOLEAN, FileChunk(ok) PROVE Ended'
  <2>1. PICK d \in Seq(Symbols) : SendChunk(d, ok)
    BY <1>16, FileChunkParts
  <2>2. phase = "file" /\ mode = "file" /\ UNCHANGED mode /\ phase' = IF ok THEN phase ELSE "done"
    BY <1>16 DEF FileChunk, OutTypes, Place
  <2>3. CASE ok
    <3>1. wire' = Append(wire, Chunk(d))
      BY <2>1, <2>3 DEF SendChunk, Put
    <3> QED
      BY <1>2, <2>2, <2>3, <3>1, NoEnd
  <2>4. CASE ~ok
    <3>1. wire' = Append(wire, Terminator)
      BY <2>1, <2>4 DEF SendChunk, Put
    <3> QED
      BY <2>2, <2>4, <3>1, OneEnd
  <2> QED
    BY <2>3, <2>4
<1>17. CASE UNCHANGED outVars
  BY <1>17 DEF outVars, Ended, Kind
<1> QED
  BY <1>5, <1>6, <1>7, <1>8, <1>9, <1>10, <1>11, <1>12, <1>13, <1>14, <1>15, <1>16, <1>17 DEF OutNext

\* A response is ended once, and nothing follows its end.
THEOREM ResponseEndsOnce == OutSpec => []EndsOnce
<1>1. OutInit => OutTypes /\ Ended
  BY InitTypes, InitEnded
<1>2. OutTypes /\ Ended /\ [OutNext]_outVars => (OutTypes /\ Ended)'
  BY NextTypes, NextEnded
<1>3. OutTypes /\ Ended => EndsOnce
  BY TypesGiveTypeOK DEF Ended, EndsOnce
<1> QED
  BY <1>1, <1>2, <1>3, PTL DEF OutSpec

-----------------------------------------------------------------------------
(* The chunks                                                              *)

\* There is more to come: no chunk may be short yet.
Filling ==
  phase \in {"begin", "write"} \/ (phase = "file" /\ todo # <<>>) \/ (phase = "ending" /\ pending # <<>>)

Lengths ==
  /\ \A i \in Kind("chunk") : Len(wire[i].data) \in 1 .. Size
  /\ flushes = 0 /\ ~failed =>
       /\ \A i, j \in Kind("chunk") : i < j => Len(wire[i].data) = Size
       /\ Filling => \A i \in Kind("chunk") : Len(wire[i].data) = Size

\* Without flush() calls of the application the only flush is the one at the end.
LastFlush == flushes = 0 => \A i \in 1 .. Len(pending) : pending[i].op = "flush" => phase = "ending"

LEMMA LengthsAfter ==
  ASSUME OutTypes, Lengths, NEW x \in Items, wire' = wire \/ wire' = Append(wire, x),
         x.kind = "chunk" =>
           /\ Len(x.data) \in 1 .. Size
           /\ flushes' = 0 /\ ~failed' => Filling /\ (Filling' => Len(x.data) = Size),
         flushes' = 0 /\ ~failed' => flushes = 0 /\ ~failed /\ (Filling' => Filling)
  PROVE  Lengths'
<1>1. wire \in Seq(Items) /\ Len(wire) \in Nat
  BY DEF OutTypes, Buffering
<1>2. CASE wire' = wire
  <2>1. Kind("chunk")' = Kind("chunk")
    BY <1>2 DEF Kind
  <2> QED
    BY <1>2, <2>1 DEF Lengths
<1>3. CASE wire' = Append(wire, x)
  <2>1. PICK l, K, N, w :
          /\ l \in Nat /\ l = Len(wire) /\ K = Kind("chunk") /\ N = Kind("chunk")' /\ w = wire'
          /\ N = K \cup {i \in {l + 1} : x.kind = "chunk"} /\ w[l + 1] = x
          /\ \A i \in K : i \in 1 .. l /\ w[i] = wire[i]
    <3>1. /\ Kind("chunk")' = Kind("chunk") \cup {i \in {Len(wire) + 1} : x.kind = "chunk"}
          /\ wire'[Len(wire) + 1] = x
          /\ \A i \in 1 .. Len(wire) : wire'[i] = wire[i]
          /\ Kind("chunk") \subseteq 1 .. Len(wire)
      BY <1>1, <1>3, KindAfter
    <3> QED
      BY <1>1, <3>1
  <2>2. ASSUME NEW i \in N PROVE Len(w[i].data) \in 1 .. Size
    BY <2>1 DEF Lengths
  <2>3. ASSUME flushes' = 0, ~failed'
        PROVE  /\ \A i, j \in N : i < j => Len(w[i].data) = Size
               /\ Filling' => \A i \in N : Len(w[i].data) = Size
    <3>1. /\ \A i, j \in K : i < j => Len(wire[i].data) = Size
          /\ Filling => \A i \in K : Len(wire[i].data) = Size
          /\ Filling' => Filling
      BY <2>1, <2>3 DEF Lengths
    <3>2. ASSUME NEW i \in N, NEW j \in N, i < j PROVE Len(w[i].data) = Size
      <4>1. i \in K
        BY <2>1, <3>2
      <4>2. CASE j \in K
        BY <2>1, <3>1, <3>2, <4>1, <4>2
      <4>3. CASE j \notin K
        <5>1. x.kind = "chunk"
          BY <2>1, <4>3
        <5>2. Filling
          BY <2>3, <5>1
        <5> QED
          BY <2>1, <3>1, <4>1, <5>2
      <4> QED
        BY <4>2, <4>3
    <3>3. ASSUME Filling', NEW i \in N PROVE Len(w[i].data) = Size
      <4>1. CASE i \in K
        BY <2>1, <3>1, <3>3, <4>1
      <4>2. CASE i \notin K
        <5>1. x.kind = "chunk" /\ w[i] = x
          BY <2>1, <4>2
        <5> QED
          BY <2>3, <3>3, <5>1
      <4> QED
        BY <4>1, <4>2
    <3> QED
      BY <3>2, <3>3
  <2> QED
    BY <2>1, <2>2, <2>3 DEF Lengths
<1> QED
  BY <1>2, <1>3

LEMMA PrintsLengths ==
  ASSUME OutTypes, Lengths, LastFlush, NEW ok \in BOOLEAN, Prints(ok)
  PROVE  Lengths' /\ LastFlush'
<1>1. /\ pending # <<>> /\ GoesOn /\ Hands(ok) /\ UNCHANGED <<todo, flushes, phase>>
      /\ Head(pending).op = "flush" => pending' = Tail(pending)
  BY DEF Prints, Application
<1>2. phase \in {"write", "ending"} /\ Filling
  BY <1>1 DEF OutTypes, Place, Filling
<1>3. LastFlush'
  BY <1>1, QueueAfter DEF LastFlush
<1>4. <<>> \in Seq(Symbols)
  OBVIOUS
<1>5. CASE UNCHANGED <<wire, failed>>
  <2>1. ErrorPage \in Items /\ ErrorPage.kind # "chunk"
    BY <1>4 DEF ErrorPage, Items
  <2> QED
    BY <1>1, <1>2, <1>3, <1>5, <2>1, LengthsAfter
<1>6. ASSUME NEW d \in Seq(Symbols), SendChunk(d, ok), Len(d) \in 1 .. Size, Len(d) = Size \/ Head(pending).op = "flush"
      PROVE  Lengths'
  <2>1. CASE ok
    <3>1. PICK x : x = Chunk(d)
      OBVIOUS
    <3>2. x \in Items /\ wire' = Append(wire, x) /\ failed' = failed /\ Len(x.data) \in 1 .. Size /\ x.data = d
      <4>1. failed \in BOOLEAN
        BY DEF OutTypes, Buffering
      <4> QED
        BY <1>6, <2>1, <3>1, <4>1 DEF SendChunk, Put, Chunk, Items
    <3>3. ASSUME flushes' = 0, Filling' PROVE Len(x.data) = Size
      <4>1. ASSUME Head(pending).op = "flush" PROVE FALSE
        <5>1. Len(pending) \in 1 .. 3 /\ pending[1].op = "flush"
          BY <1>1, <4>1, PendingParts
        <5>2. phase = "ending" /\ 1 = Len(pending)
          <6>1. 1 \in 1 .. Len(pending)
            BY <5>1
          <6>2. phase = "ending"
            BY <1>1, <3>3, <5>1, <6>1 DEF LastFlush
          <6>3. 1 = Len(pending)
            BY <5>1, <6>1 DEF OutTypes, Queue
          <6> QED
            BY <6>2, <6>3
        <5>3. pending' = <<>>
          <6>1. Tail(pending) \in Seq(Calls) /\ Len(Tail(pending)) = 0
            BY <1>1, <5>2, PendingParts DEF Rest
          <6> QED
            BY <1>1, <4>1, <6>1
        <5> QED
          BY <1>1, <3>3, <5>2, <5>3 DEF Filling
      <4> QED
        BY <1>6, <3>2, <4>1
    <3> QED
      BY <1>1, <1>2, <3>2, <3>3, LengthsAfter
  <2>2. CASE ~ok
    <3>1. Terminator \in Items /\ Terminator.kind # "chunk" /\ wire' = Append(wire, Terminator) /\ failed'
      BY <1>4, <1>6, <2>2 DEF SendChunk, Put, Terminator, Items
    <3> QED
      BY <3>1, LengthsAfter
  <2> QED
    BY <2>1, <2>2
<1> QED
  BY <1>1, <1>3, <1>5, <1>6 DEF Hands

LEMMA NextLengths == OutTypes /\ Lengths /\ LastFlush /\ [OutNext]_outVars => (Lengths /\ LastFlush)'
<1> SUFFICES ASSUME OutTypes, Lengths, LastFlush, [OutNext]_outVars PROVE Lengths' /\ LastFlush'
  OBVIOUS
<1>1. <<>> \in Seq(Symbols)
  OBVIOUS
<1>2. /\ ErrorPage \in Items /\ ErrorPage.kind # "chunk" /\ StreamHead \in Items /\ StreamHead.kind # "chunk"
      /\ Terminator \in Items /\ Terminator.kind # "chunk"
      /\ \A d \in Seq(Symbols) : /\ Chunk(d) \in Items /\ Chunk(d).data = d
                                 /\ Whole(d) \in Items /\ Whole(d).kind # "chunk"
                                 /\ Text(d) \in Items /\ Text(d).kind # "chunk"
  BY <1>1 DEF ErrorPage, StreamHead, Chunk, Whole, Text, Terminator, Items
<1>3. flushes \in Nat /\ flushes + 1 # 0
  BY FlushesAssumption DEF OutTypes, Buffering
<1>5. ASSUME NEW ok \in BOOLEAN, DoByte(ok) \/ DoBlock(ok) \/ DoFlush(ok) \/ DoCopy(ok) PROVE Lengths' /\ LastFlush'
  BY <1>5, PrintsByte, PrintsBlock, PrintsFlush, PrintsCopy, PrintsLengths
<1>6. ASSUME NEW allocated \in BOOLEAN, BeginStream(allocated) \/ BeginWhole(allocated) \/ BeginEvents(allocated)
      PROVE  Lengths' /\ LastFlush'
  <2>1. phase = "begin" /\ Filling /\ pending = <<>> /\ UNCHANGED <<pending, flushes>> /\ (~failed' => ~failed)
    BY <1>6 DEF BeginStream, BeginWhole, BeginEvents, OutTypes, Place, Filling
  <2>2. LastFlush'
    BY <2>1 DEF LastFlush
  <2>3. PICK x \in Items : x.kind # "chunk" /\ (wire' = wire \/ wire' = Append(wire, x))
    <3>1. CASE BeginStream(allocated)
      BY <1>2, <3>1 DEF BeginStream, Put
    <3>2. CASE BeginWhole(allocated)
      <4>1. mode # "events"
        BY <3>2 DEF BeginWhole
      <4>2. input \in Seq(Symbols)
        BY <4>1, TodoSymbols DEF OutTypes
      <4>3. wire' = wire \/ wire' = Append(wire, ErrorPage) \/ wire' = Append(wire, Whole(input))
        BY <3>2 DEF BeginWhole, Put
      <4> QED
        BY <1>2, <4>2, <4>3
    <3>3. CASE BeginEvents(allocated)
      BY <1>2, <3>3 DEF BeginEvents, Put
    <3> QED
      BY <1>6, <3>1, <3>2, <3>3
  <2> QED
    BY <2>1, <2>2, <2>3, LengthsAfter
<1>7. ASSUME NEW n, SendEvent(n) PROVE Lengths' /\ LastFlush'
  <2>1. phase = "events" /\ mode = "events" /\ todo # <<>> /\ UNCHANGED <<phase, pending, flushes>> /\ (~failed' => ~failed)
        /\ n \in 1 .. Len(EventText(Head(todo)))
        /\ wire' = Append(wire, Text(SubSeq(EventText(Head(todo)), 1, n)))
    BY <1>7 DEF SendEvent, OutTypes, Place, Put
  <2>2. SubSeq(EventText(Head(todo)), 1, n) \in Seq(Symbols)
    <3>1. EventText(Head(todo)) \in Seq(Symbols)
      BY <2>1, EventTexts DEF OutTypes
    <3>2. n \in 0 .. Len(EventText(Head(todo)))
      BY <2>1
    <3> QED
      BY <3>1, <3>2, Splitting
  <2>3. ~Filling'
    BY <2>1 DEF Filling
  <2>4. LastFlush'
    BY <2>1 DEF LastFlush
  <2> QED
    BY <1>2, <2>1, <2>2, <2>3, <2>4, LengthsAfter
<1>8. CASE LoseEvents \/ FileEnd \/ EndSend \/ Destroy
  <2>1. ~Filling' /\ UNCHANGED flushes /\ (~failed' => ~failed) /\ (wire' = wire \/ wire' = Append(wire, Terminator))
    BY <1>8 DEF LoseEvents, FileEnd, EndSend, Destroy, Filling, Put
  <2>2. pending' = <<>>
    BY <1>8 DEF LoseEvents, FileEnd, EndSend, Destroy, OutTypes, Place
  <2>3. LastFlush'
    BY <2>2 DEF LastFlush
  <2> QED
    BY <1>2, <2>1, <2>3, LengthsAfter
<1>9. CASE WriteByte \/ (\E n \in 1 .. Len(todo) : WriteBlock(n)) \/ CopyFrom \/ FlushNow \/ TemplateWrite
  <2>1. phase = "write" /\ Filling /\ UNCHANGED Printer /\ (flushes' = flushes \/ flushes' = flushes + 1)
    BY <1>9 DEF WriteByte, WriteBlock, CopyFrom, FlushNow, TemplateWrite, Writing, Filling
  <2>2. Lengths'
    BY <1>2, <1>3, <2>1, LengthsAfter DEF Printer
  <2>3. CASE WriteByte \/ (\E n \in 1 .. Len(todo) : WriteBlock(n)) \/ CopyFrom
    <3>1. PICK x : pending' = <<x>> /\ x.op # "flush"
      BY <2>3 DEF WriteByte, WriteBlock, CopyFrom, Byte, Block, Copy
    <3>2. \A i \in 1 .. Len(pending') : pending'[i] = x
      BY <3>1
    <3> QED
      BY <2>2, <3>1, <3>2 DEF LastFlush
  <2>4. CASE FlushNow
    BY <1>3, <2>2, <2>4 DEF FlushNow, LastFlush
  <2>5. CASE TemplateWrite
    <3>1. pending = <<>> /\ \A i \in 1 .. Len(Placeholder) : Placeholder[i].op # "flush"
      BY <2>5, PlaceholderCalls DEF OutTypes, TemplateWrite, Writing
    <3>2. Placeholder \in Seq(Calls)
      BY PlaceholderCalls DEF OutTypes
    <3>3. PICK c : TemplateOther(c) \/ TemplateName(c) \/ TemplateDelim(c)
      BY <2>5 DEF TemplateWrite
    <3>4. PICK y : y.op # "flush" /\ pending' \in {<<>>, <<y>>, Placeholder, Placeholder \o <<y>>}
      <4>1. Byte(c).op # "flush" /\ Block(Values[param]).op # "flush"
        BY DEF Byte, Block
      <4>2. pending' \in {<<>>, <<Byte(c)>>, Placeholder, Placeholder \o <<Byte(c)>>, <<Block(Values[param])>>}
        BY <3>1, <3>3 DEF TemplateOther, TemplateName, TemplateDelim
      <4> QED
        BY <4>1, <4>2
    <3>5. ASSUME NEW i \in 1 .. Len(pending') PROVE pending'[i].op # "flush"
      <4>1. CASE pending' = <<>>
        BY <4>1
      <4>2. CASE pending' = <<y>>
        BY <3>4, <4>2
      <4>3. CASE pending' = Placeholder
        BY <3>1, <4>3
      <4>4. CASE pending' = Placeholder \o <<y>>
        BY <3>1, <3>2, <3>4, <4>4
      <4> QED
        BY <3>4, <4>1, <4>2, <4>3, <4>4
    <3> QED
      BY <2>2, <3>5 DEF LastFlush
  <2> QED
    BY <1>9, <2>3, <2>4, <2>5
<1>10. CASE Finish
  <2>1. phase = "write" /\ phase' = "ending" /\ UNCHANGED <<wire, failed, flushes>>
    BY <1>10 DEF Finish, Writing
  <2>2. Filling /\ LastFlush'
    BY <2>1 DEF Filling, LastFlush
  <2> QED
    BY <1>2, <2>1, <2>2, LengthsAfter
<1>11. ASSUME NEW ok \in BOOLEAN, FileChunk(ok) PROVE Lengths' /\ LastFlush'
  <2>1. PICK n \in 1 .. Len(todo) :
           /\ n <= Size /\ (n < Size => n = Len(todo)) /\ Taken(n)
           /\ SubSeq(todo, 1, n) \in Seq(Symbols) /\ Len(SubSeq(todo, 1, n)) = n
           /\ SendChunk(SubSeq(todo, 1, n), ok)
    BY <1>11, FileChunkParts
  <2>2. phase = "file" /\ todo # <<>> /\ pending = <<>> /\ UNCHANGED <<mode, input, pending, flushes>>
    BY <1>11 DEF FileChunk, OutTypes, Place
  <2>3. LastFlush'
    BY <2>2 DEF LastFlush
  <2>4. Filling
    BY <2>2 DEF Filling
  <2>5. CASE ~ok
    <3>1. wire' = Append(wire, Terminator) /\ failed'
      BY <2>1, <2>5 DEF SendChunk, Put
    <3> QED
      BY <1>2, <2>3, <3>1, LengthsAfter
  <2>6. CASE ok
    <3>1. PICK x : x = Chunk(SubSeq(todo, 1, n))
      OBVIOUS
    <3>2. x \in Items /\ wire' = Append(wire, x) /\ (~failed' => ~failed) /\ x.data = SubSeq(todo, 1, n)
      BY <1>2, <2>1, <2>6, <3>1 DEF SendChunk, Put
    <3>3. Len(x.data) \in 1 .. Size
      BY <2>1, <3>2, SizeAssumption
    <3>4. ASSUME Filling' PROVE Len(x.data) = Size
      <4>1. phase' = "file" /\ todo' # <<>>
        BY <2>2, <2>6, <3>4, <1>11 DEF FileChunk, Filling
      <4>2. Len(todo') = Len(todo) - n /\ Len(todo) \in Nat
        <5>1. n \in 0 .. Len(todo) /\ Len(todo) \in Nat
          BY DEF OutTypes, Texts
        <5> QED
          BY <2>1, <2>2, <5>1, TakenTexts DEF OutTypes
      <4>3. n # Len(todo)
        <5>1. todo' \in Seq(Range(input))
          <6>1. todo' = SubSeq(todo, n + 1, Len(todo)) /\ todo \in Seq(Range(input))
            BY <2>1 DEF Taken, OutTypes, Texts
          <6> QED
            BY <6>1
        <5>2. todo' # <<>> => Len(todo') # 0
          BY <5>1
        <5> QED
          BY <4>1, <4>2, <5>2
      <4> QED
        BY <2>1, <3>2, <4>3, SizeAssumption
    <3> QED
      BY <2>2, <2>3, <2>4, <3>2, <3>3, <3>4, LengthsAfter
  <2> QED
    BY <2>5, <2>6
<1>12. CASE UNCHANGED outVars
  BY <1>12 DEF outVars, Lengths, LastFlush, Filling, Kind
<1> QED
  BY <1>5, <1>6, <1>7, <1>8, <1>9, <1>10, <1>11, <1>12 DEF OutNext

\* No chunk is empty or longer than the buffer; without flush() all but the last are full.
THEOREM ChunksAreFull == OutSpec => []ChunksFit
<1>1. OutInit => OutTypes /\ Lengths /\ LastFlush
  <2>1. OutInit => Lengths /\ LastFlush
    BY DEF OutInit, Lengths, LastFlush, Kind
  <2> QED
    BY <2>1, InitTypes
<1>2. OutTypes /\ Lengths /\ LastFlush /\ [OutNext]_outVars => (OutTypes /\ Lengths /\ LastFlush)'
  BY NextTypes, NextLengths
<1>3. Lengths => ChunksFit
  BY DEF Lengths, ChunksFit
<1> QED
  BY <1>1, <1>2, <1>3, PTL DEF OutSpec

-----------------------------------------------------------------------------
(* What a template stands for                                              *)

\* The parts of Expansion's definition
NameEnds(s, i) == {j \in i + 1 .. Len(s) + 1 : j > Len(s) \/ s[j] \notin NameSymbols}
NameEnd(s, i) == CHOOSE j \in NameEnds(s, i) : \A k \in NameEnds(s, i) : j <= k
Name(s, i) == SubSeq(s, i + 1, NameEnd(s, i) - 1)

Named(s, i) == NameEnd(s, i) <= Len(s) /\ s[NameEnd(s, i)] = Delim /\ Len(Name(s, i)) <= ParamMax

StandsFor(s, i) ==
  IF Name(s, i) \in DOMAIN Values THEN Values[Name(s, i)] ELSE SubSeq(s, i, NameEnd(s, i))

Unfolded(s, f, i) ==
  IF i > Len(s) THEN <<>>
  ELSE IF s[i] # Delim THEN <<s[i]>> \o f[i + 1]
  ELSE IF Named(s, i) THEN StandsFor(s, i) \o f[NameEnd(s, i) + 1]
  ELSE <<s[i]>> \o f[i + 1]

LEMMA ExpansionDefined ==
  ASSUME NEW s
  PROVE  Expansion(s) = CHOOSE f : f = [i \in 1 .. Len(s) + 1 |-> Unfolded(s, f, i)]
BY DEF Expansion, Unfolded, Named, StandsFor, Name, NameEnd, NameEnds

LEMMA NameEndProperties ==
  ASSUME NEW A, NEW s \in Seq(A), NEW i \in 1 .. Len(s)
  PROVE  /\ NameEnd(s, i) \in i + 1 .. Len(s) + 1
         /\ NameEnd(s, i) > Len(s) \/ s[NameEnd(s, i)] \notin NameSymbols
         /\ \A k \in NameEnds(s, i) : NameEnd(s, i) <= k
<1>1. Len(s) + 1 \in NameEnds(s, i) /\ NameEnds(s, i) \subseteq Nat
  BY DEF NameEnds
<1>2. PICK T : T = NameEnds(s, i)
  OBVIOUS
<1>3. \E j \in T : \A k \in T : j <= k
  <2>1. T \subseteq Nat /\ T # {}
    BY <1>1, <1>2
  <2> QED
    BY <2>1, LeastNat
<1>4. NameEnd(s, i) \in T /\ \A k \in T : NameEnd(s, i) <= k
  BY <1>2, <1>3 DEF NameEnd
<1> QED
  BY <1>2, <1>4 DEF NameEnds

LEMMA UnfoldedProperties ==
  ASSUME NEW s \in Seq(Symbols), NEW i \in 1 .. Len(s) + 1,
         NEW f, NEW g, \A j \in i + 1 .. Len(s) + 1 : f[j] \in Seq(Symbols) /\ f[j] = g[j]
  PROVE  Unfolded(s, f, i) \in Seq(Symbols) /\ Unfolded(s, f, i) = Unfolded(s, g, i)
<1>1. <<>> \in Seq(Symbols) /\ \A u, v \in Seq(Symbols) : u \o v \in Seq(Symbols)
  OBVIOUS
<1>2. CASE i > Len(s)
  BY <1>1, <1>2 DEF Unfolded
<1>3. CASE ~(i > Len(s))
  <2>1. i \in 1 .. Len(s) /\ i + 1 \in i + 1 .. Len(s) + 1
    BY <1>3
  <2>2. <<s[i]>> \in Seq(Symbols) /\ f[i + 1] \in Seq(Symbols) /\ f[i + 1] = g[i + 1]
    BY <2>1
  <2>3. ASSUME Named(s, i)
        PROVE  /\ StandsFor(s, i) \in Seq(Symbols)
               /\ f[NameEnd(s, i) + 1] \in Seq(Symbols) /\ f[NameEnd(s, i) + 1] = g[NameEnd(s, i) + 1]
    <3>1. PICK j : j = NameEnd(s, i)
      OBVIOUS
    <3>2. j \in i + 1 .. Len(s)
      <4>1. j \in i + 1 .. Len(s) + 1 /\ j <= Len(s)
        BY <2>1, <2>3, <3>1, NameEndProperties DEF Named
      <4> QED
        BY <4>1
    <3>3. j + 1 \in i + 1 .. Len(s) + 1
      BY <3>2
    <3>4. SubSeq(s, i, j) \in Seq(Symbols)
      BY <2>1, <3>2
    <3>5. StandsFor(s, i) \in Seq(Symbols)
      BY <3>1, <3>4, SymbolsOfTexts DEF StandsFor
    <3> QED
      BY <3>1, <3>3, <3>5
  <2>4. CASE s[i] # Delim \/ ~Named(s, i)
    <3>1. Unfolded(s, f, i) = <<s[i]>> \o f[i + 1] /\ Unfolded(s, g, i) = <<s[i]>> \o g[i + 1]
      BY <1>3, <2>4 DEF Unfolded
    <3> QED
      BY <1>1, <2>2, <3>1
  <2>5. CASE s[i] = Delim /\ Named(s, i)
    <3>1. /\ Unfolded(s, f, i) = StandsFor(s, i) \o f[NameEnd(s, i) + 1]
          /\ Unfolded(s, g, i) = StandsFor(s, i) \o g[NameEnd(s, i) + 1]
      BY <1>3, <2>5 DEF Unfolded
    <3> QED
      BY <1>1, <2>3, <2>5, <3>1
  <2> QED
    BY <2>4, <2>5
<1> QED
  BY <1>2, <1>3

Expands(s, k, g) ==
  /\ g \in [Len(s) + 1 - k .. Len(s) + 1 -> Seq(Symbols)]
  /\ \A i \in Len(s) + 1 - k .. Len(s) + 1 : g[i] = Unfolded(s, g, i)

LEMMA ExpandsOn ==
  ASSUME NEW s \in Seq(Symbols), NEW k \in 0 .. Len(s) - 1, NEW g, Expands(s, k, g)
  PROVE  \E h : Expands(s, k + 1, h)
<1>1. PICK n : n = Len(s)
  OBVIOUS
<1>2. n \in Nat /\ k \in 0 .. n - 1 /\ n - k \in 1 .. n
  BY <1>1
<1> DEFINE h == [i \in n - k .. n + 1 |-> IF i = n - k THEN Unfolded(s, g, i) ELSE g[i]]
<1>3. /\ g \in [n + 1 - k .. n + 1 -> Seq(Symbols)]
      /\ \A i \in n + 1 - k .. n + 1 : g[i] = Unfolded(s, g, i)
  BY <1>1 DEF Expands
<1>4. \A i \in n + 1 - k .. n + 1 : h[i] = g[i] /\ g[i] \in Seq(Symbols)
  <2>1. \A i \in n + 1 - k .. n + 1 : i \in n - k .. n + 1 /\ i # n - k
    BY <1>2
  <2> QED
    BY <1>3, <2>1
<1>5. h[n - k] = Unfolded(s, g, n - k)
  BY <1>2
<1>6. \A i \in n - k .. n + 1 : i = n - k \/ i \in n + 1 - k .. n + 1
  BY <1>2
<1>7. DOMAIN h = n - k .. n + 1 /\ h = [i \in n - k .. n + 1 |-> h[i]]
  OBVIOUS
<1> HIDE DEF h
<1>8. ASSUME NEW i \in n - k .. n + 1
      PROVE  Unfolded(s, g, i) \in Seq(Symbols) /\ Unfolded(s, g, i) = Unfolded(s, h, i)
  <2>1. i \in 1 .. n + 1 /\ \A j \in i + 1 .. n + 1 : j \in n + 1 - k .. n + 1
    BY <1>2
  <2>2. \A j \in i + 1 .. n + 1 : g[j] \in Seq(Symbols) /\ g[j] = h[j]
    BY <1>4, <2>1
  <2> QED
    BY <1>1, <2>1, <2>2, UnfoldedProperties
<1>9. \A i \in n - k .. n + 1 : h[i] \in Seq(Symbols) /\ h[i] = Unfolded(s, h, i)
  BY <1>2, <1>3, <1>4, <1>5, <1>6, <1>8
<1>10. h \in [n - k .. n + 1 -> Seq(Symbols)]
  BY <1>7, <1>9
<1>11. Len(s) + 1 - (k + 1) = n - k /\ Len(s) + 1 = n + 1
  BY <1>1, <1>2
<1> QED
  BY <1>9, <1>10, <1>11 DEF Expands

\* Expansion is what its definition says.
LEMMA ExpansionUnfolds ==
  ASSUME NEW s \in Seq(Symbols)
  PROVE  \A i \in 1 .. Len(s) + 1 :
           Expansion(s)[i] \in Seq(Symbols) /\ Expansion(s)[i] = Unfolded(s, Expansion(s), i)
<1>1. Len(s) \in Nat
  OBVIOUS
<1>2. \E g : Expands(s, Len(s), g)
  <2> DEFINE T == {k \in 0 .. Len(s) : \E g : Expands(s, k, g)}
  <2>1. 0 \in T
    <3>1. PICK m : m = Len(s) + 1
      OBVIOUS
    <3>2. m \in Nat /\ m > Len(s) /\ \A i \in m .. m : i = m
      BY <1>1, <3>1
    <3>3. PICK g : g = [i \in m .. m |-> <<>>]
      OBVIOUS
    <3>4. g \in [m .. m -> Seq(Symbols)] /\ \A i \in m .. m : g[i] = <<>>
      BY <3>3
    <3>5. \A i \in m .. m : g[i] = Unfolded(s, g, i)
      BY <3>2, <3>4 DEF Unfolded
    <3>6. Len(s) + 1 - 0 = m /\ 0 \in 0 .. Len(s)
      BY <1>1, <3>1
    <3>7. Expands(s, 0, g)
      BY <3>1, <3>4, <3>5, <3>6 DEF Expands
    <3> QED
      BY <3>6, <3>7
  <2>2. ASSUME NEW k \in 0 .. Len(s) - 1, k \in T PROVE k + 1 \in T
    <3>1. \E h : Expands(s, k + 1, h)
      BY <2>2, ExpandsOn
    <3>2. k + 1 \in 0 .. Len(s)
      BY <1>1
    <3> QED
      BY <3>1, <3>2
  <2>3. Len(s) \in T
    <3>1. Len(s) \in 0 .. Len(s)
      BY <1>1
    <3> HIDE DEF T
    <3>2. \A k \in 0 .. Len(s) : k \in T
      BY <1>1, <2>1, <2>2, InductionUpto
    <3> QED
      BY <3>1, <3>2
  <2> QED
    BY <2>3
<1> DEFINE Whole1(f) == [i \in 1 .. Len(s) + 1 |-> Unfolded(s, f, i)]
<1>3. PICK f : f = Expansion(s)
  OBVIOUS
<1>4. f = Whole1(f)
  <2>1. \E g : g = Whole1(g)
    <3>1. PICK g : Expands(s, Len(s), g)
      BY <1>2
    <3>2. Len(s) + 1 - Len(s) = 1
      BY <1>1
    <3>3. g \in [1 .. Len(s) + 1 -> Seq(Symbols)] /\ \A i \in 1 .. Len(s) + 1 : g[i] = Unfolded(s, g, i)
      BY <3>1, <3>2 DEF Expands
    <3> QED
      BY <3>3
  <2>2. f = CHOOSE g : g = Whole1(g)
    BY <1>3, ExpansionDefined
  <2> HIDE DEF Whole1
  <2> QED
    BY <2>1, <2>2
<1>5. \A i \in 1 .. Len(s) + 1 : f[i] = Unfolded(s, f, i)
  BY <1>4
<1> DEFINE T == {k \in 0 .. Len(s) : \A i \in Len(s) + 1 - k .. Len(s) + 1 : f[i] \in Seq(Symbols)}
<1>6. 0 \in T
  <2>1. \A i \in Len(s) + 1 - 0 .. Len(s) + 1 : i \in 1 .. Len(s) + 1 /\ i > Len(s)
    BY <1>1
  <2>2. <<>> \in Seq(Symbols) /\ 0 \in 0 .. Len(s)
    BY <1>1
  <2>3. \A i \in Len(s) + 1 - 0 .. Len(s) + 1 : f[i] = <<>>
    BY <1>5, <2>1 DEF Unfolded
  <2> QED
    BY <2>2, <2>3
<1>7. ASSUME NEW k \in 0 .. Len(s) - 1, k \in T PROVE k + 1 \in T
  <2>1. PICK m : m = Len(s) - k
    OBVIOUS
  <2>2. m \in 1 .. Len(s) + 1 /\ m + 1 = Len(s) + 1 - k /\ Len(s) + 1 - (k + 1) = m /\ k + 1 \in 0 .. Len(s)
    BY <1>1, <2>1
  <2>3. \A i \in m + 1 .. Len(s) + 1 : f[i] \in Seq(Symbols)
    BY <1>7, <2>2
  <2>4. Unfolded(s, f, m) \in Seq(Symbols)
    BY <2>2, <2>3, UnfoldedProperties
  <2>5. f[m] \in Seq(Symbols)
    BY <1>5, <2>2, <2>4
  <2>6. \A i \in m .. Len(s) + 1 : i = m \/ i \in m + 1 .. Len(s) + 1
    BY <1>1, <2>2
  <2> QED
    BY <2>2, <2>3, <2>5, <2>6
<1>8. Len(s) \in T
  <2>1. Len(s) \in 0 .. Len(s)
    BY <1>1
  <2> HIDE DEF T
  <2>2. \A k \in 0 .. Len(s) : k \in T
    BY <1>1, <1>6, <1>7, InductionUpto
  <2> QED
    BY <2>1, <2>2
<1>9. Len(s) + 1 - Len(s) = 1
  BY <1>1
<1> QED
  BY <1>3, <1>5, <1>8, <1>9

\* The expansion of a text, from each of its symbols on
LEMMA ExpansionSteps ==
  ASSUME NEW s \in Seq(Symbols), NEW f, f = Expansion(s)
  PROVE  /\ f[Len(s) + 1] = <<>>
         /\ \A i \in 1 .. Len(s) + 1 : f[i] \in Seq(Symbols)
         /\ \A i \in 1 .. Len(s) : s[i] # Delim => f[i] = Cat(<<s[i]>>, f[i + 1])
         /\ \A i \in 1 .. Len(s) : s[i] = Delim =>
              f[i] = IF Named(s, i) THEN Cat(StandsFor(s, i), f[NameEnd(s, i) + 1]) ELSE Cat(<<s[i]>>, f[i + 1])
<1>1. \A i \in 1 .. Len(s) + 1 : f[i] \in Seq(Symbols) /\ f[i] = Unfolded(s, f, i)
  BY ExpansionUnfolds
<1>2. Len(s) \in Nat /\ Len(s) + 1 \in 1 .. Len(s) + 1 /\ Len(s) + 1 > Len(s)
      /\ \A i \in 1 .. Len(s) : i \in 1 .. Len(s) + 1 /\ ~(i > Len(s))
  OBVIOUS
<1>3. f[Len(s) + 1] = <<>>
  BY <1>1, <1>2 DEF Unfolded
<1>4. ASSUME NEW i \in 1 .. Len(s), s[i] # Delim PROVE f[i] = Cat(<<s[i]>>, f[i + 1])
  BY <1>1, <1>2, <1>4 DEF Unfolded, Cat
<1>5. ASSUME NEW i \in 1 .. Len(s), s[i] = Delim
      PROVE  f[i] = IF Named(s, i) THEN Cat(StandsFor(s, i), f[NameEnd(s, i) + 1]) ELSE Cat(<<s[i]>>, f[i + 1])
  BY <1>1, <1>2, <1>5 DEF Unfolded, Cat
<1> QED
  BY <1>1, <1>3, <1>4, <1>5

LEMMA PlacesWithin ==
  ASSUME NEW n \in Nat, NEW m \in Nat, NEW i \in 1 .. n + 1, i + m <= n + 1, NEW k \in 0 .. m - 1
  PROVE  /\ k + 1 \in 1 .. m /\ k + 1 \in 0 .. m /\ i + k \in 1 .. n /\ i + k + 1 \in 1 .. n + 1
         /\ i + (k + 1) - 1 = i + k /\ i + (k + 1) = i + k + 1
OBVIOUS

\* A name stands for itself.
LEMMA NamesStay ==
  ASSUME NEW s \in Seq(Symbols), NEW i \in 1 .. Len(s) + 1, NEW w \in Seq(Symbols),
         i + Len(w) <= Len(s) + 1, \A j \in 1 .. Len(w) : w[j] \in NameSymbols /\ s[i + j - 1] = w[j]
  PROVE  Expansion(s)[i] = Cat(w, Expansion(s)[i + Len(w)])
<1>1. PICK f, n, m : f = Expansion(s) /\ n = Len(s) /\ m = Len(w)
  OBVIOUS
<1>2. /\ n \in Nat /\ m \in Nat /\ i \in 1 .. n + 1 /\ i + m <= n + 1
      /\ \A j \in 1 .. m : w[j] \in NameSymbols /\ s[i + j - 1] = w[j]
  BY <1>1
<1>3. /\ \A j \in 1 .. n + 1 : f[j] \in Seq(Symbols)
      /\ \A j \in 1 .. n : s[j] # Delim => f[j] = Cat(<<s[j]>>, f[j + 1])
  BY <1>1, ExpansionSteps
<1> DEFINE T == {k \in 0 .. m : f[i] = Cat(SubSeq(w, 1, k), f[i + k])}
<1>4. 0 \in T
  <2>1. SubSeq(w, 1, 0) = <<>> /\ i + 0 = i /\ 0 \in 0 .. m /\ f[i] \in Seq(Symbols)
    BY <1>2, <1>3
  <2>2. Cat(<<>>, f[i]) = f[i]
    BY <2>1, JoinedNone
  <2> QED
    BY <2>1, <2>2
<1>5. ASSUME NEW k \in 0 .. m - 1, k \in T PROVE k + 1 \in T
  <2>1. k + 1 \in 1 .. m /\ k + 1 \in 0 .. m /\ i + k \in 1 .. n /\ i + k + 1 \in 1 .. n + 1 /\ i + (k + 1) - 1 = i + k
        /\ i + (k + 1) = i + k + 1
    <3>1. i + m <= n + 1
      BY <1>2
    <3> QED
      BY <1>2, <3>1, PlacesWithin
  <2>2. s[i + k] = w[k + 1] /\ w[k + 1] # Delim
    BY <1>2, <2>1, ParamAssumption
  <2>3. PICK a, x, b : a = SubSeq(w, 1, k) /\ x = w[k + 1] /\ b = f[i + k + 1]
    OBVIOUS
  <2>4. f[i + k] = Cat(<<x>>, b) /\ b \in Seq(Symbols)
    BY <1>3, <2>1, <2>2, <2>3
  <2>5. a \in Seq(Symbols) /\ <<x>> \in Seq(Symbols)
    <3>1. k + 1 \in 1 .. Len(w) /\ k \in 0 .. Len(w)
      BY <1>1, <2>1
    <3>2. w[k + 1] \in Symbols
      BY <3>1
    <3>3. SubSeq(w, 1, k) \in Seq(Symbols)
      BY <3>1
    <3> QED
      BY <2>3, <3>2, <3>3
  <2>6. SubSeq(w, 1, k + 1) = Cat(a, <<x>>)
    <3>1. PICK u, v : u = SubSeq(w, 1, k + 1) /\ v = Cat(a, <<x>>)
      OBVIOUS
    <3>2. u \in Seq(Symbols) /\ Len(u) = k + 1 /\ \A j \in 1 .. k + 1 : u[j] = w[j]
      BY <1>1, <2>1, <3>1
    <3>3. a \in Seq(Symbols) /\ Len(a) = k /\ \A j \in 1 .. k : a[j] = w[j]
      BY <1>1, <2>1, <2>3
    <3>8. v = Append(a, x) /\ x \in Symbols
      <4>1. x \in Symbols
        BY <1>1, <2>1, <2>3
      <4> QED
        BY <2>5, <3>1, <4>1, ConcatOne DEF Cat
    <3>4. v \in Seq(Symbols) /\ Len(v) = k + 1 /\ v[k + 1] = x /\ \A j \in 1 .. k : v[j] = a[j]
      BY <3>3, <3>8
    <3>5. \A j \in 1 .. k + 1 : j \in 1 .. k \/ j = k + 1
      OBVIOUS
    <3>6. \A j \in 1 .. Len(u) : u[j] = v[j]
      BY <2>3, <3>2, <3>3, <3>4, <3>5
    <3>7. u = v
      BY <3>2, <3>4, <3>6, SameSequence
    <3> QED
      BY <3>1, <3>7
  <2>7. f[i] = Cat(a, Cat(<<x>>, b))
    BY <1>5, <2>3, <2>4
  <2>8. Cat(Cat(a, <<x>>), b) = Cat(a, Cat(<<x>>, b))
    <3>1. PICK c \in Seq(Symbols), y \in Seq(Symbols), z \in Seq(Symbols) : c = a /\ y = <<x>> /\ z = b
      BY <2>4, <2>5
    <3>2. Cat(Cat(c, y), z) = Cat(c, Cat(y, z))
      BY CatAssociative
    <3> QED
      BY <3>1, <3>2
  <2> QED
    BY <2>1, <2>3, <2>6, <2>7, <2>8
<1>6. m \in T
  <2>1. m \in 0 .. m
    BY <1>2
  <2> HIDE DEF T
  <2>2. \A k \in 0 .. m : k \in T
    BY <1>2, <1>4, <1>5, InductionUpto
  <2> QED
    BY <2>1, <2>2
<1>7. SubSeq(w, 1, m) = w
  BY <1>1
<1> QED
  BY <1>1, <1>6, <1>7

\* Where a name ends that follows a delimiter
NameBehind(s, i, w, p) ==
  /\ p = i + Len(w) + 1 /\ p <= Len(s) + 1
  /\ \A j \in 1 .. Len(w) : w[j] \in NameSymbols /\ s[i + j] = w[j]
  /\ p <= Len(s) => s[p] \notin NameSymbols

LEMMA NameFound ==
  ASSUME NEW s \in Seq(Symbols), NEW i \in 1 .. Len(s), NEW w \in Seq(Symbols), NEW p, NameBehind(s, i, w, p)
  PROVE  NameEnd(s, i) = p /\ Name(s, i) = w
<1>1. PICK n, m : n = Len(s) /\ m = Len(w)
  OBVIOUS
<1>2. /\ n \in Nat /\ m \in Nat /\ i \in 1 .. n /\ p = i + m + 1 /\ p <= n + 1
      /\ \A j \in 1 .. m : w[j] \in NameSymbols /\ s[i + j] = w[j]
  BY <1>1 DEF NameBehind
<1>3. p \in i + 1 .. n + 1 /\ (p > n \/ s[p] \notin NameSymbols)
  BY <1>1, <1>2 DEF NameBehind
<1>4. p \in NameEnds(s, i)
  BY <1>1, <1>3 DEF NameEnds
<1>5. PICK e : e = NameEnd(s, i)
  OBVIOUS
<1>6. e \in i + 1 .. n + 1 /\ (e > n \/ s[e] \notin NameSymbols) /\ e <= p
  BY <1>1, <1>4, <1>5, NameEndProperties
<1>7. ~(e < p)
  <2> SUFFICES ASSUME e < p PROVE FALSE
    OBVIOUS
  <2>1. e - i \in 1 .. m /\ i + (e - i) = e /\ e <= n
    BY <1>2, <1>6
  <2>2. s[e] \in NameSymbols
    BY <1>2, <2>1
  <2> QED
    BY <1>2, <1>6, <2>1, <2>2
<1>8. e = p
  BY <1>2, <1>6, <1>7
<1>9. Name(s, i) = w
  <2>1. PICK u : u = SubSeq(s, i + 1, p - 1)
    OBVIOUS
  <2>2. i + 1 \in 1 .. n + 1 /\ p - 1 \in i .. n /\ p - 1 = i + m /\ (p - 1) - (i + 1) + 1 = m
    <3>1. PICK q \in Nat : q = p
      BY <1>2
    <3>2. q = i + m + 1 /\ q <= n + 1
      BY <1>2, <3>1
    <3>3. i + 1 \in 1 .. n + 1 /\ q - 1 \in i .. n /\ q - 1 = i + m /\ (q - 1) - (i + 1) + 1 = m
      BY <1>2, <3>2
    <3> QED
      BY <3>1, <3>3
  <2>3. u \in Seq(Symbols) /\ Len(u) = m /\ \A j \in 1 .. m : u[j] = s[i + 1 + j - 1]
    BY <1>1, <1>2, <2>1, <2>2, SubSeqProperties
  <2>4. \A j \in 1 .. m : i + 1 + j - 1 = i + j
    BY <1>2
  <2>5. \A j \in 1 .. Len(u) : u[j] = w[j]
    BY <1>2, <2>3, <2>4
  <2>6. u = w
    BY <1>1, <2>3, <2>5, SameSequence
  <2> QED
    BY <1>5, <1>8, <2>1, <2>6 DEF Name
<1> QED
  BY <1>5, <1>8, <1>9

\* What has come of a parameter when its name is followed by something else: it stays.
LEMMA ParamStays ==
  ASSUME NEW s \in Seq(Symbols), NEW i \in 1 .. Len(s), NEW w \in Seq(Symbols), NEW p,
         s[i] = Delim, NameBehind(s, i, w, p), p <= Len(s) => s[p] # Delim
  PROVE  Expansion(s)[i] = Cat(Cat(<<Delim>>, w), Expansion(s)[p])
<1>1. PICK f : f = Expansion(s)
  OBVIOUS
<1>2. Len(w) \in Nat /\ Len(s) \in Nat /\ i + 1 \in 1 .. Len(s) + 1 /\ i + 1 + Len(w) = p /\ p \in 1 .. Len(s) + 1
  <2>1. PICK n \in Nat, m \in Nat : n = Len(s) /\ m = Len(w) /\ i \in 1 .. n
    OBVIOUS
  <2>2. p = i + m + 1 /\ p <= n + 1
    BY <2>1 DEF NameBehind
  <2> QED
    BY <2>1, <2>2
<1>3. NameEnd(s, i) = p
  BY NameFound
<1>4. ~Named(s, i)
  BY <1>3 DEF Named
<1>5. f[i] = Cat(<<Delim>>, f[i + 1])
  BY <1>1, <1>4, ExpansionSteps
<1>6. f[i + 1] = Cat(w, f[p])
  <2>1. \A j \in 1 .. Len(w) : i + 1 + j - 1 = i + j
    BY <1>2
  <2>2. \A j \in 1 .. Len(w) : w[j] \in NameSymbols /\ s[i + 1 + j - 1] = w[j]
    BY <2>1 DEF NameBehind
  <2>3. i + 1 + Len(w) <= Len(s) + 1
    BY <1>2
  <2>4. Expansion(s)[i + 1] = Cat(w, Expansion(s)[i + 1 + Len(w)])
    BY <1>2, <2>2, <2>3, NamesStay
  <2> QED
    BY <1>1, <1>2, <2>4
<1>7. f[p] \in Seq(Symbols)
  BY <1>1, <1>2, ExpansionSteps
<1>8. <<Delim>> \in Seq(Symbols)
  BY SymbolsOfTexts
<1>9. Cat(Cat(<<Delim>>, w), f[p]) = Cat(<<Delim>>, Cat(w, f[p]))
  <2>1. PICK y \in Seq(Symbols), z \in Seq(Symbols) : y = <<Delim>> /\ z = f[p]
    BY <1>7, <1>8
  <2>2. Cat(Cat(y, w), z) = Cat(y, Cat(w, z))
    BY CatAssociative
  <2> QED
    BY <2>1, <2>2
<1> QED
  BY <1>1, <1>5, <1>6, <1>9

\* And when it is followed by a delimiter: its value, if it has one.
LEMMA ParamFound ==
  ASSUME NEW s \in Seq(Symbols), NEW i \in 1 .. Len(s), NEW w \in Seq(Symbols), NEW p,
         s[i] = Delim, NameBehind(s, i, w, p), p <= Len(s), Len(w) <= ParamMax, s[p] = Delim
  PROVE  Expansion(s)[i] = Cat(IF w \in DOMAIN Values THEN Values[w] ELSE Cat(Cat(<<Delim>>, w), <<Delim>>),
                               Expansion(s)[p + 1])
<1>1. NameEnd(s, i) = p /\ Name(s, i) = w
  BY NameFound
<1>2. Named(s, i)
  BY <1>1 DEF Named
<1>3. Expansion(s)[i] = Cat(StandsFor(s, i), Expansion(s)[p + 1])
  <2>1. PICK f : f = Expansion(s)
    OBVIOUS
  <2>2. f[i] = IF Named(s, i) THEN Cat(StandsFor(s, i), f[NameEnd(s, i) + 1]) ELSE Cat(<<s[i]>>, f[i + 1])
    BY <2>1, ExpansionSteps
  <2> QED
    BY <1>1, <1>2, <2>1, <2>2
<1>4. SubSeq(s, i, p) = Cat(Cat(<<Delim>>, w), <<Delim>>)
  <2>1. PICK n, m : n = Len(s) /\ m = Len(w)
    OBVIOUS
  <2>2. n \in Nat /\ m \in Nat /\ p = i + m + 1 /\ i \in 1 .. n /\ p \in i .. n /\ p - i + 1 = m + 2
    <3>1. n \in Nat /\ m \in Nat /\ i \in 1 .. n /\ p = i + m + 1 /\ p <= n
      BY <2>1 DEF NameBehind
    <3> QED
      BY <3>1
  <2>3. PICK u : u = SubSeq(s, i, p)
    OBVIOUS
  <2>4. u \in Seq(Symbols) /\ Len(u) = m + 2 /\ \A j \in 1 .. m + 2 : u[j] = s[i + j - 1]
    <3>1. i \in 1 .. Len(s) + 1 /\ p \in i - 1 .. Len(s)
      BY <2>1, <2>2
    <3> QED
      BY <2>2, <2>3, <3>1, SubSeqProperties
  <2>5. <<Delim>> \in Seq(Symbols) /\ Len(<<Delim>>) = 1 /\ <<Delim>>[1] = Delim
    BY SymbolsOfTexts
  <2>6. PICK a : a = Cat(<<Delim>>, w)
    OBVIOUS
  <2>7. a \in Seq(Symbols) /\ Len(a) = m + 1 /\ a[1] = Delim /\ \A j \in 2 .. m + 1 : a[j] = w[j - 1]
    BY <2>1, <2>2, <2>5, <2>6 DEF Cat
  <2>8. PICK b : b = Cat(a, <<Delim>>)
    OBVIOUS
  <2>9. b \in Seq(Symbols) /\ Len(b) = m + 2 /\ b[m + 2] = Delim /\ \A j \in 1 .. m + 1 : b[j] = a[j]
    BY <2>2, <2>5, <2>7, <2>8 DEF Cat
  <2>10. ASSUME NEW j \in 1 .. m + 2 PROVE u[j] = b[j]
    <3>1. CASE j = 1
      <4>1. 1 \in 1 .. m + 1 /\ 1 \in 1 .. m + 2 /\ i + 1 - 1 = i
        BY <2>2
      <4> QED
        BY <2>4, <2>7, <2>9, <3>1, <4>1
    <3>2. CASE j \in 2 .. m + 1
      <4>1. j - 1 \in 1 .. m /\ i + (j - 1) = i + j - 1 /\ j \in 1 .. m + 1
        BY <2>2, <3>2
      <4>2. s[i + (j - 1)] = w[j - 1]
        BY <2>1, <4>1 DEF NameBehind
      <4> QED
        BY <2>4, <2>7, <2>9, <3>2, <4>1, <4>2
    <3>3. CASE j = m + 2
      <4>1. i + j - 1 = p
        <5>1. i + (m + 2) - 1 = i + m + 1
          BY <2>2
        <5> QED
          BY <2>2, <3>3, <5>1
      <4> QED
        BY <2>4, <2>9, <3>3, <4>1
    <3>4. j = 1 \/ j \in 2 .. m + 1 \/ j = m + 2
      BY <2>2
    <3> QED
      BY <3>1, <3>2, <3>3, <3>4
  <2>11. u = b
    BY <2>4, <2>9, <2>10, SameSequence
  <2> QED
    BY <2>3, <2>6, <2>8, <2>11
<1> QED
  BY <1>1, <1>3, <1>4 DEF StandsFor

-----------------------------------------------------------------------------
(* A text arrives                                                          *)

\* What is not written yet, in the sense of Expansion, of the text s when t is left of it:
\* what may become a parameter is not.
NotWritten(m, s, t, within, name) ==
  IF m = "template"
  THEN Expansion(s)[IF within THEN Len(s) - Len(t) - Len(name) ELSE Len(s) - Len(t) + 1]
  ELSE t
Left == NotWritten(mode, input, todo, inParam, param)

\* What has come of a parameter is the input's name after a delimiter.
NameAt(s, p, w) ==
  /\ Len(w) < p /\ s[p - Len(w)] = Delim
  /\ \A j \in 1 .. Len(w) : w[j] \in NameSymbols /\ s[p - Len(w) + j] = w[j]
InName == inParam => NameAt(input, Written, param)

TextGoes == mode # "events" /\ ~failed /\ ~(mode = "template" /\ Overlong)

\* What was sent, what the ChunkPrinter holds, and what is left, make the text.
Arriving == TextGoes => Cat(Printed, Left) = Meant

Complete == TextGoes /\ phase = "done" /\ Kind("error") = {} => todo = <<>>

TextInv == InName /\ Arriving /\ Complete

LEMMA OneCall ==
  ASSUME NEW x \in Calls
  PROVE  QueueText(<<x>>) = x.data /\ x.data \in Seq(Symbols)
<1>1. x.data \in Seq(Symbols)
  BY DEF Calls
<1>2. PICK p : p = <<x>>
  OBVIOUS
<1>3. p \in Seq(Calls) /\ Len(p) = 1 /\ p[1] = x
  BY <1>2
<1>4. CallText(p, 1) = x.data /\ CallText(p, 2) = <<>> /\ CallText(p, 3) = <<>>
  BY <1>3 DEF CallText
<1>5. x.data \o (<<>> \o <<>>) = x.data
  BY <1>1
<1> QED
  BY <1>1, <1>2, <1>4, <1>5 DEF QueueText

LEMMA QueueThen ==
  ASSUME NEW p \in Seq(Calls), Len(p) <= 2, NEW x \in Calls, NEW q, q = p \o <<x>>
  PROVE  QueueText(q) = Cat(QueueText(p), x.data)
<1>1. /\ q \in Seq(Calls) /\ Len(q) = Len(p) + 1 /\ q[Len(p) + 1] = x /\ Len(p) \in Nat
      /\ \A i \in 1 .. Len(p) : q[i] = p[i]
  OBVIOUS
<1>2. x.data \in Seq(Symbols) /\ <<>> \in Seq(Symbols) /\ \A i \in 1 .. Len(p) : p[i].data \in Seq(Symbols)
  BY DEF Calls
<1>3. PICK d \in Seq(Symbols) : d = x.data
  BY <1>2
<1>4. CASE Len(p) = 0
  <2>1. CallText(p, 1) = <<>> /\ CallText(p, 2) = <<>> /\ CallText(p, 3) = <<>>
    BY <1>4 DEF CallText
  <2>2. CallText(q, 1) = d /\ CallText(q, 2) = <<>> /\ CallText(q, 3) = <<>>
    BY <1>1, <1>3, <1>4 DEF CallText
  <2>3. d \o (<<>> \o <<>>) = (<<>> \o (<<>> \o <<>>)) \o d
    OBVIOUS
  <2> QED
    BY <1>3, <2>1, <2>2, <2>3 DEF QueueText, Cat
<1>5. CASE Len(p) = 1
  <2>1. PICK a \in Seq(Symbols) : a = p[1].data
    BY <1>2, <1>5
  <2>2. CallText(p, 1) = a /\ CallText(p, 2) = <<>> /\ CallText(p, 3) = <<>>
    BY <1>5, <2>1 DEF CallText
  <2>3. CallText(q, 1) = a /\ CallText(q, 2) = d /\ CallText(q, 3) = <<>>
    BY <1>1, <1>3, <1>5, <2>1 DEF CallText
  <2>4. a \o (d \o <<>>) = (a \o (<<>> \o <<>>)) \o d
    OBVIOUS
  <2> QED
    BY <1>3, <2>2, <2>3, <2>4 DEF QueueText, Cat
<1>6. CASE Len(p) = 2
  <2>1. PICK a \in Seq(Symbols), b \in Seq(Symbols) : a = p[1].data /\ b = p[2].data
    BY <1>2, <1>6
  <2>2. CallText(p, 1) = a /\ CallText(p, 2) = b /\ CallText(p, 3) = <<>>
    BY <1>6, <2>1 DEF CallText
  <2>3. CallText(q, 1) = a /\ CallText(q, 2) = b /\ CallText(q, 3) = d
    BY <1>1, <1>3, <1>6, <2>1 DEF CallText
  <2>4. a \o (b \o d) = (a \o (b \o <<>>)) \o d
    <3>1. b \o <<>> = b
      BY JoinedNone DEF Cat
    <3>2. (a \o b) \o d = a \o (b \o d)
      <4>1. Cat(Cat(a, b), d) = Cat(a, Cat(b, d))
        BY CatAssociative
      <4> QED
        BY <4>1 DEF Cat
    <3> QED
      BY <3>1, <3>2
  <2> QED
    BY <1>3, <2>2, <2>3, <2>4 DEF QueueText, Cat
<1>7. Len(p) = 0 \/ Len(p) = 1 \/ Len(p) = 2
  <2>1. PICK n \in Nat : n = Len(p)
    BY <1>1
  <2>2. n = 0 \/ n = 1 \/ n = 2
    BY <2>1
  <2> QED
    BY <2>1, <2>2
<1> QED
  BY <1>4, <1>5, <1>6, <1>7

LEMMA ByteCall ==
  ASSUME NEW c \in Symbols
  PROVE  Byte(c) \in Calls /\ Byte(c).data = <<c>> /\ Byte(c).op = "byte" /\ <<c>> \in Seq(Symbols)
BY DEF Byte, Calls

LEMMA BlockCall ==
  ASSUME NEW d \in Seq(Symbols)
  PROVE  Block(d) \in Calls /\ Block(d).data = d /\ Block(d).op = "block"
BY DEF Block, Calls

LEMMA PlaceholderText ==
  ASSUME Buffering
  PROVE  QueueText(Placeholder) = IF inParam THEN Cat(<<Delim>>, param) ELSE <<>>
<1>1. CASE ~inParam
  BY <1>1, QueueTexts DEF Placeholder, QueueText, CallText
<1>2. CASE inParam
  <2>1. PICK x \in Calls : x = Byte(Delim) /\ x.data = <<Delim>>
    BY ByteCall, SymbolsOfTexts
  <2>2. param \in Seq(Symbols) /\ <<Delim>> \in Seq(Symbols)
    BY ByteCall, SymbolsOfTexts DEF Buffering
  <2>3. PICK p : p = <<x>>
    OBVIOUS
  <2>4. p \in Seq(Calls) /\ Len(p) = 1 /\ QueueText(p) = <<Delim>>
    BY <2>1, <2>3, OneCall
  <2>5. CASE param = <<>>
    <3>1. Placeholder = p
      BY <1>2, <2>1, <2>3, <2>4, <2>5 DEF Placeholder
    <3>2. Cat(<<Delim>>, param) = <<Delim>>
      BY <2>2, <2>5, JoinedNone
    <3> QED
      BY <1>2, <2>4, <3>1, <3>2
  <2>6. CASE param # <<>>
    <3>1. PICK y \in Calls : y = Block(param) /\ y.data = param
      BY <2>2, BlockCall
    <3>2. PICK q : q = p \o <<y>>
      OBVIOUS
    <3>3. Placeholder = q
      BY <1>2, <2>1, <2>3, <2>6, <3>1, <3>2 DEF Placeholder
    <3>4. QueueText(q) = Cat(QueueText(p), y.data)
      <4>1. Len(p) <= 2
        BY <2>4
      <4> QED
        BY <2>4, <3>2, <4>1, QueueThen
    <3> QED
      BY <1>2, <2>4, <3>1, <3>3, <3>4
  <2> QED
    BY <2>5, <2>6
<1> QED
  BY <1>1, <1>2

-----------------------------------------------------------------------------
(* Nothing is lost between what is left and what is printed                *)

StaysText == Cat(Printed', Left') = Cat(Printed, Left)

LEMMA PrintedText ==
  ASSUME OutTypes
  PROVE  /\ SentOf(wire) \in Seq(Symbols) /\ buf \in Seq(Symbols) /\ QueueText(pending) \in Seq(Symbols)
         /\ Cat(SentOf(wire), buf) \in Seq(Symbols) /\ Printed \in Seq(Symbols)
         /\ pending = <<>> => Printed = Cat(SentOf(wire), buf)
<1>1. pending \in Seq(Calls) /\ Len(pending) <= 3 /\ buf \in Seq(Symbols) /\ wire \in Seq(Items)
  BY DEF OutTypes, Queue, Buffering
<1>2. SentOf(wire) \in Seq(Symbols) /\ QueueText(pending) \in Seq(Symbols) /\ (pending = <<>> => QueueText(pending) = <<>>)
  BY <1>1, SentProperties, QueueTexts
<1>3. Cat(SentOf(wire), buf) \in Seq(Symbols)
  BY <1>1, <1>2, Joined, Zenon
<1>4. Printed \in Seq(Symbols)
  BY <1>2, <1>3, Joined, Zenon DEF Printed
<1>5. pending = <<>> => Printed = Cat(SentOf(wire), buf)
  BY <1>2, <1>3, JoinedNone DEF Printed
<1> QED
  BY <1>1, <1>2, <1>3, <1>4, <1>5

\* The application writes: what it takes is pending.
LEMMA WriteStays ==
  ASSUME OutTypes, pending = <<>>, UNCHANGED <<wire, buf>>, NEW q \in Seq(Symbols), QueueText(pending') = q,
         NEW l \in Seq(Symbols), Left' = l, Left = Cat(q, l)
  PROVE  StaysText
<1>1. PICK b \in Seq(Symbols) : b = Cat(SentOf(wire), buf) /\ Printed = b
  BY PrintedText
<1>2. Printed' = Cat(b, q)
  BY <1>1 DEF Printed
<1>3. Cat(Cat(b, q), l) = Cat(b, Cat(q, l))
  BY CatAssociative
<1> QED
  BY <1>1, <1>2, <1>3 DEF StaysText

\* What is left goes without the ChunkPrinter.
LEMMA PutStays ==
  ASSUME OutTypes, pending = <<>>, buf = <<>>, UNCHANGED <<pending, buf>>,
         NEW x \in Items, wire' = Append(wire, x),
         NEW l \in Seq(Symbols), Left' = l, Left = Cat(x.data, l)
  PROVE  StaysText
<1>1. PICK b \in Seq(Symbols) : b = SentOf(wire)
  BY PrintedText
<1>2. PICK d \in Seq(Symbols) : d = x.data
  BY DEF Items
<1>3. SentOf(wire') = Cat(b, d)
  BY <1>1, <1>2, SentProperties DEF Cat, OutTypes, Buffering
<1>4. QueueText(<<>>) = <<>>
  BY DEF QueueText, CallText
<1>5. Cat(Cat(b, <<>>), <<>>) = b
  BY JoinedNone
<1>6. Printed = b
  BY <1>1, <1>4, <1>5 DEF Printed
<1>7. Cat(Cat(Cat(b, d), <<>>), <<>>) = Cat(b, d)
  <2>1. PICK e \in Seq(Symbols) : e = Cat(b, d)
    BY Joined
  <2> QED
    BY <2>1, JoinedNone
<1>8. Printed' = Cat(b, d)
  BY <1>3, <1>4, <1>7 DEF Printed
<1>9. Cat(Cat(b, d), l) = Cat(b, Cat(d, l))
  BY CatAssociative
<1> QED
  BY <1>2, <1>6, <1>8, <1>9 DEF StaysText

\* Where a template is
TemplatePlace(s, k, f) ==
  /\ s \in Seq(Symbols) /\ s = input /\ k \in 0 .. Len(s) /\ k = Written /\ f = Expansion(s)
  /\ param \in Seq(Symbols) /\ Len(param) \in Nat /\ Len(param) <= ParamMax
  /\ Left = f[IF inParam THEN k - Len(param) ELSE k + 1]
  /\ inParam => k - Len(param) \in 1 .. k

LEMMA TemplatePlaces ==
  ASSUME OutTypes, InName, mode = "template"
  PROVE  \E s, k, f : TemplatePlace(s, k, f)
<1>1. PICK s, t : s = input /\ t = todo
  OBVIOUS
<1>2. s \in Seq(Symbols) /\ t \in Seq(Symbols) /\ Len(t) <= Len(s)
  BY <1>1, TodoSymbols DEF OutTypes, Texts
<1>3. PICK k : k = Len(s) - Len(t)
  OBVIOUS
<1>4. k \in 0 .. Len(s) /\ k = Written
  BY <1>1, <1>2, <1>3 DEF Written
<1>5. param \in Seq(Symbols) /\ Len(param) \in Nat /\ Len(param) <= ParamMax
  BY DEF OutTypes, Buffering
<1>6. Left = Expansion(s)[IF inParam THEN k - Len(param) ELSE k + 1]
  BY <1>1, <1>3 DEF Left, NotWritten
<1>7. ASSUME inParam PROVE k - Len(param) \in 1 .. k
  <2>1. Len(param) < k
    BY <1>4, <1>7 DEF InName, NameAt
  <2> QED
    BY <1>4, <1>5, <2>1
<1>8. PICK f : f = Expansion(s)
  OBVIOUS
<1>9. TemplatePlace(s, k, f)
  BY <1>1, <1>2, <1>4, <1>5, <1>6, <1>7, <1>8 DEF TemplatePlace
<1> QED
  BY <1>9

LEMMA LeftSymbols ==
  ASSUME OutTypes, InName, mode # "events"
  PROVE  Left \in Seq(Symbols)
<1>1. CASE mode = "template"
  <2>1. PICK s, k, f : TemplatePlace(s, k, f)
    BY <1>1, TemplatePlaces
  <2>2. \A i \in 1 .. Len(s) + 1 : f[i] \in Seq(Symbols)
    BY <2>1, ExpansionSteps DEF TemplatePlace
  <2>3. k \in 0 .. Len(s) /\ Len(s) \in Nat /\ (inParam => k - Len(param) \in 1 .. k)
        /\ Left = f[IF inParam THEN k - Len(param) ELSE k + 1]
    BY <2>1 DEF TemplatePlace
  <2>4. CASE inParam
    <3>1. k - Len(param) \in 1 .. Len(s) + 1
      BY <2>3, <2>4
    <3> QED
      BY <2>2, <2>3, <2>4, <3>1
  <2>5. CASE ~inParam
    <3>1. k + 1 \in 1 .. Len(s) + 1
      BY <2>3
    <3> QED
      BY <2>2, <2>3, <2>5, <3>1
  <2> QED
    BY <2>4, <2>5
<1>2. CASE mode # "template"
  BY <1>2, TodoSymbols DEF Left, NotWritten, OutTypes
<1> QED
  BY <1>1, <1>2

\* Unless the name goes on or ends, what was taken for a parameter stands as it came.
LEMMA BeforeOther ==
  ASSUME OutTypes, InName, mode = "template", NEW s, NEW k, NEW f, TemplatePlace(s, k, f),
         k < Len(s) => s[k + 1] \notin NameSymbols \cup {Delim}
  PROVE  Left = Cat(QueueText(Placeholder), f[k + 1])
<1>1. /\ s \in Seq(Symbols) /\ s = input /\ k \in 0 .. Len(s) /\ k = Written /\ f = Expansion(s)
      /\ param \in Seq(Symbols) /\ Len(param) \in Nat
      /\ Left = f[IF inParam THEN k - Len(param) ELSE k + 1]
      /\ inParam => k - Len(param) \in 1 .. k
  BY DEF TemplatePlace
<1>2. Len(s) \in Nat /\ k + 1 \in 1 .. Len(s) + 1
  BY <1>1
<1>3. f[k + 1] \in Seq(Symbols)
  BY <1>1, <1>2, ExpansionSteps
<1>4. QueueText(Placeholder) = IF inParam THEN Cat(<<Delim>>, param) ELSE <<>>
  BY PlaceholderText DEF OutTypes
<1>5. CASE ~inParam
  BY <1>1, <1>3, <1>4, <1>5, JoinedNone
<1>6. CASE inParam
  <2>1. PICK m, i : m = Len(param) /\ i = k - Len(param)
    OBVIOUS
  <2>2. m \in Nat /\ i \in 1 .. k /\ i = k - m
    BY <1>1, <1>6, <2>1
  <2>3. i \in 1 .. Len(s) /\ k + 1 = i + m + 1 /\ k + 1 <= Len(s) + 1 /\ (k + 1 <= Len(s) => k < Len(s))
    BY <1>1, <1>2, <2>2
  <2>4. s[i] = Delim /\ \A j \in 1 .. m : param[j] \in NameSymbols /\ s[i + j] = param[j]
    BY <1>1, <1>6, <2>1 DEF InName, NameAt
  <2>5. Expansion(s)[i] = Cat(Cat(<<Delim>>, param), Expansion(s)[k + 1])
    <3>1. NameBehind(s, i, param, k + 1)
      BY <2>1, <2>3, <2>4 DEF NameBehind
    <3>2. k + 1 <= Len(s) => s[k + 1] # Delim
      BY <2>3
    <3> QED
      BY <1>1, <2>3, <2>4, <3>1, <3>2, ParamStays
  <2> QED
    BY <1>1, <1>4, <1>6, <2>1, <2>5
<1> QED
  BY <1>5, <1>6

\* What one byte does to a template
LEMMA TemplateByte ==
  ASSUME OutTypes, InName, TemplateWrite
  PROVE  \E s, k, f :
           /\ TemplatePlace(s, k, f) /\ k < Len(s) /\ mode = "template" /\ pending = <<>>
           /\ TemplateOther(s[k + 1]) \/ TemplateName(s[k + 1]) \/ TemplateDelim(s[k + 1])
           /\ UNCHANGED <<wire, buf, failed, mode, input, phase>>
           /\ input' = s /\ Written' = k + 1 /\ s[k + 1] \in Symbols
           /\ Left' = f[IF inParam' THEN (k + 1) - Len(param') ELSE k + 2]
<1>1. mode = "template" /\ pending = <<>> /\ todo # <<>> /\ Taken(1) /\ UNCHANGED Printer
      /\ (TemplateOther(Head(todo)) \/ TemplateName(Head(todo)) \/ TemplateDelim(Head(todo)))
  BY DEF TemplateWrite, Writing
<1>2. PICK s, k, f : TemplatePlace(s, k, f)
  BY <1>1, TemplatePlaces
<1>3. s = input /\ s \in Seq(Symbols) /\ k \in 0 .. Len(s) /\ k = Len(s) - Len(todo) /\ f = Expansion(s)
  BY <1>2 DEF TemplatePlace, Written
<1>4. todo \in Seq(Symbols) /\ \A i \in 1 .. Len(todo) : todo[i] = s[k + i]
  <2>1. todo \in Seq(Symbols)
    BY <1>1, TodoSymbols DEF OutTypes
  <2> QED
    BY <1>3, <2>1 DEF OutTypes, Texts, Written
<1>5. Len(todo) \in Nat \ {0} /\ Head(todo) = todo[1] /\ 1 \in 0 .. Len(todo) /\ 1 \in 1 .. Len(todo)
  BY <1>1, <1>4
<1>6. Head(todo) = s[k + 1] /\ s[k + 1] \in Symbols /\ k < Len(s)
  <2>1. Len(s) \in Nat
    BY <1>3
  <2>2. k < Len(s)
    BY <1>3, <1>5, <2>1
  <2>3. todo[1] \in Symbols
    BY <1>4, <1>5
  <2> QED
    BY <1>4, <1>5, <2>2, <2>3
<1>7. Len(todo') = Len(todo) - 1 /\ input' = s /\ mode' = "template"
  <2>1. UNCHANGED <<mode, input>>
    BY <1>1 DEF Printer
  <2> QED
    BY <1>1, <1>3, <1>5, <2>1, TakenTexts DEF OutTypes
<1>8. Len(s) - Len(todo') = k + 1 /\ Len(s) \in Nat
  BY <1>3, <1>5, <1>7
<1>9. Written' = k + 1
  BY <1>7, <1>8 DEF Written
<1>10. Left' = f[IF inParam' THEN (k + 1) - Len(param') ELSE k + 2]
  <2>1. k + 1 + 1 = k + 2
    BY <1>3
  <2>2. Left' = Expansion(s)[IF inParam' THEN (k + 1) - Len(param') ELSE k + 1 + 1]
    <3>1. Left' = Expansion(s)[IF inParam' THEN Len(s) - Len(todo') - Len(param') ELSE Len(s) - Len(todo') + 1]
      BY <1>7, Zenon DEF Left, NotWritten
    <3>2. Left' = IF inParam' THEN Expansion(s)[Len(s) - Len(todo') - Len(param')]
                  ELSE Expansion(s)[Len(s) - Len(todo') + 1]
      BY <3>1, Zenon
    <3>3. ASSUME inParam' PROVE Left' = Expansion(s)[(k + 1) - Len(param')]
      <4>1. Left' = Expansion(s)[Len(s) - Len(todo') - Len(param')]
        BY <3>2, <3>3, Zenon
      <4> QED
        BY <1>8, <4>1, Zenon
    <3>4. ASSUME ~inParam' PROVE Left' = Expansion(s)[k + 1 + 1]
      <4>1. Left' = Expansion(s)[Len(s) - Len(todo') + 1]
        BY <3>2, <3>4, Zenon
      <4> QED
        BY <1>8, <4>1
    <3> QED
      BY <3>3, <3>4, Zenon
  <2> QED
    BY <1>3, <2>1, <2>2
<1> QED
  BY <1>1, <1>2, <1>6, <1>7, <1>9, <1>10 DEF Printer

\* A byte that is part of no parameter
LEMMA OtherStays ==
  ASSUME OutTypes, InName, NEW s, NEW k, NEW f, TemplatePlace(s, k, f), k < Len(s), mode = "template",
         pending = <<>>, TemplateOther(s[k + 1]), UNCHANGED <<wire, buf>>, s[k + 1] \in Symbols,
         Left' = f[IF inParam' THEN (k + 1) - Len(param') ELSE k + 2]
  PROVE  StaysText
<1>1. PICK c \in Symbols : c = s[k + 1]
  OBVIOUS
<1>2. /\ c \notin NameSymbols \cup {Delim} /\ pending' = Placeholder \o <<Byte(c)>>
      /\ inParam' = FALSE
  BY <1>1 DEF TemplateOther, NoParam
<1>3. s \in Seq(Symbols) /\ k \in 0 .. Len(s) /\ f = Expansion(s)
  BY DEF TemplatePlace
<1>4. Left = Cat(QueueText(Placeholder), f[k + 1])
  BY <1>1, <1>2, BeforeOther
<1>5. k + 1 \in 1 .. Len(s) /\ k + 2 \in 1 .. Len(s) + 1 /\ k + 1 + 1 = k + 2
  BY <1>3
<1>6. f[k + 1] = Cat(<<c>>, f[k + 1 + 1]) /\ f[k + 2] \in Seq(Symbols)
  BY <1>1, <1>2, <1>3, <1>5, ExpansionSteps
<1>7. Placeholder \in Seq(Calls) /\ Len(Placeholder) <= 2
  BY PlaceholderCalls DEF OutTypes
<1>8. Byte(c) \in Calls /\ Byte(c).data = <<c>> /\ <<c>> \in Seq(Symbols)
  BY ByteCall
<1>9. QueueText(pending') = Cat(QueueText(Placeholder), <<c>>)
  BY <1>2, <1>7, <1>8, QueueThen
<1>10. QueueText(Placeholder) \in Seq(Symbols)
  <2>1. Len(Placeholder) <= 3
    <3>1. PICK n \in Nat : n = Len(Placeholder)
      BY <1>7
    <3> QED
      BY <1>7, <3>1
  <2> QED
    BY <1>7, <2>1, QueueTexts
<1>11. PICK q \in Seq(Symbols), d \in Seq(Symbols), l \in Seq(Symbols) :
         q = QueueText(Placeholder) /\ d = <<c>> /\ l = f[k + 2]
  BY <1>6, <1>8, <1>10
<1>12. Cat(Cat(q, d), l) = Cat(q, Cat(d, l)) /\ Cat(q, d) \in Seq(Symbols)
  BY CatAssociative, Joined
<1>13. Left = Cat(Cat(q, d), l) /\ Left' = l /\ QueueText(pending') = Cat(q, d)
  BY <1>2, <1>4, <1>5, <1>6, <1>9, <1>11, <1>12
<1> QED
  BY <1>12, <1>13, WriteStays

\* A symbol that names are made of
LEMMA NameStays ==
  ASSUME OutTypes, InName, NEW s, NEW k, NEW f, TemplatePlace(s, k, f), k < Len(s), mode = "template",
         pending = <<>>, TemplateName(s[k + 1]), UNCHANGED <<wire, buf>>, s[k + 1] \in Symbols,
         input' = s, Written' = k + 1,
         Left' = f[IF inParam' THEN (k + 1) - Len(param') ELSE k + 2]
  PROVE  InName' /\ (StaysText \/ Overlong)
<1>1. PICK c \in Symbols : c = s[k + 1]
  OBVIOUS
<1>2. /\ c \in NameSymbols
      /\ IF ~inParam THEN pending' = <<Byte(c)>> /\ UNCHANGED <<inParam, param>>
         ELSE IF Len(param) < ParamMax
           THEN param' = Append(param, c) /\ UNCHANGED <<inParam, pending>>
         ELSE pending' = Placeholder /\ NoParam
  BY <1>1 DEF TemplateName
<1>3. /\ s \in Seq(Symbols) /\ k \in 0 .. Len(s) /\ f = Expansion(s) /\ s = input /\ k = Written
      /\ param \in Seq(Symbols) /\ Len(param) \in Nat /\ Len(param) <= ParamMax
      /\ Left = f[IF inParam THEN k - Len(param) ELSE k + 1]
      /\ (inParam => k - Len(param) \in 1 .. k)
  BY DEF TemplatePlace
<1>4. k + 1 \in 1 .. Len(s) /\ k + 2 \in 1 .. Len(s) + 1 /\ k + 1 + 1 = k + 2
  BY <1>3
<1>5. CASE ~inParam
  <2>1. f[k + 1] = Cat(<<c>>, f[k + 1 + 1]) /\ f[k + 2] \in Seq(Symbols)
    BY <1>1, <1>2, <1>3, <1>4, ParamAssumption, ExpansionSteps
  <2>2. Byte(c) \in Calls /\ Byte(c).data = <<c>> /\ <<c>> \in Seq(Symbols)
    BY ByteCall
  <2>3. QueueText(pending') = <<c>>
    <3>1. QueueText(<<Byte(c)>>) = <<c>>
      BY <2>2, OneCall
    <3> QED
      BY <1>2, <1>5, <3>1
  <2>4. ~inParam' /\ Left' = f[k + 2]
    BY <1>2, <1>5
  <2>5. Left = Cat(<<c>>, f[k + 2])
    BY <1>3, <1>4, <1>5, <2>1
  <2>6. StaysText
    BY <2>1, <2>2, <2>3, <2>4, <2>5, WriteStays
  <2> QED
    BY <2>4, <2>6 DEF InName
<1>6. CASE inParam /\ Len(param) < ParamMax
  <2>1. PICK w, m : w = Append(param, c) /\ m = Len(param)
    OBVIOUS
  <2>2. /\ w \in Seq(Symbols) /\ Len(w) = m + 1 /\ m \in Nat /\ w[m + 1] = c
        /\ \A j \in 1 .. m : w[j] = param[j]
    BY <1>3, <2>1
  <2>3. param' = w /\ inParam' /\ pending' = pending
    BY <1>2, <1>6, <2>1
  <2>4. k - m \in 1 .. k /\ k + 1 - (m + 1) = k - m
    BY <1>3, <1>6, <2>1, <2>2
  <2>5. InName'
    <3>1. Len(w) < k + 1 /\ k + 1 - Len(w) = k - m
      <4>1. k \in Nat /\ m < k
        BY <1>3, <2>2, <2>4
      <4> QED
        BY <2>2, <4>1
    <3>2. s[k - m] = Delim /\ \A j \in 1 .. m : param[j] \in NameSymbols /\ s[k - m + j] = param[j]
      BY <1>3, <1>6, <2>1 DEF InName, NameAt
    <3>3. ASSUME NEW j \in 1 .. m + 1 PROVE w[j] \in NameSymbols /\ s[k - m + j] = w[j]
      <4>1. CASE j \in 1 .. m
        BY <2>2, <3>2, <4>1
      <4>2. CASE j = m + 1
        <5>1. k - m + (m + 1) = k + 1
          BY <1>3, <2>2
        <5> QED
          BY <1>1, <1>2, <2>2, <4>2, <5>1
      <4>3. j \in 1 .. m \/ j = m + 1
        BY <2>2
      <4> QED
        BY <4>1, <4>2, <4>3
    <3>4. k \in Nat /\ Len(w) \in Nat
      BY <1>3, <2>2
    <3>5. PICK p \in Nat, l \in Nat : p = k + 1 /\ l = Len(w)
      BY <3>4
    <3>6. l < p /\ p - l = k - m /\ l = m + 1
      BY <2>2, <3>1, <3>4, <3>5
    <3>7. s[p - l] = Delim
      BY <3>2, <3>6, Zenon
    <3>8. \A j \in 1 .. l : w[j] \in NameSymbols /\ s[p - l + j] = w[j]
      BY <3>3, <3>6, Zenon
    <3>9. NameAt(s, p, w)
      BY <3>5, <3>6, <3>7, <3>8, Zenon DEF NameAt
    <3>10. NameAt(s, k + 1, w)
      BY <3>5, <3>9, Zenon
    <3> QED
      BY <2>3, <3>10 DEF InName
  <2>6. Left' = Left
    <3>1. Left' = f[k + 1 - (m + 1)] /\ Left = f[k - m]
      BY <1>3, <1>6, <2>1, <2>2, <2>3
    <3> QED
      BY <2>4, <3>1
  <2>7. StaysText
    <3>1. Printed' = Printed
      BY <2>3 DEF Printed
    <3> QED
      BY <2>6, <3>1 DEF StaysText
  <2> QED
    BY <2>5, <2>7
<1>7. CASE inParam /\ ~(Len(param) < ParamMax)
  <2>1. PICK m, i : m = ParamMax /\ i = k - m
    OBVIOUS
  <2>2. m \in Nat /\ Len(param) = m /\ ParamMax = m
    BY <1>3, <1>7, <2>1, ParamAssumption
  <2>3. i \in 1 .. k /\ k = i + m
    BY <1>3, <1>7, <2>1, <2>2
  <2>4. s[i] = Delim /\ \A j \in 1 .. m : param[j] \in NameSymbols /\ s[i + j] = param[j]
    BY <1>3, <1>7, <2>1, <2>2 DEF InName, NameAt
  <2>5. ASSUME NEW j \in i + 1 .. i + m + 1 PROVE s[j] \in NameSymbols
    <3>1. CASE j <= i + m
      <4>1. j - i \in 1 .. m /\ i + (j - i) = j
        BY <2>2, <2>3, <3>1
      <4> QED
        BY <2>4, <4>1
    <3>2. CASE j = k + 1
      BY <1>1, <1>2, <3>2
    <3>3. j <= i + m \/ j = k + 1
      BY <2>2, <2>3
    <3> QED
      BY <3>1, <3>2, <3>3
  <2>6. i \in 1 .. Len(s) - m - 1
    BY <1>3, <1>4, <2>2, <2>3
  <2>7. Overlong
    BY <1>3, <2>2, <2>4, <2>5, <2>6 DEF Overlong
  <2>8. ~inParam'
    BY <1>2, <1>7 DEF NoParam
  <2> QED
    BY <2>7, <2>8 DEF InName
<1> QED
  BY <1>5, <1>6, <1>7

\* A delimiter begins a parameter, or ends one and asks for its value.
LEMMA DelimStays ==
  ASSUME OutTypes, InName, NEW s, NEW k, NEW f, TemplatePlace(s, k, f), k < Len(s), mode = "template",
         pending = <<>>, TemplateDelim(s[k + 1]), UNCHANGED <<wire, buf>>, s[k + 1] \in Symbols,
         input' = s, Written' = k + 1,
         Left' = f[IF inParam' THEN (k + 1) - Len(param') ELSE k + 2]
  PROVE  InName' /\ StaysText
<1>1. PICK c \in Symbols : c = s[k + 1]
  OBVIOUS
<1>2. /\ c = Delim
      /\ IF ~inParam THEN inParam' = TRUE /\ UNCHANGED <<param, pending>>
         ELSE /\ pending' = IF param # <<>> /\ param \in DOMAIN Values
                              THEN <<Block(Values[param])>>
                              ELSE Placeholder \o <<Byte(c)>>
              /\ NoParam
  BY <1>1 DEF TemplateDelim
<1>3. /\ s \in Seq(Symbols) /\ k \in 0 .. Len(s) /\ f = Expansion(s) /\ s = input /\ k = Written
      /\ param \in Seq(Symbols) /\ Len(param) \in Nat /\ Len(param) <= ParamMax
      /\ Left = f[IF inParam THEN k - Len(param) ELSE k + 1]
      /\ (inParam => k - Len(param) \in 1 .. k)
  BY DEF TemplatePlace
<1>4. k + 1 \in 1 .. Len(s) /\ k + 2 \in 1 .. Len(s) + 1 /\ k + 1 + 1 = k + 2
  BY <1>3
<1>5. CASE ~inParam
  <2>1. param = <<>>
    BY <1>5 DEF OutTypes, Buffering
  <2>2. inParam' = TRUE /\ param' = <<>> /\ pending' = pending /\ Len(<<>>) = 0
    BY <1>2, <1>5, <2>1
  <2>3. Left' = Left
    <3>1. k + 1 - 0 = k + 1
      BY <1>3
    <3> QED
      BY <1>3, <1>5, <2>2, <3>1
  <2>4. Printed' = Printed
    BY <2>2 DEF Printed
  <2>5. InName'
    <3>1. PICK w \in Seq(Symbols) : w = <<>>
      <4>1. <<>> \in Seq(Symbols)
        OBVIOUS
      <4> QED
        BY <4>1, Zenon
    <3>2. Len(w) < k + 1 /\ k + 1 - Len(w) = k + 1 /\ \A j \in 1 .. Len(w) : FALSE
      BY <1>3, <3>1
    <3>3. s[k + 1 - Len(w)] = Delim /\ \A j \in 1 .. Len(w) : w[j] \in NameSymbols /\ s[k + 1 - Len(w) + j] = w[j]
      BY <1>1, <1>2, <3>2
    <3>4. NameAt(s, k + 1, w)
      BY <3>2, <3>3 DEF NameAt
    <3> QED
      BY <2>2, <3>1, <3>4 DEF InName
  <2> QED
    BY <2>3, <2>4, <2>5 DEF StaysText
<1>6. CASE inParam
  <2>1. PICK m, i : m = Len(param) /\ i = k - Len(param)
    OBVIOUS
  <2>2. m \in Nat /\ i \in 1 .. k /\ i = k - m
    BY <1>3, <1>6, <2>1
  <2>3. i \in 1 .. Len(s) /\ k + 1 = i + m + 1 /\ k + 1 <= Len(s)
    BY <1>3, <1>4, <2>2
  <2>4. s[i] = Delim /\ \A j \in 1 .. m : param[j] \in NameSymbols /\ s[i + j] = param[j]
    BY <1>3, <1>6, <2>1 DEF InName, NameAt
  <2>5. Expansion(s)[i] = Cat(IF param \in DOMAIN Values THEN Values[param]
                              ELSE Cat(Cat(<<Delim>>, param), <<Delim>>),
                              Expansion(s)[k + 1 + 1])
    <3>1. NameBehind(s, i, param, k + 1)
      <4>1. k + 1 <= Len(s) + 1
        BY <1>3
      <4>2. s[k + 1] \notin NameSymbols
        BY <1>1, <1>2, ParamAssumption
      <4> QED
        BY <2>1, <2>3, <2>4, <4>1, <4>2 DEF NameBehind
    <3>2. Len(param) <= ParamMax /\ s[k + 1] = Delim
      BY <1>1, <1>2, <1>3
    <3> QED
      BY <1>3, <2>3, <2>4, <3>1, <3>2, ParamFound
  <2>6. ~inParam' /\ Left' = f[k + 2] /\ InName'
    BY <1>2, <1>6 DEF NoParam, InName
  <2>7. f[k + 2] \in Seq(Symbols)
    BY <1>3, <1>4, ExpansionSteps
  <2>8. Left = Cat(IF param \in DOMAIN Values THEN Values[param] ELSE Cat(Cat(<<Delim>>, param), <<Delim>>),
                   f[k + 2])
    BY <1>3, <1>4, <1>6, <2>1, <2>5
  <2>9. CASE param \in DOMAIN Values
    <3>1. Values[param] \in Seq(Symbols) /\ param # <<>>
      BY <2>9, SymbolsOfTexts, ValuesAssumption
    <3>2. Block(Values[param]) \in Calls /\ Block(Values[param]).data = Values[param]
      BY <3>1, BlockCall
    <3>3. QueueText(<<Block(Values[param])>>) = Values[param]
      BY <3>2, OneCall
    <3>4. QueueText(pending') = Values[param]
      BY <1>2, <1>6, <2>9, <3>1, <3>3
    <3>5. Left = Cat(Values[param], f[k + 2])
      BY <2>8, <2>9
    <3>6. StaysText
      BY <2>6, <2>7, <3>1, <3>4, <3>5, WriteStays
    <3> QED
      BY <2>6, <3>6
  <2>10. CASE param \notin DOMAIN Values
    <3>1. Byte(c) \in Calls /\ Byte(c).data = <<Delim>> /\ <<Delim>> \in Seq(Symbols)
      BY <1>2, ByteCall
    <3>2. Placeholder \in Seq(Calls) /\ Len(Placeholder) <= 2
      BY PlaceholderCalls DEF OutTypes
    <3>3. QueueText(Placeholder) = Cat(<<Delim>>, param)
      BY <1>6, PlaceholderText DEF OutTypes
    <3>4. QueueText(pending') = Cat(Cat(<<Delim>>, param), <<Delim>>)
      <4>1. pending' = Placeholder \o <<Byte(c)>>
        BY <1>2, <1>6, <2>10
      <4> QED
        BY <3>1, <3>2, <3>3, <4>1, QueueThen
    <3>5. Cat(Cat(<<Delim>>, param), <<Delim>>) \in Seq(Symbols)
      BY <1>3, <3>1, Joined
    <3>6. Left = Cat(Cat(Cat(<<Delim>>, param), <<Delim>>), f[k + 2])
      BY <2>8, <2>10
    <3>7. StaysText
      BY <2>6, <2>7, <3>4, <3>5, <3>6, WriteStays
    <3> QED
      BY <2>6, <3>7
  <2> QED
    BY <2>9, <2>10
<1> QED
  BY <1>5, <1>6

LEMMA TemplateStays ==
  ASSUME OutTypes, InName, TemplateWrite
  PROVE  InName' /\ (StaysText \/ Overlong)
<1>1. PICK s, k, f :
        /\ TemplatePlace(s, k, f) /\ k < Len(s) /\ mode = "template" /\ pending = <<>>
        /\ TemplateOther(s[k + 1]) \/ TemplateName(s[k + 1]) \/ TemplateDelim(s[k + 1])
        /\ UNCHANGED <<wire, buf, failed, mode, input, phase>>
        /\ input' = s /\ Written' = k + 1 /\ s[k + 1] \in Symbols
        /\ Left' = f[IF inParam' THEN (k + 1) - Len(param') ELSE k + 2]
  BY TemplateByte
<1>2. CASE TemplateOther(s[k + 1])
  <2>1. ~inParam'
    BY <1>2 DEF TemplateOther, NoParam
  <2>2. StaysText
    BY <1>1, <1>2, OtherStays
  <2> QED
    BY <2>1, <2>2 DEF InName
<1>3. CASE TemplateName(s[k + 1])
  BY <1>1, <1>3, NameStays
<1>4. CASE TemplateDelim(s[k + 1])
  BY <1>1, <1>4, DelimStays
<1> QED
  BY <1>1, <1>2, <1>3, <1>4

LEMMA Carries ==
  ASSUME OutTypes, TextInv, UNCHANGED <<mode, input>>, failed => failed', InName', TextGoes' => StaysText,
         TextGoes' /\ phase' = "done" /\ Kind("error")' = {} => todo' = <<>>
  PROVE  TextInv'
<1>1. TextGoes' => TextGoes
  BY DEF TextGoes, Overlong
<1>2. Meant' = Meant
  BY DEF Meant
<1>3. Arriving'
  BY <1>1, <1>2 DEF TextInv, Arriving, StaysText
<1>4. Complete'
  BY DEF Complete
<1> QED
  BY <1>3, <1>4 DEF TextInv

\* The text itself, and a part of it
LEMMA TodoLeft ==
  ASSUME OutTypes, mode \notin {"events", "template"}
  PROVE  /\ Left = todo /\ todo \in Seq(Symbols) /\ Len(todo) \in Nat
         /\ UNCHANGED mode => Left' = todo'
<1>1. todo \in Seq(Symbols)
  BY TodoSymbols DEF OutTypes
<1> QED
  BY <1>1 DEF Left, NotWritten

LEMMA WriteGoes ==
  ASSUME OutTypes, TextInv, WriteByte \/ (\E n \in 1 .. Len(todo) : WriteBlock(n)) \/ CopyFrom
  PROVE  TextInv'
<1>1. /\ phase = "write" /\ pending = <<>> /\ mode \in {"stream", "json"}
      /\ UNCHANGED <<inParam, param, flushes, Printer>>
  BY DEF WriteByte, WriteBlock, CopyFrom, Writing
<1>2. PICK t : t = todo /\ t \in Seq(Symbols) /\ Left = t /\ Left' = todo'
  <2>1. mode \notin {"events", "template"} /\ UNCHANGED mode
    BY <1>1 DEF Printer
  <2> QED
    BY <2>1, TodoLeft
<1>3. ~inParam /\ ~inParam'
  BY <1>1 DEF OutTypes, Place
<1>4. UNCHANGED <<wire, buf, mode, input, failed, phase>>
  BY <1>1 DEF Printer
<1>5. \E d \in Seq(Symbols), l \in Seq(Symbols), x \in Calls :
        pending' = <<x>> /\ x.data = d /\ todo' = l /\ t = Cat(d, l)
  <2>1. ASSUME NEW n \in 1 .. Len(t)
        PROVE  /\ SubSeq(t, 1, n) \in Seq(Symbols) /\ SubSeq(t, n + 1, Len(t)) \in Seq(Symbols)
               /\ t = Cat(SubSeq(t, 1, n), SubSeq(t, n + 1, Len(t)))
    <3>1. n \in 0 .. Len(t)
      BY <2>1
    <3> QED
      BY <1>2, <3>1, Splitting DEF Cat
  <2>2. CASE WriteByte
    <3>1. todo # <<>> /\ pending' = <<Byte(Head(t))>> /\ todo' = SubSeq(t, 2, Len(t))
      <4>1. 1 + 1 = 2
        OBVIOUS
      <4> QED
        BY <1>2, <2>2, <4>1 DEF WriteByte, Taken
    <3>2. 1 \in 1 .. Len(t) /\ Head(t) = t[1] /\ t[1] \in Symbols
      BY <1>2, <3>1
    <3>3. SubSeq(t, 1, 1) = <<t[1]>> /\ SubSeq(t, 1 + 1, Len(t)) = SubSeq(t, 2, Len(t))
      <4>1. PICK u, v : u = SubSeq(t, 1, 1) /\ v = <<t[1]>>
        OBVIOUS
      <4>2. u \in Seq(Symbols) /\ Len(u) = 1 /\ u[1] = t[1]
        BY <1>2, <3>2, <4>1
      <4>3. v \in Seq(Symbols) /\ Len(v) = 1 /\ v[1] = t[1]
        BY <3>2, <4>1
      <4>4. \A i \in 1 .. 1 : i = 1
        OBVIOUS
      <4>5. u = v
        BY <4>2, <4>3, <4>4, SameSequence
      <4>6. 1 + 1 = 2
        OBVIOUS
      <4> QED
        BY <4>1, <4>5, <4>6, Zenon
    <3>4. Byte(t[1]) \in Calls /\ Byte(t[1]).data = <<t[1]>>
      BY <3>2, ByteCall
    <3> QED
      BY <2>1, <3>1, <3>2, <3>3, <3>4
  <2>3. CASE \E n \in 1 .. Len(todo) : WriteBlock(n)
    <3>1. PICK n \in 1 .. Len(t) : pending' = <<Block(SubSeq(t, 1, n))>> /\ todo' = SubSeq(t, n + 1, Len(t))
      BY <1>2, <2>3 DEF WriteBlock, Taken
    <3>2. Block(SubSeq(t, 1, n)) \in Calls /\ Block(SubSeq(t, 1, n)).data = SubSeq(t, 1, n)
      BY <2>1, BlockCall
    <3> QED
      BY <2>1, <3>1, <3>2
  <2>4. CASE CopyFrom
    <3>1. pending' = <<Copy(t)>> /\ todo' = <<>> /\ Copy(t) \in Calls /\ Copy(t).data = t /\ <<>> \in Seq(Symbols)
      BY <1>2, <2>4 DEF CopyFrom, Copy, Calls
    <3>2. t = Cat(t, <<>>)
      BY <1>2, JoinedNone
    <3> QED
      BY <1>2, <3>1, <3>2
  <2>5. WriteByte \/ (\E n \in 1 .. Len(todo) : WriteBlock(n)) \/ CopyFrom
    OBVIOUS
  <2> QED
    BY <2>2, <2>3, <2>4, <2>5
<1>6. PICK d \in Seq(Symbols), l \in Seq(Symbols), x \in Calls :
        pending' = <<x>> /\ x.data = d /\ todo' = l /\ t = Cat(d, l)
  BY <1>5
<1>7. QueueText(pending') = d
  BY <1>6, OneCall
<1>8. StaysText
  <2>1. Left' = l /\ Left = Cat(d, l)
    BY <1>2, <1>6
  <2> QED
    BY <1>1, <1>4, <1>7, <2>1, WriteStays
<1>9. InName'
  BY <1>3 DEF InName
<1> QED
  BY <1>1, <1>4, <1>8, <1>9, Carries

\* Nothing is written: a text that stays where it is
LEMMA SameStays ==
  ASSUME UNCHANGED <<wire, buf, pending, mode, input, todo, inParam, param>>
  PROVE  StaysText /\ (InName => InName')
BY DEF StaysText, Printed, Left, InName, Written

LEMMA EmptyPut ==
  ASSUME OutTypes, InName, mode # "events", pending = <<>>, buf = <<>>,
         NEW x \in Items, x.data = <<>>, wire' = Append(wire, x),
         UNCHANGED <<buf, pending, mode, input, todo, inParam, param>>
  PROVE  StaysText /\ InName'
<1>1. PICK l \in Seq(Symbols) : l = Left
  BY LeftSymbols
<1>2. Left' = l
  BY <1>1 DEF Left
<1>3. l = Cat(x.data, l)
  BY <1>1, JoinedNone
<1>4. StaysText
  BY <1>1, <1>2, <1>3, PutStays
<1> QED
  BY <1>4 DEF InName, Written

LEMMA FlushNowGoes ==
  ASSUME OutTypes, TextInv, FlushNow
  PROVE  TextInv'
<1>1. /\ phase = "write" /\ pending = <<>> /\ mode \in {"stream", "template"} /\ ~inParam /\ pending' = <<Flush>>
      /\ UNCHANGED <<todo, inParam, param, wire, buf, mode, input, failed, phase>>
  BY DEF FlushNow, Writing, Printer
<1>2. Flush \in Calls /\ Flush.data = <<>> /\ <<>> \in Seq(Symbols)
  <2>1. <<>> \in Seq(Symbols)
    OBVIOUS
  <2> QED
    BY <2>1 DEF Flush, Calls
<1>3. QueueText(pending') = <<>>
  BY <1>1, <1>2, OneCall
<1>4. PICK l \in Seq(Symbols) : l = Left
  BY <1>1, LeftSymbols DEF TextInv
<1>5. Left' = l /\ l = Cat(<<>>, l)
  BY <1>1, <1>4, JoinedNone DEF Left
<1>6. StaysText
  BY <1>1, <1>2, <1>3, <1>4, <1>5, WriteStays
<1>7. InName'
  BY <1>1 DEF InName
<1> QED
  BY <1>1, <1>6, <1>7, Carries

\* What was taken for a parameter is put out at last.
LEMMA FinishGoes ==
  ASSUME OutTypes, TextInv, Finish
  PROVE  TextInv'
<1>1. /\ phase = "write" /\ pending = <<>> /\ todo = <<>> /\ pending' = Placeholder \o <<Flush>>
      /\ inParam' = FALSE /\ param' = <<>> /\ phase' = "ending"
      /\ UNCHANGED <<mode, input, todo, buf, wire, failed>>
  BY DEF Finish, Writing, NoParam
<1>2. Flush \in Calls /\ Flush.data = <<>> /\ <<>> \in Seq(Symbols)
  <2>1. <<>> \in Seq(Symbols)
    OBVIOUS
  <2> QED
    BY <2>1 DEF Flush, Calls
<1>3. Placeholder \in Seq(Calls) /\ Len(Placeholder) <= 2
  BY PlaceholderCalls DEF OutTypes
<1>4. PICK q \in Seq(Symbols) : q = QueueText(Placeholder)
  <2>1. Len(Placeholder) <= 3
    <3>1. PICK n \in Nat : n = Len(Placeholder)
      BY <1>3
    <3> QED
      BY <1>3, <3>1
  <2> QED
    BY <1>3, <2>1, QueueTexts
<1>5. QueueText(pending') = q
  <2>1. QueueText(pending') = Cat(QueueText(Placeholder), Flush.data)
    BY <1>1, <1>2, <1>3, QueueThen
  <2>2. Cat(q, <<>>) = q
    BY <1>4, JoinedNone
  <2> QED
    BY <1>2, <1>4, <2>1, <2>2
<1>6. mode # "events" /\ (inParam => mode = "template")
  BY <1>1 DEF OutTypes, Place
<1>7. Left = Cat(q, <<>>) /\ Left' = <<>>
  <2>1. CASE mode = "template"
    <3>1. PICK s, k, f : TemplatePlace(s, k, f)
      BY <2>1, TemplatePlaces DEF TextInv
    <3>2. s = input /\ k = Len(s) /\ Len(s) \in Nat /\ s \in Seq(Symbols) /\ f = Expansion(s)
      <4>1. Len(<<>>) = 0
        OBVIOUS
      <4> QED
        BY <1>1, <3>1, <4>1 DEF TemplatePlace, Written
    <3>3. Left = Cat(QueueText(Placeholder), f[k + 1])
      BY <2>1, <3>1, <3>2, BeforeOther DEF TextInv
    <3>4. f[k + 1] = <<>>
      BY <3>2, ExpansionSteps
    <3>5. Left' = f[k + 1]
      <4>1. Len(s) - 0 + 1 = k + 1 /\ Len(<<>>) = 0
        BY <3>2
      <4> QED
        BY <1>1, <2>1, <3>2, <4>1 DEF Left, NotWritten
    <3> QED
      BY <1>4, <3>3, <3>4, <3>5
  <2>2. CASE mode # "template"
    <3>1. Placeholder = <<>>
      BY <1>6, <2>2 DEF Placeholder
    <3>2. q = <<>>
      BY <1>4, <3>1 DEF QueueText, CallText
    <3>3. Left = <<>> /\ Left' = <<>>
      BY <1>1, <2>2 DEF Left, NotWritten
    <3>4. Cat(<<>>, <<>>) = <<>>
      BY <1>2, JoinedNone
    <3> QED
      BY <3>2, <3>3, <3>4
  <2> QED
    BY <2>1, <2>2
<1>8. StaysText
  BY <1>1, <1>2, <1>5, <1>7, WriteStays
<1>9. InName'
  BY <1>1 DEF InName
<1> QED
  BY <1>1, <1>8, <1>9, Carries

LEMMA PrintsGoes ==
  ASSUME OutTypes, TextInv, NEW ok \in BOOLEAN, Prints(ok)
  PROVE  TextInv'
<1>1. /\ pending # <<>> /\ UNCHANGED <<mode, input, todo, inParam, param, phase>> /\ Hands(ok)
      /\ ~failed' => Printed' = Printed
  BY DEF Prints, Application
<1>2. failed => failed'
  BY <1>1 DEF Hands, SendChunk
<1>3. TextGoes' => StaysText
  BY <1>1 DEF TextGoes, StaysText, Left
<1>4. phase' # "done"
  BY <1>1 DEF OutTypes, Place
<1>5. InName'
  BY <1>1 DEF TextInv, InName, Written
<1> QED
  BY <1>1, <1>2, <1>3, <1>4, <1>5, Carries

LEMMA ItemKinds ==
  /\ Terminator \in Items /\ Terminator.data = <<>>
  /\ ErrorPage \in Items /\ ErrorPage.data = <<>> /\ ErrorPage.kind = "error"
  /\ \A d \in Seq(Symbols) : Whole(d) \in Items /\ Whole(d).data = d /\ Chunk(d) \in Items /\ Chunk(d).data = d
<1>1. <<>> \in Seq(Symbols)
  OBVIOUS
<1> QED
  BY <1>1 DEF Terminator, ErrorPage, Whole, Chunk, Items

LEMMA ErrorShown ==
  ASSUME OutTypes, wire' = Append(wire, ErrorPage)
  PROVE  Kind("error")' # {}
<1>1. Len(wire) + 1 \in Kind("error")'
  BY ItemKinds, KindAfter DEF OutTypes, Buffering
<1> QED
  BY <1>1

LEMMA BeginGoes ==
  ASSUME OutTypes, TextInv, NEW allocated \in BOOLEAN, BeginStream(allocated) \/ BeginWhole(allocated)
  PROVE  TextInv'
<1>1. /\ phase = "begin" /\ mode # "events"
      /\ UNCHANGED <<mode, input, pending, inParam, param, buf, failed>>
  BY DEF BeginStream, BeginWhole
<1>2. pending = <<>> /\ buf = <<>> /\ ~inParam /\ todo = input
  BY <1>1 DEF OutTypes, Place
<1>3. InName'
  BY <1>1, <1>2 DEF InName
<1>4. CASE wire' = wire /\ todo' = todo /\ phase' # "done"
  BY <1>1, <1>3, <1>4, SameStays, Carries
<1>5. CASE wire' = Append(wire, ErrorPage) /\ todo' = todo
  <2>1. StaysText
    BY <1>1, <1>2, <1>5, ItemKinds, EmptyPut DEF TextInv
  <2> QED
    BY <1>1, <1>3, <1>5, <2>1, ErrorShown, Carries
<1>6. CASE wire' = Append(wire, Whole(input)) /\ todo' = <<>> /\ mode \in {"json", "file"}
  <2>1. PICK d \in Seq(Symbols) : d = input
    BY <1>1, TodoSymbols DEF OutTypes
  <2>2. Left = d /\ Left' = <<>> /\ d = Cat(d, <<>>) /\ <<>> \in Seq(Symbols)
    <3>1. <<>> \in Seq(Symbols)
      OBVIOUS
    <3>2. d = Cat(d, <<>>)
      BY JoinedNone
    <3>3. Left = todo /\ Left' = todo'
      BY <1>1, <1>6 DEF Left, NotWritten
    <3> QED
      BY <1>2, <1>6, <2>1, <3>1, <3>2, <3>3
  <2>3. Whole(d) \in Items /\ Whole(d).data = d
    BY ItemKinds
  <2>4. StaysText
    <3>1. UNCHANGED <<pending, buf>> /\ wire' = Append(wire, Whole(d)) /\ Left = Cat(Whole(d).data, <<>>)
      BY <1>1, <1>6, <2>1, <2>2, <2>3
    <3> QED
      BY <1>2, <2>2, <2>3, <3>1, PutStays
  <2> QED
    BY <1>1, <1>3, <1>6, <2>4, Carries
<1>7. CASE BeginStream(allocated)
  <2>1. CASE allocated
    <3>1. wire' = wire /\ todo' = todo /\ phase' # "done"
      BY <1>7, <2>1 DEF BeginStream
    <3> QED
      BY <1>4, <3>1
  <2>2. CASE ~allocated
    <3>1. wire' = Append(wire, ErrorPage) /\ todo' = todo
      BY <1>7, <2>2 DEF BeginStream, Put
    <3> QED
      BY <1>5, <3>1
  <2> QED
    BY <2>1, <2>2
<1>8. CASE BeginWhole(allocated)
  <2>1. CASE ~allocated /\ ~(mode = "file" /\ input = <<>>)
    <3>1. wire' = Append(wire, ErrorPage) /\ todo' = todo
      BY <1>8, <2>1 DEF BeginWhole, Put
    <3> QED
      BY <1>5, <3>1
  <2>2. CASE ~(~allocated /\ ~(mode = "file" /\ input = <<>>)) /\ Len(input) < Size
    <3>1. wire' = Append(wire, Whole(input)) /\ todo' = <<>> /\ mode \in {"json", "file"}
      BY <1>8, <2>2 DEF BeginWhole, Put
    <3> QED
      BY <1>6, <3>1
  <2>3. CASE ~(~allocated /\ ~(mode = "file" /\ input = <<>>)) /\ ~(Len(input) < Size)
    <3>1. wire' = wire /\ todo' = todo /\ phase' # "done"
      BY <1>8, <2>3 DEF BeginWhole
    <3> QED
      BY <1>4, <3>1
  <2> QED
    BY <2>1, <2>2, <2>3
<1> QED
  BY <1>7, <1>8

LEMMA EndGoes ==
  ASSUME OutTypes, TextInv, EndSend \/ Destroy \/ FileEnd
  PROVE  TextInv'
<1>1. /\ phase \in {"ending", "ended", "file"} /\ pending = <<>>
      /\ UNCHANGED <<mode, input, todo, pending, inParam, param, buf, failed>>
      /\ wire' = wire \/ wire' = Append(wire, Terminator)
  BY DEF EndSend, Destroy, FileEnd, Put, OutTypes, Place
<1>2. buf = <<>> /\ mode # "events" /\ todo = <<>>
  BY <1>1 DEF OutTypes, Place, FileEnd, EndSend, Destroy
<1>3. StaysText /\ InName'
  <2>1. CASE wire' = wire
    BY <1>1, <2>1, SameStays DEF TextInv
  <2>2. CASE wire' = Append(wire, Terminator)
    BY <1>1, <1>2, <2>2, ItemKinds, EmptyPut DEF TextInv
  <2> QED
    BY <1>1, <2>1, <2>2
<1> QED
  BY <1>1, <1>2, <1>3, Carries

LEMMA FileChunkGoes ==
  ASSUME OutTypes, TextInv, NEW ok \in BOOLEAN, FileChunk(ok)
  PROVE  TextInv'
<1>1. /\ phase = "file" /\ UNCHANGED <<mode, input, pending, inParam, param, buf>>
      /\ (ok => phase' = phase)
  BY DEF FileChunk
<1>2. mode = "file" /\ pending = <<>> /\ buf = <<>> /\ ~inParam
  BY <1>1 DEF OutTypes, Place
<1>3. PICK n \in 1 .. Len(todo) :
        Taken(n) /\ SubSeq(todo, 1, n) \in Seq(Symbols) /\ SendChunk(SubSeq(todo, 1, n), ok)
  BY FileChunkParts
<1>4. failed' = (failed \/ ~ok) /\ (ok => wire' = Append(wire, Chunk(SubSeq(todo, 1, n))))
  BY <1>3 DEF SendChunk, Put
<1>5. InName'
  BY <1>1, <1>2 DEF InName
<1>6. ASSUME ok PROVE StaysText
  <2>1. Left = todo /\ todo \in Seq(Symbols) /\ Len(todo) \in Nat /\ Left' = todo'
    BY <1>1, <1>2, TodoLeft
  <2>2. n \in 0 .. Len(todo)
    OBVIOUS
  <2>3. PICK d \in Seq(Symbols), l \in Seq(Symbols) :
          d = SubSeq(todo, 1, n) /\ l = SubSeq(todo, n + 1, Len(todo)) /\ todo = Cat(d, l)
    <3>1. /\ SubSeq(todo, 1, n) \in Seq(Symbols) /\ SubSeq(todo, n + 1, Len(todo)) \in Seq(Symbols)
          /\ todo = SubSeq(todo, 1, n) \o SubSeq(todo, n + 1, Len(todo))
      BY <2>1, <2>2, Splitting
    <3> QED
      BY <3>1, Zenon DEF Cat
  <2>4. Left' = l /\ Left = Cat(d, l) /\ wire' = Append(wire, Chunk(d))
    BY <1>3, <1>4, <1>6, <2>1, <2>3 DEF Taken
  <2>5. Chunk(d) \in Items /\ Chunk(d).data = d
    BY ItemKinds
  <2>6. Left = Cat(Chunk(d).data, l)
    BY <2>4, <2>5
  <2> QED
    BY <1>1, <1>2, <2>4, <2>5, <2>6, PutStays
<1>7. CASE ok
  <2>1. phase' # "done" /\ (failed => failed') /\ UNCHANGED <<mode, input>>
    BY <1>1, <1>4, <1>7
  <2> QED
    BY <1>5, <1>6, <1>7, <2>1, Carries
<1>8. CASE ~ok
  <2>1. ~TextGoes' /\ (failed => failed') /\ UNCHANGED <<mode, input>>
    BY <1>1, <1>4, <1>8 DEF TextGoes
  <2> QED
    BY <1>5, <2>1, Carries
<1> QED
  BY <1>7, <1>8

LEMMA EventGoes ==
  ASSUME OutTypes, TextInv, (\E ok \in BOOLEAN : BeginEvents(ok)) \/ (\E n \in 1 .. MaxEventText : SendEvent(n)) \/ LoseEvents
  PROVE  TextInv'
<1>1. phase \in {"begin", "events"} /\ mode' = mode /\ inParam' = inParam /\ mode = "events"
  BY DEF BeginEvents, SendEvent, LoseEvents, OutTypes, Place
<1>2. InName'
  BY <1>1 DEF OutTypes, Place, InName
<1>3. ~TextGoes'
  BY <1>1 DEF TextGoes
<1> QED
  BY <1>2, <1>3 DEF TextInv, Arriving, Complete

LEMMA InitText == OutInit => TextInv
<1> SUFFICES ASSUME OutInit PROVE TextInv
  OBVIOUS
<1>1. OutTypes
  BY InitTypes
<1>2. /\ ~inParam /\ todo = input /\ wire = <<>> /\ buf = <<>> /\ pending = <<>> /\ phase = "begin"
  BY DEF OutInit
<1>3. InName
  BY <1>2 DEF InName
<1>4. Complete
  BY <1>2 DEF Complete
<1>5. ASSUME TextGoes PROVE Cat(Printed, Left) = Meant
  <2>1. PICK l \in Seq(Symbols) : l = Left
    BY <1>1, <1>3, <1>5, LeftSymbols DEF TextGoes
  <2>2. Printed = <<>>
    <3>1. SentOf(<<>>) = <<>>
      <4>1. <<>> \in Seq(Items)
        OBVIOUS
      <4> QED
        BY <4>1, SentProperties
    <3>2. <<>> \in Seq(Symbols)
      OBVIOUS
    <3>3. Cat(<<>>, <<>>) = <<>>
      BY <3>2, JoinedNone
    <3>4. Printed = Cat(SentOf(wire), buf)
      BY <1>1, <1>2, PrintedText
    <3> QED
      BY <1>2, <3>1, <3>3, <3>4
  <2>3. Left = Meant
    <3>1. PICK n \in Nat : n = Len(input)
      <4>1. Len(input) \in Nat
        BY <1>1, <1>5, TodoSymbols DEF TextGoes, OutTypes
      <4> QED
        BY <4>1
    <3>2. Len(input) - Len(todo) + 1 = 1
      BY <1>2, <3>1
    <3> QED
      BY <1>2, <3>2 DEF Left, NotWritten, Meant
  <2>4. Cat(<<>>, l) = l
    BY JoinedNone
  <2> QED
    BY <2>1, <2>2, <2>3, <2>4
<1> QED
  BY <1>3, <1>4, <1>5 DEF TextInv, Arriving

LEMMA NextText == OutTypes /\ TextInv /\ [OutNext]_outVars => TextInv'
<1> SUFFICES ASSUME OutTypes, TextInv, [OutNext]_outVars PROVE TextInv'
  OBVIOUS
<1>1. CASE \E ok \in BOOLEAN : DoByte(ok) \/ DoBlock(ok) \/ DoFlush(ok) \/ DoCopy(ok)
  BY <1>1, PrintsByte, PrintsBlock, PrintsFlush, PrintsCopy, PrintsGoes
<1>2. CASE \E ok \in BOOLEAN : FileChunk(ok)
  BY <1>2, FileChunkGoes
<1>3. CASE \E allocated \in BOOLEAN : BeginStream(allocated) \/ BeginWhole(allocated)
  BY <1>3, BeginGoes
<1>4. CASE WriteByte \/ (\E n \in 1 .. Len(todo) : WriteBlock(n)) \/ CopyFrom
  BY <1>4, WriteGoes
<1>5. CASE FlushNow
  BY <1>5, FlushNowGoes
<1>6. CASE TemplateWrite
  <2>1. /\ mode = "template" /\ phase = "write" /\ UNCHANGED <<mode, input, failed, phase>>
    BY <1>6 DEF TemplateWrite, Writing, Printer
  <2>2. InName' /\ (StaysText \/ Overlong)
    BY <1>6, TemplateStays DEF TextInv
  <2>3. TextGoes' => StaysText
    BY <2>1, <2>2 DEF TextGoes, Overlong
  <2> QED
    BY <2>1, <2>2, <2>3, Carries
<1>7. CASE Finish
  BY <1>7, FinishGoes
<1>8. CASE EndSend \/ Destroy \/ FileEnd
  BY <1>8, EndGoes
<1>9. CASE (\E ok \in BOOLEAN : BeginEvents(ok)) \/ (\E n \in 1 .. MaxEventText : SendEvent(n)) \/ LoseEvents
  BY <1>9, EventGoes
<1>10. CASE UNCHANGED outVars
  <2>1. UNCHANGED <<mode, input, todo, pending, inParam, param, buf, wire, failed, phase>>
    BY <1>10 DEF outVars
  <2>2. StaysText /\ InName'
    BY <2>1, SameStays DEF TextInv
  <2>3. TextGoes' /\ phase' = "done" /\ Kind("error")' = {} => todo' = <<>>
    BY <2>1 DEF TextInv, Complete, TextGoes, Overlong, Kind
  <2> QED
    BY <2>1, <2>2, <2>3, Carries
<1> QED
  BY <1>1, <1>2, <1>3, <1>4, <1>5, <1>6, <1>7, <1>8, <1>9, <1>10 DEF OutNext

LEMMA TextInvArrives ==
  ASSUME OutTypes, TextInv, ~failed, ~(mode = "template" /\ Overlong), mode # "events"
  PROVE  IsPrefix(Sent \o buf, Meant) /\ (phase = "done" /\ Kind("error") = {} => Sent = Meant)
<1>1. TextGoes
  BY DEF TextGoes
<1>2. PICK s \in Seq(Symbols), b \in Seq(Symbols), q \in Seq(Symbols), l \in Seq(Symbols) :
        s = SentOf(wire) /\ b = buf /\ q = QueueText(pending) /\ l = Left
  BY PrintedText, LeftSymbols DEF TextInv
<1>3. Sent = s
  BY <1>2 DEF Sent, SentOf
<1>4. Meant = Cat(Cat(Cat(s, b), q), l)
  BY <1>1, <1>2 DEF TextInv, Arriving, Printed
<1>5. PICK c \in Seq(Symbols), e \in Seq(Symbols) : c = Cat(s, b) /\ e = Cat(q, l)
  BY Joined
<1>6. Meant = Cat(c, e)
  BY <1>4, <1>5, CatAssociative
<1>7. IsPrefix(c, Meant)
  BY <1>6, ConcatPrefix DEF Cat
<1>8. ASSUME phase = "done", Kind("error") = {} PROVE Sent = Meant
  <2>1. buf = <<>> /\ pending = <<>> /\ ~inParam
    BY <1>8 DEF OutTypes, Place
  <2>2. todo = <<>>
    BY <1>1, <1>8 DEF TextInv, Complete
  <2>3. q = <<>>
    BY <1>2, <2>1 DEF QueueText, CallText
  <2>4. l = <<>>
    <3>1. CASE mode = "template"
      <4>1. PICK v : v = input /\ v \in Seq(Symbols)
        BY TodoSymbols DEF OutTypes
      <4>2. Len(v) - 0 + 1 = Len(v) + 1 /\ Len(<<>>) = 0
        BY <4>1
      <4>3. l = Expansion(v)[Len(v) + 1]
        BY <1>2, <2>1, <2>2, <3>1, <4>1, <4>2 DEF Left, NotWritten
      <4> QED
        BY <4>1, <4>3, ExpansionSteps
    <3>2. CASE mode # "template"
      BY <1>2, <2>2, <3>2 DEF Left, NotWritten
    <3> QED
      BY <3>1, <3>2
  <2>5. Cat(Cat(Cat(s, <<>>), <<>>), <<>>) = s
    BY JoinedNone
  <2> QED
    BY <1>2, <1>3, <1>4, <2>1, <2>3, <2>4, <2>5
<1> QED
  BY <1>2, <1>3, <1>5, <1>7, <1>8 DEF Cat

-----------------------------------------------------------------------------
(* What a browser reads                                                    *)

Start == [field |-> "", value |-> <<>>, event |-> "", data |-> <<>>, id |-> "0", heard |-> <<>>]

\* From r to q, by the symbols of t
ReadsTo(r, t, q) ==
  \E g : g[0] = r /\ g[Len(t)] = q /\ \A i \in 1 .. Len(t) : g[i] = ReadSymbol(g[i - 1], t[i])

\* The recursion of FoldLeft, on the positions of t
ReadAll(t, f, s) == IF s = {} THEN Start ELSE ReadSymbol(f[s \ {Max(s)}], t[Max(s)])
ReadsAll(t, k, f) == f = [s \in SUBSET (1 .. k) |-> ReadAll(t, f, s)]

LEMMA HeardInFolds ==
  ASSUME NEW A, NEW t \in Seq(A)
  PROVE  HeardIn(t) = (CHOOSE f : ReadsAll(t, Len(t), f))[1 .. Len(t)].heard
<1>1. DOMAIN t = 1 .. Len(t)
  OBVIOUS
<1>2. HeardIn(t) = (CHOOSE f : f = [s \in SUBSET (DOMAIN t) |-> ReadAll(t, f, s)])[DOMAIN t].heard
  BY DEF HeardIn, FoldLeft, MapThenFoldSet, ReadAll, Start
<1> QED
  BY <1>1, <1>2 DEF ReadsAll

LEMMA ReadsAllOn ==
  ASSUME NEW t, NEW k \in Nat, NEW g, ReadsAll(t, k, g)
  PROVE  \E h : ReadsAll(t, k + 1, h)
<1> DEFINE h == [s \in SUBSET (1 .. k + 1) |-> IF k + 1 \in s THEN ReadSymbol(g[s \ {k + 1}], t[k + 1]) ELSE g[s]]
<1>1. \A s \in SUBSET (1 .. k) : g[s] = ReadAll(t, g, s)
  BY DEF ReadsAll
<1>2. ASSUME NEW s \in SUBSET (1 .. k + 1), k + 1 \notin s PROVE s \in SUBSET (1 .. k) /\ h[s] = g[s]
  <2>1. \A x \in s : x \in 1 .. k
    BY <1>2
  <2> QED
    BY <1>2, <2>1
<1>3. ASSUME NEW s \in SUBSET (1 .. k + 1), k + 1 \in s
      PROVE  h[s] = ReadSymbol(g[s \ {k + 1}], t[k + 1])
  BY <1>3
<1>4. h = [s \in SUBSET (1 .. k + 1) |-> h[s]]
  OBVIOUS
<1> HIDE DEF h
<1>5. ASSUME NEW s \in SUBSET (1 .. k + 1) PROVE h[s] = ReadAll(t, h, s)
  <2>1. CASE s = {}
    <3>1. k + 1 \notin s /\ ReadAll(t, g, s) = ReadAll(t, h, s)
      BY <2>1 DEF ReadAll
    <3> QED
      BY <1>1, <1>2, <3>1
  <2>2. CASE s # {}
    <3>1. PICK m : m = Max(s)
      OBVIOUS
    <3>2. m \in s /\ \A y \in s : m >= y
      <4>1. k + 1 \in Nat /\ s \subseteq 1 .. k + 1
        OBVIOUS
      <4> QED
        BY <2>2, <3>1, <4>1, MaxProperties
    <3>3. ReadAll(t, h, s) = ReadSymbol(h[s \ {m}], t[m]) /\ ReadAll(t, g, s) = ReadSymbol(g[s \ {m}], t[m])
      BY <2>2, <3>1 DEF ReadAll
    <3>4. k + 1 \notin s \ {m}
      <4>1. m \in 1 .. k + 1 /\ (k + 1 \in s => m >= k + 1)
        BY <3>2
      <4> QED
        BY <4>1
    <3>5. h[s \ {m}] = g[s \ {m}]
      <4>1. s \ {m} \in SUBSET (1 .. k + 1)
        OBVIOUS
      <4> QED
        BY <1>2, <3>4, <4>1
    <3>6. CASE k + 1 \in s
      <4>1. m = k + 1
        BY <3>2, <3>4, <3>6
      <4> QED
        BY <1>3, <3>3, <3>5, <3>6, <4>1
    <3>7. CASE k + 1 \notin s
      BY <1>1, <1>2, <3>3, <3>5, <3>7
    <3> QED
      BY <3>6, <3>7
  <2> QED
    BY <2>1, <2>2
<1>6. ReadsAll(t, k + 1, h)
  BY <1>4, <1>5 DEF ReadsAll
<1> QED
  BY <1>6

\* What is heard in a text is what its symbols make, one after another.
LEMMA HeardByReading ==
  ASSUME NEW A, NEW t \in Seq(A), NEW q, ReadsTo(Start, t, q)
  PROVE  HeardIn(t) = q.heard
<1>1. PICK n \in Nat : n = Len(t)
  OBVIOUS
<1>2. \E f : ReadsAll(t, n, f)
  <2> DEFINE T == {k \in Nat : \E f : ReadsAll(t, k, f)}
  <2>1. 0 \in T
    <3>1. PICK f : f = [s \in SUBSET (1 .. 0) |-> Start]
      OBVIOUS
    <3>2. \A s \in SUBSET (1 .. 0) : s = {}
      OBVIOUS
    <3>3. \A s \in SUBSET (1 .. 0) : ReadAll(t, f, s) = Start
      BY <3>2 DEF ReadAll
    <3>4. ReadsAll(t, 0, f)
      BY <3>1, <3>3 DEF ReadsAll
    <3> QED
      BY <3>4
  <2>2. ASSUME NEW k \in Nat, k \in T PROVE k + 1 \in T
    BY <2>2, ReadsAllOn
  <2> HIDE DEF T
  <2>3. n \in T
    BY <2>1, <2>2, Induction
  <2> QED
    BY <2>3 DEF T
<1>3. PICK f : f = CHOOSE h : ReadsAll(t, n, h)
  OBVIOUS
<1>4. ReadsAll(t, n, f) /\ HeardIn(t) = f[1 .. n].heard
  BY <1>1, <1>2, <1>3, HeardInFolds
<1>5. \A s \in SUBSET (1 .. n) : f[s] = ReadAll(t, f, s)
  BY <1>4 DEF ReadsAll
<1>6. PICK g : g[0] = Start /\ g[n] = q /\ \A i \in 1 .. n : g[i] = ReadSymbol(g[i - 1], t[i])
  BY <1>1 DEF ReadsTo
<1> DEFINE T == {k \in 0 .. n : f[1 .. k] = g[k]}
<1>7. 0 \in T
  <2>1. 1 .. 0 = {} /\ 1 .. 0 \in SUBSET (1 .. n) /\ 0 \in 0 .. n
    OBVIOUS
  <2>2. ReadAll(t, f, 1 .. 0) = Start
    BY <2>1 DEF ReadAll
  <2> QED
    BY <1>5, <1>6, <2>1, <2>2
<1>8. ASSUME NEW k \in 0 .. n - 1, k \in T PROVE k + 1 \in T
  <2>1. PICK s : s = 1 .. k + 1
    OBVIOUS
  <2>2. s # {} /\ s \in SUBSET (1 .. n) /\ k + 1 \in s /\ \A y \in s : k + 1 >= y
    BY <2>1
  <2>3. Max(s) \in s /\ Max(s) >= k + 1
    BY <2>2, MaxProperties
  <2>4. Max(s) = k + 1
    BY <2>1, <2>3
  <2>5. s \ {k + 1} = 1 .. k
    BY <2>1
  <2>6. f[s] = ReadSymbol(f[1 .. k], t[k + 1])
    BY <1>5, <2>2, <2>4, <2>5 DEF ReadAll
  <2>7. k + 1 \in 1 .. n /\ k + 1 \in 0 .. n /\ (k + 1) - 1 = k
    OBVIOUS
  <2>8. g[k + 1] = ReadSymbol(g[k], t[k + 1])
    BY <1>6, <2>7
  <2> QED
    BY <1>8, <2>1, <2>6, <2>7, <2>8
<1>9. n \in T
  <2>1. n \in 0 .. n
    OBVIOUS
  <2> HIDE DEF T
  <2>2. \A k \in 0 .. n : k \in T
    BY <1>7, <1>8, InductionUpto
  <2> QED
    BY <2>1, <2>2
<1> QED
  BY <1>4, <1>6, <1>9

-----------------------------------------------------------------------------
(* Reading an event                                                        *)

LEMMA ReadingNothing ==
  ASSUME NEW r
  PROVE  ReadsTo(r, <<>>, r)
<1>1. PICK g : g = [i \in 0 .. 0 |-> r]
  OBVIOUS
<1>2. g[0] = r /\ Len(<<>>) = 0 /\ \A i \in 1 .. 0 : FALSE
  BY <1>1
<1>3. g[0] = r /\ g[Len(<<>>)] = r /\ \A i \in 1 .. Len(<<>>) : g[i] = ReadSymbol(g[i - 1], <<>>[i])
  BY <1>2
<1> QED
  BY <1>3 DEF ReadsTo

LEMMA ReadingOne ==
  ASSUME NEW r, NEW c
  PROVE  ReadsTo(r, <<c>>, ReadSymbol(r, c))
<1>1. PICK q, t : q = ReadSymbol(r, c) /\ t = <<c>>
  OBVIOUS
<1>2. PICK g : g = [i \in 0 .. 1 |-> IF i = 0 THEN r ELSE q]
  OBVIOUS
<1>3. g[0] = r /\ g[1] = q /\ Len(t) = 1 /\ t[1] = c /\ 1 - 1 = 0 /\ \A i \in 1 .. 1 : i = 1
  BY <1>1, <1>2
<1>4. g[0] = r /\ g[Len(t)] = q /\ \A i \in 1 .. Len(t) : g[i] = ReadSymbol(g[i - 1], t[i])
  BY <1>1, <1>3
<1> QED
  BY <1>1, <1>4 DEF ReadsTo

LEMMA ReadingOn ==
  ASSUME NEW A, NEW s \in Seq(A), NEW t \in Seq(A), NEW r, NEW q, NEW p, ReadsTo(r, s, q), ReadsTo(q, t, p)
  PROVE  ReadsTo(r, Cat(s, t), p)
<1>1. PICK m \in Nat, n \in Nat : m = Len(s) /\ n = Len(t)
  OBVIOUS
<1>2. PICK f : f[0] = r /\ f[m] = q /\ \A i \in 1 .. m : f[i] = ReadSymbol(f[i - 1], s[i])
  BY <1>1 DEF ReadsTo
<1>3. PICK g : g[0] = q /\ g[n] = p /\ \A i \in 1 .. n : g[i] = ReadSymbol(g[i - 1], t[i])
  BY <1>1 DEF ReadsTo
<1>4. PICK h : h = [i \in 0 .. m + n |-> IF i <= m THEN f[i] ELSE g[i - m]]
  OBVIOUS
<1>5. /\ \A i \in 0 .. m : h[i] = f[i]
      /\ \A i \in m + 1 .. m + n : h[i] = g[i - m]
  BY <1>4
<1>6. PICK u : u = Cat(s, t)
  OBVIOUS
<1>7. /\ u \in Seq(A) /\ Len(u) = m + n /\ \A i \in 1 .. m : u[i] = s[i]
      /\ \A i \in m + 1 .. m + n : u[i] = t[i - m]
  BY <1>1, <1>6 DEF Cat
<1>8. h[0] = r
  BY <1>2, <1>5
<1>9. h[m + n] = p
  <2>1. CASE n = 0
    <3>1. m + n = m /\ m \in 0 .. m
      BY <2>1
    <3> QED
      BY <1>2, <1>3, <1>5, <2>1, <3>1
  <2>2. CASE n # 0
    <3>1. m + n \in m + 1 .. m + n /\ (m + n) - m = n
      BY <2>2
    <3> QED
      BY <1>3, <1>5, <3>1
  <2> QED
    BY <2>1, <2>2
<1>10. ASSUME NEW i \in 1 .. m + n PROVE h[i] = ReadSymbol(h[i - 1], u[i])
  <2>1. CASE i <= m
    <3>1. i \in 0 .. m /\ i - 1 \in 0 .. m /\ i \in 1 .. m
      BY <2>1
    <3> QED
      BY <1>2, <1>5, <1>7, <3>1
  <2>2. CASE i = m + 1
    <3>1. i \in m + 1 .. m + n /\ i - m = 1 /\ i - 1 = m /\ m \in 0 .. m /\ 1 \in 1 .. n /\ 1 - 1 = 0
      BY <2>2
    <3>2. g[1] = ReadSymbol(g[0], t[1])
      BY <1>3, <3>1
    <3>3. h[i] = g[1] /\ h[i - 1] = q /\ u[i] = t[1]
      BY <1>2, <1>5, <1>7, <3>1
    <3> QED
      BY <1>3, <3>2, <3>3
  <2>3. CASE i > m + 1
    <3>1. i \in m + 1 .. m + n /\ i - 1 \in m + 1 .. m + n /\ i - m \in 1 .. n /\ (i - m) - 1 = (i - 1) - m
      BY <2>3
    <3>2. g[i - m] = ReadSymbol(g[(i - m) - 1], t[i - m])
      BY <1>3, <3>1
    <3>3. h[i] = g[i - m] /\ h[i - 1] = g[(i - 1) - m] /\ u[i] = t[i - m]
      BY <1>5, <1>7, <3>1
    <3> QED
      BY <3>1, <3>2, <3>3
  <2>4. i <= m \/ i = m + 1 \/ i > m + 1
    OBVIOUS
  <2> QED
    BY <2>1, <2>2, <2>3, <2>4
<1>11. h[0] = r /\ h[Len(u)] = p /\ \A i \in 1 .. Len(u) : h[i] = ReadSymbol(h[i - 1], u[i])
  BY <1>7, <1>8, <1>9, <1>10
<1>12. ReadsTo(r, u, p)
  BY <1>11 DEF ReadsTo
<1> QED
  BY <1>6, <1>12

\* A reader; one that is at the beginning of a line
Reader(f, v, e, d, i, h) == [field |-> f, value |-> v, event |-> e, data |-> d, id |-> i, heard |-> h]
Blank == ""
Idle(e, d, i, h) == Reader(Blank, <<>>, e, d, i, h)

LEMMA LineStarts ==
  ASSUME NEW v, NEW e, NEW d, NEW i, NEW h
  PROVE  /\ \A f \in Fields : f # EndOfLine /\ ~AtLineStart(Reader(f, v, e, d, i, h))
         /\ AtLineStart(Idle(e, d, i, h))
<1>1. \A f \in Fields : f # Blank /\ f # EndOfLine
  BY DEF Fields, EndOfLine, Blank
<1>2. \A r : AtLineStart(r) <=> r.field = Blank /\ r.value = <<>>
  BY Zenon DEF AtLineStart, Blank
<1>3. AtLineStart(Idle(e, d, i, h))
  BY <1>2 DEF Idle, Reader
<1>4. \A f \in Fields : ~AtLineStart(Reader(f, v, e, d, i, h))
  BY <1>1, <1>2 DEF Reader
<1> QED
  BY <1>1, <1>3, <1>4

\* A symbol of a value, the name of a field, and the end of a line
LEMMA ReadsOn ==
  ASSUME NEW f \in Fields, NEW v, NEW e, NEW d, NEW i, NEW h, NEW c, c # EndOfLine
  PROVE  ReadSymbol(Reader(f, v, e, d, i, h), c) = Reader(f, Append(v, c), e, d, i, h)
<1>1. PICK r : r = Reader(f, v, e, d, i, h)
  OBVIOUS
<1>2. ~AtLineStart(r)
  BY <1>1, LineStarts
<1>3. ReadSymbol(r, c) = [r EXCEPT !.value = Append(@, c)]
  BY <1>2 DEF ReadSymbol
<1> QED
  BY <1>1, <1>3 DEF Reader

LEMMA ReadsField ==
  ASSUME NEW f \in Fields, NEW e, NEW d, NEW i, NEW h
  PROVE  ReadSymbol(Idle(e, d, i, h), f) = Reader(f, <<>>, e, d, i, h)
<1>1. PICK r : r = Idle(e, d, i, h)
  OBVIOUS
<1>2. AtLineStart(r) /\ f # EndOfLine
  BY <1>1, LineStarts
<1>3. ReadSymbol(r, f) = [r EXCEPT !.field = f]
  BY <1>2 DEF ReadSymbol
<1> QED
  BY <1>1, <1>3 DEF Idle, Reader

EndsAs(q, f, v, e, d, i, h) ==
  /\ f = "data: " => q = Idle(e, Append(d, v), i, h)
  /\ f = "event: " => q = Idle(Head(v), d, i, h)
  /\ f = "id: " => q = Idle(e, d, Head(v), h)
  /\ f = "retry: " => q = Idle(e, d, i, h)

LEMMA LineEnds ==
  ASSUME NEW f \in Fields, NEW v, NEW e, NEW d, NEW i, NEW h
  PROVE  EndsAs(ReadSymbol(Reader(f, v, e, d, i, h), EndOfLine), f, v, e, d, i, h)
<1>0. PICK q : q = ReadSymbol(Reader(f, v, e, d, i, h), EndOfLine)
  OBVIOUS
<1>1. PICK r : r = Reader(f, v, e, d, i, h)
  OBVIOUS
<1>2. PICK n : n = [r EXCEPT !.field = Blank, !.value = <<>>]
  OBVIOUS
<1>3. n = Idle(e, d, i, h)
  BY <1>1, <1>2 DEF Idle, Reader
<1>4. r.field = f /\ r.value = v
  BY <1>1 DEF Reader
<1>5. q = EndLine(r)
  <2>1. ~AtLineStart(r)
    BY <1>1, LineStarts
  <2> QED
    BY <1>0, <1>1, <2>1 DEF ReadSymbol
<1>6. q = CASE f = "data: " -> [n EXCEPT !.data = Append(@, v)]
            [] f = "event: " -> [n EXCEPT !.event = Head(v)]
            [] f = "id: " -> [n EXCEPT !.id = Head(v)]
            [] OTHER -> n
  BY <1>2, <1>4, <1>5, Zenon DEF EndLine, Blank
<1>7. EndsAs(q, f, v, e, d, i, h)
  BY <1>3, <1>6 DEF Idle, Reader, EndsAs
<1> QED
  BY <1>0, <1>7, Zenon

\* The line of a message
LEMMA EndsData ==
  ASSUME NEW v, NEW e, NEW d, NEW i, NEW h
  PROVE  ReadSymbol(Reader("data: ", v, e, d, i, h), EndOfLine) = Idle(e, Append(d, v), i, h)
<1>1. PICK f : f = "data: "
  OBVIOUS
<1>2. f \in Fields
  BY <1>1 DEF Fields
<1>3. EndsAs(ReadSymbol(Reader(f, v, e, d, i, h), EndOfLine), f, v, e, d, i, h)
  BY <1>2, LineEnds, Zenon
<1>4. ReadSymbol(Reader(f, v, e, d, i, h), EndOfLine) = Idle(e, Append(d, v), i, h)
  BY <1>1, <1>3 DEF EndsAs
<1> QED
  BY <1>1, <1>4, Zenon

\* The line of a name
LEMMA EndsName ==
  ASSUME NEW v, NEW e, NEW d, NEW i, NEW h
  PROVE  ReadSymbol(Reader("event: ", v, e, d, i, h), EndOfLine) = Idle(Head(v), d, i, h)
<1>1. PICK f : f = "event: "
  OBVIOUS
<1>2. f \in Fields
  BY <1>1 DEF Fields
<1>3. EndsAs(ReadSymbol(Reader(f, v, e, d, i, h), EndOfLine), f, v, e, d, i, h)
  BY <1>2, LineEnds, Zenon
<1>4. ReadSymbol(Reader(f, v, e, d, i, h), EndOfLine) = Idle(Head(v), d, i, h)
  BY <1>1, <1>3 DEF EndsAs
<1> QED
  BY <1>1, <1>4, Zenon

\* The line of an id
LEMMA EndsId ==
  ASSUME NEW v, NEW e, NEW d, NEW i, NEW h
  PROVE  ReadSymbol(Reader("id: ", v, e, d, i, h), EndOfLine) = Idle(e, d, Head(v), h)
<1>1. PICK f : f = "id: "
  OBVIOUS
<1>2. f \in Fields
  BY <1>1 DEF Fields
<1>3. EndsAs(ReadSymbol(Reader(f, v, e, d, i, h), EndOfLine), f, v, e, d, i, h)
  BY <1>2, LineEnds, Zenon
<1>4. ReadSymbol(Reader(f, v, e, d, i, h), EndOfLine) = Idle(e, d, Head(v), h)
  BY <1>1, <1>3 DEF EndsAs
<1> QED
  BY <1>1, <1>4, Zenon

\* An empty line
LEMMA EventEnds ==
  ASSUME NEW e, NEW d, NEW i, NEW h
  PROVE  ReadSymbol(Idle(e, d, i, h), EndOfLine)
           = Idle(Blank, <<>>, i, IF d = <<>> THEN h ELSE Append(h, [event |-> e, data |-> d, id |-> i]))
<1>1. PICK r : r = Idle(e, d, i, h)
  OBVIOUS
<1>2. AtLineStart(r) /\ EndOfLine \notin Fields
  BY <1>1, LineStarts
<1>3. ReadSymbol(r, EndOfLine) = DispatchEvent(r)
  <2>1. PICK q : q = ReadSymbol(r, EndOfLine)
    OBVIOUS
  <2>2. q = DispatchEvent(r)
    BY <1>2, <2>1 DEF ReadSymbol
  <2> QED
    BY <2>1, <2>2
<1>4. DispatchEvent(r) = [r EXCEPT !.event = Blank, !.data = <<>>,
                                   !.heard = IF r.data = <<>> THEN @
                                             ELSE Append(@, [event |-> r.event, data |-> r.data, id |-> r.id])]
  BY Zenon DEF DispatchEvent, Blank
<1> QED
  BY <1>1, <1>3, <1>4 DEF Idle, Reader

Line(f, v) == Cat(Cat(<<f>>, v), <<EndOfLine>>)

LEMMA ReadingValue ==
  ASSUME NEW A, NEW v \in Seq(A), EndOfLine \notin Range(v), NEW f \in Fields, NEW e, NEW d, NEW i, NEW h
  PROVE  ReadsTo(Reader(f, <<>>, e, d, i, h), v, Reader(f, v, e, d, i, h))
<1>1. PICK n \in Nat : n = Len(v)
  OBVIOUS
<1>2. PICK g : g = [k \in 0 .. n |-> Reader(f, SubSeq(v, 1, k), e, d, i, h)]
  OBVIOUS
<1>3. g[0] = Reader(f, <<>>, e, d, i, h) /\ g[n] = Reader(f, v, e, d, i, h)
  <2>1. SubSeq(v, 1, 0) = <<>> /\ SubSeq(v, 1, n) = v /\ 0 \in 0 .. n /\ n \in 0 .. n
    BY <1>1
  <2> QED
    BY <1>2, <2>1
<1>4. ASSUME NEW k \in 1 .. n PROVE g[k] = ReadSymbol(g[k - 1], v[k])
  <2>1. v[k] # EndOfLine
    BY <1>1 DEF Range
  <2>2. k \in 0 .. n /\ k - 1 \in 0 .. n
    OBVIOUS
  <2>3. SubSeq(v, 1, k) = Append(SubSeq(v, 1, k - 1), v[k])
    <3>1. PICK u, w : u = SubSeq(v, 1, k) /\ w = SubSeq(v, 1, k - 1)
      OBVIOUS
    <3>2. u \in Seq(A) /\ Len(u) = k /\ \A j \in 1 .. k : u[j] = v[j]
      BY <1>1, <3>1
    <3>3. w \in Seq(A) /\ Len(w) = k - 1 /\ (\A j \in 1 .. k - 1 : w[j] = v[j]) /\ v[k] \in A
      BY <1>1, <3>1
    <3>4. PICK x : x = Append(w, v[k])
      OBVIOUS
    <3>5. x \in Seq(A) /\ Len(x) = k /\ x[k] = v[k] /\ \A j \in 1 .. k - 1 : x[j] = w[j]
      BY <3>3, <3>4
    <3>6. \A j \in 1 .. k : j \in 1 .. k - 1 \/ j = k
      OBVIOUS
    <3>7. u = x
      BY <3>2, <3>3, <3>5, <3>6, SameSequence
    <3> QED
      BY <3>1, <3>4, <3>7
  <2>4. g[k - 1] = Reader(f, SubSeq(v, 1, k - 1), e, d, i, h) /\ g[k] = Reader(f, SubSeq(v, 1, k), e, d, i, h)
    BY <1>2, <2>2
  <2>5. PICK x, y : x = SubSeq(v, 1, k - 1) /\ y = SubSeq(v, 1, k)
    OBVIOUS
  <2>6. g[k - 1] = Reader(f, x, e, d, i, h) /\ g[k] = Reader(f, Append(x, v[k]), e, d, i, h)
    BY <2>3, <2>4, <2>5
  <2>7. ReadSymbol(Reader(f, x, e, d, i, h), v[k]) = Reader(f, Append(x, v[k]), e, d, i, h)
    BY <2>1, ReadsOn
  <2> QED
    BY <2>6, <2>7
<1> QED
  BY <1>1, <1>3, <1>4 DEF ReadsTo

LEMMA ReadingLine ==
  ASSUME NEW A, NEW v \in Seq(A), EndOfLine \notin Range(v), NEW f \in Fields, f \in A, EndOfLine \in A,
         NEW e, NEW d, NEW i, NEW h
  PROVE  /\ Line(f, v) \in Seq(A)
         /\ ReadsTo(Idle(e, d, i, h), Line(f, v), ReadSymbol(Reader(f, v, e, d, i, h), EndOfLine))
<1>1. PICK a \in Seq(A), b \in Seq(A) : a = <<f>> /\ b = <<EndOfLine>>
  <2>1. \A x \in A : <<x>> \in Seq(A)
    OBVIOUS
  <2> QED
    BY <2>1, Zenon
<1>2. PICK r, q, p, z : /\ r = Idle(e, d, i, h) /\ q = Reader(f, <<>>, e, d, i, h)
                        /\ p = Reader(f, v, e, d, i, h) /\ z = ReadSymbol(p, EndOfLine)
  OBVIOUS
<1>3. ReadsTo(r, a, q)
  <2>1. ReadSymbol(r, f) = q
    BY <1>2, ReadsField
  <2> QED
    BY <1>1, <2>1, ReadingOne
<1>4. ReadsTo(q, v, p)
  BY <1>2, ReadingValue
<1>5. ReadsTo(p, b, z)
  BY <1>1, <1>2, ReadingOne
<1>6. Cat(a, v) \in Seq(A) /\ ReadsTo(r, Cat(a, v), p)
  BY <1>3, <1>4, Joined, ReadingOn
<1>7. PICK c \in Seq(A) : c = Cat(a, v)
  BY <1>6
<1>8. Cat(c, b) \in Seq(A) /\ ReadsTo(r, Cat(c, b), z)
  BY <1>5, <1>6, <1>7, Joined, ReadingOn
<1> QED
  BY <1>1, <1>2, <1>7, <1>8 DEF Line

\* What one event does to a reader that is between two events
IdAfter(e, i) == IF e.id = "0" THEN i ELSE e.id
HeardAfter(e, i, h) ==
  IF e.message = <<>> THEN h
  ELSE Append(h, [event |-> e.event, data |-> e.message, id |-> IdAfter(e, i)])

LEMMA ReadingEvent ==
  ASSUME NEW e, IsEvent(e), OneLine(e), NEW i, NEW h
  PROVE  ReadsTo(Idle(Blank, <<>>, i, h), EventText(e),
                 Idle(Blank, <<>>, IdAfter(e, i), HeardAfter(e, i, h)))
<1>1. PICK A : A = {e.reconnect, e.id, e.event, EndOfLine, "retry: ", "id: ", "event: ", "data: "} \cup Range(e.message[1])
  OBVIOUS
<1>2. PICK v : v = e.message[1]
  OBVIOUS
<1>3. e.message # <<>> => v \in Seq(A) /\ EndOfLine \notin Range(v) /\ e.message = <<v>>
  <2> SUFFICES ASSUME e.message # <<>> PROVE v \in Seq(A) /\ EndOfLine \notin Range(v) /\ e.message = <<v>>
    OBVIOUS
  <2>1. PICK t, S : t = e.message /\ S = Range(e.message)
    OBVIOUS
  <2>2. t \in Seq(S) /\ Len(t) <= 1 /\ t # <<>> /\ \A m \in S : IsText(m)
    BY <2>1 DEF IsEvent, IsText
  <2>3. Len(t) = 1 /\ t[1] \in S /\ 1 \in DOMAIN t
    <3>1. t \in Seq(S) /\ Len(t) <= 1 /\ t # <<>>
      BY <2>2
    <3>2. PICK n \in Nat : n = Len(t)
      BY <3>1
    <3>3. n # 0
      BY <3>1, <3>2
    <3>4. n = 1
      BY <3>1, <3>2, <3>3
    <3> QED
      BY <3>1, <3>2, <3>4
  <2>4. t = <<v>>
    <3>1. PICK u : u = <<v>>
      OBVIOUS
    <3>2. u \in Seq(S) /\ Len(u) = 1 /\ u[1] = v /\ t[1] = v
      BY <1>2, <2>1, <2>3, <3>1
    <3>3. \A j \in 1 .. 1 : j = 1
      OBVIOUS
    <3>4. t = u
      BY <2>2, <2>3, <3>2, <3>3, SameSequence
    <3> QED
      BY <3>1, <3>4
  <2>5. v \in Seq(Range(v)) /\ Range(v) \subseteq A
    BY <1>1, <1>2, <2>1, <2>2, <2>3 DEF IsText
  <2>6. v \in Seq(A)
    <3>1. \A x, R : x \in Seq(R) /\ R \subseteq A => x \in Seq(A)
      OBVIOUS
    <3>2. PICK R : R = Range(v)
      OBVIOUS
    <3> QED
      BY <2>5, <3>1, <3>2
  <2>7. EndOfLine \notin Range(v)
    BY <1>2, <2>1, <2>3 DEF OneLine
  <2> QED
    BY <2>1, <2>4, <2>6, <2>7
<1>4. /\ "retry: " \in A /\ "id: " \in A /\ "event: " \in A /\ "data: " \in A /\ EndOfLine \in A
      /\ e.reconnect \in A /\ e.id \in A /\ e.event \in A
  BY <1>1
<1>5. {"data: ", "event: ", "id: ", "retry: "} \subseteq Fields
  BY DEF Fields
<1>6. e.reconnect # EndOfLine /\ e.id # EndOfLine /\ e.event # EndOfLine
  BY DEF IsEvent, OneLine
<1>7. ASSUME NEW x \in A, x # EndOfLine
      PROVE  <<x>> \in Seq(A) /\ EndOfLine \notin Range(<<x>>) /\ Head(<<x>>) = x
  <2>1. PICK u : u = <<x>>
    OBVIOUS
  <2>2. u \in Seq(A) /\ Len(u) = 1 /\ u[1] = x /\ Head(u) = x /\ DOMAIN u = 1 .. 1
    BY <2>1
  <2>3. EndOfLine \notin Range(u)
    BY <1>7, <2>2 DEF Range
  <2> QED
    BY <2>1, <2>2, <2>3
<1>8. <<>> \in Seq(A) /\ <<EndOfLine>> \in Seq(A)
  <2>1. <<>> \in Seq(A) /\ \A x \in A : <<x>> \in Seq(A)
    OBVIOUS
  <2> QED
    BY <1>4, <2>1, Zenon
<1>9. PICK j : j = IdAfter(e, i)
  OBVIOUS
<1> DEFINE a == IF e.reconnect = "0" THEN <<>> ELSE Line("retry: ", <<e.reconnect>>)
           b == IF e.id = "0" THEN <<>> ELSE Line("id: ", <<e.id>>)
           c == IF e.event = Blank THEN <<>> ELSE Line("event: ", <<e.event>>)
           d == IF e.message = <<>> THEN <<>> ELSE Line("data: ", v)
           r == Idle(Blank, <<>>, i, h)
           q == Idle(Blank, <<>>, j, h)
           p == Idle(e.event, <<>>, j, h)
           o == Idle(e.event, e.message, j, h)
           z == Idle(Blank, <<>>, j, HeardAfter(e, i, h))
<1>10. EventText(e) = Cat(Cat(Cat(Cat(a, b), c), d), <<EndOfLine>>)
  <2>1. EventText(e) = Cat(Cat(Cat(Cat(a, b), c),
                               IF e.message = <<>> THEN <<>> ELSE Line("data: ", e.message[1])), <<EndOfLine>>)
    BY Zenon DEF EventText, Cat, Line, Blank
  <2>2. d = IF e.message = <<>> THEN <<>> ELSE Line("data: ", e.message[1])
    BY <1>2
  <2> QED
    BY <2>1, <2>2, Zenon
<1>11. a \in Seq(A) /\ ReadsTo(r, a, r)
  <2>1. CASE e.reconnect = "0"
    BY <1>8, <2>1, ReadingNothing
  <2>2. CASE e.reconnect # "0"
    <3>1. PICK u : u = <<e.reconnect>>
      OBVIOUS
    <3>2. u \in Seq(A) /\ EndOfLine \notin Range(u)
      BY <1>4, <1>6, <1>7, <3>1
    <3>3. Line("retry: ", u) \in Seq(A)
          /\ ReadsTo(r, Line("retry: ", u), ReadSymbol(Reader("retry: ", u, Blank, <<>>, i, h), EndOfLine))
      BY <1>4, <1>5, <3>2, ReadingLine
    <3>4. ReadSymbol(Reader("retry: ", u, Blank, <<>>, i, h), EndOfLine) = r
      <4>1. PICK f : f = "retry: "
        OBVIOUS
      <4>2. f \in Fields
        BY <1>5, <4>1
      <4>3. EndsAs(ReadSymbol(Reader(f, u, Blank, <<>>, i, h), EndOfLine), f, u, Blank, <<>>, i, h)
        BY <4>2, LineEnds, Zenon
      <4>4. ReadSymbol(Reader(f, u, Blank, <<>>, i, h), EndOfLine) = Idle(Blank, <<>>, i, h)
        BY <4>1, <4>3 DEF EndsAs
      <4> QED
        BY <4>1, <4>4, Zenon
    <3> QED
      BY <2>2, <3>1, <3>3, <3>4
  <2> QED
    BY <2>1, <2>2
<1>12. b \in Seq(A) /\ ReadsTo(r, b, q)
  <2>1. CASE e.id = "0"
    <3>1. q = r
      BY <1>9, <2>1 DEF IdAfter
    <3> QED
      BY <1>8, <2>1, <3>1, ReadingNothing
  <2>2. CASE e.id # "0"
    <3>1. PICK u : u = <<e.id>>
      OBVIOUS
    <3>2. u \in Seq(A) /\ EndOfLine \notin Range(u) /\ Head(u) = j
      BY <1>4, <1>6, <1>7, <1>9, <2>2, <3>1 DEF IdAfter
    <3>3. Line("id: ", u) \in Seq(A)
          /\ ReadsTo(r, Line("id: ", u), ReadSymbol(Reader("id: ", u, Blank, <<>>, i, h), EndOfLine))
      BY <1>4, <1>5, <3>2, ReadingLine
    <3>4. ReadSymbol(Reader("id: ", u, Blank, <<>>, i, h), EndOfLine) = q
      BY <3>2, EndsId, Zenon
    <3> QED
      BY <2>2, <3>1, <3>3, <3>4
  <2> QED
    BY <2>1, <2>2
<1>13. c \in Seq(A) /\ ReadsTo(q, c, p)
  <2>1. CASE e.event = Blank
    <3>1. p = q
      BY <2>1
    <3> QED
      BY <1>8, <2>1, <3>1, ReadingNothing
  <2>2. CASE e.event # Blank
    <3>1. PICK u : u = <<e.event>>
      OBVIOUS
    <3>2. u \in Seq(A) /\ EndOfLine \notin Range(u) /\ Head(u) = e.event
      BY <1>4, <1>6, <1>7, <3>1
    <3>3. Line("event: ", u) \in Seq(A)
          /\ ReadsTo(q, Line("event: ", u), ReadSymbol(Reader("event: ", u, Blank, <<>>, j, h), EndOfLine))
      BY <1>4, <1>5, <3>2, ReadingLine
    <3>4. ReadSymbol(Reader("event: ", u, Blank, <<>>, j, h), EndOfLine) = p
      BY <3>2, EndsName, Zenon
    <3> QED
      BY <2>2, <3>1, <3>3, <3>4
  <2> QED
    BY <2>1, <2>2
<1>14. d \in Seq(A) /\ ReadsTo(p, d, o)
  <2>1. CASE e.message = <<>>
    <3>1. o = p
      BY <2>1
    <3> QED
      BY <1>8, <2>1, <3>1, ReadingNothing
  <2>2. CASE e.message # <<>>
    <3>1. v \in Seq(A) /\ EndOfLine \notin Range(v) /\ Append(<<>>, v) = e.message
      BY <1>3, <2>2, AppendToNone
    <3>2. Line("data: ", v) \in Seq(A)
          /\ ReadsTo(p, Line("data: ", v), ReadSymbol(Reader("data: ", v, e.event, <<>>, j, h), EndOfLine))
      BY <1>4, <1>5, <3>1, ReadingLine
    <3>3. ReadSymbol(Reader("data: ", v, e.event, <<>>, j, h), EndOfLine) = o
      BY <3>1, EndsData, Zenon
    <3> QED
      BY <2>2, <3>2, <3>3
  <2> QED
    BY <2>1, <2>2
<1>15. ReadsTo(o, <<EndOfLine>>, z)
  <2>1. ReadSymbol(o, EndOfLine)
          = Idle(Blank, <<>>, j,
                   IF e.message = <<>> THEN h ELSE Append(h, [event |-> e.event, data |-> e.message, id |-> j]))
    BY EventEnds, Zenon
  <2>2. ReadSymbol(o, EndOfLine) = z
    BY <1>9, <2>1 DEF HeardAfter
  <2> QED
    BY <2>2, ReadingOne
<1>16. PICK aa, bb, cc, dd, rr, qq, pp, oo, zz, ee :
         /\ aa = a /\ bb = b /\ cc = c /\ dd = d /\ rr = r /\ qq = q /\ pp = p /\ oo = o /\ zz = z
         /\ ee = <<EndOfLine>>
  OBVIOUS
<1>17. z = Idle(Blank, <<>>, IdAfter(e, i), HeardAfter(e, i, h))
  BY <1>9
<1> HIDE DEF a, b, c, d, r, q, p, o, z
<1>18. PICK s \in Seq(A) : s = Cat(aa, bb) /\ ReadsTo(rr, s, qq)
  BY <1>11, <1>12, <1>16, Joined, ReadingOn
<1>19. PICK t \in Seq(A) : t = Cat(s, cc) /\ ReadsTo(rr, t, pp)
  BY <1>13, <1>16, <1>18, Joined, ReadingOn
<1>20. PICK u \in Seq(A) : u = Cat(t, dd) /\ ReadsTo(rr, u, oo)
  BY <1>14, <1>16, <1>19, Joined, ReadingOn
<1>21. ReadsTo(rr, Cat(u, ee), zz)
  BY <1>8, <1>15, <1>16, <1>20, ReadingOn
<1>22. EventText(e) = Cat(u, ee)
  BY <1>10, <1>16, <1>18, <1>19, <1>20
<1>23. r = Idle(Blank, <<>>, i, h)
  BY DEF r
<1> QED
  BY <1>16, <1>17, <1>21, <1>22, <1>23

-----------------------------------------------------------------------------
(* What the events mean                                                    *)

\* The parts of EventsMeant's definition
IdsIn(s, i) == {j \in 1 .. i : s[j].id # "0"}
LastIdOf(s, i) == IF IdsIn(s, i) = {} THEN "0" ELSE s[Max(IdsIn(s, i))].id
MeantOf(s, i) ==
  IF s[i].message = <<>> THEN <<>>
  ELSE <<[event |-> s[i].event, data |-> s[i].message, id |-> LastIdOf(s, i)]>>

Flat(v, m) == FlattenSeq([i \in 1 .. m |-> v[i]])

LEMMA MaxIn ==
  ASSUME NEW n \in Nat, NEW S, S \subseteq 1 .. n
  PROVE  IF S # {} THEN Max(S) # 0 ELSE TRUE
<1>1. S # {} => Max(S) \in 1 .. n
  BY MaxProperties
<1> QED
  BY <1>1

LEMMA EventsMeantDefined ==
  ASSUME NEW A, NEW s \in Seq(A)
  PROVE  EventsMeant(s) = FlattenSeq([i \in 1 .. Len(s) |-> MeantOf(s, i)])
<1> DEFINE LastId(i) == LET k == IF IdsIn(s, i) # {} THEN Max(IdsIn(s, i)) ELSE 0
                      IN  IF k = 0 THEN "0" ELSE s[k].id
           One(i) == IF s[i].message = <<>> THEN <<>>
                     ELSE <<[event |-> s[i].event, data |-> s[i].message, id |-> LastId(i)]>>
<1>1. EventsMeant(s) = FlattenSeq([i \in DOMAIN s |-> One(i)])
  BY DEF EventsMeant, SelectLastInSubSeq, IdsIn
<1>2. ASSUME NEW i \in 1 .. Len(s) PROVE LastId(i) = LastIdOf(s, i)
  <2>1. IdsIn(s, i) \subseteq 1 .. Len(s) /\ Len(s) \in Nat
    BY DEF IdsIn
  <2>2. IdsIn(s, i) # {} => Max(IdsIn(s, i)) # 0
    BY <2>1, MaxIn
  <2> QED
    BY <2>2 DEF LastIdOf
<1> HIDE DEF LastId
<1>3. \A i \in 1 .. Len(s) : One(i) = MeantOf(s, i)
  BY <1>2 DEF MeantOf
<1>4. DOMAIN s = 1 .. Len(s)
  OBVIOUS
<1> HIDE DEF One
<1>5. [i \in 1 .. Len(s) |-> One(i)] = [i \in 1 .. Len(s) |-> MeantOf(s, i)]
  BY <1>3
<1> QED
  BY <1>1, <1>4, <1>5

LEMMA LastIdSteps ==
  ASSUME NEW s, NEW k \in Nat
  PROVE  LastIdOf(s, 0) = "0" /\ LastIdOf(s, k + 1) = IdAfter(s[k + 1], LastIdOf(s, k))
<1>1. IdsIn(s, 0) = {}
  BY DEF IdsIn
<1>2. CASE s[k + 1].id = "0"
  <2>1. IdsIn(s, k + 1) = IdsIn(s, k)
    <3>1. \A j : j \in 1 .. k + 1 <=> j \in 1 .. k \/ j = k + 1
      OBVIOUS
    <3> QED
      BY <1>2, <3>1 DEF IdsIn
  <2> QED
    BY <1>1, <1>2, <2>1 DEF LastIdOf, IdAfter
<1>3. CASE s[k + 1].id # "0"
  <2>1. PICK S : S = IdsIn(s, k + 1)
    OBVIOUS
  <2>2. S \subseteq 1 .. k + 1 /\ k + 1 \in S
    BY <1>3, <2>1 DEF IdsIn
  <2>3. Max(S) \in S /\ \A y \in S : Max(S) >= y
    <3>1. k + 1 \in Nat /\ S # {}
      BY <2>2
    <3> QED
      BY <2>2, <3>1, MaxProperties
  <2>4. Max(S) = k + 1
    <3>1. PICK m \in 1 .. k + 1 : m = Max(S)
      BY <2>2, <2>3
    <3>2. m >= k + 1
      BY <2>2, <2>3, <3>1
    <3> QED
      BY <3>1, <3>2
  <2>5. S # {}
    BY <2>2
  <2> QED
    BY <1>1, <1>3, <2>1, <2>4, <2>5 DEF LastIdOf, IdAfter
<1> QED
  BY <1>2, <1>3

LEMMA EventsMeantSteps ==
  ASSUME NEW A, NEW s \in Seq(A), NEW k \in 0 .. Len(s) - 1
  PROVE  /\ EventsMeant(SubSeq(s, 1, 0)) = <<>>
         /\ EventsMeant(SubSeq(s, 1, k + 1))
              = HeardAfter(s[k + 1], LastIdOf(s, k), EventsMeant(SubSeq(s, 1, k)))
<1>1. PICK n \in Nat : n = Len(s)
  OBVIOUS
<1>0. PICK v : v = [i \in 1 .. n |-> MeantOf(s, i)]
  OBVIOUS
<1>2. PICK B : B = {[event |-> s[i].event, data |-> s[i].message, id |-> LastIdOf(s, i)] : i \in 1 .. n}
  OBVIOUS
<1>3. v \in [1 .. n -> Seq(B)] /\ \A i \in 1 .. n : v[i] = MeantOf(s, i)
  <2>1. \A i \in 1 .. n : MeantOf(s, i) \in Seq(B)
    <3>1. <<>> \in Seq(B) /\ \A x \in B : <<x>> \in Seq(B)
      OBVIOUS
    <3>2. \A i \in 1 .. n : [event |-> s[i].event, data |-> s[i].message, id |-> LastIdOf(s, i)] \in B
      BY <1>2, Zenon
    <3> QED
      BY <3>1, <3>2, Zenon DEF MeantOf
  <2> QED
    BY <1>0, <2>1
<1>4. ASSUME NEW m \in 0 .. n
      PROVE  EventsMeant(SubSeq(s, 1, m)) = Flat(v, m)
  <2>1. PICK t : t = SubSeq(s, 1, m)
    OBVIOUS
  <2>2. t \in Seq(A) /\ Len(t) = m /\ \A i \in 1 .. m : t[i] = s[i]
    BY <1>1, <2>1
  <2>3. ASSUME NEW i \in 1 .. m PROVE MeantOf(t, i) = v[i]
    <3>1. \A j \in 1 .. i : t[j] = s[j]
      <4>1. 1 .. i \subseteq 1 .. m
        OBVIOUS
      <4> QED
        BY <2>2, <4>1, Zenon
    <3>2. IdsIn(t, i) = IdsIn(s, i)
      BY <3>1 DEF IdsIn
    <3>3. IdsIn(s, i) # {} => Max(IdsIn(s, i)) \in 1 .. i
      <4>1. IdsIn(s, i) \subseteq 1 .. i /\ i \in Nat
        BY DEF IdsIn
      <4> QED
        BY <4>1, MaxProperties
    <3>4. LastIdOf(t, i) = LastIdOf(s, i)
      BY <3>1, <3>2, <3>3 DEF LastIdOf
    <3>5. t[i] = s[i] /\ i \in 1 .. n
      BY <2>2
    <3> QED
      BY <1>3, <3>4, <3>5 DEF MeantOf
  <2>4. [i \in 1 .. m |-> MeantOf(t, i)] = [i \in 1 .. m |-> v[i]]
    BY <2>3
  <2> QED
    BY <2>1, <2>2, <2>4, EventsMeantDefined DEF Flat
<1>5. /\ Flat(v, 0) = <<>>
      /\ \A m \in 0 .. n : Flat(v, m) \in Seq(B)
      /\ \A m \in 1 .. n : Flat(v, m) = Flat(v, m - 1) \o v[m]
  BY <1>3, FlattenProperties, Zenon DEF Flat
<1>6. k \in 0 .. n /\ k + 1 \in 0 .. n /\ 0 \in 0 .. n /\ k + 1 \in 1 .. n /\ (k + 1) - 1 = k /\ k \in Nat
  BY <1>1
<1>7. PICK h \in Seq(B) : h = EventsMeant(SubSeq(s, 1, k))
  BY <1>4, <1>5, <1>6
<1>8. EventsMeant(SubSeq(s, 1, k + 1)) = h \o MeantOf(s, k + 1)
  <2>1. EventsMeant(SubSeq(s, 1, k + 1)) = Flat(v, k + 1) /\ h = Flat(v, k)
    BY <1>4, <1>6, <1>7
  <2>2. Flat(v, k + 1) = Flat(v, (k + 1) - 1) \o v[k + 1]
    BY <1>5, <1>6, Zenon
  <2>3. v[k + 1] = MeantOf(s, k + 1)
    BY <1>3, <1>6, Zenon
  <2> QED
    BY <1>6, <2>1, <2>2, <2>3, Zenon
<1>9. h \o MeantOf(s, k + 1) = HeardAfter(s[k + 1], LastIdOf(s, k), h)
  <2>1. LastIdOf(s, k + 1) = IdAfter(s[k + 1], LastIdOf(s, k))
    BY <1>6, LastIdSteps
  <2>2. CASE s[k + 1].message = <<>>
    <3>1. h \o <<>> = h
      OBVIOUS
    <3> QED
      BY <2>2, <3>1 DEF MeantOf, HeardAfter
  <2>3. CASE s[k + 1].message # <<>>
    <3>1. PICK x : x = [event |-> s[k + 1].event, data |-> s[k + 1].message, id |-> LastIdOf(s, k + 1)]
      OBVIOUS
    <3>2. x \in B
      BY <1>2, <1>6, <3>1
    <3>3. h \o <<x>> = Append(h, x)
      BY <3>2, ConcatOne
    <3>4. MeantOf(s, k + 1) = <<x>>
      BY <2>3, <3>1 DEF MeantOf
    <3>5. HeardAfter(s[k + 1], LastIdOf(s, k), h) = Append(h, x)
      BY <2>1, <2>3, <3>1 DEF HeardAfter
    <3> QED
      BY <3>3, <3>4, <3>5
  <2> QED
    BY <2>2, <2>3
<1>10. EventsMeant(SubSeq(s, 1, 0)) = <<>>
  BY <1>4, <1>5, <1>6
<1> QED
  BY <1>7, <1>8, <1>9, <1>10

-----------------------------------------------------------------------------
(* A text arrives, and so do events                                        *)

\* A browser that has read all that was sent is between two events.
ReaderAt(s, k) == Idle(Blank, <<>>, LastIdOf(s, k), EventsMeant(SubSeq(s, 1, k)))

Hearing ==
  mode = "events" /\ ~failed /\ (\A i \in DOMAIN input : OneLine(input[i])) =>
    ReadsTo(Start, SentOf(wire), ReaderAt(input, Written))

LEMMA InputIsText ==
  ASSUME Texts
  PROVE  /\ input \in Seq(Range(input)) /\ Written \in 0 .. Len(input) /\ Len(input) \in Nat
         /\ Len(todo) \in Nat /\ Len(todo) <= Len(input)
<1>1. input \in Seq(Range(input))
  BY InputsAssumption DEF Texts, IsText
<1>2. PICK n \in Nat, m \in Nat : n = Len(input) /\ m = Len(todo) /\ m <= n
  BY <1>1 DEF Texts
<1>3. n - m \in 0 .. n
  BY <1>2
<1> QED
  BY <1>1, <1>2, <1>3 DEF Written

LEMMA StartHearing ==
  ASSUME OutTypes, wire = <<>>, Written = 0
  PROVE  Hearing
<1>1. Start = ReaderAt(input, 0)
  <2>1. PICK s, A : s = input /\ A = Range(input)
    OBVIOUS
  <2>2. s \in Seq(A)
    BY <2>1, InputIsText DEF OutTypes
  <2>3. LastIdOf(s, 0) = "0"
    BY LastIdSteps
  <2>4. SubSeq(s, 1, 0) = <<>>
    BY <2>2
  <2>5. EventsMeant(<<>>) = <<>>
    <3>1. PICK e \in Seq(A) : e = <<>>
      <4>1. <<>> \in Seq(A)
        OBVIOUS
      <4> QED
        BY <4>1, Zenon
    <3>2. PICK v : v = [i \in 1 .. 0 |-> MeantOf(e, i)]
      OBVIOUS
    <3>3. v \in [1 .. 0 -> Seq(A)] /\ v = [i \in 1 .. 0 |-> v[i]] /\ Len(e) = 0
      BY <3>1, <3>2
    <3>4. FlattenSeq([i \in 1 .. 0 |-> v[i]]) = <<>>
      <4>1. PICK n \in Nat : n = 0
        OBVIOUS
      <4>2. v \in [1 .. n -> Seq(A)]
        BY <3>3, <4>1
      <4> QED
        BY <4>2, FlattenProperties, Zenon
    <3> QED
      BY <3>1, <3>2, <3>3, <3>4, EventsMeantDefined
  <2>6. ReaderAt(s, 0) = Idle(Blank, <<>>, "0", <<>>)
    BY <2>3, <2>4, <2>5, Zenon DEF ReaderAt
  <2>7. Start = Idle(Blank, <<>>, "0", <<>>)
    BY Zenon DEF Start, Idle, Reader, Blank
  <2> QED
    BY <2>1, <2>6, <2>7, Zenon
<1>2. SentOf(wire) = <<>>
  <2>1. <<>> \in Seq(Items)
    OBVIOUS
  <2> QED
    BY <2>1, SentProperties
<1>3. ReadsTo(Start, <<>>, Start)
  BY ReadingNothing
<1> QED
  BY <1>1, <1>2, <1>3 DEF Hearing

LEMMA BeginEventsHears ==
  ASSUME OutTypes, Hearing, NEW ok \in BOOLEAN, BeginEvents(ok)
  PROVE  Hearing'
<1>1. /\ UNCHANGED <<mode, input, todo>> /\ failed' = ~ok
      /\ ok => wire' = Append(wire, StreamHead)
  BY DEF BeginEvents, Put
<1>2. ~failed
  BY DEF OutTypes, Place, BeginEvents
<1>3. StreamHead \in Items /\ StreamHead.data = <<>>
  <2>1. <<>> \in Seq(Symbols)
    OBVIOUS
  <2> QED
    BY <2>1 DEF StreamHead, Items
<1>4. ok => SentOf(wire') = SentOf(wire)
  <2>1. wire \in Seq(Items)
    BY DEF OutTypes, Buffering
  <2>2. SentOf(Append(wire, StreamHead)) = Cat(SentOf(wire), <<>>) /\ SentOf(wire) \in Seq(Symbols)
    BY <1>3, <2>1, SentProperties DEF Cat
  <2>3. Cat(SentOf(wire), <<>>) = SentOf(wire)
    BY <2>2, JoinedNone
  <2> QED
    BY <1>1, <2>2, <2>3
<1>5. Written' = Written
  BY <1>1 DEF Written
<1> QED
  BY <1>1, <1>2, <1>4, <1>5 DEF Hearing

LEMMA SendEventHears ==
  ASSUME OutTypes, Hearing, NEW n, SendEvent(n)
  PROVE  Hearing'
<1> SUFFICES ASSUME mode' = "events", ~failed', \A i \in DOMAIN input' : OneLine(input'[i])
             PROVE  ReadsTo(Start, SentOf(wire'), ReaderAt(input', Written'))
  BY DEF Hearing
<1>1. PICK e, t : e = Head(todo) /\ t = EventText(e)
  OBVIOUS
<1>2. /\ todo # <<>> /\ n \in 1 .. Len(t) /\ wire' = Append(wire, Text(SubSeq(t, 1, n)))
      /\ failed' = (failed \/ n < Len(t)) /\ Taken(1) /\ UNCHANGED <<mode, input>>
  BY <1>1 DEF SendEvent, Put
<1>3. IsEvent(e) /\ t \in Seq(Symbols) /\ Len(todo) \in Nat \ {0} /\ e = todo[1]
  BY <1>1, <1>2, EventTexts DEF OutTypes
<1>4. n = Len(t) /\ SubSeq(t, 1, n) = t
  <2>1. PICK m \in Nat : m = Len(t)
    BY <1>3
  <2>2. n = m
    <3>1. ~(n < Len(t)) /\ n \in 1 .. Len(t)
      BY <1>2, Zenon
    <3> QED
      BY <2>1, <3>1
  <2>3. SubSeq(t, 1, Len(t)) = t
    BY <1>3
  <2> QED
    BY <2>1, <2>2, <2>3
<1>5. PICK s, A, k : s = input /\ A = Range(input) /\ k = Written
  OBVIOUS
<1>6. s \in Seq(A) /\ k \in 0 .. Len(s) - 1 /\ Written' = k + 1 /\ e = s[k + 1]
  <2>1. 1 \in 0 .. Len(todo) /\ 1 \in 1 .. Len(todo)
    BY <1>3
  <2>2. Len(todo') = Len(todo) - 1 /\ input' = input
    BY <1>2, <2>1, TakenTexts DEF OutTypes
  <2>3. todo[1] = input[Written + 1]
    BY <2>1 DEF OutTypes, Texts
  <2>4. s \in Seq(A) /\ Len(input) \in Nat /\ Written \in 0 .. Len(input)
    BY <1>5, InputIsText DEF OutTypes
  <2>5. PICK l \in Nat, m \in Nat : l = Len(input) /\ m = Len(todo)
    BY <1>3, <2>4
  <2>6. m # 0 /\ Written = l - m /\ l - m \in 0 .. l /\ Written' = l - (m - 1)
    BY <1>3, <2>2, <2>4, <2>5 DEF Written
  <2>7. l - m \in 0 .. l - 1 /\ l - (m - 1) = (l - m) + 1
    BY <2>5, <2>6
  <2> QED
    BY <1>3, <1>5, <2>3, <2>4, <2>5, <2>6, <2>7
<1>7. OneLine(e)
  <2>1. k + 1 \in DOMAIN s
    BY <1>6
  <2> QED
    BY <1>2, <1>5, <1>6, <2>1
<1>8. ReadsTo(Start, SentOf(wire), ReaderAt(s, k))
  BY <1>2, <1>5 DEF Hearing
<1>9. ReadsTo(ReaderAt(s, k), t, ReaderAt(s, k + 1))
  <2>1. PICK i, h : i = LastIdOf(s, k) /\ h = EventsMeant(SubSeq(s, 1, k))
    OBVIOUS
  <2>2. ReadsTo(Idle(Blank, <<>>, i, h), t,
                Idle(Blank, <<>>, IdAfter(e, i), HeardAfter(e, i, h)))
    BY <1>1, <1>3, <1>7, ReadingEvent
  <2>3. LastIdOf(s, k + 1) = IdAfter(e, i)
    <3>1. k \in Nat
      BY <1>6
    <3> QED
      BY <1>6, <2>1, <3>1, LastIdSteps
  <2>4. EventsMeant(SubSeq(s, 1, k + 1)) = HeardAfter(e, i, h)
    BY <1>6, <2>1, EventsMeantSteps
  <2> QED
    BY <2>1, <2>2, <2>3, <2>4 DEF ReaderAt
<1>10. SentOf(wire') = Cat(SentOf(wire), t) /\ SentOf(wire) \in Seq(Symbols)
  <2>1. Text(t) \in Items /\ Text(t).data = t /\ wire \in Seq(Items)
    BY <1>3 DEF Text, Items, OutTypes, Buffering
  <2> QED
    BY <1>2, <1>4, <2>1, SentProperties DEF Cat
<1>11. ReadsTo(Start, Cat(SentOf(wire), t), ReaderAt(s, k + 1))
  BY <1>3, <1>8, <1>9, <1>10, ReadingOn
<1> QED
  BY <1>2, <1>5, <1>6, <1>10, <1>11

LEMMA NextHearing == OutTypes /\ Hearing /\ [OutNext]_outVars => Hearing'
<1> SUFFICES ASSUME OutTypes, Hearing, [OutNext]_outVars PROVE Hearing'
  OBVIOUS
<1>1. CASE \E ok \in BOOLEAN : BeginEvents(ok)
  BY <1>1, BeginEventsHears
<1>2. CASE \E n \in 1 .. MaxEventText : SendEvent(n)
  BY <1>2, SendEventHears
<1>3. CASE LoseEvents
  BY <1>3 DEF LoseEvents, Hearing
<1>4. CASE UNCHANGED outVars
  BY <1>4 DEF outVars, Hearing, Written
<1>5. ASSUME mode # "events", mode' = mode PROVE Hearing'
  BY <1>5 DEF Hearing
<1>6. CASE \E ok \in BOOLEAN : DoByte(ok) \/ DoBlock(ok) \/ DoFlush(ok) \/ DoCopy(ok) \/ FileChunk(ok)
  <2>1. mode' = mode
    BY <1>6 DEF DoByte, DoBlock, DoFlush, DoCopy, FileChunk, Application
  <2>2. phase = "file" \/ pending # <<>>
    BY <1>6 DEF DoByte, DoBlock, DoFlush, DoCopy, FileChunk, Doing
  <2>3. mode # "events"
    BY <2>2 DEF OutTypes, Place
  <2> QED
    BY <1>5, <2>1, <2>3
<1>7. CASE \E allocated \in BOOLEAN : BeginStream(allocated) \/ BeginWhole(allocated)
  BY <1>5, <1>7 DEF BeginStream, BeginWhole
<1>8. CASE WriteByte \/ (\E n \in 1 .. Len(todo) : WriteBlock(n)) \/ CopyFrom \/ FlushNow \/ TemplateWrite
  BY <1>5, <1>8 DEF WriteByte, WriteBlock, CopyFrom, FlushNow, TemplateWrite, Printer
<1>9. CASE Finish \/ EndSend \/ Destroy \/ FileEnd
  <2>1. mode' = mode /\ phase \in {"write", "ending", "ended", "file"}
    BY <1>9 DEF Finish, EndSend, Destroy, FileEnd, Writing
  <2>2. mode # "events"
    BY <2>1 DEF OutTypes, Place
  <2> QED
    BY <1>5, <2>1, <2>2
<1> QED
  BY <1>1, <1>2, <1>3, <1>4, <1>6, <1>7, <1>8, <1>9 DEF OutNext

\* A text arrives as it was meant, through every kind of response, and every event is
\* heard, whatever the sizes of the texts and of the buffer.
THEOREM TextsArrive == OutSpec => []TextArrives
<1>1. OutInit => OutTypes /\ TextInv /\ Hearing
  <2> SUFFICES ASSUME OutInit PROVE Hearing
    BY InitTypes, InitText
  <2>1. OutTypes /\ wire = <<>> /\ todo = input
    BY InitTypes DEF OutInit
  <2>2. Written = 0
    <3>1. Len(input) \in Nat
      BY <2>1, InputIsText DEF OutTypes
    <3> QED
      BY <2>1, <3>1 DEF Written
  <2> QED
    BY <2>1, <2>2, StartHearing
<1>2. OutTypes /\ TextInv /\ Hearing /\ [OutNext]_outVars => (OutTypes /\ TextInv /\ Hearing)'
  BY NextTypes, NextText, NextHearing
<1>3. OutTypes /\ TextInv /\ Hearing => TextArrives
  <2> SUFFICES ASSUME OutTypes, TextInv, Hearing, ~failed, ~(mode = "template" /\ Overlong)
               PROVE  IF mode = "events"
                      THEN (\A i \in DOMAIN input : OneLine(input[i])) =>
                             HeardIn(Sent) = EventsMeant(SubSeq(input, 1, Written))
                      ELSE IsPrefix(Sent \o buf, Meant) /\ (phase = "done" /\ Kind("error") = {} => Sent = Meant)
    BY DEF TextArrives, Written
  <2>1. CASE mode # "events"
    BY <2>1, TextInvArrives
  <2>2. ASSUME mode = "events", \A i \in DOMAIN input : OneLine(input[i])
        PROVE  HeardIn(Sent) = EventsMeant(SubSeq(input, 1, Written))
    <3>1. ReadsTo(Start, SentOf(wire), ReaderAt(input, Written))
      BY <2>2 DEF Hearing
    <3>2. SentOf(wire) \in Seq(Symbols)
      BY SentProperties DEF OutTypes, Buffering
    <3>3. HeardIn(SentOf(wire)) = ReaderAt(input, Written).heard
      BY <3>1, <3>2, HeardByReading
    <3> QED
      <4>1. PICK h : h = EventsMeant(SubSeq(input, 1, Written))
        OBVIOUS
      <4>2. ReaderAt(input, Written).heard = h
        BY <4>1 DEF ReaderAt, Idle, Reader
      <4>3. Sent = SentOf(wire)
        BY Zenon DEF Sent, SentOf
      <4> QED
        BY <3>3, <4>1, <4>2, <4>3, Zenon
  <2> QED
    BY <2>1, <2>2
<1> QED
  BY <1>1, <1>2, <1>3, PTL DEF OutSpec

=============================================================================
