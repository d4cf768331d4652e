------------------------------- MODULE Upload -------------------------------
(***************************************************************************)
(* Receiving a request body, in the three loops the library has:           *)
(*   "body"       PsychicRequest::loadBody, for the web handler,           *)
(*   "basic"      PsychicUploadHandler::_basicUploadHandler,               *)
(*   "multipart"  MultipartProcessor::process, byte by byte into the       *)
(*                parser of Multipart,                                     *)
(* and the answer the handler gives afterwards.  Each httpd_req_recv       *)
(* returns some bytes, a time-out, an error, or 0 once the peer has        *)
(* closed the connection.  The application's upload callback may fail in   *)
(* the basic loop; the multipart loop does not look at what it returns.    *)
(***************************************************************************)
EXTENDS Multipart, FiniteSets

CONSTANTS
  Modes,        \* the loops to run
  Forms,        \* mode -> forms: sequences of parts [lines, name, filename, file, content]
  Raw,          \* bodies of basic uploads
  Failures,     \* what may go wrong: "timeout", "fail", "closed" (the peer), "memory"
  MaxTimeouts   \* bound: time-outs of one request

\* What lines say of a name: the last one that says anything is right.
SaidLast(lines, says, x) ==
  IF \A j \in 1 .. Len(lines) : says[lines[j]] = None THEN x = None
  ELSE x # None /\ \E j \in 1 .. Len(lines) :
         says[lines[j]] = x /\ \A k \in j + 1 .. Len(lines) : says[lines[k]] = None
NameIn == [l \in DOMAIN Headers |-> Headers[l].name]
FilenameIn == [l \in DOMAIN Headers |-> Headers[l].filename]
MakesFile(l) == Headers[l].type \/ Headers[l].filename # None
LinesUpto(parts, i) == FlattenSeq([k \in 1 .. i |-> parts[k].lines])

Occurs(s, t) == \E i \in 0 .. Len(t) - Len(s) : \A j \in 1 .. Len(s) : t[i + j] = s[j]

\* A form has at least one part; no content has the delimiter in it; the name of a part and
\* the file name of a file are what their headers say, or else the headers of the parts before.
WellFormed(parts) ==
  /\ IsText(parts) /\ parts # <<>>
  /\ \A i \in 1 .. Len(parts) :
       LET p == parts[i] IN
       /\ IsText(p.lines) /\ ToSet(p.lines) \subseteq DOMAIN Headers
       /\ IsText(p.content) /\ ~Occurs(Delimiter, p.content)
       /\ p.file = \E j \in 1 .. Len(p.lines) : MakesFile(p.lines[j])
       /\ SaidLast(LinesUpto(parts, i), NameIn, p.name)
       /\ p.file => SaidLast(LinesUpto(parts, i), FilenameIn, p.filename)

ASSUME ModesAssumption == Modes \subseteq {"body", "basic", "multipart"}
ASSUME FormsAssumption == \A m \in Modes \ {"basic"} : \A f \in Forms[m] : WellFormed(f)
ASSUME RawAssumption == \A b \in Raw : IsText(b)
ASSUME NoneAssumption == None \notin {"callback", "400", "500"}
ASSUME MaxTimeoutsAssumption == MaxTimeouts \in Nat

VARIABLES
  mode,         \* which loop
  form,         \* the parts the client encoded
  body,         \* what it put on the wire
  taken,        \* bytes received (index; Content-Length - remaining)
  parser,       \* the MultipartProcessor
  calls,        \* basic: calls of the upload callback
  late,         \* time-outs so far
  peer,         \* "open" or "closed"
  err,          \* result of the loop
  pc,           \* "receive", "respond" or "done"
  answer        \* what the client was answered

vars == <<mode, form, body, taken, parser, calls, late, peer, err, pc, answer>>

\* A well-formed body for the parts.
Line(l) == <<l, CR, LF>>
Encode(parts) ==
  FlattenSeq([i \in 1 .. Len(parts) |->
      (IF i = 1 THEN SubSeq(Delimiter, 3, Len(Delimiter)) ELSE Delimiter) \o <<CR, LF>>
        \o FlattenSeq([j \in 1 .. Len(parts[i].lines) |-> Line(parts[i].lines[j])])
        \o <<CR, LF>> \o parts[i].content])
    \o Delimiter \o <<Dash, Dash, CR, LF>>

ContentLength == Len(body)
Remaining == ContentLength - taken
Least(a, b) == IF a < b THEN a ELSE b

\* Every byte received has been used; httpd_req_recv is next.
AtRecv == pc = "receive" /\ (mode = "multipart" => parser.parsed = taken)

TypeOK ==
  /\ mode \in Modes /\ (mode # "basic" => form \in Forms[mode])
  /\ taken \in 0 .. ContentLength /\ late \in 0 .. MaxTimeouts
  /\ parser.parsed \in 0 .. taken
  /\ Len(parser.buf) < ChunkSize
  /\ peer \in {"open", "closed"} /\ err \in {"ok", "fail"}
  /\ pc \in {"receive", "respond", "done"}
  /\ answer \in {None, "callback", "400", "500"}

Init ==
  /\ mode \in Modes
  /\ IF mode = "basic" THEN form = <<>> /\ body \in Raw
                       ELSE form \in Forms[mode] /\ body = Encode(form)
  /\ taken = 0 /\ parser = NewParser /\ calls = <<>>
  /\ late = 0 /\ peer = "open" /\ err = "ok" /\ pc = "receive" /\ answer = None

-----------------------------------------------------------------------------
(* One httpd_req_recv and what the loop does with it                       *)

Receiving(m) == AtRecv /\ mode = m /\ Remaining > 0

\* How much esp-idf may deliver: the web handler asks for everything that is left.
Asked == IF mode = "body" THEN Remaining ELSE Least(Remaining, ChunkSize)

\* What malloc may return for an item's buffer
Allocations == IF "memory" \in Failures THEN BOOLEAN ELSE {TRUE}

\* The peer sends while it is open; afterwards esp-idf returns 0.
Received(n) == IF peer = "open" THEN n \in 1 .. Asked ELSE n = 0

ReceiveBody(n) ==
  /\ Receiving("body") /\ Received(n)
  /\ taken' = taken + n
  /\ UNCHANGED <<mode, form, body, parser, calls, late, peer, err, pc, answer>>

\* (a bug) the offset of a piece is where it ends
ReceiveBasicAhead(n, accepted) ==
  /\ Receiving("basic") /\ Received(n)
  /\ calls' = IF n = 0 THEN calls
              ELSE Append(calls, [index |-> taken + n, data |-> SubSeq(body, taken + 1, taken + n),
                                  last |-> Remaining = n])
  /\ IF accepted
       THEN taken' = taken + n /\ UNCHANGED <<err, pc>>
       ELSE err' = "fail" /\ pc' = "respond" /\ UNCHANGED taken
  /\ UNCHANGED <<mode, form, body, parser, late, peer, answer>>

\* The callback gets every piece with its offset; a callback that fails ends the loop.
ReceiveBasic(n, accepted) ==
  /\ Receiving("basic") /\ Received(n)
  /\ calls' = IF n = 0 THEN calls     \* it is called with nothing, over and over
              ELSE Append(calls, [index |-> taken, data |-> SubSeq(body, taken + 1, taken + n),
                                  last |-> Remaining = n])
  /\ IF accepted
       THEN taken' = taken + n /\ UNCHANGED <<err, pc>>
       ELSE err' = "fail" /\ pc' = "respond" /\ UNCHANGED taken
  /\ UNCHANGED <<mode, form, body, parser, late, peer, answer>>

\* A piece of the form goes into the buffer, and then through the parser.
ReceiveMultipart(n) ==
  /\ Receiving("multipart") /\ Received(n)
  /\ taken' = taken + n
  /\ UNCHANGED <<mode, form, body, parser, calls, late, peer, err, pc, answer>>

\* The next byte; last: is it marked as the request's last one?
ParseNext(end, allocated) ==
  LET b == body[parser.parsed + 1]
  IN  parser' = ParseByte(parser, b, parser.parsed + 1 = end, ContentLength, allocated)

ParseMultipart(allocated) ==
  /\ pc = "receive" /\ mode = "multipart" /\ parser.parsed < taken
  /\ ParseNext(ContentLength, allocated)
  /\ UNCHANGED <<mode, form, body, taken, calls, late, peer, err, pc, answer>>

TimeOut ==
  /\ AtRecv /\ Remaining > 0 /\ peer = "open"
  /\ "timeout" \in Failures /\ late < MaxTimeouts
  /\ late' = late + 1
  /\ UNCHANGED <<mode, form, body, taken, parser, calls, peer, err, pc, answer>>

\* (a bug) the upload loops forget the error too
SocketErrorForgotten ==
  /\ AtRecv /\ Remaining > 0 /\ peer = "open" /\ "fail" \in Failures
  /\ err' = "ok"
  /\ pc' = "respond"
  /\ UNCHANGED <<mode, form, body, taken, parser, calls, late, peer, answer>>

\* loadBody sets ESP_FAIL and then overwrites it with ESP_OK below its loop.
SocketError ==
  /\ AtRecv /\ Remaining > 0 /\ peer = "open" /\ "fail" \in Failures
  /\ err' = IF mode = "body" THEN "ok" ELSE "fail"
  /\ pc' = "respond"
  /\ UNCHANGED <<mode, form, body, taken, parser, calls, late, peer, answer>>

PeerCloses ==
  /\ peer = "open" /\ pc = "receive" /\ "closed" \in Failures
  /\ peer' = "closed"
  /\ UNCHANGED <<mode, form, body, taken, parser, calls, late, err, pc, answer>>

\* (a bug) while (remaining >= 0)
AllReceivedNever ==
  /\ AtRecv /\ Remaining < 0
  /\ pc' = "respond"
  /\ UNCHANGED <<mode, form, body, taken, parser, calls, late, peer, err, answer>>

AllReceived ==
  /\ AtRecv /\ Remaining = 0
  /\ pc' = "respond"
  /\ UNCHANGED <<mode, form, body, taken, parser, calls, late, peer, err, answer>>

\* The web handler goes on to loadParams(), which parses a form from the loaded body
\* without an upload callback, and then runs the request callback; or it answers 400.
ParseParams(allocated) ==
  /\ pc = "respond" /\ mode = "body" /\ err = "ok" /\ parser.parsed < taken
  /\ ParseNext(taken, allocated)
  /\ UNCHANGED <<mode, form, body, taken, calls, late, peer, err, pc, answer>>

RespondWeb ==
  /\ pc = "respond" /\ mode = "body" /\ (err = "ok" => parser.parsed = taken)
  /\ answer' = IF err = "ok" THEN "callback" ELSE "400"
  /\ pc' = "done"
  /\ UNCHANGED <<mode, form, body, taken, parser, calls, late, peer, err>>

\* The upload handler runs the request callback or answers 500.
RespondUpload ==
  /\ pc = "respond" /\ mode # "body"
  /\ answer' = IF err = "ok" THEN "callback" ELSE "500"
  /\ pc' = "done"
  /\ UNCHANGED <<mode, form, body, taken, parser, calls, late, peer, err>>

Step ==
  \/ \E n \in 0 .. Asked : ReceiveBody(n)
  \/ \E n \in 0 .. Asked, accepted \in BOOLEAN : ReceiveBasic(n, accepted)
  \/ \E n \in 0 .. Asked : ReceiveMultipart(n)
  \/ \E allocated \in Allocations : ParseMultipart(allocated) \/ ParseParams(allocated)
  \/ AllReceived \/ RespondWeb \/ RespondUpload \/ SocketError

Next == Step \/ TimeOut \/ PeerCloses

Spec == Init /\ [][Next]_vars

\* The loop keeps calling httpd_req_recv, which always comes back with something.
FairSpec == Spec /\ WF_vars(Step)

-----------------------------------------------------------------------------
(* Properties                                                              *)

\* What the application has been told of the form, as one sequence: a parameter with
\* its value (for a file its name), an upload with its bytes and its end.
Told(item) ==
  IF item.what = "param" THEN <<"param", item.name>> \o item.data
  ELSE (IF item.index = 0 THEN <<"upload", item.name>> ELSE <<>>)
         \o item.data \o (IF item.last THEN <<"end">> ELSE <<>>)

\* The web handler (mode m) passes no upload callback to the parser.
Heard(m, item) == item.what = "param" \/ m = "multipart"
AllTold(m, out) ==
  FlattenSeq([i \in 1 .. Len(out) |-> IF Heard(m, out[i]) THEN Told(out[i]) ELSE <<>>])

\* What the form says: a file without content is passed over in silence.
Said(m, part) ==
  IF ~part.file THEN <<"param", part.name>> \o part.content
  ELSE IF part.content = <<>> THEN <<>>
  ELSE (IF m = "multipart" THEN <<"upload", part.filename>> \o part.content \o <<"end">> ELSE <<>>)
         \o <<"param", part.name, part.filename>>
AllSaid(m, parts) == FlattenSeq([i \in 1 .. Len(parts) |-> Said(m, parts[i])])

\* However the body is cut into pieces, and however much a content looks like the
\* delimiter, the application hears exactly what the form says, in order, byte for
\* byte; the parser gives up on a well-formed body only for want of memory.
FormIsHeard ==
  (mode = "multipart" \/ (mode = "body" /\ taken = ContentLength)) =>
  /\ IsPrefix(AllTold(mode, parser.out), AllSaid(mode, form))
  /\ parser.state = "PARSING_FINISHED" => AllTold(mode, parser.out) = AllSaid(mode, form)
  /\ parser.state = "PARSE_ERROR" => parser.isFile /\ parser.size = 0
  /\ parser.parsed = ContentLength => parser.state \in {"PARSING_FINISHED", "PARSE_ERROR"}

\* The calls of the upload callback that are heard, and the index the one after call k is to have
Pieces(m, out) == {k \in 1 .. Len(out) : out[k].what = "upload" /\ Heard(m, out[k])}
IndexAfter(item) == IF item.last THEN 0 ELSE item.index + Len(item.data)

\* The pieces an upload callback is given join up: each begins at the offset where the
\* one before ended or at 0 after a last one, none is longer than FILE_CHUNK_SIZE, and
\* a basic upload's last piece, and only that one, ends at Content-Length.
PiecesJoin ==
  /\ \A k \in Pieces(mode, parser.out) :
       LET before == {j \in Pieces(mode, parser.out) : j < k} IN
       /\ Len(parser.out[k].data) <= ChunkSize
       /\ before = {} => parser.out[k].index = 0
       /\ \A j \in before : (\A l \in before : l <= j) =>
            parser.out[k].index = IndexAfter(parser.out[j])
  /\ \A i \in 1 .. Len(calls) :
       /\ calls[i].index = IF i = 1 THEN 0 ELSE calls[i - 1].index + Len(calls[i - 1].data)
       /\ calls[i].last <=> calls[i].index + Len(calls[i].data) = ContentLength

\* The state has its types, and the request callback of an upload runs only when all of it has been received and,
\* in the basic loop, every piece was accepted.  (Not so for the web handler: loadBody
\* reports success after a socket error.)
WholeUpload == TypeOK /\ (mode # "body" /\ answer = "callback" => taken = ContentLength)

\* The item buffer is there whenever a byte of a file may be written to it, and it is
\* gone when the request has been received.  (After a socket error it is not: the
\* destructor of MultipartProcessor frees nothing.)
BufferHeld ==
  /\ parser.isFile /\ parser.state \in {"WAIT_FOR_RETURN1", "EXPECT_FEED1", "EXPECT_DASH1",
                                       "EXPECT_DASH2", "BOUNDARY_OR_DATA"} => parser.held
  /\ pc = "done" /\ taken = ContentLength => ~parser.held

\* A request that has begun is answered, whatever the peer does.  README.md:199: "The
\* server is smart enough to know when to close the connection and free resources."
Answered == <>(pc = "done")

\* What is left of it: the loops come to an end, with an answer, as long as the peer
\* stays, whatever time-outs, errors and pieces it causes.
AnsweredWhilePeerStays == <>(pc = "done" \/ peer = "closed")

=============================================================================
