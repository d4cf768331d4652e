------------------------------- MODULE Output -------------------------------
(***************************************************************************)
(* How a long response leaves in chunks: the application, or a template,   *)
(* writes bytes and blocks; ChunkPrinter collects them in one buffer and   *)
(* sends a chunk whenever it is full; an empty chunk ends the response.    *)
(*                                                                         *)
(*   "stream"    PsychicStreamResponse (PsychicStreamResponse.cpp)         *)
(*   "template"  TemplatePrinter writing to a PsychicStreamResponse        *)
(*   "json"      PsychicJsonResponse::send, the Arduino build              *)
(*   "file"      PsychicFileResponse::send                                 *)
(*   "events"    PsychicEventSourceResponse, PsychicEventSourceClient      *)
(*                                                                         *)
(* A text is a sequence of symbols.  "wire" is what was handed to esp-idf: *)
(* whole responses, chunks, terminating chunks, an error page; or the head *)
(* and the texts of an event stream, which has no end.                     *)
(***************************************************************************)
EXTENDS Integers, Sequences, SequencesExt

CONSTANTS
  Inputs,       \* mode -> texts the application sends
  Size,         \* STREAM_CHUNK_SIZE, JSON_BUFFER_SIZE, FILE_CHUNK_SIZE
  ParamMax,     \* longest template parameter, 63 in the code
  Delim,        \* the template delimiter, '%'
  NameSymbols,  \* symbols that may be in a parameter's name
  Values,       \* known parameter -> text its callback prints
  MaxFlushes,   \* bound: flush() calls of the application
  MaxEventText  \* bound: symbols of an event

Modes == {"stream", "template", "json", "file", "events"}
EndOfLine == "end of line"

\* A sequence of whatever it consists of
IsText(t) == t \in Seq(Range(t))

\* What sendEvent() is given: perhaps a message, an event name or "", two numbers
IsEvent(e) ==
  /\ IsText(e.message) /\ Len(e.message) <= 1 /\ \A m \in Range(e.message) : IsText(m)
  /\ EndOfLine \notin {e.id, e.reconnect}

ASSUME SizeAssumption == Size \in Nat \ {0}
ASSUME ParamAssumption == ParamMax \in Nat /\ Delim \notin NameSymbols
ASSUME InputsAssumption ==
  /\ \A m \in Modes : \A t \in Inputs[m] : IsText(t)
  /\ \A t \in Inputs["events"] : \A e \in Range(t) : IsEvent(e)
ASSUME ValuesAssumption ==      \* a callback is not asked about a parameter without a name
  \A name \in DOMAIN Values : name # <<>> /\ IsText(Values[name])
ASSUME FlushesAssumption == MaxFlushes \in Nat

VARIABLES
  mode,
  input,        \* the text to send
  todo,         \* what of it the application has not written yet
  pending,      \* calls on the ChunkPrinter that one call of the application makes
  inParam,      \* TemplatePrinter::_inParam
  param,        \* TemplatePrinter::_paramBuffer
  buf,          \* ChunkPrinter::_buffer up to _pos
  holding,      \* is there a buffer and a ChunkPrinter?
  wire,         \* what esp-idf was given
  failed,       \* has a chunk failed to be sent, or a text been cut?
  flushes,
  phase

outVars == <<mode, input, todo, pending, inParam, param, buf, holding, wire, failed, flushes, phase>>

Chunk(data) == [kind |-> "chunk", data |-> data]
Terminator == [kind |-> "end", data |-> <<>>]
Whole(data) == [kind |-> "whole", data |-> data]
ErrorPage == [kind |-> "error", data |-> <<>>]
StreamHead == [kind |-> "head", data |-> <<>>]
Text(s) == [kind |-> "text", data |-> s]

Byte(c) == [op |-> "byte", data |-> <<c>>]
Block(s) == [op |-> "block", data |-> s]
Flush == [op |-> "flush", data |-> <<>>]
Copy(s) == [op |-> "copy", data |-> s]

OutTypeOK ==
  /\ mode \in Modes /\ input \in Inputs[mode] /\ IsSuffix(todo, input)
  /\ inParam \in BOOLEAN /\ Len(param) <= ParamMax /\ (~inParam => param = <<>>)
  /\ Len(buf) <= Size /\ (~holding => buf = <<>>)
  /\ holding \in BOOLEAN /\ failed \in BOOLEAN
  /\ flushes \in 0 .. MaxFlushes
  /\ phase \in {"begin", "write", "file", "events", "ending", "ended", "done"}

OutInit ==
  /\ mode \in Modes /\ input \in Inputs[mode] /\ todo = input
  /\ pending = <<>> /\ inParam = FALSE /\ param = <<>> /\ buf = <<>>
  /\ holding = FALSE /\ wire = <<>> /\ failed = FALSE /\ flushes = 0 /\ phase = "begin"

Put(item) == wire' = Append(wire, item)

\* PsychicResponse::sendChunk: after a failure the response is terminated.
SendChunk(data, ok) ==
  /\ Put(IF ok THEN Chunk(data) ELSE Terminator)
  /\ failed' = (failed \/ ~ok)

-----------------------------------------------------------------------------
(* ChunkPrinter: the calls that are pending, one round of a loop at a time *)

Doing(op) == pending # <<>> /\ Head(pending).op = op
Data == Head(pending).data
Rest == Tail(pending)
Least(a, b) == IF a < b THEN a ELSE b
Application == <<mode, input, todo, inParam, param, holding, flushes, phase>>

\* (a bug) the byte that finds the buffer full goes with the chunk that is sent
DoByteLost(ok) ==
  /\ Doing("byte") /\ pending' = Rest
  /\ IF Len(buf) = Size
       THEN SendChunk(buf, ok) /\ buf' = <<>>
       ELSE buf' = buf \o Data /\ UNCHANGED <<wire, failed>>
  /\ UNCHANGED Application

\* write(c): a full buffer goes first; if that fails the byte is dropped too.
DoByte(ok) ==
  /\ Doing("byte") /\ pending' = Rest
  /\ IF Len(buf) = Size
       THEN SendChunk(buf, ok) /\ buf' = IF ok THEN Data ELSE <<>>
       ELSE buf' = buf \o Data /\ UNCHANGED <<wire, failed>>
  /\ UNCHANGED Application

\* write(buffer, size): one round copies what fits, and sends a buffer that is full; if
\* that fails the rest of the block is dropped.
DoBlock(ok) ==
  /\ Doing("block")
  /\ LET n == Least(Size - Len(buf), Len(Data))
         filled == buf \o SubSeq(Data, 1, n)
         left == SubSeq(Data, n + 1, Len(Data))
         on == IF left = <<>> THEN Rest ELSE <<Block(left)>> \o Rest
     IN  IF Len(filled) = Size
           THEN SendChunk(filled, ok) /\ buf' = <<>> /\ pending' = IF ok THEN on ELSE Rest
           ELSE buf' = filled /\ pending' = on /\ UNCHANGED <<wire, failed>>
  /\ UNCHANGED Application

\* (a bug) an empty buffer is flushed as well
DoFlushEmpty(ok) ==
  /\ Doing("flush") /\ pending' = Rest
  /\ SendChunk(buf, ok) /\ buf' = <<>>
  /\ UNCHANGED Application

\* flush() sends what there is, if anything.
DoFlush(ok) ==
  /\ Doing("flush") /\ pending' = Rest
  /\ IF buf # <<>> THEN SendChunk(buf, ok) /\ buf' = <<>> ELSE UNCHANGED <<wire, failed, buf>>
  /\ UNCHANGED Application

\* copyFrom(stream): one round; it does not look at what sendChunk returns.
DoCopy(ok) ==
  /\ Doing("copy")
  /\ LET full == Len(buf) = Size
         kept == IF full THEN <<>> ELSE buf
         n == Least(Size - Len(kept), Len(Data))
         left == SubSeq(Data, n + 1, Len(Data))
     IN  /\ IF full THEN SendChunk(buf, ok) ELSE UNCHANGED <<wire, failed>>
         /\ buf' = kept \o SubSeq(Data, 1, n)
         /\ pending' = IF left = <<>> THEN Rest ELSE <<Copy(left)>> \o Rest
  /\ UNCHANGED Application

-----------------------------------------------------------------------------
(* Beginning                                                               *)

\* beginSend(): the buffer or an error page.
BeginStream(allocated) ==
  /\ phase = "begin" /\ mode \in {"stream", "template"}
  /\ IF allocated
       THEN holding' = TRUE /\ phase' = "write" /\ UNCHANGED wire
       ELSE Put(ErrorPage) /\ phase' = "done" /\ UNCHANGED holding
  /\ UNCHANGED <<mode, input, todo, pending, inParam, param, buf, failed, flushes>>

\* Short documents and files go in one piece, long ones in chunks.  An empty file
\* needs no buffer.
BeginWhole(allocated) ==
  /\ phase = "begin" /\ mode \in {"json", "file"}
  /\ IF ~allocated /\ ~(mode = "file" /\ input = <<>>)
       THEN Put(ErrorPage) /\ phase' = "done" /\ UNCHANGED <<holding, todo>>
     ELSE IF Len(input) < Size
       THEN Put(Whole(input)) /\ todo' = <<>> /\ phase' = "done" /\ UNCHANGED holding
     ELSE /\ holding' = TRUE /\ phase' = (IF mode = "json" THEN "write" ELSE "file")
          /\ UNCHANGED <<wire, todo>>
  /\ UNCHANGED <<mode, input, pending, inParam, param, buf, failed, flushes>>

-----------------------------------------------------------------------------
(* What the application writes                                             *)

Writing == phase = "write" /\ pending = <<>>
Taken(n) == todo' = SubSeq(todo, n + 1, Len(todo))
Printer == <<mode, input, buf, holding, wire, failed, phase>>

WriteByte ==
  /\ Writing /\ mode \in {"stream", "json"} /\ todo # <<>>
  /\ pending' = <<Byte(Head(todo))>> /\ Taken(1)
  /\ UNCHANGED <<inParam, param, flushes, Printer>>

WriteBlock(n) ==
  /\ Writing /\ mode \in {"stream", "json"} /\ n \in 1 .. Len(todo)
  /\ pending' = <<Block(SubSeq(todo, 1, n))>> /\ Taken(n)
  /\ UNCHANGED <<inParam, param, flushes, Printer>>

CopyFrom ==
  /\ Writing /\ mode = "stream" /\ todo # <<>>
  /\ pending' = <<Copy(todo)>> /\ todo' = <<>>
  /\ UNCHANGED <<inParam, param, flushes, Printer>>

\* Between two writes, and not within a template parameter
FlushNow ==
  /\ Writing /\ mode \in {"stream", "template"} /\ ~inParam /\ flushes < MaxFlushes
  /\ pending' = <<Flush>> /\ flushes' = flushes + 1
  /\ UNCHANGED <<todo, inParam, param, Printer>>

\* resetParam(true): what was taken for a parameter is put out as it came.
Placeholder ==
  IF ~inParam THEN <<>>
  ELSE <<Byte(Delim)>> \o (IF param = <<>> THEN <<>> ELSE <<Block(param)>>)

NoParam == inParam' = FALSE /\ param' = <<>>

\* TemplatePrinter::write, by the kind of byte
TemplateOther(c) ==
  /\ c \notin NameSymbols \cup {Delim}
  /\ pending' = Placeholder \o <<Byte(c)>>
  /\ NoParam

\* A name that is too long is no parameter; the byte that makes it so is dropped.
TemplateName(c) ==
  /\ c \in NameSymbols
  /\ IF ~inParam THEN pending' = <<Byte(c)>> /\ UNCHANGED <<inParam, param>>
     ELSE IF Len(param) < ParamMax THEN param' = Append(param, c) /\ UNCHANGED <<inParam, pending>>
     ELSE pending' = Placeholder /\ NoParam

\* The second delimiter asks the callback, which prints the value or says no.
TemplateDelim(c) ==
  /\ c = Delim
  /\ IF ~inParam THEN inParam' = TRUE /\ UNCHANGED <<param, pending>>
     ELSE /\ pending' = IF param # <<>> /\ param \in DOMAIN Values
                          THEN <<Block(Values[param])>>
                          ELSE Placeholder \o <<Byte(c)>>
          /\ NoParam

TemplateWrite ==
  /\ Writing /\ mode = "template" /\ todo # <<>>
  /\ LET c == Head(todo) IN TemplateOther(c) \/ TemplateName(c) \/ TemplateDelim(c)
  /\ Taken(1)
  /\ UNCHANGED <<flushes, Printer>>

-----------------------------------------------------------------------------
(* Ending                                                                  *)

\* The TemplatePrinter goes (its destructor flushes, itself and the stream), then
\* endSend() deletes the ChunkPrinter, whose destructor flushes; a JSON document is
\* flushed the same way.
Finish ==
  /\ Writing /\ todo = <<>>
  /\ pending' = Placeholder \o <<Flush>>
  /\ NoParam
  /\ phase' = "ending"
  /\ UNCHANGED <<mode, input, todo, buf, holding, wire, failed, flushes>>

EndSend ==
  /\ phase = "ending" /\ pending = <<>>
  /\ Put(Terminator)
  /\ holding' = FALSE /\ phase' = "ended"
  /\ UNCHANGED <<mode, input, todo, pending, inParam, param, buf, failed, flushes>>

\* (a bug) the destructor ends the response once more
DestroyAgain ==
  /\ phase = "ended"
  /\ Put(Terminator)
  /\ phase' = "done"
  /\ UNCHANGED <<mode, input, todo, pending, inParam, param, buf, holding, failed, flushes>>

\* The destructor calls endSend() once more; without a buffer that does nothing.
Destroy ==
  /\ phase = "ended"
  /\ IF holding THEN Put(Terminator) ELSE UNCHANGED wire
  /\ phase' = "done"
  /\ UNCHANGED <<mode, input, todo, pending, inParam, param, buf, holding, failed, flushes>>

\* PsychicFileResponse: a read, a chunk; the first failure is the end, and so is the
\* read that returns nothing.
FileChunk(ok) ==
  /\ phase = "file" /\ todo # <<>>
  /\ LET n == Least(Size, Len(todo))
     IN  SendChunk(SubSeq(todo, 1, n), ok) /\ Taken(n)
  /\ IF ok THEN UNCHANGED <<phase, holding>> ELSE phase' = "done" /\ holding' = FALSE
  /\ UNCHANGED <<mode, input, pending, inParam, param, buf, flushes>>

FileEnd ==
  /\ phase = "file" /\ todo = <<>>
  /\ Put(Terminator)
  /\ holding' = FALSE /\ phase' = "done"
  /\ UNCHANGED <<mode, input, todo, pending, inParam, param, buf, failed, flushes>>

-----------------------------------------------------------------------------
(* Events.  An event has a message, or none (<<>>), an event name, or none *)
(* (""), and an id and a reconnect time, "0" for none.                      *)

\* generateEventMessage
EventText(e) ==
  LET Line(field, value) == <<field>> \o value \o <<EndOfLine>> IN
  (IF e.reconnect = "0" THEN <<>> ELSE Line("retry: ", <<e.reconnect>>))
    \o (IF e.id = "0" THEN <<>> ELSE Line("id: ", <<e.id>>))
    \o (IF e.event = "" THEN <<>> ELSE Line("event: ", <<e.event>>))
    \o (IF e.message = <<>> THEN <<>> ELSE Line("data: ", e.message[1]))
    \o <<EndOfLine>>

\* handleRequest: the head of the response; what becomes of it does not keep the client
\* from being registered.
BeginEvents(ok) ==
  /\ phase = "begin" /\ mode = "events"
  /\ (IF ok THEN Put(StreamHead) ELSE UNCHANGED wire)
  /\ failed' = ~ok /\ phase' = "events"
  /\ UNCHANGED <<mode, input, todo, pending, inParam, param, buf, holding, flushes>>

\* sendEvent: a time-out is tried again; a text that went out in part counts as sent.
SendEvent(n) ==
  /\ phase = "events" /\ todo # <<>>
  /\ LET text == EventText(Head(todo)) IN
       /\ n \in 1 .. Len(text)
       /\ Put(Text(SubSeq(text, 1, n)))
       /\ failed' = (failed \/ n < Len(text))
  /\ Taken(1)
  /\ UNCHANGED <<mode, input, pending, inParam, param, buf, holding, flushes, phase>>

\* The socket fails: the handler takes the client off its list.
LoseEvents ==
  /\ phase = "events" /\ todo # <<>>
  /\ failed' = TRUE /\ phase' = "done"
  /\ UNCHANGED <<mode, input, todo, pending, inParam, param, buf, holding, wire, flushes>>

OutNext ==
  \/ \E ok \in BOOLEAN : BeginEvents(ok)
  \/ \E n \in 1 .. MaxEventText : SendEvent(n)
  \/ LoseEvents
  \/ \E ok \in BOOLEAN : DoByte(ok) \/ DoBlock(ok) \/ DoFlush(ok) \/ DoCopy(ok) \/ FileChunk(ok)
  \/ \E allocated \in BOOLEAN : BeginStream(allocated) \/ BeginWhole(allocated)
  \/ \E n \in 1 .. Len(todo) : WriteBlock(n)
  \/ WriteByte \/ CopyFrom \/ FlushNow \/ TemplateWrite
  \/ Finish \/ EndSend \/ Destroy \/ FileEnd

OutSpec == OutInit /\ [][OutNext]_outVars

-----------------------------------------------------------------------------
(* Properties                                                              *)

\* What a template stands for, from its i-th symbol on: a known name between two
\* delimiters is its value, all other text stands for itself.
Expansion(s) ==
  LET Ends(i) == {j \in i + 1 .. Len(s) + 1 : j > Len(s) \/ s[j] \notin NameSymbols}
      NameEnd(i) == CHOOSE j \in Ends(i) : \A k \in Ends(i) : j <= k
      from[i \in 1 .. Len(s) + 1] ==
        IF i > Len(s) THEN <<>>
        ELSE IF s[i] # Delim THEN <<s[i]>> \o from[i + 1]
        ELSE LET j == NameEnd(i)
                 name == SubSeq(s, i + 1, j - 1)
             IN  IF j <= Len(s) /\ s[j] = Delim /\ Len(name) <= ParamMax
                   THEN (IF name \in DOMAIN Values THEN Values[name] ELSE SubSeq(s, i, j))
                          \o from[j + 1]
                   ELSE <<s[i]>> \o from[i + 1]
  IN  from

Meant == IF mode = "template" THEN Expansion(input)[1] ELSE input

\* A delimiter is followed by more name symbols than a parameter may have: there the
\* code loses one of them (TemplatePrinter.cpp:70-72).
Overlong ==
  \E i \in 1 .. Len(input) - ParamMax - 1 :
    input[i] = Delim /\ \A j \in i + 1 .. i + ParamMax + 1 : input[j] \in NameSymbols

Sent == FlattenSeq([i \in 1 .. Len(wire) |-> wire[i].data])
Kind(k) == {i \in 1 .. Len(wire) : wire[i].kind = k}

\* What a browser makes of an event stream, symbol by symbol.  An empty line dispatches
\* what has come of an event, if there was data; the id stays until there is a new one.
Fields == {"retry: ", "id: ", "event: ", "data: "}
AtLineStart(r) == r.field = "" /\ r.value = <<>>
EndLine(r) ==
  LET next == [r EXCEPT !.field = "", !.value = <<>>] IN
  CASE r.field = "data: " -> [next EXCEPT !.data = Append(@, r.value)]
    [] r.field = "event: " -> [next EXCEPT !.event = Head(r.value)]
    [] r.field = "id: " -> [next EXCEPT !.id = Head(r.value)]
    [] OTHER -> next
DispatchEvent(r) ==
  [r EXCEPT !.event = "", !.data = <<>>,
            !.heard = IF r.data = <<>> THEN @
                      ELSE Append(@, [event |-> r.event, data |-> r.data, id |-> r.id])]
ReadSymbol(r, c) ==
  CASE c = EndOfLine -> IF AtLineStart(r) THEN DispatchEvent(r) ELSE EndLine(r)
    [] c \in Fields /\ AtLineStart(r) -> [r EXCEPT !.field = c]
    [] OTHER -> [r EXCEPT !.value = Append(@, c)]
HeardIn(text) ==
  FoldLeft(ReadSymbol, [field |-> "", value |-> <<>>, event |-> "", data |-> <<>>, id |-> "0", heard |-> <<>>],
           text).heard

\* The events with a message, with the id that was the last one then.
EventsMeant(events) ==
  LET LastId(i) == LET k == SelectLastInSubSeq(events, 1, i, LAMBDA e : e.id # "0")
                   IN  IF k = 0 THEN "0" ELSE events[k].id
      one == [i \in DOMAIN events |->
                IF events[i].message = <<>> THEN <<>>
                ELSE <<[event |-> events[i].event, data |-> events[i].message, id |-> LastId(i)]>>]
  IN  FlattenSeq(one)

\* A message of several lines arrives as its first line, and a name is one line.
OneLine(e) == e.event # EndOfLine /\ \A i \in DOMAIN e.message : EndOfLine \notin Range(e.message[i])

\* As long as no chunk fails, what has left and what is buffered is the beginning of
\* the text that was meant, byte for byte, and a finished response is all of it; and of
\* an event stream a browser hears the events that have been sent, one for one.
TextArrives ==
  ~failed /\ ~(mode = "template" /\ Overlong) =>
    IF mode = "events"
    THEN (\A i \in DOMAIN input : OneLine(input[i])) =>
           HeardIn(Sent) = EventsMeant(SubSeq(input, 1, Len(input) - Len(todo)))
    ELSE /\ IsPrefix(Sent \o buf, Meant)
         /\ phase = "done" /\ Kind("error") = {} => Sent = Meant

\* An empty chunk would end the response before its time, and none is longer than the
\* buffer; without flush() calls every chunk but the last is full.
ChunksFit ==
  /\ \A i \in Kind("chunk") : Len(wire[i].data) \in 1 .. Size
  /\ flushes = 0 /\ ~failed =>
       \A i, j \in Kind("chunk") : i < j => Len(wire[i].data) = Size

\* The state has its types, and a response is ended exactly once and nothing follows its end, however often endSend()
\* is called; a file response even when a chunk fails.  (The other kinds go on writing
\* after a chunk that failed, and end the response once more.)
EndsOnce ==
  /\ OutTypeOK
  /\ ~failed \/ mode = "file" =>
       /\ \A i \in Kind("end") : i = Len(wire)
       /\ phase = "done" /\ mode # "events" => Kind("end") # {} \/ Len(wire) = 1

=============================================================================
