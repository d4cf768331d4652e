----------------------------- MODULE Multipart ------------------------------
(***************************************************************************)
(* The parser of multipart form bodies, MultipartProcessor.cpp: a machine  *)
(* that is fed one byte at a time, recognises the delimiter by guessing,   *)
(* and gives the guessed bytes back to the content when the guess fails.   *)
(*                                                                         *)
(* A byte is a symbol.  The text of one header line is one symbol too:     *)
(* Headers says what the line means to the parser.  The parser's members   *)
(* are the fields of one record; "out" is what it has handed on: a         *)
(* parameter, or a call of the upload callback.                            *)
(***************************************************************************)
EXTENDS Integers, Sequences, SequencesExt

CONSTANTS
  Boundary,     \* the boundary of the Content-Type header, a sequence of symbols
  ChunkSize,    \* FILE_CHUNK_SIZE
  Headers,      \* header line -> [type, name, filename]; None where it says nothing
  None

CR == "cr"
LF == "lf"
Dash == "-"

IsText(s) == s \in Seq(ToSet(s))

\* The code counts the symbols of the boundary in a uint8_t.
ASSUME BoundaryAssumption ==
  IsText(Boundary) /\ Boundary # <<>> /\ CR \notin ToSet(Boundary) /\ Len(Boundary) < 256
ASSUME ChunkAssumption == ChunkSize \in Nat \ {0}
ASSUME HeadersAssumption ==
  /\ CR \notin DOMAIN Headers /\ LF \notin DOMAIN Headers
  /\ \A l \in DOMAIN Headers : Headers[l].type \in BOOLEAN

\* The constructor
NewParser ==
  [state |-> "EXPECT_BOUNDARY", parsed |-> 0, temp |-> <<>>, bpos |-> 0,
   size |-> 0, name |-> None, filename |-> None, value |-> <<>>, isFile |-> FALSE,
   buf |-> <<>>, held |-> FALSE, out |-> <<>>]

Error(P) == [P EXCEPT !.state = "PARSE_ERROR"]

\* One call of the upload callback with what the buffer holds.
Upload(P, last) ==
  [P EXCEPT !.out = Append(@, [what |-> "upload", name |-> P.filename, data |-> P.buf,
                               index |-> P.size - Len(P.buf), last |-> last]),
            !.buf = <<>>]

\* itemWriteByte and _handleUploadByte: the buffer goes out when it is full or this
\* is the last byte of the request.
WriteByte(P, b, last) ==
  IF ~P.isFile
    THEN [P EXCEPT !.size = @ + 1, !.value = Append(@, b)]
    ELSE LET Q == [P EXCEPT !.size = @ + 1, !.buf = Append(@, b)]
         IN  IF last \/ Len(Q.buf) = ChunkSize THEN Upload(Q, last) ELSE Q

WaitForReturn(P, b, last) ==
  IF b = CR THEN [P EXCEPT !.state = "EXPECT_FEED1"] ELSE WriteByte(P, b, last)

\* The guessed bytes are content after all.
Given(P, guessed, last) ==
  LET given[i \in 0 .. Len(guessed)] ==
        IF i = 0 THEN [P EXCEPT !.state = "WAIT_FOR_RETURN1"]
        ELSE WriteByte(given[i - 1], guessed[i], last)
  IN  given[Len(guessed)]

\* (a bug) b is taken as content without being looked at again
GiveBackBlindly(P, guessed, b, last) == WriteByte(Given(P, guessed, last), b, last)

\* The guess was wrong: the guessed bytes are content, and b is looked at again.
GiveBack(P, guessed, b, last) == WaitForReturn(Given(P, guessed, last), b, last)

\* The first line: "--", the boundary, CR, LF.  The subtractions of the code are
\* unsigned, so they fit no position before the third byte.
ExpectBoundary(P, b) ==
  LET at == P.parsed - 2
      n == Len(Boundary)
  IN  IF P.parsed < 2 THEN (IF b = Dash THEN P ELSE Error(P))
      ELSE IF at < n THEN (IF Boundary[at + 1] = b THEN P ELSE Error(P))
      ELSE IF at = n THEN (IF b = CR THEN P ELSE Error(P))
      ELSE IF b = LF THEN [P EXCEPT !.state = "PARSE_HEADERS", !.isFile = FALSE]
      ELSE Error(P)

\* What a complete header line tells the parser.
TakeHeader(P, line) ==
  LET h == Headers[line]
  IN  [P EXCEPT !.name = IF h.name # None THEN h.name ELSE @,
                !.filename = IF h.filename # None THEN h.filename ELSE @,
                !.isFile = @ \/ h.type \/ h.filename # None,
                !.temp = <<>>]

\* The empty line: the item's content starts, with a new buffer if it is a file.
StartItem(P, allocated) ==
  LET Q == [P EXCEPT !.state = "WAIT_FOR_RETURN1", !.size = 0, !.value = <<>>]
  IN  IF ~P.isFile THEN Q
      ELSE IF allocated THEN [Q EXCEPT !.held = TRUE, !.buf = <<>>]
      ELSE Error([Q EXCEPT !.held = FALSE])

ParseHeaders(P, b, allocated) ==
  IF b = CR THEN P
  ELSE IF b # LF THEN [P EXCEPT !.temp = Append(@, b)]
  ELSE IF P.temp # <<>> THEN TakeHeader(P, P.temp[1])
  ELSE StartItem(P, allocated)

ExpectFeed1(P, b, last) ==
  IF b = LF THEN [P EXCEPT !.state = "EXPECT_DASH1"] ELSE GiveBack(P, <<CR>>, b, last)

ExpectDash1(P, b, last) ==
  IF b = Dash THEN [P EXCEPT !.state = "EXPECT_DASH2"] ELSE GiveBack(P, <<CR, LF>>, b, last)

ExpectDash2(P, b, last) ==
  IF b = Dash THEN [P EXCEPT !.state = "BOUNDARY_OR_DATA", !.bpos = 0]
              ELSE GiveBack(P, <<CR, LF, Dash>>, b, last)

Delimiter == <<CR, LF, Dash, Dash>> \o Boundary

\* (a bug) the buffer of an empty file is kept
FinishItemKeepsBuffer(P) ==
  LET Q == [P EXCEPT !.state = "DASH3_OR_RETURN2"]
      Param(R, data) == [R EXCEPT !.out = Append(@, [what |-> "param", name |-> P.name,
                                                     data |-> data, index |-> P.size, last |-> TRUE])]
  IN  IF ~P.isFile THEN Param(Q, P.value)
      ELSE IF P.size > 0 THEN [Param(Upload(Q, TRUE), <<P.filename>>) EXCEPT !.held = FALSE]
      ELSE Q

\* The boundary is complete: a field becomes a parameter, a file that is not empty
\* gets its last upload and a parameter, and the buffer goes.
FinishItem(P) ==
  LET Q == [P EXCEPT !.state = "DASH3_OR_RETURN2"]
      Param(R, data) == [R EXCEPT !.out = Append(@, [what |-> "param", name |-> P.name,
                                                     data |-> data, index |-> P.size, last |-> TRUE])]
  IN  IF ~P.isFile THEN Param(Q, P.value)
      ELSE [(IF P.size > 0 THEN Param(Upload(Q, TRUE), <<P.filename>>) ELSE Q) EXCEPT !.held = FALSE]

BoundaryOrData(P, b, last) ==
  IF Boundary[P.bpos + 1] # b
    THEN GiveBack(P, SubSeq(Delimiter, 1, 4 + P.bpos), b, last)
  ELSE IF P.bpos = Len(Boundary) - 1 THEN FinishItem(P)
  ELSE [P EXCEPT !.bpos = @ + 1]

\* length: Content-Length of the request
Dash3OrReturn2(P, b, last, length) ==
  IF b = Dash /\ length # P.parsed + 4 THEN Error(P)
  ELSE IF b = CR THEN [P EXCEPT !.state = "EXPECT_FEED2"]
  ELSE IF b = Dash THEN [P EXCEPT !.state = "PARSING_FINISHED"]
  ELSE GiveBack(P, Delimiter, b, last)

ExpectFeed2(P, b, last) ==
  IF b = LF THEN [P EXCEPT !.state = "PARSE_HEADERS", !.isFile = FALSE]
            ELSE GiveBack(P, Delimiter \o <<CR>>, b, last)

\* _parseMultipartPostByte
Parse(P, b, last, length, allocated) ==
  CASE P.state = "PARSE_ERROR"      -> [P EXCEPT !.held = FALSE]
    [] P.state = "WAIT_FOR_RETURN1" -> WaitForReturn(P, b, last)
    [] P.state = "EXPECT_BOUNDARY"  -> ExpectBoundary(P, b)
    [] P.state = "PARSE_HEADERS"    -> ParseHeaders(P, b, allocated)
    [] P.state = "EXPECT_FEED1"     -> ExpectFeed1(P, b, last)
    [] P.state = "EXPECT_DASH1"     -> ExpectDash1(P, b, last)
    [] P.state = "EXPECT_DASH2"     -> ExpectDash2(P, b, last)
    [] P.state = "BOUNDARY_OR_DATA" -> BoundaryOrData(P, b, last)
    [] P.state = "DASH3_OR_RETURN2" -> Dash3OrReturn2(P, b, last, length)
    [] P.state = "EXPECT_FEED2"     -> ExpectFeed2(P, b, last)
    [] OTHER                        -> P

ParseByte(P, b, last, length, allocated) ==
  [Parse(P, b, last, length, allocated) EXCEPT !.parsed = @ + 1]

=============================================================================
