------------------------------ MODULE WebText -------------------------------
(***************************************************************************)
(* Texts as the library takes them apart: percent-encoding, the parameters *)
(* of a query or of a form's body, and paths.  A text is a sequence of     *)
(* characters; the characters are the letters, the digits and those that   *)
(* mean something to a URL.                                                *)
(***************************************************************************)
EXTENDS Naturals, Sequences, SequencesExt

LowerHex == <<"a", "b", "c", "d", "e", "f">>
UpperHex == <<"A", "B", "C", "D", "E", "F">>
Digits == {"0", "1", "2", "3", "4", "5", "6", "7", "8", "9"}
HexDigits == Digits \cup Range(LowerHex) \cup Range(UpperHex)

\* The two digits urlEncode writes for a character that is not alphanumeric
Coded == {" ", "%", "&", "+", "/", "=", ";", "?"}
Code(c) ==
  CASE c = " " -> <<"2", "0">> [] c = "%" -> <<"2", "5">> [] c = "&" -> <<"2", "6">>
    [] c = "+" -> <<"2", "B">> [] c = "/" -> <<"2", "F">> [] c = "=" -> <<"3", "D">>
    [] c = ";" -> <<"3", "B">> [] c = "?" -> <<"3", "F">>

Escaped(c) == <<"%">> \o Code(c)

urlEncode(s) == FlattenSeq([i \in DOMAIN s |-> IF s[i] \in Coded THEN Escaped(s[i]) ELSE <<s[i]>>])

\* hexVal takes small letters too.
Upper(d) == IF d \in Range(LowerHex) THEN UpperHex[CHOOSE i \in 1 .. 6 : LowerHex[i] = d] ELSE d

\* The character two digits stand for; "other" is one no text here is made of.
Char(high, low) ==
  IF \E c \in Coded : Code(c) = <<Upper(high), Upper(low)>>
  THEN CHOOSE c \in Coded : Code(c) = <<Upper(high), Upper(low)>>
  ELSE "other"

IsEscape(s, i) ==
  s[i] = "%" /\ i + 2 <= Len(s) /\ s[i + 1] \in HexDigits /\ s[i + 2] \in HexDigits

urlDecode(s) ==
  LET rest[i \in 1 .. Len(s) + 1] ==
        IF i > Len(s) THEN <<>>
        ELSE IF IsEscape(s, i) THEN <<Char(s[i + 1], s[i + 2])>> \o rest[i + 3]
        ELSE <<IF s[i] = "+" THEN " " ELSE s[i]>> \o rest[i + 1]
  IN  rest[1]

\* The text up to the first c, and the text behind it
Before(s, c) == LET k == SelectInSeq(s, LAMBDA x : x = c) IN IF k = 0 THEN s ELSE SubSeq(s, 1, k - 1)
After(s, c) == LET k == SelectInSeq(s, LAMBDA x : x = c) IN IF k = 0 THEN <<>> ELSE SubSeq(s, k + 1, Len(s))

\* PsychicRequest::_addParams, as it would be if it decoded before it looked for "="
ParamsDecodedFirst(s, post) ==
  LET from[i \in 1 .. Len(s) + 2] ==
        IF i > Len(s) THEN <<>>
        ELSE LET pair == Before(SubSeq(s, i, Len(s)), "&") IN
             <<[name |-> Before(urlDecode(pair), "="), value |-> After(urlDecode(pair), "="), post |-> post]>>
               \o from[i + Len(pair) + 1]
  IN  from[1]

\* PsychicRequest::_addParams: a pair between ampersands, its name before the first "="
Params(s, post) ==
  LET from[i \in 1 .. Len(s) + 2] ==
        IF i > Len(s) THEN <<>>
        ELSE LET pair == Before(SubSeq(s, i, Len(s)), "&") IN
             <<[name |-> urlDecode(Before(pair, "=")), value |-> urlDecode(After(pair, "=")), post |-> post]>>
               \o from[i + Len(pair) + 1]
  IN  from[1]

\* What a browser makes of the fields of a form
FormValue(s) ==
  FlattenSeq([i \in DOMAIN s |-> IF s[i] = " " THEN <<"+">>
                                 ELSE IF s[i] \in Coded THEN Escaped(s[i]) ELSE <<s[i]>>])
FormText(fields) ==
  FlattenSeq([i \in DOMAIN fields |->
    (IF i = 1 THEN <<>> ELSE <<"&">>) \o FormValue(fields[i].name) \o <<"=">> \o FormValue(fields[i].value)])

\* What a browser makes of a path
PathText(s) ==
  FlattenSeq([i \in DOMAIN s |-> IF s[i] \in Coded \ {"/"} THEN Escaped(s[i]) ELSE <<s[i]>>])

\* PsychicStaticFileHandler::_initPath of a URI or a path: "/" in front, none behind
WithSlash(s) == IF s = <<>> \/ s[1] # "/" THEN <<"/">> \o s ELSE s
Trimmed(s) == IF Last(WithSlash(s)) = "/" THEN Front(WithSlash(s)) ELSE WithSlash(s)

=============================================================================
