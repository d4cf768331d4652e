------------------------------ MODULE MCUpload ------------------------------
(* Small forms for Upload: a boundary of two letters, contents that look   *)
(* like the delimiter up to its last symbol, twice in a row, and chunks of *)
(* three bytes.                                                            *)
EXTENDS Upload

MCBoundary == <<"b", "c">>

Line1(type, name, filename) == [type |-> type, name |-> name, filename |-> filename]
MCHeaders ==
  [l \in {"field", "file", "type", "other"} |->
     CASE l = "field" -> Line1(FALSE, "n", None)
       [] l = "file"  -> Line1(FALSE, "m", "f")
       [] l = "type"  -> Line1(TRUE, None, None)
       [] OTHER       -> Line1(FALSE, None, None)]

Field(c) == [lines |-> <<"other", "field">>, name |-> "n", filename |-> None, file |-> FALSE, content |-> c]
File(c)  == [lines |-> <<"file", "type">>, name |-> "m", filename |-> "f", file |-> TRUE, content |-> c]
Typed(c) == [lines |-> <<"field", "type">>, name |-> "n", filename |-> None, file |-> TRUE, content |-> c]

\* Every way to guess wrong, and the guess that is right at once
Guesses == {SubSeq(Delimiter, 1, k) : k \in 0 .. Len(Delimiter) - 1}
Contents == {p \o q : p, q \in Guesses} \cup {Append(p, "b") : p \in Guesses \ {SubSeq(Delimiter, 1, 5)}}
Few == {<<>>, <<"x">>, <<"x", "x", "x">>, <<CR>>, <<CR, LF, Dash, Dash, "b", CR>>}

MCForms ==
  [multipart |->
     {<<File(c)>> : c \in Contents} \cup {<<Field(c)>> : c \in Guesses}
       \cup {<<File(c), File(d)>> : c, d \in Few} \cup {<<File(c), Field(d)>> : c, d \in Few}
       \cup {<<Field(<<"x">>), Field(c), Typed(<<"x">>)>> : c \in Few},
   body |->
     {<<Field(c)>> : c \in Contents} \cup {<<File(<<"x">>), Field(d)>> : d \in {<<>>, <<"x">>}}]

MCRaw == {[i \in 1 .. n |-> i] : n \in 0 .. 7}

=============================================================================
