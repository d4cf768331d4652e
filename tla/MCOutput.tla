------------------------------ MODULE MCOutput ------------------------------
(* Small texts for Output: every template of up to five symbols, texts     *)
(* around one and two buffers of three bytes, and every one or two events. *)
EXTENDS Output, TLC

CONSTANT TemplateLength

Numbered == {[i \in 1 .. n |-> i] : n \in 0 .. 8}

Events ==
  [message: {<<>>, << <<>> >>, << <<"x">> >>, << <<"x", EndOfLine, "y">> >>},
   event: {"", "e"}, id: {"0", "1", "2"}, reconnect: {"0", "9"}]

MCInputs ==
  [m \in Modes |-> CASE m = "template" -> BoundedSeq({"%", "a", "."}, TemplateLength)
                     [] m = "events" -> BoundedSeq(Events, 2)
                     [] OTHER -> Numbered]

\* "a" is known, "aa" is not
MCValues == (<<"a">> :> <<"v", "w">>)

=============================================================================
