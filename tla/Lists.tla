------------------------------- MODULE Lists --------------------------------
(* What the library does with its std::lists.                              *)
EXTENDS Integers, Sequences

\* std::list::remove, remove_if and erase in a loop: the elements of s that are not in S,
\* in their order
Without(s, S) ==
  LET kept[i \in 0 .. Len(s)] ==
        IF i = 0 THEN <<>>
        ELSE IF s[i] \in S THEN kept[i - 1]
        ELSE Append(kept[i - 1], s[i])
  IN  kept[Len(s)]

=============================================================================
