----------------------------- MODULE SendBudget -----------------------------
(***************************************************************************)
(* What a client's pending-frame counter promises (README.md:630): sends   *)
(* take slots of a budget, completions give them back, one at a time; no   *)
(* client has more than Limit out, and none gives back what it did not     *)
(* take.  A slot survives the client that took it.                         *)
(***************************************************************************)
EXTENDS Integers

CONSTANTS Clients, Limit

VARIABLE inFlight

Init == inFlight = [c \in Clients |-> 0]

Take(c) ==
  /\ inFlight[c] < Limit
  /\ inFlight' = [inFlight EXCEPT ![c] = @ + 1]

GiveBack(c) ==
  /\ inFlight[c] > 0
  /\ inFlight' = [inFlight EXCEPT ![c] = @ - 1]

Next == \E c \in Clients : Take(c) \/ GiveBack(c)

Spec == Init /\ [][Next]_inFlight

=============================================================================
