---------------------------- MODULE MCLifecycle ----------------------------
(* Lifecycle with three endpoints over the life of a server, two URIs, the   *)
(* methods GET and POST that it supports from the start and one it does not. *)
EXTENDS Lifecycle, TLC

CONSTANTS post, patch

MCMethods == {Get, post, patch}
MCSupported == <<Get, post>>

EndpointSymmetry == Permutations(Endpoints)

=============================================================================
