------------------------------ MODULE MCWsSend ------------------------------
(***************************************************************************)
(* The small instance of WsSend: see ws_send.cfg.  Its liveness properties *)
(* rule out a symmetry reduction over clients and blocks.                  *)
(***************************************************************************)
EXTENDS WsSend

=============================================================================
