----------------------------- MODULE MCWsReceive -----------------------------
(* Two workers beside the httpd task, three connections, every build, and room  *)
(* for a second mutex.                                                        *)
EXTENDS WsReceive
=============================================================================
