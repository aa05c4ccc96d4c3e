---------------------------- MODULE MCTcpServer ----------------------------
(* Three connections come and go over three contexts, of which one is kept *)
(* for reuse and the next are freed; the server can be started twice.      *)
EXTENDS TcpServer

MCCtx == 1..3
=============================================================================
