-------------------------- MODULE MCTcpClientSend --------------------------
(* Two threads send through a ring of two bytes: one message fills it, so  *)
(* the other waits for room, in one call or after a first part.            *)
EXTENDS TcpClientSend

MCFits == {1, 2}
MCTooLong == {3}
MCParam == 1..3
=============================================================================
