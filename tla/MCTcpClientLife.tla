-------------------------- MODULE MCTcpClientLife --------------------------
EXTENDS TcpClientLife
=============================================================================
