-------------------------- MODULE MCThreadMsgBase --------------------------
(* Two senders, three node addresses: more messages than addresses, so     *)
(* every interleaving of push, walk and reuse of an address is reached.    *)
EXTENDS ThreadMsgBase
=============================================================================
