------------------------ MODULE MCPodCircularBuffer ------------------------
(* The ring with four slots and arguments up to one longer than the ring.  *)
EXTENDS PodCircularBuffer
=============================================================================
