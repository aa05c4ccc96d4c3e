---------------------------- MODULE BoundedFifo ----------------------------
(***************************************************************************)
(* What the send buffer of a CTCPClient promises: a first-in first-out     *)
(* queue of at most N elements.  A write stores the longest prefix of its  *)
(* argument that fits and returns its length; a read removes and returns   *)
(* the oldest elements, as many as were asked for or as there are.         *)
(***************************************************************************)
EXTENDS Integers, Sequences

CONSTANTS T,    \* the elements that are stored
          N,    \* the capacity
          MaxCount  \* bound: the longest argument of a write or a read

VARIABLES q,    \* the stored elements, oldest first
          ret,  \* what the last call returned
          arg,  \* what the last call, if a write, was given
          out   \* what the last call, if a read, copied to its caller

fifoVars == <<q, ret, arg, out>>

Least(a, b) == IF a <= b THEN a ELSE b

FifoInit == q = <<>> /\ ret = 0 /\ arg = <<>> /\ out = <<>>

FifoWrite(buf) ==
    LET n == Least(Len(buf), N - Len(q)) IN
    /\ q' = q \o SubSeq(buf, 1, n)
    /\ ret' = n
    /\ arg' = buf
    /\ out' = <<>>

FifoRead(count) ==
    LET n == Least(count, Len(q)) IN
    /\ out' = SubSeq(q, 1, n)
    /\ q' = SubSeq(q, n + 1, Len(q))
    /\ ret' = n
    /\ arg' = <<>>

FifoClear == q' = <<>> /\ ret' = 0 /\ arg' = <<>> /\ out' = <<>>

FifoNext ==
    \/ \E n \in 0..MaxCount : \E buf \in [1..n -> T] : FifoWrite(buf)
    \/ \E n \in 0..MaxCount : FifoRead(n)
    \/ FifoClear

FifoSpec == FifoInit /\ [][FifoNext]_fifoVars
=============================================================================
