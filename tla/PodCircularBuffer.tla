------------------------- MODULE PodCircularBuffer -------------------------
(***************************************************************************)
(* CPodCircularBuffer<T>: the ring in which CTCPClient::Send leaves bytes  *)
(* for the event loop thread.  Two positions in an array and two flags     *)
(* that tell "empty" from "full" when the positions are equal.  Every call *)
(* of the class runs under its owner's mutex, so each is one action here.  *)
(***************************************************************************)
EXTENDS Integers, Sequences

CONSTANTS T,        \* the elements (char in the client)
          Junk,     \* what new T[] leaves in a slot that was never written
          N,        \* m_nBufSize
          MaxCount  \* bound: the longest argument of a write or a read

ASSUME NAssumption == N \in Nat \ {0}
ASSUME CountAssumption == MaxCount \in Nat

VARIABLES m_bEmpty, m_bFull, m_nReadPos, m_nWritePos, m_pBuf,
          ret,      \* the value the last call returned
          arg,      \* what the last call, if a write, was given
          out       \* what the last call, if a read, copied to its caller's buffer

ring == <<m_bEmpty, m_bFull, m_nReadPos, m_nWritePos, m_pBuf>>
vars == <<m_bEmpty, m_bFull, m_nReadPos, m_nWritePos, m_pBuf, ret, arg, out>>

Index == 0 .. N - 1
Bufs == UNION {[1..n -> T] : n \in 0..MaxCount}

Init ==
    /\ m_bEmpty = TRUE
    /\ m_bFull = FALSE
    /\ m_nReadPos = 0
    /\ m_nWritePos = 0
    /\ m_pBuf = [i \in Index |-> Junk]
    /\ ret = 0
    /\ arg = <<>>
    /\ out = <<>>

(***************************************************************************)
(* size(), and memcpy in its two directions.                               *)
(***************************************************************************)
size ==
    IF m_bEmpty THEN 0
    ELSE IF m_bFull THEN N
    ELSE IF m_nReadPos < m_nWritePos THEN m_nWritePos - m_nReadPos
    ELSE N - m_nReadPos + m_nWritePos

\* A fault: the second part of a wrapped write copied from the beginning.
CopyInFromStart(dst, pos, buf, from, cnt) ==
    [i \in Index |-> IF pos <= i /\ i < pos + cnt THEN buf[(i - pos) + 1] ELSE dst[i]]

\* memcpy(&dst[pos], &buf[from], cnt): buf is a sequence, from counts from 0.
CopyIn(dst, pos, buf, from, cnt) ==
    [i \in Index |-> IF pos <= i /\ i < pos + cnt
                     THEN buf[from + (i - pos) + 1] ELSE dst[i]]

\* memcpy(.., &m_pBuf[pos], cnt) to the caller's buffer.
CopyOut(pos, cnt) == [i \in 1..cnt |-> m_pBuf[pos + i - 1]]

(***************************************************************************)
(* write: the three memory layouts.  Each sets m_nWritePos, m_bFull,       *)
(* m_pBuf and the returned count.                                          *)
(***************************************************************************)
\* A fault: the write that ends at the last slot does not wrap.
writeEmptyNoWrap(buf) ==
    LET n == IF N - m_nWritePos < Len(buf) THEN N - m_nWritePos ELSE Len(buf)
    IN /\ m_pBuf' = CopyIn(m_pBuf, m_nWritePos, buf, 0, n)
       /\ m_nWritePos' = m_nWritePos + n
       /\ ret' = n
       /\ UNCHANGED m_bFull

\* m_nReadPos == m_nWritePos: the buffer is empty.
writeEmpty(buf) ==
    LET count == Len(buf)
        left  == N - m_nWritePos
        wpos  == IF m_nReadPos > count - left THEN count - left ELSE m_nWritePos
    IN \/ /\ left > count
          /\ m_pBuf' = CopyIn(m_pBuf, m_nWritePos, buf, 0, count)
          /\ m_nWritePos' = m_nWritePos + count
          /\ ret' = count
          /\ UNCHANGED m_bFull
       \/ /\ left <= count
          /\ m_pBuf' = CopyIn(CopyIn(m_pBuf, m_nWritePos, buf, 0, left),
                              0, buf, left, wpos)
          /\ m_nWritePos' = wpos
          /\ m_bFull' = (wpos = m_nReadPos)
          /\ ret' = left + wpos

\* m_nReadPos < m_nWritePos: free space at both ends.
writeAhead(buf) ==
    LET count == Len(buf)
        left  == N - m_nWritePos
        wpos  == IF m_nReadPos >= count - left THEN count - left ELSE m_nReadPos
    IN \/ /\ left > count
          /\ m_pBuf' = CopyIn(m_pBuf, m_nWritePos, buf, 0, count)
          /\ m_nWritePos' = m_nWritePos + count
          /\ m_bFull' = (m_nReadPos = m_nWritePos')
          /\ ret' = count
       \/ /\ left <= count
          /\ m_pBuf' = CopyIn(CopyIn(m_pBuf, m_nWritePos, buf, 0, left),
                              0, buf, left, wpos)
          /\ m_nWritePos' = wpos
          /\ m_bFull' = (m_nReadPos = wpos)
          /\ ret' = left + wpos

\* A fault: closing the gap is not seen to fill the buffer.
writeBehindNeverFull(buf) ==
    LET left == m_nReadPos - m_nWritePos
        n    == IF left > Len(buf) THEN Len(buf) ELSE left
    IN /\ m_pBuf' = CopyIn(m_pBuf, m_nWritePos, buf, 0, n)
       /\ m_nWritePos' = m_nWritePos + n
       /\ ret' = n
       /\ UNCHANGED m_bFull

\* m_nWritePos < m_nReadPos: one gap; what does not fit is discarded.
writeBehind(buf) ==
    LET count == Len(buf)
        left  == m_nReadPos - m_nWritePos
        n     == IF left > count THEN count ELSE left
    IN /\ m_pBuf' = CopyIn(m_pBuf, m_nWritePos, buf, 0, n)
       /\ m_nWritePos' = m_nWritePos + n
       /\ m_bFull' = (m_nReadPos = m_nWritePos')
       /\ ret' = n

write(buf) ==
    /\ arg' = buf
    /\ out' = <<>>
    /\ \/ /\ Len(buf) = 0 \/ m_bFull
          /\ ret' = 0
          /\ UNCHANGED ring
       \/ /\ Len(buf) > 0 /\ ~m_bFull
          /\ m_bEmpty' = FALSE
          /\ UNCHANGED m_nReadPos
          /\ \/ m_nReadPos = m_nWritePos /\ writeEmpty(buf)
             \/ m_nReadPos < m_nWritePos /\ writeAhead(buf)
             \/ m_nWritePos < m_nReadPos /\ writeBehind(buf)

(***************************************************************************)
(* read: the three layouts again.  Each sets m_nReadPos and what is copied *)
(* out; the returned count is its length.                                  *)
(***************************************************************************)
\* m_nReadPos == m_nWritePos: the buffer is full.
readFull(count) ==
    LET left == N - m_nReadPos
        rpos == IF m_nWritePos > count - left THEN count - left ELSE m_nWritePos
    IN \/ /\ left > count
          /\ out' = CopyOut(m_nReadPos, count)
          /\ ret' = count
          /\ m_nReadPos' = m_nReadPos + count
       \/ /\ left <= count
          /\ out' = CopyOut(m_nReadPos, left) \o CopyOut(0, rpos)
          /\ ret' = left + rpos
          /\ m_nReadPos' = rpos

\* m_nReadPos < m_nWritePos: the unread data is contiguous.
readAhead(count) ==
    LET left == m_nWritePos - m_nReadPos
        c    == IF left > count THEN count ELSE left
    IN /\ out' = CopyOut(m_nReadPos, c)
       /\ ret' = c
       /\ m_nReadPos' = m_nReadPos + c

\* m_nWritePos < m_nReadPos: the unread data may wrap around.
readBehind(count) ==
    LET left == N - m_nReadPos
        rpos == IF m_nWritePos >= count - left THEN count - left ELSE m_nWritePos
    IN \/ /\ left > count
          /\ out' = CopyOut(m_nReadPos, count)
          /\ ret' = count
          /\ m_nReadPos' = m_nReadPos + count
       \/ /\ left <= count
          /\ out' = CopyOut(m_nReadPos, left) \o CopyOut(0, rpos)
          /\ ret' = left + rpos
          /\ m_nReadPos' = rpos

read(count) ==
    /\ arg' = <<>>
    /\ \/ /\ count <= 0 \/ m_bEmpty
          /\ ret' = 0
          /\ out' = <<>>
          /\ UNCHANGED ring
       \/ /\ count > 0 /\ ~m_bEmpty
          /\ m_bFull' = FALSE
          /\ UNCHANGED <<m_nWritePos, m_pBuf>>
          /\ \/ m_nReadPos = m_nWritePos /\ readFull(count)
             \/ m_nReadPos < m_nWritePos /\ readAhead(count)
             \/ m_nWritePos < m_nReadPos /\ readBehind(count)
          /\ m_bEmpty' = (m_nReadPos' = m_nWritePos)

clear ==
    /\ m_nReadPos' = 0
    /\ m_nWritePos' = 0
    /\ m_bEmpty' = TRUE
    /\ m_bFull' = FALSE
    /\ ret' = 0
    /\ arg' = <<>>
    /\ out' = <<>>
    /\ UNCHANGED m_pBuf

Next ==
    \/ \E buf \in Bufs : write(buf)
    \/ \E count \in 0..MaxCount : read(count)
    \/ clear

Spec == Init /\ [][Next]_vars

(***************************************************************************)
(* Properties.                                                             *)
(***************************************************************************)
\* The positions always index a slot: stricter than the asserts of write and
\* read, which allow a position of m_nBufSize, one past the array.
TypeOK ==
    /\ m_bEmpty \in BOOLEAN
    /\ m_bFull \in BOOLEAN
    /\ m_nReadPos \in Index
    /\ m_nWritePos \in Index
    /\ m_pBuf \in [Index -> T \cup {Junk}]
    /\ ret \in Nat

\* The flags tell apart the two meanings of equal positions, and agree with
\* them otherwise: write and read choose their layout by the positions alone.
FlagsAgree ==
    /\ ~(m_bEmpty /\ m_bFull)
    /\ (m_nReadPos = m_nWritePos) <=> (m_bEmpty \/ m_bFull)

\* The slot of the i-th oldest element.
Slot(i) == IF m_nReadPos + i - 1 < N THEN m_nReadPos + i - 1
                                     ELSE m_nReadPos + i - 1 - N

Contents == [i \in 1..size |-> m_pBuf[Slot(i)]]

Fifo == INSTANCE BoundedFifo WITH q <- Contents

\* The ring implements the bounded queue: no element is lost, duplicated,
\* reordered or read before it was written, whatever the wrap-around.
ImplementsFifo == Fifo!FifoSpec
=============================================================================
