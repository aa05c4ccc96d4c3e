---------------------- MODULE PodCircularBufferProofs ----------------------
(***************************************************************************)
(* The ring for every capacity N, every element set T and every bound on   *)
(* the arguments: its positions stay in the array, its flags agree with    *)
(* them, and it implements the bounded queue of BoundedFifo.               *)
(***************************************************************************)
EXTENDS PodCircularBuffer, SequenceTheorems, TLAPS

\* The arguments of write are sequences of elements.
LEMMA BufsAreSequences ==
    ASSUME NEW buf \in Bufs
    PROVE  /\ buf \in Seq(T)
           /\ Len(buf) \in Nat
           /\ buf = [i \in 1..Len(buf) |-> buf[i]]
           /\ \A i \in 1..Len(buf) : buf[i] \in T
           /\ Len(buf) \in 0..MaxCount
           /\ buf \in [1..Len(buf) -> T]
  <1>1. PICK n \in 0..MaxCount : buf \in [1..n -> T]
    BY DEF Bufs
  <1>2. n \in Nat
    BY CountAssumption
  <1> QED
    BY <1>1, <1>2, CountAssumption

\* The facts about the stored positions that every layout of write and read
\* relies on.
Inv == TypeOK /\ FlagsAgree

\* The initial state of the constructor satisfies them.
LEMMA InitInv == Init => Inv
  <1> SUFFICES ASSUME Init PROVE Inv
    OBVIOUS
  <1>1. m_bEmpty /\ ~m_bFull /\ m_bEmpty \in BOOLEAN /\ m_bFull \in BOOLEAN
    BY Zenon DEF Init
  <1>2. /\ m_nReadPos = 0 /\ m_nWritePos = 0 /\ ret = 0
        /\ m_pBuf \in [Index -> T \cup {Junk}]
    BY DEF Init
  <1> QED
    BY <1>1, <1>2, NAssumption DEF Inv, TypeOK, FlagsAgree, Index

\* memcpy into the array leaves an array of elements.
LEMMA CopyInType ==
    ASSUME NEW dst \in [Index -> T \cup {Junk}], NEW buf \in Bufs,
           NEW pos \in Nat, NEW from \in Nat, NEW cnt \in Nat,
           from + cnt <= Len(buf)
    PROVE  CopyIn(dst, pos, buf, from, cnt) \in [Index -> T \cup {Junk}]
  <1> SUFFICES ASSUME NEW i \in Index, pos <= i, i < pos + cnt
               PROVE  buf[from + (i - pos) + 1] \in T
    BY DEF CopyIn
  <1>1. i \in Int
    BY NAssumption DEF Index
  <1>2. from + (i - pos) + 1 \in 1..Len(buf)
    BY <1>1, BufsAreSequences
  <1> QED
    BY <1>2, BufsAreSequences

\* write preserves the invariant, layout by layout.
LEMMA WriteInv ==
    ASSUME Inv, NEW buf \in Bufs, write(buf)
    PROVE  Inv'
  <1> USE NAssumption DEF Index
  <1>0. Len(buf) \in Nat
    BY BufsAreSequences
  <1>1. CASE (Len(buf) = 0 \/ m_bFull) /\ ret' = 0 /\ UNCHANGED ring
    BY <1>1 DEF Inv, TypeOK, FlagsAgree, ring
  <1>2. CASE /\ Len(buf) > 0 /\ ~m_bFull
             /\ m_bEmpty' = FALSE /\ UNCHANGED m_nReadPos
             /\ m_nReadPos = m_nWritePos /\ writeEmpty(buf)
    <2> DEFINE left == N - m_nWritePos
               wpos == IF m_nReadPos > Len(buf) - left THEN Len(buf) - left ELSE m_nWritePos
    <2>1. CASE left > Len(buf)
      <3>1. m_pBuf' = CopyIn(m_pBuf, m_nWritePos, buf, 0, Len(buf))
        BY <1>0, <1>2, <2>1 DEF writeEmpty, Inv, TypeOK
      <3>2. m_pBuf' \in [Index -> T \cup {Junk}]
        BY <1>0, <3>1, CopyInType DEF Inv, TypeOK
      <3> QED
        BY <1>0, <1>2, <2>1, <3>2 DEF writeEmpty, Inv, TypeOK, FlagsAgree
    <2>2. CASE left <= Len(buf)
      <3>0. wpos \in Nat /\ left \in Nat /\ left + wpos <= Len(buf) /\ wpos \in 0..N-1
        BY <1>0, <1>2, <2>2 DEF Inv, TypeOK
      <3>1. m_pBuf' = CopyIn(CopyIn(m_pBuf, m_nWritePos, buf, 0, left), 0, buf, left, wpos)
        BY <1>0, <1>2, <2>2 DEF writeEmpty, Inv, TypeOK
      <3>2. CopyIn(m_pBuf, m_nWritePos, buf, 0, left) \in [Index -> T \cup {Junk}]
        BY <1>0, <3>0, CopyInType DEF Inv, TypeOK
      <3>3. m_pBuf' \in [Index -> T \cup {Junk}]
        BY <1>0, <3>0, <3>1, <3>2, CopyInType
      <3>4. m_nWritePos' = wpos /\ m_bFull' = (wpos = m_nReadPos) /\ ret' = left + wpos
        BY <1>0, <1>2, <2>2 DEF writeEmpty, Inv, TypeOK
      <3>5. ~m_bEmpty' /\ m_nReadPos' = m_nReadPos
        BY <1>2
      <3> HIDE DEF wpos, left
      <3> QED
        BY <3>0, <3>3, <3>4, <3>5 DEF Inv, TypeOK, FlagsAgree
    <2> QED
      BY <1>0, <2>1, <2>2 DEF Inv, TypeOK
  <1>3. CASE /\ Len(buf) > 0 /\ ~m_bFull
             /\ m_bEmpty' = FALSE /\ UNCHANGED m_nReadPos
             /\ m_nReadPos < m_nWritePos /\ writeAhead(buf)
    <2> DEFINE left == N - m_nWritePos
               wpos == IF m_nReadPos >= Len(buf) - left THEN Len(buf) - left ELSE m_nReadPos
    <2>1. CASE left > Len(buf)
      <3>1. m_pBuf' = CopyIn(m_pBuf, m_nWritePos, buf, 0, Len(buf))
        BY <1>0, <1>3, <2>1 DEF writeAhead, Inv, TypeOK
      <3>2. m_pBuf' \in [Index -> T \cup {Junk}]
        BY <1>0, <3>1, CopyInType DEF Inv, TypeOK
      <3> QED
        BY <1>0, <1>3, <2>1, <3>2 DEF writeAhead, Inv, TypeOK, FlagsAgree
    <2>2. CASE left <= Len(buf)
      <3>0. wpos \in Nat /\ left \in Nat /\ left + wpos <= Len(buf) /\ wpos \in 0..N-1
        BY <1>0, <1>3, <2>2 DEF Inv, TypeOK
      <3>1. m_pBuf' = CopyIn(CopyIn(m_pBuf, m_nWritePos, buf, 0, left), 0, buf, left, wpos)
        BY <1>0, <1>3, <2>2 DEF writeAhead, Inv, TypeOK
      <3>2. CopyIn(m_pBuf, m_nWritePos, buf, 0, left) \in [Index -> T \cup {Junk}]
        BY <1>0, <3>0, CopyInType DEF Inv, TypeOK
      <3>3. m_pBuf' \in [Index -> T \cup {Junk}]
        BY <1>0, <3>0, <3>1, <3>2, CopyInType
      <3>4. m_nWritePos' = wpos /\ m_bFull' = (m_nReadPos = wpos) /\ ret' = left + wpos
        BY <1>0, <1>3, <2>2 DEF writeAhead, Inv, TypeOK
      <3>5. ~m_bEmpty' /\ m_nReadPos' = m_nReadPos
        BY <1>3
      <3> HIDE DEF wpos, left
      <3> QED
        BY <3>0, <3>3, <3>4, <3>5 DEF Inv, TypeOK, FlagsAgree
    <2> QED
      BY <1>0, <2>1, <2>2 DEF Inv, TypeOK
  <1>4. CASE /\ Len(buf) > 0 /\ ~m_bFull
             /\ m_bEmpty' = FALSE /\ UNCHANGED m_nReadPos
             /\ m_nWritePos < m_nReadPos /\ writeBehind(buf)
    <2> DEFINE left == m_nReadPos - m_nWritePos
               n == IF left > Len(buf) THEN Len(buf) ELSE left
    <2>1. n \in Nat /\ n <= Len(buf) /\ m_nWritePos + n <= m_nReadPos
      BY <1>0, <1>4 DEF Inv, TypeOK
    <2>2. /\ m_pBuf' = CopyIn(m_pBuf, m_nWritePos, buf, 0, n)
          /\ m_nWritePos' = m_nWritePos + n
          /\ m_bFull' = (m_nReadPos = m_nWritePos + n) /\ ret' = n
      BY <1>4 DEF writeBehind
    <2>3. m_pBuf' \in [Index -> T \cup {Junk}]
      BY <1>0, <2>1, <2>2, CopyInType DEF Inv, TypeOK
    <2>4. /\ m_bEmpty' \in BOOLEAN /\ m_bFull' \in BOOLEAN /\ ~m_bEmpty'
          /\ m_bFull' <=> (m_nReadPos = m_nWritePos + n)
          /\ m_nReadPos' = m_nReadPos
      BY <1>4, <2>2, Zenon
    <2>5. m_nReadPos \in Index /\ m_nWritePos \in Index
      BY DEF Inv, TypeOK
    <2>6. /\ m_nWritePos + n \in Index \/ m_nWritePos + n = m_nReadPos
          /\ m_nWritePos' = m_nWritePos + n /\ ret' = n
      BY <2>1, <2>2, <2>5
    <2>7. m_nWritePos' \in Index
      BY <2>5, <2>6
    <2>8. TypeOK'
      BY <2>1, <2>3, <2>4, <2>5, <2>6, <2>7, Zenon DEF TypeOK
    <2>9. FlagsAgree'
      BY <2>4, <2>6, Zenon DEF FlagsAgree
    <2> QED
      BY <2>8, <2>9 DEF Inv
  <1> QED
    BY <1>1, <1>2, <1>3, <1>4 DEF write

\* read preserves the invariant, layout by layout.
LEMMA ReadInv ==
    ASSUME Inv, NEW count \in Nat, read(count)
    PROVE  Inv'
  <1> USE NAssumption DEF Index
  <1>1. CASE (count <= 0 \/ m_bEmpty) /\ ret' = 0 /\ UNCHANGED ring
    BY <1>1 DEF Inv, TypeOK, FlagsAgree, ring
  <1>2. CASE /\ count > 0 /\ ~m_bEmpty
             /\ m_bFull' = FALSE
             /\ UNCHANGED <<m_nWritePos, m_pBuf>>
             /\ \/ m_nReadPos = m_nWritePos /\ readFull(count)
                \/ m_nReadPos < m_nWritePos /\ readAhead(count)
                \/ m_nWritePos < m_nReadPos /\ readBehind(count)
             /\ m_bEmpty' = (m_nReadPos' = m_nWritePos)
    <2>1. /\ m_bEmpty' \in BOOLEAN /\ m_bFull' \in BOOLEAN /\ ~m_bFull'
          /\ m_bEmpty' <=> (m_nReadPos' = m_nWritePos)
          /\ m_nWritePos' = m_nWritePos /\ m_pBuf' = m_pBuf
      BY <1>2, Zenon
    <2>2. m_nReadPos' \in Index /\ ret' \in Nat
      <3>1. m_nReadPos \in Index /\ m_nWritePos \in Index
        BY DEF Inv, TypeOK
      <3>2. CASE m_nReadPos = m_nWritePos /\ readFull(count)
        BY <3>1, <3>2 DEF readFull
      <3>3. CASE m_nReadPos < m_nWritePos /\ readAhead(count)
        BY <3>1, <3>3 DEF readAhead
      <3>4. CASE m_nWritePos < m_nReadPos /\ readBehind(count)
        BY <3>1, <3>4 DEF readBehind
      <3> QED
        BY <1>2, <3>2, <3>3, <3>4, Zenon
    <2>3. m_nWritePos \in Index /\ m_pBuf \in [Index -> T \cup {Junk}]
      BY DEF Inv, TypeOK
    <2>4. TypeOK'
      BY <2>1, <2>2, <2>3, Zenon DEF TypeOK
    <2>5. FlagsAgree'
      BY <2>1, Zenon DEF FlagsAgree
    <2> QED
      BY <2>4, <2>5 DEF Inv
  <1> QED
    BY <1>1, <1>2, Zenon DEF read

\* clear returns to the empty ring.
LEMMA ClearInv ==
    ASSUME Inv, clear
    PROVE  Inv'
  <1>1. /\ m_bEmpty' /\ ~m_bFull'
        /\ m_bEmpty' \in BOOLEAN /\ m_bFull' \in BOOLEAN
    BY Zenon DEF clear
  <1>2. /\ m_nReadPos' = 0 /\ m_nWritePos' = 0 /\ ret' = 0
        /\ m_pBuf' = m_pBuf
    BY DEF clear
  <1> QED
    BY <1>1, <1>2, NAssumption DEF Inv, TypeOK, FlagsAgree, Index

\* The invariant is inductive.
LEMMA NextInv == Inv /\ [Next]_vars => Inv'
  <1> SUFFICES ASSUME Inv, [Next]_vars PROVE Inv'
    OBVIOUS
  <1>1. CASE \E buf \in Bufs : write(buf)
    BY <1>1, WriteInv
  <1>2. CASE \E count \in 0..MaxCount : read(count)
    <2>1. PICK count \in 0..MaxCount : read(count)
      BY <1>2
    <2>2. count \in Nat
      BY CountAssumption
    <2> QED
      BY <2>1, <2>2, ReadInv
  <1>3. CASE clear
    BY <1>3, ClearInv
  <1>4. CASE UNCHANGED vars
    BY <1>4 DEF vars, Inv, TypeOK, FlagsAgree
  <1> QED
    BY <1>1, <1>2, <1>3, <1>4 DEF Next

\* For every capacity, the positions of the ring index a slot and its slots
\* hold elements: no memcpy of write or read leaves the array.
THEOREM TypeCorrect == Spec => []TypeOK
  <1>1. Inv => TypeOK
    BY DEF Inv
  <1> QED
    BY <1>1, InitInv, NextInv, PTL DEF Spec

\* For every capacity, the empty and full flags agree with the positions.
THEOREM FlagsCorrect == Spec => []FlagsAgree
  <1>1. Inv => FlagsAgree
    BY DEF Inv
  <1> QED
    BY <1>1, InitInv, NextInv, PTL DEF Spec

(***************************************************************************)
(* Refinement.  The sequence reasoning is done once for an append and once *)
(* for a removal; each layout then only has to account for its slots.      *)
(***************************************************************************)
Elem == T \cup {Junk}

\* size is between 0 and N, reaches them exactly when the flags say so, and
\* the contents are a sequence of that length.
SizeFact ==
    /\ size \in 0..N
    /\ m_bEmpty <=> size = 0
    /\ m_bFull <=> size = N
    /\ \A i \in 1..size : Slot(i) \in Index
    /\ Contents \in Seq(Elem)
    /\ Len(Contents) = size
    /\ \A i \in 1..size : Contents[i] = m_pBuf[Slot(i)]

\* What size() returns in each layout lies between 0 and the capacity.
LEMMA SizeFacts == Inv => SizeFact
  <1> SUFFICES ASSUME Inv PROVE SizeFact
    OBVIOUS
  <1> USE NAssumption
  <1>1. size \in 0..N /\ (m_bEmpty <=> size = 0) /\ (m_bFull <=> size = N)
    BY DEF size, Inv, TypeOK, FlagsAgree, Index
  <1> HIDE DEF size
  <1>2. \A i \in 1..size : Slot(i) \in Index
    BY <1>1 DEF Slot, Inv, TypeOK, Index
  <1>3. \A i \in 1..size : m_pBuf[Slot(i)] \in Elem
    BY <1>2 DEF Inv, TypeOK, Elem
  <1>4. Contents \in [1..size -> Elem]
    BY <1>3 DEF Contents
  <1>5. Contents \in Seq(Elem) /\ Len(Contents) = size
    BY <1>1, <1>4
  <1>6. \A i \in 1..size : Contents[i] = m_pBuf[Slot(i)]
    BY DEF Contents
  <1> QED
    BY <1>1, <1>2, <1>5, <1>6 DEF SizeFact

\* A step that keeps the stored slots and fills the next n with a prefix of
\* buf appends that prefix to the contents.
LEMMA AppendStep ==
    ASSUME Inv, Inv', NEW buf \in Bufs, NEW n \in 0..Len(buf),
           size' = size + n,
           m_nReadPos' = m_nReadPos,
           \A i \in 1..size : m_pBuf'[Slot(i)] = m_pBuf[Slot(i)],
           \A i \in 1..n : m_pBuf'[Slot(size + i)] = buf[i]
    PROVE  Contents' = Contents \o SubSeq(buf, 1, n)
  <1> DEFINE sub == SubSeq(buf, 1, n)
  <1>1. n \in Nat /\ Len(buf) \in Nat
    BY BufsAreSequences
  <1>2. \A i \in 1..n : buf[i] \in Elem
    BY <1>1, BufsAreSequences DEF Elem
  <1>3. /\ sub \in Seq(Elem) /\ Len(sub) = n
        /\ \A i \in 1..n : sub[i] = buf[i]
    BY <1>1, <1>2, SubSeqProperties
  <1>4. /\ size \in Nat /\ Contents \in Seq(Elem) /\ Len(Contents) = size
        /\ \A i \in 1..size : Contents[i] = m_pBuf[Slot(i)]
    BY SizeFacts, NAssumption DEF SizeFact
  <1>5. /\ Contents' \in Seq(Elem) /\ Len(Contents') = size + n
        /\ \A i \in 1..size + n : Contents'[i] = m_pBuf'[Slot(i)]
    <2>1. /\ Contents' \in Seq(Elem)' /\ Len(Contents') = size'
          /\ \A i \in 1..size' : Contents'[i] = m_pBuf'[Slot(i)']
      <3>1. SizeFact'
        BY SizeFacts, PTL
      <3> QED
        BY <3>1 DEF SizeFact
    <2>2. \A i : Slot(i)' = Slot(i)
      BY DEF Slot
    <2> QED
      BY <2>1, <2>2 DEF Elem
  <1> HIDE DEF sub
  <1>6. /\ Contents \o sub \in Seq(Elem) /\ Len(Contents \o sub) = size + n
        /\ \A i \in 1..size + n : (Contents \o sub)[i] =
                IF i <= size THEN Contents[i] ELSE sub[i - size]
    <2>1. Contents \in Seq(Elem) /\ sub \in Seq(Elem)
      BY <1>3, <1>4
    <2>2. /\ Contents \o sub \in Seq(Elem)
          /\ Len(Contents \o sub) = Len(Contents) + Len(sub)
          /\ \A i \in 1..Len(Contents) + Len(sub) : (Contents \o sub)[i] =
                IF i <= Len(Contents) THEN Contents[i] ELSE sub[i - Len(Contents)]
      BY <2>1, ConcatProperties, Zenon
    <2>3. Len(Contents) = size /\ Len(sub) = n
      BY <1>3, <1>4
    <2> QED
      BY <2>2, <2>3, Zenon
  <1>7. \A i \in 1..size + n : Contents'[i] = (Contents \o sub)[i]
    <2> SUFFICES ASSUME NEW i \in 1..size + n
                 PROVE  Contents'[i] = (Contents \o sub)[i]
      OBVIOUS
    <2>1. CASE i <= size
      <3>1. i \in 1..size
        BY <1>1, <1>4, <2>1
      <3>2. Contents'[i] = Contents[i]
        BY <1>4, <1>5, <3>1
      <3>3. (Contents \o sub)[i] = Contents[i]
        BY <1>6, <2>1
      <3> QED
        BY <3>2, <3>3
    <2>2. CASE i > size
      <3>1. i - size \in 1..n /\ i = size + (i - size)
        BY <1>1, <1>4, <2>2
      <3>2. m_pBuf'[Slot(i)] = buf[i - size]
        BY <1>4, <3>1
      <3>3. Contents'[i] = m_pBuf'[Slot(i)]
        BY <1>5
      <3>4. (Contents \o sub)[i] = sub[i - size]
        BY <1>4, <1>6, <2>2
      <3>5. sub[i - size] = buf[i - size]
        BY <1>3, <3>1
      <3> QED
        BY <3>2, <3>3, <3>4, <3>5, Zenon
    <2>3. i <= size \/ i > size
      BY <1>1, <1>4
    <2> QED
      BY <2>1, <2>2, <2>3, Zenon
  <1>8. Contents' = Contents \o sub
    BY <1>5, <1>6, <1>7, SeqEqual
  <1> QED
    BY <1>8 DEF sub

\* A step that only advances the read position by n removes the n oldest
\* elements of the contents, and returns them if they are what it copied.
LEMMA DropStep ==
    ASSUME Inv, Inv', NEW n \in 0..size,
           size' = size - n,
           m_pBuf' = m_pBuf,
           \A i \in 1..size - n : Slot(i)' = Slot(n + i),
           out' \in Seq(Elem), Len(out') = n,
           \A i \in 1..n : out'[i] = m_pBuf[Slot(i)]
    PROVE  /\ Contents' = SubSeq(Contents, n + 1, Len(Contents))
           /\ out' = SubSeq(Contents, 1, n)
  <1> DEFINE kept == SubSeq(Contents, n + 1, Len(Contents))
             taken == SubSeq(Contents, 1, n)
  <1>1. /\ size \in Nat /\ Contents \in Seq(Elem) /\ Len(Contents) = size
        /\ \A i \in 1..size : Contents[i] = m_pBuf[Slot(i)]
    BY SizeFacts, NAssumption DEF SizeFact
  <1>2. \A i \in 1..size : Contents[i] \in Elem
    BY <1>1
  <1>3. n \in Nat /\ size - n \in Nat
    BY <1>1
  <1>4. /\ kept \in Seq(Elem) /\ Len(kept) = size - n
        /\ \A i \in 1..size - n : kept[i] = Contents[n + i]
    <2>1. \A i \in n + 1 .. size : Contents[i] \in Elem
      BY <1>2, <1>3
    <2>2. /\ kept \in Seq(Elem)
          /\ Len(kept) = IF n + 1 <= size THEN size - (n + 1) + 1 ELSE 0
          /\ \A i \in 1 .. size - (n + 1) + 1 : kept[i] = Contents[n + 1 + i - 1]
      BY <1>1, <1>3, <2>1, SubSeqProperties
    <2> QED
      BY <1>1, <1>3, <2>2
  <1>5. /\ taken \in Seq(Elem) /\ Len(taken) = n
        /\ \A i \in 1..n : taken[i] = Contents[i]
    <2>1. \A i \in 1 .. n : Contents[i] \in Elem
      BY <1>1, <1>2, <1>3
    <2>2. /\ taken \in Seq(Elem)
          /\ Len(taken) = IF 1 <= n THEN n - 1 + 1 ELSE 0
          /\ \A i \in 1 .. n - 1 + 1 : taken[i] = Contents[1 + i - 1]
      BY <1>1, <1>3, <2>1, SubSeqProperties
    <2> QED
      BY <1>1, <1>3, <2>2
  <1>6. /\ Contents' \in Seq(Elem) /\ Len(Contents') = size - n
        /\ \A i \in 1..size - n : Contents'[i] = m_pBuf[Slot(n + i)]
    <2>1. SizeFact'
      BY SizeFacts, PTL
    <2>2. /\ Contents' \in Seq(Elem)' /\ Len(Contents') = size'
          /\ \A i \in 1..size' : Contents'[i] = m_pBuf'[Slot(i)']
      BY <2>1 DEF SizeFact
    <2>3. Seq(Elem)' = Seq(Elem)
      BY DEF Elem
    <2>4. \A i \in 1..size - n : Contents'[i] = m_pBuf[Slot(n + i)]
      BY <2>2
    <2>5. Contents' \in Seq(Elem)
      BY <2>2, <2>3, Zenon
    <2>6. Len(Contents') = size - n
      BY <2>2, Zenon
    <2> QED
      BY <2>4, <2>5, <2>6, Zenon
  <1> HIDE DEF kept, taken
  <1>7. \A i \in 1..size - n : Contents'[i] = kept[i]
    <2> SUFFICES ASSUME NEW i \in 1..size - n
                 PROVE  Contents'[i] = kept[i]
      OBVIOUS
    <2>1. n + i \in 1..size
      BY <1>1, <1>3
    <2>2. Contents'[i] = m_pBuf[Slot(n + i)]
      BY <1>6
    <2>3. kept[i] = Contents[n + i]
      BY <1>4
    <2> QED
      BY <1>1, <2>1, <2>2, <2>3
  <1>8. Contents' = kept
    BY <1>4, <1>6, <1>7, SeqEqual
  <1>9. \A i \in 1..n : out'[i] = taken[i]
    BY <1>1, <1>3, <1>5
  <1>10. out' = taken
    BY <1>5, <1>9, SeqEqual
  <1> QED
    BY <1>8, <1>10 DEF kept, taken

\* Each layout of write appends the prefix that fits.
LEMMA WriteRefines ==
    ASSUME Inv, NEW buf \in Bufs, write(buf)
    PROVE  Fifo!FifoWrite(buf)
  <1> DEFINE n == Fifo!Least(Len(buf), N - size)
  <1> USE NAssumption
  <1>1. Inv'
    BY WriteInv
  <1>2. Len(buf) \in Nat /\ n \in 0..Len(buf) /\ Len(Contents) = size /\ size \in 0..N
    BY BufsAreSequences, SizeFacts DEF SizeFact, Fifo!Least
  <1>3. SUFFICES /\ Contents' = Contents \o SubSeq(buf, 1, n)
                 /\ ret' = n
    BY <1>2 DEF write, Fifo!FifoWrite
  <1>4. CASE (Len(buf) = 0 \/ m_bFull) /\ ret' = 0 /\ UNCHANGED ring
    <2>1. n = 0
      BY <1>2, <1>4, SizeFacts DEF SizeFact, Fifo!Least
    <2>2. size' = size /\ m_nReadPos' = m_nReadPos /\ m_pBuf' = m_pBuf
      BY <1>4 DEF ring, size
    <2>3. Contents' = Contents \o SubSeq(buf, 1, n)
      <3> HIDE DEF n
      <3> QED
        BY <1>1, <1>2, <2>1, <2>2, AppendStep
    <2> QED
      BY <1>4, <2>1, <2>3
  <1>5. ASSUME Len(buf) > 0, ~m_bFull, ~m_bEmpty', m_nReadPos' = m_nReadPos,
               m_nReadPos = m_nWritePos, writeEmpty(buf)
        PROVE  Contents' = Contents \o SubSeq(buf, 1, n) /\ ret' = n
    <2> DEFINE left == N - m_nWritePos
               wpos == IF m_nReadPos > Len(buf) - left THEN Len(buf) - left ELSE m_nWritePos
    <2>0. m_bEmpty /\ size = 0 /\ m_nReadPos \in 0..N-1
      BY <1>5 DEF Inv, TypeOK, FlagsAgree, size, Index
    <2>1. CASE left > Len(buf)
      <3>1. /\ m_pBuf' = CopyIn(m_pBuf, m_nWritePos, buf, 0, Len(buf))
            /\ m_nWritePos' = m_nWritePos + Len(buf) /\ ret' = Len(buf)
            /\ ~m_bFull'
        BY <1>2, <1>5, <2>0, <2>1 DEF writeEmpty
      <3>2. n = Len(buf)
        BY <1>2, <1>5, <2>0, <2>1 DEF Fifo!Least
      <3>3. size' = size + n
        BY <1>2, <1>5, <2>0, <3>1, <3>2 DEF size
      <3>4. \A i \in 1..n : m_pBuf'[Slot(size + i)] = buf[i]
        <4> SUFFICES ASSUME NEW i \in 1..n PROVE m_pBuf'[Slot(size + i)] = buf[i]
          OBVIOUS
        <4>1. Slot(size + i) = m_nReadPos + i - 1 /\ Slot(size + i) \in Index
          BY <1>2, <1>5, <2>0, <2>1, <3>2 DEF Slot, Index
        <4> QED
          BY <1>2, <1>5, <2>0, <3>1, <3>2, <4>1 DEF CopyIn
      <3>5. \A i \in 1..size : m_pBuf'[Slot(i)] = m_pBuf[Slot(i)]
        BY <2>0
      <3>6. ret' = n
        BY <3>1, <3>2
      <3> HIDE DEF n
      <3> QED
        BY <1>1, <1>2, <1>5, <3>3, <3>4, <3>5, <3>6, AppendStep
    <2>2. CASE left <= Len(buf)
      <3>1. /\ m_pBuf' = CopyIn(CopyIn(m_pBuf, m_nWritePos, buf, 0, left), 0, buf, left, wpos)
            /\ m_nWritePos' = wpos /\ ret' = left + wpos
            /\ m_bFull' <=> wpos = m_nReadPos
        <4>1. ~(left > Len(buf))
          BY <1>2, <1>5, <2>0, <2>2
        <4> QED
          BY <1>5, <4>1, Zenon DEF writeEmpty
      <3>2. n = left + wpos /\ wpos \in 0..m_nReadPos /\ left \in 1..N
        <4>1. left \in 1..N /\ left = N - m_nReadPos
          BY <1>5, <2>0
        <4>2. n = IF Len(buf) <= N THEN Len(buf) ELSE N
          BY <1>2, <2>0 DEF Fifo!Least
        <4>3. wpos = IF m_nReadPos > Len(buf) - left THEN Len(buf) - left ELSE m_nReadPos
          BY <1>5
        <4> HIDE DEF n, left, wpos
        <4> QED
          BY <1>2, <2>0, <2>2, <4>1, <4>2, <4>3
      <3>3. size' = size + n
        BY <1>2, <1>5, <2>0, <3>1, <3>2 DEF size
      <3>4. \A i \in 1..n : m_pBuf'[Slot(size + i)] = buf[i]
        <4> SUFFICES ASSUME NEW i \in 1..n PROVE m_pBuf'[Slot(size + i)] = buf[i]
          OBVIOUS
        <4>1. CASE i <= left
          <5>1. Slot(size + i) = m_nReadPos + i - 1 /\ Slot(size + i) \in Index
                 /\ Slot(size + i) >= wpos /\ i \in 1..left
            BY <1>2, <1>5, <2>0, <3>2, <4>1 DEF Slot, Index
          <5> HIDE DEF wpos
          <5>2. m_pBuf'[Slot(size + i)]
                  = CopyIn(m_pBuf, m_nWritePos, buf, 0, left)[Slot(size + i)]
            BY <2>0, <3>1, <3>2, <5>1 DEF CopyIn
          <5>3. CopyIn(m_pBuf, m_nWritePos, buf, 0, left)[Slot(size + i)]
                  = buf[0 + (Slot(size + i) - m_nWritePos) + 1]
            BY <1>5, <2>0, <3>2, <5>1 DEF CopyIn
          <5>4. 0 + (Slot(size + i) - m_nWritePos) + 1 = i
            BY <1>5, <2>0, <5>1
          <5> QED
            BY <5>2, <5>3, <5>4
        <4>2. CASE i > left
          <5>1. Slot(size + i) = i - 1 - left /\ Slot(size + i) \in Index
                 /\ Slot(size + i) < wpos
            BY <1>2, <1>5, <2>0, <3>2, <4>2 DEF Slot, Index
          <5> HIDE DEF wpos
          <5> QED
            BY <1>2, <2>0, <3>1, <3>2, <4>2, <5>1 DEF CopyIn
        <4> QED
          BY <1>2, <3>2, <4>1, <4>2
      <3>5. \A i \in 1..size : m_pBuf'[Slot(i)] = m_pBuf[Slot(i)]
        BY <2>0
      <3>6. ret' = n
        BY <3>1, <3>2
      <3> HIDE DEF n
      <3> QED
        BY <1>1, <1>2, <1>5, <3>3, <3>4, <3>5, <3>6, AppendStep
    <2> QED
      BY <1>2, <2>0, <1>5, <2>1, <2>2
  <1>6. ASSUME Len(buf) > 0, ~m_bFull, ~m_bEmpty', m_nReadPos' = m_nReadPos,
               m_nReadPos < m_nWritePos, writeAhead(buf)
        PROVE  Contents' = Contents \o SubSeq(buf, 1, n) /\ ret' = n
    <2> DEFINE left == N - m_nWritePos
               wpos == IF m_nReadPos >= Len(buf) - left THEN Len(buf) - left ELSE m_nReadPos
    <2>0. /\ ~m_bEmpty /\ size = m_nWritePos - m_nReadPos
          /\ m_nReadPos \in 0..N-1 /\ m_nWritePos \in 0..N-1
      BY <1>6 DEF Inv, TypeOK, FlagsAgree, size, Index
    <2>1. CASE left > Len(buf)
      <3>1. /\ m_pBuf' = CopyIn(m_pBuf, m_nWritePos, buf, 0, Len(buf))
            /\ m_nWritePos' = m_nWritePos + Len(buf) /\ ret' = Len(buf)
            /\ m_bFull' <=> m_nReadPos = m_nWritePos'
        <4>1. ~(left <= Len(buf))
          BY <1>2, <2>0, <2>1
        <4> QED
          BY <1>6, <4>1, Zenon DEF writeAhead
      <3>2. n = Len(buf)
        BY <1>2, <1>6, <2>0, <2>1 DEF Fifo!Least
      <3>3. size' = size + n
        BY <1>2, <1>6, <2>0, <3>1, <3>2 DEF size
      <3>4. \A i \in 1..n : m_pBuf'[Slot(size + i)] = buf[i]
        <4> SUFFICES ASSUME NEW i \in 1..n PROVE m_pBuf'[Slot(size + i)] = buf[i]
          OBVIOUS
        <4>1. Slot(size + i) = m_nWritePos + i - 1 /\ Slot(size + i) \in Index
          BY <1>2, <1>6, <2>0, <2>1, <3>2 DEF Slot, Index
        <4> QED
          BY <1>2, <1>6, <2>0, <3>1, <3>2, <4>1 DEF CopyIn
      <3>5. \A i \in 1..size : m_pBuf'[Slot(i)] = m_pBuf[Slot(i)]
        <4> SUFFICES ASSUME NEW i \in 1..size PROVE m_pBuf'[Slot(i)] = m_pBuf[Slot(i)]
          OBVIOUS
        <4>1. Slot(i) \in Index /\ Slot(i) < m_nWritePos
          BY <1>6, <2>0 DEF Slot, Index
        <4> QED
          BY <2>0, <3>1, <4>1 DEF CopyIn
      <3>6. ret' = n
        BY <3>1, <3>2
      <3> HIDE DEF n
      <3> QED
        BY <1>1, <1>2, <1>6, <3>3, <3>4, <3>5, <3>6, AppendStep
    <2>2. CASE left <= Len(buf)
      <3>1. /\ m_pBuf' = CopyIn(CopyIn(m_pBuf, m_nWritePos, buf, 0, left), 0, buf, left, wpos)
            /\ m_nWritePos' = wpos /\ ret' = left + wpos
            /\ m_bFull' <=> m_nReadPos = wpos
        <4>1. ~(left > Len(buf))
          BY <1>2, <1>6, <2>0, <2>2
        <4> QED
          BY <1>6, <4>1, Zenon DEF writeAhead
      <3>2. n = left + wpos /\ wpos \in 0..m_nReadPos /\ left \in 1..N
        <4>1. left \in 1..N /\ left = N - m_nWritePos
          BY <1>6, <2>0
        <4>2. n = IF Len(buf) <= N - size THEN Len(buf) ELSE N - size
          BY <1>2, <2>0 DEF Fifo!Least
        <4> HIDE DEF n
        <4> QED
          BY <1>2, <1>6, <2>0, <2>2, <4>1, <4>2
      <3>3. size' = size + n
        <4>1. size' = IF m_nReadPos = wpos THEN N ELSE N - m_nReadPos + wpos
          BY <1>2, <1>6, <2>0, <3>1, <3>2 DEF size
        <4> QED
          BY <2>0, <3>2, <4>1
      <3>4. \A i \in 1..n : m_pBuf'[Slot(size + i)] = buf[i]
        <4> SUFFICES ASSUME NEW i \in 1..n PROVE m_pBuf'[Slot(size + i)] = buf[i]
          OBVIOUS
        <4>1. CASE i <= left
          <5>1. Slot(size + i) = m_nWritePos + i - 1 /\ Slot(size + i) \in Index
                 /\ Slot(size + i) >= wpos /\ i \in 1..left
            BY <1>2, <1>6, <2>0, <3>2, <4>1 DEF Slot, Index
          <5> HIDE DEF wpos
          <5>2. m_pBuf'[Slot(size + i)]
                  = CopyIn(m_pBuf, m_nWritePos, buf, 0, left)[Slot(size + i)]
            BY <2>0, <3>1, <3>2, <5>1 DEF CopyIn
          <5>3. CopyIn(m_pBuf, m_nWritePos, buf, 0, left)[Slot(size + i)]
                  = buf[0 + (Slot(size + i) - m_nWritePos) + 1]
            BY <1>6, <2>0, <3>2, <5>1 DEF CopyIn
          <5>4. 0 + (Slot(size + i) - m_nWritePos) + 1 = i
            BY <1>6, <2>0, <5>1
          <5> QED
            BY <5>2, <5>3, <5>4
        <4>2. CASE i > left
          <5>1. Slot(size + i) = i - 1 - left /\ Slot(size + i) \in Index
                 /\ Slot(size + i) < wpos
            BY <1>2, <1>6, <2>0, <3>2, <4>2 DEF Slot, Index
          <5> HIDE DEF wpos
          <5> QED
            BY <1>2, <2>0, <3>1, <3>2, <4>2, <5>1 DEF CopyIn
        <4> QED
          BY <1>2, <3>2, <4>1, <4>2
      <3>5. \A i \in 1..size : m_pBuf'[Slot(i)] = m_pBuf[Slot(i)]
        <4> SUFFICES ASSUME NEW i \in 1..size PROVE m_pBuf'[Slot(i)] = m_pBuf[Slot(i)]
          OBVIOUS
        <4>1. Slot(i) = m_nReadPos + i - 1 /\ Slot(i) \in Index
               /\ Slot(i) >= wpos /\ Slot(i) < m_nWritePos
          BY <1>6, <2>0, <3>2 DEF Slot, Index
        <4> HIDE DEF wpos
        <4> QED
          BY <2>0, <3>1, <3>2, <4>1 DEF CopyIn
      <3>6. ret' = n
        BY <3>1, <3>2
      <3> HIDE DEF n
      <3> QED
        BY <1>1, <1>2, <1>6, <3>3, <3>4, <3>5, <3>6, AppendStep
    <2> QED
      BY <1>2, <2>0, <1>6, <2>1, <2>2
  <1>7. ASSUME Len(buf) > 0, ~m_bFull, ~m_bEmpty', m_nReadPos' = m_nReadPos,
               m_nWritePos < m_nReadPos, writeBehind(buf)
        PROVE  Contents' = Contents \o SubSeq(buf, 1, n) /\ ret' = n
    <2> DEFINE left == m_nReadPos - m_nWritePos
    <2>0. /\ ~m_bEmpty /\ size = N - m_nReadPos + m_nWritePos
          /\ m_nReadPos \in 0..N-1 /\ m_nWritePos \in 0..N-1
      BY <1>7 DEF Inv, TypeOK, FlagsAgree, size, Index
    <2>1. n = IF left > Len(buf) THEN Len(buf) ELSE left
      BY <1>2, <2>0 DEF Fifo!Least
    <2>2. n \in 0..left
      BY <1>2, <1>7, <2>0, <2>1
    <2>3. /\ m_pBuf' = CopyIn(m_pBuf, m_nWritePos, buf, 0, n)
          /\ m_nWritePos' = m_nWritePos + n /\ ret' = n
          /\ m_bFull' <=> m_nReadPos = m_nWritePos'
      <3> HIDE DEF n
      <3> QED
        BY <1>7, <2>1, Zenon DEF writeBehind
    <2> HIDE DEF n
    <2>4. size' = size + n
      BY <1>2, <1>7, <2>0, <2>2, <2>3 DEF size
    <2>5. \A i \in 1..n : m_pBuf'[Slot(size + i)] = buf[i]
      <3> SUFFICES ASSUME NEW i \in 1..n PROVE m_pBuf'[Slot(size + i)] = buf[i]
        OBVIOUS
      <3>1. Slot(size + i) = m_nWritePos + i - 1 /\ Slot(size + i) \in Index
        BY <1>2, <1>7, <2>0, <2>2 DEF Slot, Index
      <3>2. /\ n \in Nat /\ i \in Nat /\ m_nWritePos \in Nat
            /\ m_nWritePos + i - 1 >= m_nWritePos
            /\ m_nWritePos + i - 1 < m_nWritePos + n
            /\ 0 + ((m_nWritePos + i - 1) - m_nWritePos) + 1 = i
        BY <2>0, <2>2
      <3>3. m_pBuf'[m_nWritePos + i - 1]
              = buf[0 + ((m_nWritePos + i - 1) - m_nWritePos) + 1]
        BY <2>3, <3>1, <3>2 DEF CopyIn
      <3> QED
        BY <3>1, <3>2, <3>3
    <2>6. \A i \in 1..size : m_pBuf'[Slot(i)] = m_pBuf[Slot(i)]
      <3> SUFFICES ASSUME NEW i \in 1..size PROVE m_pBuf'[Slot(i)] = m_pBuf[Slot(i)]
        OBVIOUS
      <3>1. /\ Slot(i) \in Index
            /\ Slot(i) < m_nWritePos \/ Slot(i) >= m_nReadPos
        BY <1>7, <2>0 DEF Slot, Index
      <3>2. Slot(i) \in Nat /\ m_nWritePos + n <= m_nReadPos
        BY <1>7, <2>0, <2>2, <3>1 DEF Index
      <3>3. ~(m_nWritePos <= Slot(i) /\ Slot(i) < m_nWritePos + n)
        <4> HIDE DEF left
        <4> QED
          BY <2>0, <2>2, <3>1, <3>2
      <3> QED
        BY <2>3, <3>1, <3>3 DEF CopyIn
    <2> QED
      BY <1>1, <1>2, <1>7, <2>3, <2>4, <2>5, <2>6, AppendStep
  <1> QED
    BY <1>4, <1>5, <1>6, <1>7, Zenon DEF write

\* What read copies out of a run of slots.
LEMMA CopyOutFacts ==
    ASSUME Inv, NEW pos \in Nat, NEW cnt \in Nat, pos + cnt <= N
    PROVE  /\ CopyOut(pos, cnt) \in Seq(Elem)
           /\ Len(CopyOut(pos, cnt)) = cnt
           /\ \A i \in 1..cnt : CopyOut(pos, cnt)[i] = m_pBuf[pos + i - 1]
  <1>1. \A i \in 1..cnt : m_pBuf[pos + i - 1] \in Elem
    BY NAssumption DEF Inv, TypeOK, Index, Elem
  <1>2. CopyOut(pos, cnt) \in [1..cnt -> Elem]
    BY <1>1 DEF CopyOut
  <1> QED
    BY <1>2 DEF CopyOut

\* The same for the two runs of a read that wraps around.
TwoRuns(two, pos, left, cnt) ==
    /\ two \in Seq(Elem)
    /\ Len(two) = left + cnt
    /\ \A i \in 1..left + cnt :
         two[i] = IF i <= left THEN m_pBuf[pos + i - 1] ELSE m_pBuf[i - left - 1]

\* The two memcpys of a read that wraps return consecutive elements.
LEMMA CopyOutTwice ==
    ASSUME Inv, NEW pos \in Nat, NEW left \in Nat, NEW cnt \in Nat,
           pos + left <= N, cnt <= N
    PROVE  TwoRuns(CopyOut(pos, left) \o CopyOut(0, cnt), pos, left, cnt)
  <1> DEFINE one == CopyOut(pos, left)
             rest == CopyOut(0, cnt)
  <1>1. /\ one \in Seq(Elem) /\ Len(one) = left
        /\ \A i \in 1..left : one[i] = m_pBuf[pos + i - 1]
    BY CopyOutFacts
  <1>2. /\ rest \in Seq(Elem) /\ Len(rest) = cnt
        /\ \A i \in 1..cnt : rest[i] = m_pBuf[0 + i - 1]
    BY CopyOutFacts, NAssumption
  <1> HIDE DEF one, rest
  <1>3. /\ one \o rest \in Seq(Elem) /\ Len(one \o rest) = left + cnt
        /\ \A i \in 1..left + cnt : (one \o rest)[i] =
                IF i <= left THEN one[i] ELSE rest[i - left]
    BY <1>1, <1>2, ConcatProperties
  <1>4. \A i \in 1..left + cnt :
            (one \o rest)[i] = IF i <= left THEN m_pBuf[pos + i - 1]
                                            ELSE m_pBuf[i - left - 1]
    <2> SUFFICES ASSUME NEW i \in 1..left + cnt
                 PROVE  (one \o rest)[i] = IF i <= left THEN m_pBuf[pos + i - 1]
                                                        ELSE m_pBuf[i - left - 1]
      OBVIOUS
    <2>1. CASE i <= left
      BY <1>1, <1>3, <2>1
    <2>2. CASE i > left
      <3>1. i - left \in 1..cnt
        BY <2>2
      <3>2. rest[i - left] = m_pBuf[0 + (i - left) - 1]
        BY <1>2, <3>1
      <3> QED
        BY <1>3, <2>2, <3>2
    <2>3. i <= left \/ i > left
      OBVIOUS
    <2> QED
      BY <2>1, <2>2, <2>3, Zenon
  <1> QED
    BY <1>3, <1>4 DEF one, rest, TwoRuns

\* Each layout of read removes and returns the oldest elements.
LEMMA ReadRefines ==
    ASSUME Inv, NEW count \in Nat, read(count)
    PROVE  Fifo!FifoRead(count)
  <1> DEFINE n == Fifo!Least(count, size)
  <1> USE NAssumption
  <1>1. Inv'
    BY ReadInv
  <1>2. /\ n \in 0..size /\ Len(Contents) = size /\ size \in 0..N
        /\ m_nReadPos \in 0..N-1 /\ m_nWritePos \in 0..N-1
    BY SizeFacts DEF SizeFact, Fifo!Least, Inv, TypeOK, Index
  <1>3. SUFFICES /\ Contents' = SubSeq(Contents, n + 1, Len(Contents))
                 /\ out' = SubSeq(Contents, 1, n)
                 /\ ret' = n
    BY <1>2 DEF read, Fifo!FifoRead
  <1>4. CASE (count <= 0 \/ m_bEmpty) /\ ret' = 0 /\ out' = <<>> /\ UNCHANGED ring
    <2>1. n = 0
      BY <1>2, <1>4, SizeFacts DEF SizeFact, Fifo!Least
    <2>2. size' = size - n /\ m_nReadPos' = m_nReadPos /\ m_pBuf' = m_pBuf
      BY <1>2, <1>4, <2>1 DEF ring, size
    <2>3. \A i \in 1..size - n : Slot(i)' = Slot(n + i)
      BY <1>2, <2>1, <2>2 DEF Slot
    <2>4. out' \in Seq(Elem) /\ Len(out') = n
      BY <1>4, <2>1
    <2>5. \A i \in 1..n : out'[i] = m_pBuf[Slot(i)]
      BY <2>1
    <2> HIDE DEF n
    <2> QED
      BY <1>1, <1>2, <1>4, <2>1, <2>2, <2>3, <2>4, <2>5, DropStep
  <1>5. ASSUME count > 0, ~m_bEmpty, ~m_bFull', m_nWritePos' = m_nWritePos,
               m_pBuf' = m_pBuf, m_bEmpty' <=> (m_nReadPos' = m_nWritePos),
               \/ m_nReadPos = m_nWritePos /\ readFull(count)
               \/ m_nReadPos < m_nWritePos /\ readAhead(count)
               \/ m_nWritePos < m_nReadPos /\ readBehind(count)
        PROVE  /\ Contents' = SubSeq(Contents, n + 1, Len(Contents))
               /\ out' = SubSeq(Contents, 1, n)
               /\ ret' = n
    <2>1. size = IF m_nReadPos = m_nWritePos THEN N
                 ELSE IF m_nReadPos < m_nWritePos THEN m_nWritePos - m_nReadPos
                 ELSE N - m_nReadPos + m_nWritePos
      BY <1>5 DEF Inv, TypeOK, FlagsAgree, size
    <2>2. size' = IF m_nReadPos' = m_nWritePos THEN 0
                  ELSE IF m_nReadPos' < m_nWritePos THEN m_nWritePos - m_nReadPos'
                  ELSE N - m_nReadPos' + m_nWritePos
      BY <1>5 DEF size
    <2>3. \* one run of slots
          ASSUME out' = CopyOut(m_nReadPos, n), ret' = n,
                 m_nReadPos' = m_nReadPos + n, m_nReadPos + n < N
          PROVE  /\ Contents' = SubSeq(Contents, n + 1, Len(Contents))
                 /\ out' = SubSeq(Contents, 1, n)
                 /\ ret' = n
      <3>0. n > 0
        BY <1>2, <1>5, <2>1 DEF Fifo!Least
      <3> HIDE DEF n
      <3>1. size' = size - n
        BY <1>2, <2>1, <2>2, <2>3, <3>0
      <3>2. \A i \in 1..size - n : Slot(i)' = Slot(n + i)
        BY <1>2, <2>3 DEF Slot
      <3>3. /\ out' \in Seq(Elem) /\ Len(out') = n
            /\ \A i \in 1..n : out'[i] = m_pBuf[m_nReadPos + i - 1]
        <4>1. n \in Nat /\ m_nReadPos \in Nat /\ m_nReadPos + n <= N
          BY <1>2, <2>3
        <4> QED
          BY <2>3, <4>1, CopyOutFacts
      <3>4. \A i \in 1..n : out'[i] = m_pBuf[Slot(i)]
        BY <1>2, <2>3, <3>3 DEF Slot
      <3> QED
        BY <1>1, <1>2, <1>5, <2>3, <3>1, <3>2, <3>3, <3>4, DropStep
    <2>4. \* two runs of slots
          ASSUME NEW rpos \in 0..N-1, rpos <= m_nWritePos, n > 0,
                 m_nWritePos <= m_nReadPos,
                 n = (N - m_nReadPos) + rpos,
                 out' = CopyOut(m_nReadPos, N - m_nReadPos) \o CopyOut(0, rpos),
                 ret' = n, m_nReadPos' = rpos
          PROVE  /\ Contents' = SubSeq(Contents, n + 1, Len(Contents))
                 /\ out' = SubSeq(Contents, 1, n)
                 /\ ret' = n
      <3> HIDE DEF n
      <3>1. size' = size - n
        BY <1>2, <2>1, <2>2, <2>4
      <3>2. \A i \in 1..size - n : Slot(i)' = Slot(n + i)
        BY <1>2, <2>1, <2>4 DEF Slot
      <3>3. /\ out' \in Seq(Elem) /\ Len(out') = n
            /\ \A i \in 1..n :
                 out'[i] = IF i <= N - m_nReadPos THEN m_pBuf[m_nReadPos + i - 1]
                           ELSE m_pBuf[i - (N - m_nReadPos) - 1]
        <4> DEFINE left == N - m_nReadPos
        <4>1. /\ left \in Nat /\ m_nReadPos \in Nat /\ rpos \in Nat
              /\ m_nReadPos + left <= N /\ rpos <= N
          BY <1>2, <2>4
        <4>2. n = left + rpos /\ out' = CopyOut(m_nReadPos, left) \o CopyOut(0, rpos)
          BY <2>4
        <4> HIDE DEF left
        <4>3. TwoRuns(out', m_nReadPos, left, rpos)
          BY <4>1, <4>2, CopyOutTwice
        <4> QED
          BY <4>2, <4>3, Zenon DEF left, TwoRuns
      <3>4. \A i \in 1..n : out'[i] = m_pBuf[Slot(i)]
        <4> SUFFICES ASSUME NEW i \in 1..n PROVE out'[i] = m_pBuf[Slot(i)]
          OBVIOUS
        <4>1. Slot(i) = IF i <= N - m_nReadPos THEN m_nReadPos + i - 1
                        ELSE i - (N - m_nReadPos) - 1
          BY <1>2, <2>4 DEF Slot
        <4> QED
          BY <3>3, <4>1
      <3> QED
        BY <1>1, <1>2, <1>5, <2>4, <3>1, <3>2, <3>3, <3>4, DropStep
    <2>5. CASE m_nReadPos = m_nWritePos /\ readFull(count)
      <3> DEFINE left == N - m_nReadPos
                 rpos == IF m_nWritePos > count - left THEN count - left ELSE m_nWritePos
      <3>1. CASE left > count
        <4>1. n = count /\ ~(left <= count)
          BY <1>2, <2>1, <2>5, <3>1 DEF Fifo!Least
        <4>2. out' = CopyOut(m_nReadPos, n) /\ ret' = n /\ m_nReadPos' = m_nReadPos + n
          BY <2>5, <4>1 DEF readFull
        <4> QED
          BY <1>2, <2>3, <3>1, <4>1, <4>2
      <3>2. CASE left <= count
        <4>1. ~(left > count)
          BY <1>2, <3>2
        <4>2. /\ out' = CopyOut(m_nReadPos, left) \o CopyOut(0, rpos)
              /\ ret' = left + rpos /\ m_nReadPos' = rpos
          BY <2>5, <4>1, Zenon DEF readFull
        <4>3. n = left + rpos /\ rpos \in 0..N-1 /\ rpos <= m_nWritePos /\ n > 0
          BY <1>2, <1>5, <2>1, <2>5, <3>2 DEF Fifo!Least
        <4>4. m_nWritePos <= m_nReadPos
          BY <1>2, <2>5
        <4>5. /\ out' = CopyOut(m_nReadPos, N - m_nReadPos) \o CopyOut(0, rpos)
              /\ n = (N - m_nReadPos) + rpos /\ ret' = n
          BY <4>2, <4>3
        <4> HIDE DEF rpos, n, left
        <4> QED
          BY <2>4, <4>2, <4>3, <4>4, <4>5, Zenon
      <3> QED
        BY <1>2, <3>1, <3>2
    <2>6. CASE m_nReadPos < m_nWritePos /\ readAhead(count)
      <3>1. n = IF m_nWritePos - m_nReadPos > count THEN count ELSE m_nWritePos - m_nReadPos
        BY <1>2, <2>1, <2>6 DEF Fifo!Least
      <3>2. out' = CopyOut(m_nReadPos, n) /\ ret' = n /\ m_nReadPos' = m_nReadPos + n
        <4> HIDE DEF n
        <4> QED
          BY <2>6, <3>1, Zenon DEF readAhead
      <3>3. m_nReadPos + n < N
        BY <1>2, <2>6, <3>1
      <3> HIDE DEF n
      <3> QED
        BY <2>3, <3>2, <3>3
    <2>7. CASE m_nWritePos < m_nReadPos /\ readBehind(count)
      <3> DEFINE left == N - m_nReadPos
                 rpos == IF m_nWritePos >= count - left THEN count - left ELSE m_nWritePos
      <3>1. CASE left > count
        <4>1. n = count /\ ~(left <= count)
          BY <1>2, <2>1, <2>7, <3>1 DEF Fifo!Least
        <4>2. out' = CopyOut(m_nReadPos, n) /\ ret' = n /\ m_nReadPos' = m_nReadPos + n
          BY <2>7, <4>1 DEF readBehind
        <4> QED
          BY <1>2, <2>3, <3>1, <4>1, <4>2
      <3>2. CASE left <= count
        <4>1. ~(left > count)
          BY <1>2, <3>2
        <4>2. /\ out' = CopyOut(m_nReadPos, left) \o CopyOut(0, rpos)
              /\ ret' = left + rpos /\ m_nReadPos' = rpos
          BY <2>7, <4>1, Zenon DEF readBehind
        <4>3. n = left + rpos /\ rpos \in 0..N-1 /\ rpos <= m_nWritePos /\ n > 0
          BY <1>2, <1>5, <2>1, <2>7, <3>2 DEF Fifo!Least
        <4>4. m_nWritePos <= m_nReadPos
          BY <1>2, <2>7
        <4>5. /\ out' = CopyOut(m_nReadPos, N - m_nReadPos) \o CopyOut(0, rpos)
              /\ n = (N - m_nReadPos) + rpos /\ ret' = n
          BY <4>2, <4>3
        <4> HIDE DEF rpos, n, left
        <4> QED
          BY <2>4, <4>2, <4>3, <4>4, <4>5, Zenon
      <3> QED
        BY <1>2, <3>1, <3>2
    <2> QED
      BY <1>5, <2>5, <2>6, <2>7
  <1> QED
    BY <1>4, <1>5, Zenon DEF read

\* clear empties the queue.
LEMMA ClearRefines ==
    ASSUME Inv, clear
    PROVE  Fifo!FifoClear
  <1>1. m_bEmpty'
    BY Zenon DEF clear
  <1>2. size' = 0
    BY <1>1 DEF size
  <1>3. Contents' = <<>>
    BY <1>2 DEF Contents
  <1> QED
    BY <1>3 DEF clear, Fifo!FifoClear

\* For every capacity and every argument, CPodCircularBuffer implements the
\* bounded queue: what read returns is what write accepted, once and in order.
THEOREM ImplementsBoundedFifo == Spec => ImplementsFifo
  <1>1. Init => Fifo!FifoInit
    <2> SUFFICES ASSUME Init PROVE Fifo!FifoInit
      OBVIOUS
    <2>1. m_bEmpty /\ ret = 0 /\ arg = <<>> /\ out = <<>>
      BY Zenon DEF Init
    <2>2. Contents = <<>>
      BY <2>1 DEF Contents, size
    <2> QED
      BY <2>1, <2>2 DEF Fifo!FifoInit
  <1>2. Inv /\ [Next]_vars => [Fifo!FifoNext]_(Fifo!fifoVars)
    <2> SUFFICES ASSUME Inv, [Next]_vars
                 PROVE  [Fifo!FifoNext]_(Fifo!fifoVars)
      OBVIOUS
    <2>1. ASSUME NEW buf \in Bufs, write(buf)
          PROVE  Fifo!FifoNext
      <3>1. PICK n \in 0..MaxCount : buf \in [1..n -> T]
        BY DEF Bufs
      <3>2. Fifo!FifoWrite(buf)
        BY <2>1, WriteRefines
      <3> QED
        BY <3>1, <3>2 DEF Fifo!FifoNext
    <2>2. ASSUME NEW count \in 0..MaxCount, read(count)
          PROVE  Fifo!FifoNext
      <3>1. count \in Nat
        BY CountAssumption
      <3>2. Fifo!FifoRead(count)
        BY <2>2, <3>1, ReadRefines
      <3> QED
        BY <3>2 DEF Fifo!FifoNext
    <2>3. CASE clear
      BY <2>3, ClearRefines DEF Fifo!FifoNext
    <2>4. CASE UNCHANGED vars
      <3>1. Contents' = Contents
        BY <2>4 DEF vars, Contents, size, Slot
      <3> QED
        BY <2>4, <3>1 DEF vars, Fifo!fifoVars
    <2> QED
      BY <2>1, <2>2, <2>3, <2>4 DEF Next
  <1> QED
    BY <1>1, <1>2, InitInv, NextInv, PTL DEF Spec, ImplementsFifo, Fifo!FifoSpec
=============================================================================
