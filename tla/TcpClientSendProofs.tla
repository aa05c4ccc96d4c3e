------------------------ MODULE TcpClientSendProofs ------------------------
(***************************************************************************)
(* The client's sending, for any number of threads, any lengths and any    *)
(* sizes: each write_param has one owner and both limits hold; the bytes   *)
(* that Send has accepted reach the peer complete and in order; the ring   *)
(* is touched under the mutex only, and nothing waits in it for a loop     *)
(* that nobody wakes.                                                      *)
(***************************************************************************)
EXTENDS TcpClientSend, SequenceFacts

(***************************************************************************)
(* The inductive invariant.  The list is one shorter than its limit while  *)
(* a write_param is between it and libuv: the error path of send_inl puts  *)
(* it back without a look at the length.                                   *)
(***************************************************************************)
Labels == {"idle", "while", "lock", "write", "wake"}

RingType ==
    /\ m_buferWrite \in Seq(Byte) /\ Len(m_buferWrite) <= BUFFER_SIZE
    /\ accepted \in Seq(Byte)

FlagType ==
    /\ m_mutexClients \in Sender \cup {Loop, Nobody}
    /\ m_bIsUserAskForClosed \in BOOLEAN /\ pending \in BOOLEAN /\ asyncOpen \in BOOLEAN
    /\ dropped \in BOOLEAN
    /\ lpc \in {"uv_run", "lock", "read", "uv_write"}

SenderType ==
    /\ pc \in [Sender -> Labels]
    /\ todo \in [Sender -> Seq(Byte)]
    /\ calls \in [Sender -> 0..MaxSend]

ParamType ==
    /\ writep \in Param \cup {Null}
    /\ m_listWriteParam \in Seq(Param) /\ Len(m_listWriteParam) <= MAXLISTSIZE + 1
    /\ queued \in Seq(Param)
    /\ buf \in [Param -> Seq(Byte)]
    /\ received \in Seq(Byte)

ConnType ==
    /\ conn \in {"up", "reset", "down"}
    /\ resets \in 0..MaxReset

ParamInv ==
    /\ Distinct(m_listWriteParam) /\ Distinct(queued)
    /\ \A p : ~(In(p, m_listWriteParam) /\ In(p, queued))
    /\ writep # Null => ~In(writep, m_listWriteParam) /\ ~In(writep, queued)
    /\ writep # Null <=> lpc = "uv_write"
    /\ writep # Null => Len(m_listWriteParam) <= MAXLISTSIZE

IInv == RingType /\ FlagType /\ SenderType /\ ParamType /\ ConnType /\ ParamInv

\* The parts of the types together.
LEMMA Parts ==
    TypeOK <=> RingType /\ FlagType /\ SenderType /\ ParamType /\ ConnType
  BY DEF TypeOK, RingType, FlagType, SenderType, ParamType, ConnType, Labels

\* The constructor's state.
LEMMA InitInv == Init => IInv
  <1> SUFFICES ASSUME Init PROVE IInv
    OBVIOUS
  <1>1. /\ <<>> \in Seq(Byte) /\ <<>> \in Seq(Param) /\ Len(<<>>) = 0
        /\ BUFFER_SIZE \in Nat /\ MAXLISTSIZE \in Nat /\ MaxSend \in Nat /\ MaxReset \in Nat
    BY EmptySeq, SendAssumption
  <1>2. RingType
    BY <1>1 DEF Init, RingType
  <1>3. FlagType
    BY DEF Init, FlagType
  <1>4. SenderType
    BY <1>1 DEF Init, SenderType, Labels
  <1>5. ParamType
    BY <1>1 DEF Init, ParamType, Null
  <1>6. ConnType
    BY <1>1 DEF Init, ConnType
  <1>7. ParamInv
    <2>1. \A q : ~In(q, <<>>)
      BY <1>1 DEF In
    <2>2. Distinct(<<>>)
      BY <1>1 DEF Distinct
    <2> QED
      BY <2>1, <2>2 DEF Init, ParamInv
  <1> QED
    BY <1>2, <1>3, <1>4, <1>5, <1>6, <1>7 DEF IInv

\* What a step outside of send_inl and AfterSend keeps of the write_params.
LEMMA ParamsKept ==
    ASSUME IInv, UNCHANGED <<paramVars, received>>, lpc' = "uv_write" <=> lpc = "uv_write"
    PROVE  ParamType' /\ ParamInv'
  <1>1. /\ writep' = writep /\ m_listWriteParam' = m_listWriteParam /\ buf' = buf
        /\ queued' = queued /\ received' = received
    BY DEF paramVars
  <1>2. ParamType /\ ParamInv
    BY DEF IInv
  <1>3. ParamType'
    BY <1>1, <1>2 DEF ParamType
  <1>4. ParamInv'
    BY <1>1, <1>2 DEF ParamInv, In, Distinct, Null
  <1> QED
    BY <1>3, <1>4

\* A sender's steps that move no byte.
LEMMA SenderControl ==
    ASSUME IInv, NEW t \in Sender, Send(t) \/ While(t) \/ Lock(t) \/ Wake(t)
    PROVE  IInv'
  <1>1. RingType /\ FlagType /\ SenderType /\ ConnType
    BY DEF IInv
  <1>2. /\ m_buferWrite' = m_buferWrite /\ accepted' = accepted
        /\ lpc' = lpc /\ dropped' = dropped /\ asyncOpen' = asyncOpen
        /\ m_bIsUserAskForClosed' = m_bIsUserAskForClosed
        /\ conn' = conn /\ resets' = resets
        /\ UNCHANGED <<paramVars, received>>
    BY DEF Send, While, Lock, Wake, connVars
  <1>3. RingType' /\ ConnType'
    BY <1>1, <1>2 DEF RingType, ConnType
  <1>4. ParamType' /\ ParamInv'
    BY <1>2, ParamsKept
  <1>5. FlagType'
    <2>1. m_mutexClients' \in Sender \cup {Loop, Nobody}
      BY <1>1 DEF FlagType, Send, While, Lock, Wake
    <2>2. pending' \in BOOLEAN
      BY <1>1 DEF FlagType, Send, While, Lock, Wake
    <2> QED
      BY <1>1, <1>2, <2>1, <2>2 DEF FlagType
  <1>6. SenderType'
    <2>1. pc' \in [Sender -> Labels]
      <3>1. \E l \in Labels : pc' = [pc EXCEPT ![t] = l]
        BY DEF Send, While, Lock, Wake, Goto, Labels
      <3> QED
        BY <1>1, <3>1 DEF SenderType
    <2>2. calls' \in [Sender -> 0..MaxSend]
      <3>1. CASE Send(t)
        <4>1. calls[t] \in 0..MaxSend /\ calls[t] < MaxSend /\ MaxSend \in Nat
          BY <1>1, <3>1, SendAssumption DEF SenderType, Send
        <4>2. calls[t] + 1 \in 0..MaxSend
          BY <4>1
        <4>3. calls' = [calls EXCEPT ![t] = calls[t] + 1]
          BY <3>1 DEF Send
        <4> QED
          BY <1>1, <4>2, <4>3 DEF SenderType
      <3>2. CASE While(t) \/ Lock(t) \/ Wake(t)
        BY <1>1, <3>2 DEF SenderType, While, Lock, Wake
      <3> QED
        BY <3>1, <3>2
    <2>3. todo' \in [Sender -> Seq(Byte)]
      <3>1. CASE Send(t)
        <4>1. PICK len \in MsgLen :
                 todo' = [todo EXCEPT ![t] = [i \in 1..len |-> <<t, calls'[t], i>>]]
          BY <3>1 DEF Send
        <4>2. calls'[t] \in Nat
          BY <2>2, SendAssumption
        <4>3. len \in Nat
          BY SendAssumption
        <4>4. \A i \in 1..len : <<t, calls'[t], i>> \in Byte
          BY <4>2, <4>3 DEF Byte
        <4>5. [i \in 1..len |-> <<t, calls'[t], i>>] \in Seq(Byte)
          BY <4>3, <4>4
        <4> QED
          BY <1>1, <4>1, <4>5 DEF SenderType
      <3>2. CASE Wake(t)
        BY <1>1, <3>2, EmptySeq DEF SenderType, Wake
      <3>3. CASE While(t) \/ Lock(t)
        BY <1>1, <3>3 DEF SenderType, While, Lock
      <3> QED
        BY <3>1, <3>2, <3>3
    <2> QED
      BY <2>1, <2>2, <2>3 DEF SenderType
  <1> QED
    BY <1>3, <1>4, <1>5, <1>6 DEF IInv

\* write into the ring: it never holds more than its capacity.
LEMMA WriteStep ==
    ASSUME IInv, NEW t \in Sender, Write(t)
    PROVE  IInv'
  <1> DEFINE n == IF Len(todo[t]) <= Room THEN Len(todo[t]) ELSE Room
             w == todo[t]
             taken == SubSeq(w, 1, n)
             rest == SubSeq(w, n + 1, Len(w))
  <1>1. RingType /\ FlagType /\ SenderType /\ ConnType
    BY DEF IInv
  <1>2. /\ m_buferWrite' = m_buferWrite \o taken /\ accepted' = accepted \o taken
        /\ todo' = [todo EXCEPT ![t] = rest] /\ m_mutexClients' = Nobody
        /\ \E l \in Labels : pc' = [pc EXCEPT ![t] = l]
        /\ calls' = calls /\ lpc' = lpc /\ dropped' = dropped /\ asyncOpen' = asyncOpen
        /\ pending' = pending /\ m_bIsUserAskForClosed' = m_bIsUserAskForClosed
        /\ conn' = conn /\ resets' = resets
        /\ UNCHANGED <<paramVars, received>>
    BY DEF Write, Goto, Labels, connVars
  <1>3. /\ w \in Seq(Byte) /\ Len(w) \in Nat /\ Len(m_buferWrite) \in Nat
        /\ Len(m_buferWrite) <= BUFFER_SIZE /\ BUFFER_SIZE \in Nat
    <2>1. w \in Seq(Byte) /\ m_buferWrite \in Seq(Byte) /\ Len(m_buferWrite) <= BUFFER_SIZE
      BY <1>1 DEF SenderType, RingType
    <2> QED
      BY <2>1, LenProperties, SendAssumption
  <1>4. n \in Nat /\ n <= Len(w) /\ n <= BUFFER_SIZE - Len(m_buferWrite)
    BY <1>3 DEF Room
  <1> HIDE DEF n, w
  <1>5. taken \in Seq(Byte) /\ Len(taken) = n
    <2>1. \A i \in 1..n : w[i] \in Byte
      BY <1>3, <1>4, ElementOfSeq
    <2> QED
      BY <1>3, <1>4, <2>1, SubSeqProperties
  <1>6. rest \in Seq(Byte)
    <2>1. \A i \in n + 1..Len(w) : w[i] \in Byte
      BY <1>3, <1>4, ElementOfSeq
    <2> QED
      BY <1>3, <1>4, <2>1, SubSeqProperties
  <1> HIDE DEF taken, rest
  <1>7. RingType'
    <2>1. /\ m_buferWrite \o taken \in Seq(Byte) /\ accepted \o taken \in Seq(Byte)
          /\ Len(m_buferWrite \o taken) = Len(m_buferWrite) + n
      BY <1>1, <1>5, ConcatProperties DEF RingType
    <2> QED
      BY <1>2, <1>3, <1>4, <2>1 DEF RingType
  <1>8. SenderType'
    BY <1>1, <1>2, <1>6 DEF SenderType
  <1>9. FlagType' /\ ConnType'
    BY <1>1, <1>2 DEF FlagType, ConnType
  <1>10. ParamType' /\ ParamInv'
    BY <1>2, ParamsKept
  <1> QED
    BY <1>7, <1>8, <1>9, <1>10 DEF IInv

\* The other steps that leave the write_params where they are.
LEMMA LoopControl ==
    ASSUME IInv, \/ Close \/ AsyncCloseCB \/ AfterRecv \/ SendInlLock \/ SendInlEmpty
                 \/ Reset \/ Disconnect \/ Reconnect \/ UNCHANGED vars
    PROVE  IInv'
  <1>1. RingType /\ FlagType /\ SenderType /\ ConnType
    BY DEF IInv
  <1>2. /\ m_buferWrite' = m_buferWrite /\ accepted' = accepted
        /\ pc' = pc /\ todo' = todo /\ calls' = calls /\ dropped' = dropped
        /\ UNCHANGED <<paramVars, received>>
    BY DEF Close, AsyncCloseCB, AfterRecv, SendInlLock, SendInlEmpty, Reset, Disconnect,
           Reconnect, ConnTo, sendVars, vars
  <1>3. RingType' /\ SenderType'
    BY <1>1, <1>2 DEF RingType, SenderType
  <1>4. /\ lpc' \in {"uv_run", "lock", "read", "uv_write"}
        /\ lpc' = "uv_write" <=> lpc = "uv_write"
    BY <1>1 DEF FlagType, Close, AsyncCloseCB, AfterRecv, SendInlLock, SendInlEmpty,
                Reset, Disconnect, Reconnect, ConnTo, vars
  <1>5. ParamType' /\ ParamInv'
    BY <1>2, <1>4, ParamsKept
  <1>6. m_mutexClients' \in Sender \cup {Loop, Nobody}
    BY <1>1 DEF FlagType, Close, AsyncCloseCB, AfterRecv, SendInlLock, SendInlEmpty,
                Reset, Disconnect, Reconnect, ConnTo, vars
  <1>7. m_bIsUserAskForClosed' \in BOOLEAN /\ pending' \in BOOLEAN /\ asyncOpen' \in BOOLEAN
    BY <1>1 DEF FlagType, Close, AsyncCloseCB, AfterRecv, SendInlLock, SendInlEmpty,
                Reset, Disconnect, Reconnect, ConnTo, vars
  <1>8. FlagType'
    BY <1>1, <1>2, <1>4, <1>6, <1>7 DEF FlagType
  <1>9. ConnType'
    <2>1. conn' \in {"up", "reset", "down"}
      BY <1>1 DEF ConnType, Close, AsyncCloseCB, AfterRecv, SendInlLock, SendInlEmpty,
                  Reset, Disconnect, Reconnect, ConnTo, vars, connVars
    <2>2. resets' \in 0..MaxReset
      <3>1. CASE Reset
        <4>1. resets \in 0..MaxReset /\ resets < MaxReset /\ resets' = resets + 1
              /\ MaxReset \in Nat
          BY <1>1, <3>1, SendAssumption DEF ConnType, Reset
        <4> QED
          BY <4>1
      <3>2. CASE ~Reset
        BY <1>1, <3>2 DEF ConnType, Close, AsyncCloseCB, AfterRecv, SendInlLock,
                          SendInlEmpty, Disconnect, Reconnect, ConnTo, vars, connVars
      <3> QED
        BY <3>1, <3>2
    <2> QED
      BY <2>1, <2>2 DEF ConnType
  <1> QED
    BY <1>3, <1>5, <1>8, <1>9 DEF IInv

\* A write that is finished gives its write_param to the list, or frees it.
LEMMA AfterSendStep ==
    ASSUME IInv, AfterSend
    PROVE  IInv'
  <1> DEFINE p == Head(queued)
             l == m_listWriteParam
             q == queued
  <1>1. RingType /\ FlagType /\ SenderType /\ ConnType /\ ParamType /\ ParamInv
    BY DEF IInv
  <1>2. /\ lpc = "uv_run" /\ lpc' \in {"lock", "uv_run"} /\ q # <<>> /\ q' = Tail(q)
        /\ l' = IF Len(l) > MAXLISTSIZE THEN l ELSE Append(l, p)
        /\ received' = received \o buf[p] \/ received' = received
        /\ writep' = writep /\ buf' = buf
        /\ m_buferWrite' = m_buferWrite /\ accepted' = accepted
        /\ pc' = pc /\ todo' = todo /\ calls' = calls
        /\ m_mutexClients' = m_mutexClients /\ m_bIsUserAskForClosed' = m_bIsUserAskForClosed
        /\ pending' = pending /\ asyncOpen' = asyncOpen /\ dropped' \in BOOLEAN
        /\ conn' = conn /\ resets' = resets
    BY <1>1 DEF AfterSend, Recycle, sendVars, connVars, FlagType
  <1>3. RingType' /\ SenderType' /\ ConnType' /\ FlagType'
    BY <1>1, <1>2 DEF RingType, SenderType, ConnType, FlagType
  <1>4. /\ l \in Seq(Param) /\ Len(l) \in Nat /\ q \in Seq(Param)
        /\ Distinct(l) /\ Distinct(q) /\ Len(l) <= MAXLISTSIZE + 1 /\ MAXLISTSIZE \in Nat
    BY <1>1, LenProperties, SendAssumption DEF ParamType, ParamInv
  <1>5. writep = Null /\ writep' = Null
    BY <1>1, <1>2 DEF ParamInv
  <1>6. /\ p \in Param /\ Tail(q) \in Seq(Param) /\ Distinct(Tail(q)) /\ ~In(p, Tail(q))
        /\ \A r : In(r, q) <=> r = p \/ In(r, Tail(q))
    BY <1>2, <1>4, TailDistinct
  <1>7. /\ Append(l, p) \in Seq(Param) /\ Len(Append(l, p)) = Len(l) + 1
        /\ \A r : In(r, Append(l, p)) <=> In(r, l) \/ r = p
        /\ ~In(p, l) => Distinct(Append(l, p))
    BY <1>4, <1>6, AppendDistinct
  <1>8. ~In(p, l)
    BY <1>1, <1>6 DEF ParamInv
  <1>9. /\ l' \in Seq(Param) /\ Len(l') <= MAXLISTSIZE + 1 /\ Distinct(l')
        /\ \A r : In(r, l') => In(r, l) \/ r = p
    <2>1. CASE Len(l) > MAXLISTSIZE
      BY <1>2, <1>4, <2>1
    <2>2. CASE ~(Len(l) > MAXLISTSIZE)
      <3>1. l' = Append(l, p) /\ Len(l) + 1 <= MAXLISTSIZE + 1
        BY <1>2, <1>4, <2>2
      <3> HIDE DEF l, p
      <3> QED
        BY <1>7, <1>8, <3>1
    <2> QED
      BY <2>1, <2>2
  <1>10. received' \in Seq(Byte)
    <2>1. buf[p] \in Seq(Byte) /\ received \in Seq(Byte)
      BY <1>1, <1>6 DEF ParamType
    <2> QED
      BY <1>2, <2>1, ConcatProperties
  <1>11. ParamType'
    BY <1>1, <1>2, <1>6, <1>9, <1>10 DEF ParamType
  <1>12. ParamInv'
    <2>1. \A r : ~(In(r, l') /\ In(r, q'))
      <3>1. \A r : ~(In(r, l) /\ In(r, q))
        BY <1>1 DEF ParamInv
      <3> HIDE DEF l, q, p
      <3> QED
        BY <1>2, <1>6, <1>9, <3>1
    <2>2. Distinct(q')
      BY <1>2, <1>6
    <2>3. lpc' # "uv_write"
      BY <1>2
    <2> QED
      BY <1>5, <1>9, <2>1, <2>2, <2>3 DEF ParamInv, Null, In, Distinct
  <1> QED
    BY <1>3, <1>11, <1>12 DEF IInv

\* The ring is read into a write_param that nobody else has.
LEMMA SendInlReadStep ==
    ASSUME IInv, SendInlRead
    PROVE  IInv'
  <1> DEFINE p == writep'
             l == m_listWriteParam
             q == queued
  <1>1. RingType /\ FlagType /\ SenderType /\ ConnType /\ ParamType /\ ParamInv
    BY DEF IInv
  <1>2. /\ TakeParam /\ lpc = "read" /\ lpc' = "uv_write"
        /\ buf' = [buf EXCEPT ![p] = m_buferWrite]
        /\ m_buferWrite' = <<>> /\ m_mutexClients' = Nobody /\ accepted' = accepted
        /\ pc' = pc /\ todo' = todo /\ calls' = calls /\ q' = q
        /\ m_bIsUserAskForClosed' = m_bIsUserAskForClosed
        /\ pending' = pending /\ asyncOpen' = asyncOpen /\ dropped' = dropped
        /\ received' = received /\ conn' = conn /\ resets' = resets
    BY DEF SendInlRead, sendVars, connVars
  <1>3. RingType' /\ SenderType' /\ ConnType' /\ FlagType'
    <2>1. <<>> \in Seq(Byte) /\ Len(<<>>) = 0 /\ 0 <= BUFFER_SIZE
      BY EmptySeq, SendAssumption
    <2> QED
      BY <1>1, <1>2, <2>1 DEF RingType, SenderType, ConnType, FlagType
  <1>4. /\ l \in Seq(Param) /\ Len(l) \in Nat /\ q \in Seq(Param)
        /\ Distinct(l) /\ Distinct(q) /\ Len(l) <= MAXLISTSIZE + 1 /\ MAXLISTSIZE \in Nat
        /\ \A r : ~(In(r, l) /\ In(r, q))
    BY <1>1, LenProperties, SendAssumption DEF ParamType, ParamInv
  <1>5. /\ p \in Param /\ l' \in Seq(Param) /\ Len(l') <= MAXLISTSIZE /\ Distinct(l')
        /\ ~In(p, l') /\ ~In(p, q) /\ \A r : In(r, l') => In(r, l)
    <2>1. CASE l # <<>> /\ p = Head(l) /\ l' = Tail(l)
      <3>1. /\ Head(l) \in Param /\ Tail(l) \in Seq(Param) /\ Len(Tail(l)) = Len(l) - 1
            /\ Distinct(Tail(l)) /\ ~In(Head(l), Tail(l))
            /\ \A r : In(r, l) <=> r = Head(l) \/ In(r, Tail(l))
        BY <1>4, <2>1, TailDistinct
      <3>2. ~In(Head(l), q)
        BY <1>4, <3>1
      <3>3. Len(l) - 1 <= MAXLISTSIZE
        BY <1>4
      <3> HIDE DEF l, p, q
      <3> QED
        BY <2>1, <3>1, <3>2, <3>3
    <2>2. CASE l = <<>> /\ Param \ InUse # {} /\ p = Min(Param \ InUse) /\ l' = l
      <3>1. Param \ InUse \in SUBSET Nat
        BY SendAssumption
      <3>2. p \in Param \ InUse
        BY <2>2, <3>1, MinIsLeast
      <3>3. ~In(p, q)
        BY <1>4, <3>2 DEF InUse, Range, In
      <3>4. Len(l) = 0 /\ ~In(p, l)
        BY <2>2, EmptySeq DEF In
      <3> HIDE DEF l, p, q
      <3> QED
        BY <1>4, <2>2, <3>2, <3>3, <3>4
    <2> QED
      BY <1>2, <2>1, <2>2 DEF TakeParam
  <1>6. p # Null
    BY <1>5, SendAssumption DEF Null
  <1>7. ParamType'
    <2>1. buf' \in [Param -> Seq(Byte)]
      BY <1>1, <1>2, <1>5 DEF ParamType, RingType
    <2>2. Len(l') <= MAXLISTSIZE + 1
      <3>1. Len(l') \in Nat
        BY <1>5, LenProperties
      <3> QED
        BY <1>4, <1>5, <3>1
    <2> QED
      BY <1>1, <1>2, <1>5, <2>1, <2>2 DEF ParamType, Null
  <1>8. ParamInv'
    <2>1. /\ Distinct(l)' /\ Distinct(q)' /\ \A r : ~(In(r, l') /\ In(r, q'))
          /\ ~In(p, l') /\ ~In(p, q')
      BY <1>2, <1>4, <1>5 DEF Distinct, In
    <2> QED
      BY <1>2, <1>5, <1>6, <2>1 DEF ParamInv, In, Null
  <1> QED
    BY <1>3, <1>7, <1>8 DEF IInv

\* uv_write takes the write_param, or the error path puts it back.
LEMMA UvWriteStep ==
    ASSUME IInv, UvWrite
    PROVE  IInv'
  <1> DEFINE p == writep
             l == m_listWriteParam
             q == queued
  <1>1. RingType /\ FlagType /\ SenderType /\ ConnType /\ ParamType /\ ParamInv
    BY DEF IInv
  <1>2. /\ lpc = "uv_write" /\ lpc' = "lock" /\ writep' = Null /\ buf' = buf
        /\ m_buferWrite' = m_buferWrite /\ m_mutexClients' = m_mutexClients
        /\ accepted' = accepted /\ pc' = pc /\ todo' = todo /\ calls' = calls
        /\ m_bIsUserAskForClosed' = m_bIsUserAskForClosed
        /\ pending' = pending /\ asyncOpen' = asyncOpen /\ dropped' \in BOOLEAN
        /\ received' = received /\ conn' = conn /\ resets' = resets
        /\ \/ q' = Append(q, p) /\ l' = l
           \/ l' = Append(l, p) /\ q' = q
    BY <1>1 DEF UvWrite, sendVars, connVars, FlagType
  <1>3. RingType' /\ SenderType' /\ ConnType' /\ FlagType'
    BY <1>1, <1>2 DEF RingType, SenderType, ConnType, FlagType
  <1>4. /\ l \in Seq(Param) /\ Len(l) \in Nat /\ q \in Seq(Param)
        /\ Distinct(l) /\ Distinct(q) /\ MAXLISTSIZE \in Nat
        /\ \A r : ~(In(r, l) /\ In(r, q))
    BY <1>1, LenProperties, SendAssumption DEF ParamType, ParamInv
  <1>5. p \in Param /\ ~In(p, l) /\ ~In(p, q) /\ Len(l) <= MAXLISTSIZE
    BY <1>1, <1>2 DEF ParamType, ParamInv
  <1>6. /\ Append(l, p) \in Seq(Param) /\ Len(Append(l, p)) = Len(l) + 1
        /\ \A r : In(r, Append(l, p)) <=> In(r, l) \/ r = p
        /\ Distinct(Append(l, p))
    BY <1>4, <1>5, AppendDistinct
  <1>7. /\ Append(q, p) \in Seq(Param)
        /\ \A r : In(r, Append(q, p)) <=> In(r, q) \/ r = p
        /\ Distinct(Append(q, p))
    BY <1>4, <1>5, AppendDistinct
  <1> HIDE DEF l, q, p
  <1>8. /\ l' \in Seq(Param) /\ Len(l') <= MAXLISTSIZE + 1 /\ q' \in Seq(Param)
    <2>1. /\ Len(l) + 1 <= MAXLISTSIZE + 1 /\ Len(l) <= MAXLISTSIZE + 1
      BY <1>4, <1>5
    <2>2. CASE q' = Append(q, p) /\ l' = l
      BY <1>4, <1>7, <2>1, <2>2
    <2>3. CASE l' = Append(l, p) /\ q' = q
      BY <1>4, <1>6, <2>1, <2>3
    <2> QED
      BY <1>2, <2>2, <2>3
  <1>9. Distinct(l') /\ Distinct(q') /\ \A r : ~(In(r, l') /\ In(r, q'))
    BY <1>2, <1>4, <1>5, <1>6, <1>7
  <1>10. ParamType'
    BY <1>1, <1>2, <1>8 DEF ParamType, Null, l, q
  <1>11. ParamInv'
    BY <1>2, <1>9 DEF ParamInv, Null, l, q, Distinct, In
  <1> QED
    BY <1>3, <1>10, <1>11 DEF IInv

\* Every step of every thread keeps the invariant, ...
LEMMA InductiveStep ==
    ASSUME IInv, [Next]_vars
    PROVE  IInv'
  <1>1. ASSUME NEW t \in Sender, Send(t) \/ SenderStep(t) PROVE IInv'
    BY <1>1, SenderControl, WriteStep DEF SenderStep
  <1>2. CASE Close \/ AsyncCloseCB \/ AfterRecv \/ Reset \/ Disconnect \/ Reconnect
             \/ UNCHANGED vars
    BY <1>2, LoopControl
  <1>3. CASE AfterSend
    BY <1>3, AfterSendStep
  <1>4. CASE SendInl
    BY <1>4, LoopControl, SendInlReadStep, UvWriteStep DEF SendInl
  <1> QED
    BY <1>1, <1>2, <1>3, <1>4 DEF Next

\* ... so that it always holds.
THEOREM Inductive == Spec => []IInv
  BY InitInv, InductiveStep, PTL DEF Spec

\* Types and limits: the ring holds no more than its capacity, and the list of
\* write_params one more than MAXLISTSIZE, on the error path of send_inl too.
THEOREM TypeCorrect == Spec => []TypeOK
  <1>1. IInv => TypeOK
    BY Parts DEF IInv
  <1> QED
    BY <1>1, Inductive, PTL

\* No write_param is filled, listed or given to libuv a second time while it is
\* still in one of these places.
THEOREM OneOwner == Spec => []ParamsOwned
  <1>1. ASSUME IInv PROVE ParamsOwned
    <2> DEFINE w == IF writep = Null THEN <<>> ELSE <<writep>>
               l == m_listWriteParam
               q == queued
               c == l \o q
    <2>1. /\ l \in Seq(Param) /\ q \in Seq(Param) /\ Distinct(l) /\ Distinct(q)
          /\ \A r : ~(In(r, l) /\ In(r, q))
          /\ writep # Null => ~In(writep, l) /\ ~In(writep, q) /\ writep \in Param
      BY <1>1 DEF IInv, ParamType, ParamInv
    <2>2. /\ w \in Seq(Param) /\ Distinct(w)
          /\ \A r : In(r, w) => r = writep /\ writep # Null
      <3>1. CASE writep = Null
        BY <3>1, EmptySeq DEF Distinct, In
      <3>2. CASE writep # Null
        BY <2>1, <3>2 DEF Distinct, In
      <3> QED
        BY <3>1, <3>2
    <2> HIDE DEF w, l, q
    <2>3. /\ c \in Seq(Param) /\ Distinct(c) /\ \A r : In(r, c) => In(r, l) \/ In(r, q)
      BY <2>1, ConcatDistinct
    <2> HIDE DEF c
    <2>4. \A r : ~(In(r, c) /\ In(r, w))
      BY <2>1, <2>2, <2>3
    <2>5. c \o w \in Seq(Param) /\ Distinct(c \o w)
      BY <2>2, <2>3, <2>4, ConcatDistinct
    <2>6. IsInjective(c \o w)
      <3> DEFINE d == c \o w
      <3>1. DOMAIN d = 1..Len(d) /\ Distinct(d)
        BY <2>5, LenProperties
      <3> HIDE DEF d
      <3>2. IsInjective(d)
        BY <3>1 DEF Distinct, IsInjective
      <3> QED
        BY <3>2 DEF d
    <2> QED
      BY <2>6 DEF ParamsOwned, c, w, l, q
  <1> QED
    BY <1>1, Inductive, PTL

(***************************************************************************)
(* The bytes of several write_params, one after the other.                 *)
(***************************************************************************)
Concats(b, s, n, f) == f = [i \in 0..n |-> IF i = 0 THEN <<>> ELSE f[i - 1] \o b[s[i]]]

\* The function that Flat defines exists, by induction on its length.
LEMMA FlatExists == \A b, s : \A n \in Nat : \E f : Concats(b, s, n, f)
  <1> SUFFICES ASSUME NEW b, NEW s PROVE \A n \in Nat : \E f : Concats(b, s, n, f)
    OBVIOUS
  <1> DEFINE S == {n \in Nat : \E f : Concats(b, s, n, f)}
  <1>1. 0 \in S
    <2> DEFINE f == [i \in 0..0 |-> <<>>]
    <2>1. Concats(b, s, 0, f)
      BY DEF Concats
    <2> QED
      BY <2>1
  <1>2. ASSUME NEW n \in Nat, n \in S PROVE n + 1 \in S
    <2>1. PICK f : Concats(b, s, n, f)
      BY <1>2
    <2> DEFINE h(i) == IF i = n + 1 THEN f[n] \o b[s[n + 1]] ELSE f[i]
    <2>2. PICK g : g = [i \in 0..n + 1 |-> h(i)]
      OBVIOUS
    <2>3. (\A i \in 0..n + 1 : g[i] = h(i)) /\ n + 1 \in 0..n + 1
      BY <2>2
    <2>4. \A i \in 0..n : g[i] = f[i] /\ f[i] = IF i = 0 THEN <<>> ELSE f[i - 1] \o b[s[i]]
      BY <2>1, <2>3 DEF Concats
    <2>5. g[n + 1] = f[n] \o b[s[n + 1]]
      <3>1. g[n + 1] = h(n + 1)
        BY <2>3
      <3> QED
        BY <3>1
    <2> HIDE DEF h
    <2>6. ASSUME NEW i \in 0..n + 1 PROVE h(i) = IF i = 0 THEN <<>> ELSE g[i - 1] \o b[s[i]]
      <3>1. CASE i = n + 1
        <4>1. i - 1 = n /\ i # 0 /\ n \in 0..n
          BY <3>1
        <4> QED
          BY <2>3, <2>4, <2>5, <3>1, <4>1
      <3>2. CASE i \in 0..n /\ i # 0
        <4>1. i - 1 \in 0..n
          BY <3>2
        <4> QED
          BY <2>3, <2>4, <3>2, <4>1
      <3>3. CASE i = 0
        BY <2>3, <2>4, <3>3
      <3>4. i = n + 1 \/ i \in 0..n
        OBVIOUS
      <3> QED
        BY <3>1, <3>2, <3>3, <3>4
    <2>7. Concats(b, s, n + 1, g)
      BY <2>2, <2>6 DEF Concats
    <2> QED
      BY <2>7
  <1>3. \A n \in Nat : n \in S
    <2> HIDE DEF S
    <2> QED
      BY <1>1, <1>2, Induction
  <1> QED
    BY <1>3

\* What Flat stands for.
LEMMA FlatIs ==
    ASSUME NEW b, NEW s
    PROVE  Flat(b, s) = (CHOOSE f : Concats(b, s, Len(s), f))[Len(s)]
  BY DEF Flat, Concats

\* A function that appends one content after another, and Flat is what it comes to.
FlatSteps(B, b, s, f) ==
    /\ f[0] = <<>> /\ f[0] \in Seq(B)
    /\ \A i \in 1..Len(s) : f[i] = f[i - 1] \o b[s[i]] /\ f[i] \in Seq(B)
    /\ f[Len(s)] \in Seq(B)
    /\ Flat(b, s) = f[Len(s)]

\* There is such a function.
LEMMA FlatFunction ==
    ASSUME NEW P, NEW B, NEW b \in [P -> Seq(B)], NEW s \in Seq(P)
    PROVE  \E f : FlatSteps(B, b, s, f)
  <1> DEFINE n == Len(s)
             f == CHOOSE g : Concats(b, s, n, g)
  <1>0. n \in Nat
    BY LenProperties
  <1>1. Concats(b, s, n, f)
    BY <1>0, FlatExists
  <1>2. Flat(b, s) = f[n]
    BY FlatIs
  <1> HIDE DEF f
  <1>3. f[0] = <<>> /\ \A i \in 1..n : f[i] = f[i - 1] \o b[s[i]]
    <2>1. \A i \in 0..n : f[i] = IF i = 0 THEN <<>> ELSE f[i - 1] \o b[s[i]]
      BY <1>1 DEF Concats
    <2>2. 0 \in 0..n /\ \A i \in 1..n : i \in 0..n /\ i # 0
      BY <1>0
    <2> HIDE DEF n
    <2> QED
      BY <2>1, <2>2
  <1>4. \A i \in 1..n : b[s[i]] \in Seq(B)
    BY ElementOfSeq
  <1> DEFINE S == {i \in Nat : i <= n => f[i] \in Seq(B)}
  <1>5. \A i \in Nat : i \in S
    <2>1. 0 \in S
      BY <1>3, EmptySeq
    <2>2. ASSUME NEW i \in Nat, i \in S PROVE i + 1 \in S
      <3>1. SUFFICES ASSUME i + 1 <= n PROVE f[i + 1] \in Seq(B)
        OBVIOUS
      <3>2. f[i] \in Seq(B) /\ i + 1 \in 1..n /\ (i + 1) - 1 = i
        BY <1>0, <2>2, <3>1
      <3>3. f[i + 1] = f[i] \o b[s[i + 1]] /\ b[s[i + 1]] \in Seq(B)
        BY <1>3, <1>4, <3>2
      <3> HIDE DEF S
      <3> QED
        BY <3>2, <3>3, ConcatProperties
    <2> HIDE DEF S
    <2> QED
      BY <2>1, <2>2, Induction
  <1>6. \A i \in 0..n : f[i] \in Seq(B)
    BY <1>5
  <1>7. f[0] \in Seq(B) /\ f[n] \in Seq(B) /\ \A i \in 1..n : f[i] \in Seq(B)
    <2>1. 0 \in 0..n /\ n \in 0..n /\ \A i \in 1..n : i \in 0..n
      BY <1>0
    <2> QED
      BY <1>6, <2>1
  <1> HIDE DEF S
  <1>8. FlatSteps(B, b, s, f)
    BY <1>2, <1>3, <1>7 DEF FlatSteps
  <1> QED
    BY <1>8

\* Up to k the functions f and g append the same.
Alike(k, f, g) ==
    /\ f[0] = g[0]
    /\ \A i \in 1..k : \E x : f[i] = f[i - 1] \o x /\ g[i] = g[i - 1] \o x

\* Then they come to the same.
LEMMA FlatAgree ==
    ASSUME NEW k \in Nat, NEW f, NEW g, Alike(k, f, g)
    PROVE  f[k] = g[k]
  <1> DEFINE S == {i \in Nat : i <= k => f[i] = g[i]}
  <1>1. 0 \in S
    BY DEF Alike
  <1>2. ASSUME NEW i \in Nat, i \in S PROVE i + 1 \in S
    <2>1. SUFFICES ASSUME i + 1 <= k PROVE f[i + 1] = g[i + 1]
      OBVIOUS
    <2>2. i + 1 \in 1..k /\ (i + 1) - 1 = i /\ f[i] = g[i]
      BY <1>2, <2>1
    <2> HIDE DEF S
    <2> QED
      BY <2>2 DEF Alike
  <1>3. \A i \in Nat : i \in S
    <2> HIDE DEF S
    <2> QED
      BY <1>1, <1>2, Induction
  <1> QED
    BY <1>3

\* One more write_param adds its bytes at the end.
LEMMA FlatAppend ==
    ASSUME NEW P, NEW B, NEW b \in [P -> Seq(B)], NEW s \in Seq(P), NEW p \in P
    PROVE  /\ Flat(b, s) \in Seq(B)
           /\ Flat(b, Append(s, p)) = Cat(Flat(b, s), b[p])
  <1> DEFINE n == Len(s)
             t == Append(s, p)
  <1>1. /\ t \in Seq(P) /\ Len(t) = n + 1 /\ n \in Nat /\ t[n + 1] = p
        /\ \A i \in 1..n : t[i] = s[i]
    BY AppendProperties, LenProperties
  <1> HIDE DEF t, n
  <1>a. PICK f : FlatSteps(B, b, s, f)
    BY FlatFunction
  <1>b. PICK g : FlatSteps(B, b, t, g)
    BY <1>1, FlatFunction
  <1>2. /\ f[0] = <<>>
        /\ \A i \in 1..n : f[i] = f[i - 1] \o b[s[i]]
        /\ f[n] \in Seq(B) /\ Flat(b, s) = f[n]
    BY <1>a DEF FlatSteps, n
  <1>3. /\ g[0] = <<>>
        /\ \A i \in 1..n + 1 : g[i] = g[i - 1] \o b[t[i]]
        /\ Flat(b, t) = g[n + 1]
    BY <1>1, <1>b DEF FlatSteps
  <1>4. f[n] = g[n]
    <2>1. ASSUME NEW i \in 1..n
          PROVE  f[i] = f[i - 1] \o b[s[i]] /\ g[i] = g[i - 1] \o b[s[i]]
      <3>1. i \in 1..n + 1
        BY <1>1
      <3> QED
        BY <1>1, <1>2, <1>3, <3>1
    <2>2. Alike(n, f, g)
      BY <1>2, <1>3, <2>1 DEF Alike
    <2> QED
      BY <1>1, <2>2, FlatAgree
  <1>5. g[n + 1] = g[n] \o b[p]
    <2>1. n + 1 \in 1..n + 1 /\ (n + 1) - 1 = n
      BY <1>1
    <2> QED
      BY <1>1, <1>3, <2>1
  <1> QED
    BY <1>2, <1>3, <1>4, <1>5 DEF t, Cat

\* The bytes of the first write_param come first.
LEMMA FlatTail ==
    ASSUME NEW P, NEW B, NEW b \in [P -> Seq(B)], NEW s \in Seq(P), s # <<>>
    PROVE  /\ b[Head(s)] \in Seq(B) /\ Flat(b, Tail(s)) \in Seq(B)
           /\ Flat(b, s) = Cat(b[Head(s)], Flat(b, Tail(s)))
  <1> DEFINE n == Len(s)
             t == Tail(s)
             h == b[Head(s)]
  <1>1. /\ n \in Nat /\ n >= 1 /\ t \in Seq(P) /\ Len(t) = n - 1
        /\ Head(s) = s[1] /\ Head(s) \in P
        /\ \A i \in 1..n - 1 : t[i] = s[i + 1]
    <2>1. Head(s) \in P /\ t \in Seq(P) /\ Len(t) = n - 1 /\ n >= 1
      BY TailDistinct
    <2>2. /\ Head(s) = s[1] /\ n \in Nat
          /\ \A i \in 1..Len(t) : t[i] = s[i + 1]
      BY HeadTailProperties, LenProperties
    <2> QED
      BY <2>1, <2>2
  <1>2. h \in Seq(B)
    BY <1>1
  <1> HIDE DEF t, n, h
  <1>a. PICK f : FlatSteps(B, b, s, f)
    BY FlatFunction
  <1>b. PICK g : FlatSteps(B, b, t, g)
    BY <1>1, FlatFunction
  <1>3. /\ f[0] = <<>>
        /\ \A i \in 1..n : f[i] = f[i - 1] \o b[s[i]]
        /\ Flat(b, s) = f[n]
    BY <1>a DEF FlatSteps, n
  <1>4. /\ g[0] = <<>> /\ g[0] \in Seq(B)
        /\ \A i \in 1..n - 1 : g[i] = g[i - 1] \o b[t[i]] /\ g[i] \in Seq(B)
        /\ g[n - 1] \in Seq(B) /\ Flat(b, t) = g[n - 1]
    BY <1>1, <1>b DEF FlatSteps
  <1> DEFINE S == {i \in Nat : i <= n - 1 => f[i + 1] = h \o g[i] /\ g[i] \in Seq(B)}
  <1>5. 0 \in S
    <2>1. 1 \in 1..n /\ 1 - 1 = 0
      BY <1>1
    <2>2. f[1] = <<>> \o h
      BY <1>1, <1>3, <2>1 DEF h
    <2>3. h \o <<>> = h /\ <<>> \o h = h
      BY <1>2, ConcatEmptySeq
    <2>4. f[0 + 1] = h \o g[0] /\ g[0] \in Seq(B)
      BY <1>4, <2>2, <2>3
    <2> QED
      BY <2>4
  <1>6. ASSUME NEW i \in Nat, i \in S PROVE i + 1 \in S
    <2>1. SUFFICES ASSUME i + 1 <= n - 1
                   PROVE  f[(i + 1) + 1] = h \o g[i + 1] /\ g[i + 1] \in Seq(B)
      OBVIOUS
    <2>2. f[i + 1] = h \o g[i] /\ g[i] \in Seq(B)
      BY <1>1, <1>6, <2>1
    <2>3. /\ i + 1 \in 1..n - 1 /\ (i + 1) - 1 = i
          /\ (i + 1) + 1 \in 1..n /\ ((i + 1) + 1) - 1 = i + 1
      BY <1>1, <2>1
    <2> DEFINE c == b[t[i + 1]]
    <2>4. g[i + 1] = g[i] \o c /\ g[i + 1] \in Seq(B) /\ t[i + 1] = s[(i + 1) + 1]
      BY <1>1, <1>4, <2>3
    <2>5. f[(i + 1) + 1] = f[i + 1] \o c
      BY <1>3, <2>3, <2>4
    <2>6. c \in Seq(B)
      BY <1>1, <2>3, ElementOfSeq
    <2> HIDE DEF c
    <2>7. (h \o g[i]) \o c = h \o (g[i] \o c)
      <3> DEFINE sent == g[i]
      <3>1. h \in Seq(B) /\ sent \in Seq(B) /\ c \in Seq(B)
        BY <1>2, <2>2, <2>6
      <3> HIDE DEF S, sent
      <3>2. Cat(Cat(h, sent), c) = Cat(h, Cat(sent, c))
        BY <3>1, CatAssociative
      <3> QED
        BY <3>2 DEF Cat, sent
    <2> QED
      BY <2>2, <2>4, <2>5, <2>7
  <1>7. \A i \in Nat : i \in S
    <2> HIDE DEF S
    <2> QED
      BY <1>5, <1>6, Induction
  <1>8. f[n] = h \o g[n - 1]
    <2>1. n - 1 \in Nat /\ (n - 1) + 1 = n /\ n - 1 <= n - 1
      BY <1>1
    <2>2. n - 1 \in S
      BY <1>7, <2>1
    <2> QED
      BY <2>1, <2>2
  <1> QED
    BY <1>2, <1>3, <1>4, <1>8 DEF h, t, Cat

\* The write_params of s have the same contents in b and c.
SameOn(b, c, s) == \A p : In(p, s) => b[p] = c[p]

\* The contents of other write_params do not matter.
LEMMA FlatSame ==
    ASSUME NEW P, NEW s \in Seq(P), NEW b, NEW c, SameOn(b, c, s)
    PROVE  Flat(b, s) = Flat(c, s)
  <1> DEFINE n == Len(s)
  <1>1. n \in Nat
    BY LenProperties
  <1> HIDE DEF n
  <1>2. ASSUME NEW x
        PROVE  \E f : /\ f[0] = <<>>
                      /\ \A i \in 1..n : f[i] = f[i - 1] \o x[s[i]]
                      /\ Flat(x, s) = f[n]
    <2> DEFINE f == CHOOSE h : Concats(x, s, n, h)
    <2>1. Concats(x, s, n, f)
      BY <1>1, FlatExists
    <2>2. Flat(x, s) = f[n]
      BY FlatIs DEF n
    <2> HIDE DEF f
    <2>3. \A i \in 0..n : f[i] = IF i = 0 THEN <<>> ELSE f[i - 1] \o x[s[i]]
      BY <2>1 DEF Concats
    <2>4. 0 \in 0..n /\ \A i \in 1..n : i \in 0..n /\ i # 0
      BY <1>1
    <2>5. f[0] = <<>> /\ \A i \in 1..n : f[i] = f[i - 1] \o x[s[i]]
      BY <2>3, <2>4
    <2> QED
      BY <2>2, <2>5
  <1>a. PICK f : /\ f[0] = <<>>
                 /\ \A i \in 1..n : f[i] = f[i - 1] \o b[s[i]]
                 /\ Flat(b, s) = f[n]
    BY <1>2
  <1>b. PICK g : /\ g[0] = <<>>
                 /\ \A i \in 1..n : g[i] = g[i - 1] \o c[s[i]]
                 /\ Flat(c, s) = g[n]
    BY <1>2
  <1>4. \A i \in 1..n : b[s[i]] = c[s[i]]
    BY DEF SameOn, In, n
  <1>5. Alike(n, f, g)
    BY <1>a, <1>b, <1>4 DEF Alike
  <1> QED
    BY <1>1, <1>a, <1>b, <1>5, FlatAgree

\* The bytes of some write_params are bytes, and of none there are none.
LEMMA FlatType ==
    ASSUME NEW P, NEW B, NEW b \in [P -> Seq(B)], NEW s \in Seq(P)
    PROVE  Flat(b, s) \in Seq(B) /\ Flat(b, <<>>) = <<>>
  <1>1. PICK f : FlatSteps(B, b, s, f)
    BY FlatFunction
  <1>2. <<>> \in Seq(P) /\ Len(<<>>) = 0
    BY EmptySeq
  <1>3. PICK g : FlatSteps(B, b, <<>>, g)
    BY <1>2, FlatFunction
  <1> QED
    BY <1>1, <1>2, <1>3 DEF FlatSteps

(***************************************************************************)
(* The stream: the bytes the peer got and the ones on their way.           *)
(***************************************************************************)
Filling == IF writep = Null THEN <<>> ELSE buf[writep]
Stream == received \o OnTheWay
Joined(r, f, m, g) == Cat(r, Cat(Cat(f, m), g))

\* The stream is made of four parts.
LEMMA StreamParts == Stream = Joined(received, Flat(buf, queued), Filling, m_buferWrite)
  BY DEF Stream, OnTheWay, Joined, Filling, Cat

\* Bytes that go from the second part to the first one leave the whole as it is.
LEMMA JoinedShift ==
    ASSUME NEW B, NEW r \in Seq(B), NEW f \in Seq(B), NEW m \in Seq(B), NEW g \in Seq(B),
           NEW h \in Seq(B)
    PROVE  /\ Joined(Cat(r, h), f, m, g) = Joined(r, Cat(h, f), m, g)
           /\ Joined(r, Cat(h, f), m, g) = Cat(Cat(r, h), Cat(Cat(f, m), g))
  <1>1. /\ Cat(f, m) \in Seq(B) /\ Cat(Cat(f, m), g) \in Seq(B)
    BY CatType
  <1>2. Cat(Cat(h, f), m) = Cat(h, Cat(f, m))
    BY CatAssociative
  <1>3. Cat(Cat(h, Cat(f, m)), g) = Cat(h, Cat(Cat(f, m), g))
    BY CatAssociative, <1>1
  <1>4. Cat(Cat(r, h), Cat(Cat(f, m), g)) = Cat(r, Cat(h, Cat(Cat(f, m), g)))
    BY CatAssociative, <1>1
  <1> QED
    BY <1>2, <1>3, <1>4 DEF Joined

\* So do the ones that go on from the others; a new one comes at the end.
LEMMA JoinedMoves ==
    ASSUME NEW B, NEW r \in Seq(B), NEW f \in Seq(B), NEW m \in Seq(B), NEW g \in Seq(B),
           NEW h \in Seq(B)
    PROVE  /\ Joined(r, f, m, g) \in Seq(B)
           /\ Joined(r, Cat(f, m), <<>>, g) = Joined(r, f, m, g)
           /\ Joined(r, f, m, <<>>) = Joined(r, f, <<>>, m)
           /\ Joined(r, f, m, Cat(g, h)) = Cat(Joined(r, f, m, g), h)
           /\ Joined(r, f, m, g) = Cat(Cat(Cat(r, f), m), g)
           /\ Joined(r, f, <<>>, g) = Cat(Cat(r, f), g)
  <1>1. /\ Cat(f, m) \in Seq(B) /\ Cat(Cat(f, m), g) \in Seq(B) /\ Cat(h, f) \in Seq(B)
        /\ Cat(r, f) \in Seq(B) /\ Cat(r, h) \in Seq(B) /\ Cat(m, g) \in Seq(B)
    BY CatType
  <1>2. Cat(r, Cat(Cat(f, m), g)) \in Seq(B)
    BY CatType, <1>1
  <1>3. Cat(Cat(f, m), <<>>) = Cat(f, m) /\ Cat(f, <<>>) = f
    BY CatType, <1>1
  <1>4. Cat(r, Cat(Cat(f, m), Cat(g, h))) = Cat(Cat(r, Cat(Cat(f, m), g)), h)
    BY CatAssociative, <1>1
  <1>5. Cat(r, Cat(Cat(f, m), g)) = Cat(Cat(Cat(r, f), m), g)
    BY CatAssociative, <1>1
  <1>6. Cat(r, Cat(f, g)) = Cat(Cat(r, f), g)
    BY CatAssociative
  <1> QED
    BY <1>2, <1>3, <1>4, <1>5, <1>6 DEF Joined

\* The parts of the stream are sequences of bytes.
LEMMA StreamTypes ==
    ASSUME IInv
    PROVE  /\ received \in Seq(Byte) /\ Flat(buf, queued) \in Seq(Byte)
           /\ Filling \in Seq(Byte) /\ m_buferWrite \in Seq(Byte) /\ accepted \in Seq(Byte)
           /\ Stream \in Seq(Byte) /\ <<>> \in Seq(Byte)
  <1>1. RingType /\ ParamType
    BY DEF IInv
  <1>2. Flat(buf, queued) \in Seq(Byte)
    BY <1>1, FlatType DEF ParamType
  <1>3. Filling \in Seq(Byte) /\ <<>> \in Seq(Byte)
    BY <1>1, EmptySeq DEF ParamType, Filling
  <1>4. received \in Seq(Byte) /\ m_buferWrite \in Seq(Byte) /\ accepted \in Seq(Byte)
    BY <1>1 DEF ParamType, RingType
  <1> QED
    BY <1>2, <1>3, <1>4, StreamParts, JoinedMoves

\* At first there is no byte.
LEMMA StreamInit == Init => Stream = <<>>
  <1> SUFFICES ASSUME Init PROVE Stream = <<>>
    OBVIOUS
  <1>1. /\ received = <<>> /\ queued = <<>> /\ writep = Null /\ m_buferWrite = <<>>
        /\ buf \in [Param -> Seq(Byte)]
    BY InitInv DEF Init, IInv, ParamType
  <1>2. <<>> \in Seq(Param) /\ <<>> \in Seq(Byte)
    BY EmptySeq
  <1>3. Flat(buf, queued) = <<>> /\ Filling = <<>>
    BY <1>1, <1>2, FlatType DEF Filling
  <1>4. Stream = Joined(<<>>, <<>>, <<>>, <<>>)
    BY <1>1, <1>3, StreamParts
  <1>5. <<>> \o <<>> = <<>>
    BY <1>2, ConcatEmptySeq
  <1> QED
    BY <1>1, <1>4, <1>5 DEF Joined, Cat

\* What is on its way are bytes.
LEMMA WayType == IInv => OnTheWay \in Seq(Byte)
  <1> SUFFICES ASSUME IInv PROVE OnTheWay \in Seq(Byte)
    OBVIOUS
  <1> DEFINE f == Flat(buf, queued)
             m == Filling
             g == m_buferWrite
  <1>1. f \in Seq(Byte) /\ m \in Seq(Byte) /\ g \in Seq(Byte)
    BY StreamTypes
  <1>2. OnTheWay = Cat(Cat(f, m), g)
    BY DEF OnTheWay, Filling, Cat
  <1> HIDE DEF f, m, g
  <1>3. Cat(f, m) \in Seq(Byte)
    BY <1>1, CatType
  <1> QED
    BY <1>1, <1>2, <1>3, CatType

\* What a step does to the stream: nothing, ...
Same == Stream' = Stream /\ accepted' = accepted /\ (dropped => dropped')

\* ... or the bytes of one request are lost from it, ...
Lost ==
    /\ accepted' = accepted /\ dropped'
    /\ \E x, y, z \in Seq(Byte) : Stream = Cat(Cat(x, y), z) /\ Stream' = Cat(x, z)

\* ... or the ring takes some more.
Took(taken) ==
    Stream' = Cat(Stream, taken) /\ accepted' = Cat(accepted, taken) /\ dropped' = dropped

\* A step that moves no byte.
LEMMA SameStep ==
    ASSUME \/ \E t \in Sender : Send(t) \/ While(t) \/ Lock(t) \/ Wake(t)
           \/ Close \/ AsyncCloseCB \/ AfterRecv \/ SendInlLock \/ SendInlEmpty
           \/ Reset \/ Disconnect \/ Reconnect \/ UNCHANGED vars
    PROVE  Same
  <1>1. /\ m_buferWrite' = m_buferWrite /\ accepted' = accepted /\ received' = received
        /\ dropped' = dropped /\ UNCHANGED paramVars
    BY DEF Send, While, Lock, Wake, Close, AsyncCloseCB, AfterRecv, SendInlLock,
           SendInlEmpty, Reset, Disconnect, Reconnect, ConnTo, vars
  <1>2. buf' = buf /\ queued' = queued /\ writep' = writep
    BY <1>1 DEF paramVars
  <1>3. Stream' = Stream
    BY <1>1, <1>2 DEF Stream, OnTheWay
  <1> QED
    BY <1>1, <1>3 DEF Same

\* A write of a thread adds what it wrote.
LEMMA TookStep ==
    ASSUME IInv, NEW t \in Sender, Write(t)
    PROVE  \E n \in 0..Len(todo[t]) :
              /\ Took(SubSeq(todo[t], 1, n))
              /\ todo' = [todo EXCEPT ![t] = SubSeq(todo[t], n + 1, Len(todo[t]))]
              /\ calls' = calls
  <1> DEFINE w == todo[t]
             n == IF Len(w) <= Room THEN Len(w) ELSE Room
             taken == SubSeq(w, 1, n)
  <1>1. /\ m_buferWrite' = Cat(m_buferWrite, taken) /\ accepted' = Cat(accepted, taken)
        /\ todo' = [todo EXCEPT ![t] = SubSeq(w, n + 1, Len(w))]
        /\ calls' = calls /\ received' = received /\ dropped' = dropped
        /\ UNCHANGED paramVars
    BY DEF Write, Cat
  <1>2. buf' = buf /\ queued' = queued /\ writep' = writep
    BY <1>1 DEF paramVars
  <1>3. /\ w \in Seq(Byte) /\ Len(w) \in Nat /\ Len(m_buferWrite) \in Nat
        /\ Len(m_buferWrite) <= BUFFER_SIZE /\ BUFFER_SIZE \in Nat
    <2>1. w \in Seq(Byte) /\ m_buferWrite \in Seq(Byte) /\ Len(m_buferWrite) <= BUFFER_SIZE
      BY DEF IInv, SenderType, RingType
    <2> QED
      BY <2>1, LenProperties, SendAssumption
  <1>4. n \in 0..Len(w)
    BY <1>3 DEF Room
  <1> HIDE DEF n, w
  <1>5. taken \in Seq(Byte)
    <2>1. n \in Nat /\ \A i \in 1..n : i \in 1..Len(w)
      BY <1>3, <1>4
    <2>2. \A i \in 1..n : w[i] \in Byte
      BY <1>3, <2>1, ElementOfSeq
    <2> QED
      BY <1>3, <1>4, <2>1, <2>2, SubSeqProperties
  <1> HIDE DEF taken
  <1>6. Filling' = Filling /\ Flat(buf, queued)' = Flat(buf, queued)
    BY <1>2 DEF Filling
  <1>7. Stream' = Joined(received, Flat(buf, queued), Filling, Cat(m_buferWrite, taken))
    BY <1>1, <1>6, StreamParts DEF Stream, OnTheWay, Joined, Filling, Cat
  <1>8. Stream' = Cat(Stream, taken)
    <2> DEFINE f == Flat(buf, queued)
    <2>1. /\ received \in Seq(Byte) /\ f \in Seq(Byte)
          /\ Filling \in Seq(Byte) /\ m_buferWrite \in Seq(Byte)
      BY StreamTypes
    <2> HIDE DEF f
    <2>2. Joined(received, f, Filling, Cat(m_buferWrite, taken))
             = Cat(Joined(received, f, Filling, m_buferWrite), taken)
      BY <1>5, <2>1, JoinedMoves
    <2> QED
      BY <1>7, <2>2, StreamParts DEF f
  <1>9. Took(taken)
    BY <1>1, <1>8 DEF Took
  <1> QED
    BY <1>1, <1>4, <1>9 DEF taken, w

\* A finished write: the first request has arrived, or is lost.
LEMMA AfterSendStream ==
    ASSUME IInv, AfterSend
    PROVE  Same \/ Lost
  <1> DEFINE f == Flat(buf, Tail(queued))
             h == buf[Head(queued)]
             r == received
             m == Filling
             g == m_buferWrite
  <1>1. /\ queued # <<>> /\ queued' = Tail(queued) /\ buf' = buf /\ writep' = writep
        /\ m_buferWrite' = m_buferWrite /\ accepted' = accepted
        /\ \/ received' = Cat(r, h) /\ dropped' = dropped
           \/ received' = r /\ dropped'
    BY DEF AfterSend, Cat
  <1>2. /\ r \in Seq(Byte) /\ m \in Seq(Byte) /\ g \in Seq(Byte)
    BY StreamTypes
  <1>3. h \in Seq(Byte) /\ f \in Seq(Byte) /\ Flat(buf, queued) = Cat(h, f)
    <2>1. buf \in [Param -> Seq(Byte)] /\ queued \in Seq(Param)
      BY DEF IInv, ParamType
    <2> QED
      BY <1>1, <2>1, FlatTail
  <1>4. Filling' = m /\ Flat(buf, queued)' = f
    BY <1>1 DEF Filling
  <1>5. Stream' = Joined(received', f, m, g)
    BY <1>1, <1>4, StreamParts DEF Stream, OnTheWay, Joined, Filling, Cat
  <1>6. Stream = Joined(r, Cat(h, f), m, g)
    BY <1>3, StreamParts
  <1> HIDE DEF f, h, r, m, g
  <1>7. CASE received' = Cat(r, h) /\ dropped' = dropped
    <2>1. Joined(Cat(r, h), f, m, g) = Joined(r, Cat(h, f), m, g)
      BY <1>2, <1>3, JoinedShift
    <2>2. Stream' = Stream
      BY <1>5, <1>6, <1>7, <2>1
    <2> QED
      BY <1>1, <1>7, <2>2 DEF Same
  <1>8. CASE received' = r /\ dropped'
    <2> DEFINE z == Cat(Cat(f, m), g)
    <2>1. Stream = Cat(Cat(r, h), z)
      BY <1>2, <1>3, <1>6, JoinedShift
    <2>2. Stream' = Cat(r, z)
      BY <1>5, <1>8 DEF Joined
    <2>3. z \in Seq(Byte)
      <3>1. Cat(f, m) \in Seq(Byte)
        BY <1>2, <1>3, CatType
      <3> HIDE DEF z
      <3>2. Cat(Cat(f, m), g) \in Seq(Byte)
        BY <1>2, <3>1, CatType
      <3> QED
        BY <3>2 DEF z
    <2> HIDE DEF z
    <2> QED
      BY <1>1, <1>2, <1>3, <1>8, <2>1, <2>2, <2>3 DEF Lost
  <1> QED
    BY <1>1, <1>7, <1>8

\* The ring becomes the contents of a write_param that libuv does not have.
LEMMA ReadStream ==
    ASSUME IInv, SendInlRead
    PROVE  Same
  <1> DEFINE f == Flat(buf, queued)
             r == received
             g == m_buferWrite
  <1>1. /\ lpc = "read" /\ queued' = queued /\ received' = received
        /\ buf' = [buf EXCEPT ![writep'] = m_buferWrite] /\ m_buferWrite' = <<>>
        /\ accepted' = accepted /\ dropped' = dropped
    BY DEF SendInlRead
  <1>2. IInv' /\ lpc' = "uv_write"
    BY SendInlReadStep DEF SendInlRead
  <1>3. writep = Null /\ writep' \in Param /\ writep' # Null /\ ~In(writep', queued)
    <2>1. writep' # Null /\ ~(\E i \in 1..Len(queued') : queued'[i] = writep')
      BY <1>2 DEF IInv, ParamInv, In
    <2>2. ~In(writep', queued)
      BY <1>1, <2>1 DEF In
    <2>3. writep = Null
      BY <1>1 DEF IInv, ParamInv
    <2>4. writep' \in Param
      BY <1>2, <2>1 DEF IInv, ParamType
    <2> QED
      BY <2>1, <2>2, <2>3, <2>4
  <1>4. /\ buf \in [Param -> Seq(Byte)] /\ buf' \in [Param -> Seq(Byte)]
        /\ queued \in Seq(Param)
    BY <1>2 DEF IInv, ParamType
  <1>5. Flat(buf', queued) = f
    <2> DEFINE c == buf'
    <2>1. \A p : In(p, queued) => c[p] = buf[p]
      BY <1>1, <1>3, <1>4, ElementOfSeq DEF In
    <2> HIDE DEF c
    <2>2. Flat(c, queued) = Flat(buf, queued)
      <3>1. SameOn(c, buf, queued)
        BY <2>1 DEF SameOn
      <3> QED
        BY <1>4, <3>1, FlatSame
    <2> QED
      BY <2>2 DEF c
  <1>6. Filling = <<>> /\ Filling' = g
    BY <1>1, <1>3, <1>4 DEF Filling
  <1>7. Stream' = Joined(r, f, g, <<>>)
    BY <1>1, <1>5, <1>6, StreamParts DEF Stream, OnTheWay, Joined, Filling, Cat
  <1>8. Stream = Joined(r, f, <<>>, g)
    BY <1>6, StreamParts
  <1>9. r \in Seq(Byte) /\ f \in Seq(Byte) /\ g \in Seq(Byte)
    BY StreamTypes
  <1> HIDE DEF f, r, g
  <1>10. Joined(r, f, g, <<>>) = Joined(r, f, <<>>, g)
    BY <1>9, JoinedMoves
  <1> QED
    BY <1>1, <1>7, <1>8, <1>10 DEF Same

\* The write_param goes to libuv, or its bytes are lost.
LEMMA UvWriteStream ==
    ASSUME IInv, UvWrite
    PROVE  Same \/ Lost
  <1> DEFINE f == Flat(buf, queued)
             r == received
             g == m_buferWrite
             m == buf[writep]
  <1>1. /\ lpc = "uv_write" /\ received' = received /\ buf' = buf
        /\ m_buferWrite' = m_buferWrite /\ writep' = Null
        /\ accepted' = accepted
        /\ \/ queued' = Append(queued, writep) /\ dropped' = dropped
           \/ queued' = queued /\ dropped'
    BY DEF UvWrite
  <1>2. writep # Null /\ writep \in Param
    BY <1>1 DEF IInv, ParamInv, ParamType
  <1>3. buf \in [Param -> Seq(Byte)] /\ queued \in Seq(Param)
    BY DEF IInv, ParamType
  <1>4. Filling = m /\ Filling' = <<>>
    BY <1>1, <1>2 DEF Filling
  <1>5. Stream = Joined(r, f, m, g)
    BY <1>4, StreamParts
  <1>6. Stream' = Joined(r, Flat(buf, queued'), <<>>, g)
    BY <1>1, <1>4, StreamParts DEF Stream, OnTheWay, Joined, Filling, Cat
  <1>7. r \in Seq(Byte) /\ f \in Seq(Byte) /\ g \in Seq(Byte) /\ m \in Seq(Byte)
    BY <1>4, StreamTypes
  <1>8. CASE queued' = Append(queued, writep) /\ dropped' = dropped
    <2>1. Flat(buf, Append(queued, writep)) = Cat(f, m)
      BY <1>2, <1>3, FlatAppend, SMTT(20)
    <2>2. Stream' = Joined(r, Cat(f, m), <<>>, g)
      BY <1>6, <1>8, <2>1
    <2> HIDE DEF f, r, g, m
    <2>3. Joined(r, Cat(f, m), <<>>, g) = Joined(r, f, m, g)
      BY <1>7, JoinedMoves
    <2> QED
      BY <1>1, <1>5, <1>8, <2>2, <2>3 DEF Same
  <1>9. CASE queued' = queued /\ dropped'
    <2>1. Stream' = Joined(r, f, <<>>, g)
      BY <1>6, <1>9
    <2> HIDE DEF f, r, g, m
    <2> DEFINE x == Cat(r, f)
    <2>2. Stream = Cat(Cat(x, m), g) /\ Stream' = Cat(x, g)
      BY <1>5, <1>7, <2>1, JoinedMoves
    <2>3. x \in Seq(Byte)
      BY <1>7, CatType
    <2> HIDE DEF x
    <2> QED
      BY <1>1, <1>7, <1>9, <2>2, <2>3 DEF Lost
  <1> QED
    BY <1>1, <1>8, <1>9

\* Every step.
LEMMA StreamStep ==
    ASSUME IInv, [Next]_vars
    PROVE  Same \/ Lost \/ \E t \in Sender : Write(t)
  <1>1. CASE \/ \E t \in Sender : Send(t) \/ While(t) \/ Lock(t) \/ Wake(t)
             \/ Close \/ AsyncCloseCB \/ AfterRecv \/ SendInlLock \/ SendInlEmpty
             \/ Reset \/ Disconnect \/ Reconnect \/ UNCHANGED vars
    BY <1>1, SameStep
  <1>2. CASE AfterSend
    BY <1>2, AfterSendStream
  <1>3. CASE SendInlRead
    BY <1>3, ReadStream
  <1>4. CASE UvWrite
    BY <1>4, UvWriteStream
  <1> QED
    BY <1>1, <1>2, <1>3, <1>4 DEF Next, SenderStep, SendInl

\* Until a request fails the peer has got, or is about to get, exactly the bytes
\* that the ring took, in the order in which it took them.
THEOREM StreamIsComplete == Spec => []StreamComplete
  <1> DEFINE Inv == IInv /\ (~dropped => Stream = accepted)
  <1>1. Init => Inv
    BY InitInv, StreamInit DEF Init
  <1>2. ASSUME Inv, [Next]_vars PROVE Inv'
    <2>1. IInv'
      BY <1>2, InductiveStep
    <2>2. CASE Same \/ Lost
      BY <1>2, <2>1, <2>2 DEF Same, Lost
    <2>3. CASE \E t \in Sender : Write(t)
      BY <1>2, <2>1, <2>3, TookStep DEF Took
    <2> QED
      BY <1>2, <2>2, <2>3, StreamStep
  <1>3. Inv => StreamComplete
    BY DEF StreamComplete, Stream
  <1> QED
    BY <1>1, <1>2, <1>3, PTL DEF Spec

(***************************************************************************)
(* The order of the stream.                                                *)
(***************************************************************************)
\* The bytes of w are bytes of a, and in the order in which a has them.
Embeds(w, a) ==
    /\ \A i \in 1..Len(w) : In(w[i], a)
    /\ \A i, j \in 1..Len(w) :
          i < j => \E k, l \in 1..Len(a) : k < l /\ a[k] = w[i] /\ a[l] = w[j]

\* It stays so when both get the same bytes at the end.
LEMMA EmbedsMore ==
    ASSUME NEW B, NEW w \in Seq(B), NEW a \in Seq(B), NEW t \in Seq(B), Embeds(w, a)
    PROVE  Embeds(Cat(w, t), Cat(a, t))
  <1> DEFINE v == Cat(w, t)
             b == Cat(a, t)
             n == Len(w)
             m == Len(a)
             d == Len(t)
  <1>1. n \in Nat /\ m \in Nat /\ d \in Nat
    BY LenProperties
  <1>2. /\ Len(v) = n + d
        /\ \A i \in 1..n : v[i] = w[i]
        /\ \A i \in 1..d : v[n + i] = t[i]
        /\ \A i \in 1..n + d : i \in 1..n \/ i - n \in 1..d
    BY CatIndex DEF Indexed
  <1>3. /\ Len(b) = m + d
        /\ \A i \in 1..m : b[i] = a[i]
        /\ \A i \in 1..d : b[m + i] = t[i]
    BY CatIndex DEF Indexed
  <1> HIDE DEF v, b, n, m, d
  <1>4. \A i \in 1..m : i \in 1..m + d
    BY <1>1
  <1>5. \A i \in 1..d : m + i \in 1..m + d /\ \A k \in 1..m : k < m + i
    BY <1>1
  <1>6. ASSUME NEW i \in 1..n PROVE \E k \in 1..m : v[i] = b[k]
    BY <1>2, <1>3 DEF Embeds, In, n, m
  <1>7. ASSUME NEW i \in 1..n + d, i - n \in 1..d
        PROVE  m + (i - n) \in 1..m + d /\ v[i] = b[m + (i - n)]
    <2>1. n + (i - n) = i
      BY <1>1
    <2>2. v[n + (i - n)] = t[i - n] /\ b[m + (i - n)] = t[i - n]
      BY <1>2, <1>3, <1>7
    <2> QED
      BY <1>5, <1>7, <2>1, <2>2
  <1>8. ASSUME NEW i \in 1..n + d PROVE \E k \in 1..m + d : v[i] = b[k]
    BY <1>2, <1>4, <1>6, <1>7
  <1>9. ASSUME NEW i \in 1..n + d, NEW j \in 1..n + d, i < j
        PROVE  \E k, l \in 1..m + d : k < l /\ b[k] = v[i] /\ b[l] = v[j]
    <2>1. CASE i \in 1..n /\ j \in 1..n
      <3>1. PICK k \in 1..m, l \in 1..m : k < l /\ a[k] = w[i] /\ a[l] = w[j]
        BY <1>9, <2>1 DEF Embeds, n, m
      <3> QED
        BY <1>2, <1>3, <1>4, <2>1, <3>1
    <2>2. CASE i \in 1..n /\ j - n \in 1..d
      <3>1. PICK k \in 1..m : v[i] = b[k]
        BY <1>6, <2>2
      <3>2. m + (j - n) \in 1..m + d /\ v[j] = b[m + (j - n)]
        BY <1>7, <2>2
      <3>3. k < m + (j - n) /\ k \in 1..m + d
        BY <1>4, <1>5, <2>2
      <3> QED
        BY <3>1, <3>2, <3>3
    <2>3. CASE i - n \in 1..d /\ j - n \in 1..d
      <3>1. /\ m + (i - n) \in 1..m + d /\ v[i] = b[m + (i - n)]
            /\ m + (j - n) \in 1..m + d /\ v[j] = b[m + (j - n)]
        BY <1>7, <2>3
      <3>2. m + (i - n) < m + (j - n)
        BY <1>1, <1>9
      <3> QED
        BY <3>1, <3>2
    <2>4. ~(i - n \in 1..d /\ j \in 1..n)
      BY <1>1, <1>9
    <2> QED
      BY <1>2, <2>1, <2>2, <2>3, <2>4
  <1> QED
    BY <1>2, <1>3, <1>8, <1>9 DEF Embeds, In, v, b

\* And when some bytes in the middle are lost.
LEMMA EmbedsLess ==
    ASSUME NEW B, NEW x \in Seq(B), NEW y \in Seq(B), NEW z \in Seq(B), NEW a \in Seq(B),
           Embeds(Cat(Cat(x, y), z), a)
    PROVE  Embeds(Cat(x, z), a)
  <1> DEFINE w == Cat(Cat(x, y), z)
             v == Cat(x, z)
             n == Len(x)
             m == Len(y)
             d == Len(z)
             p(i) == IF i <= n THEN i ELSE i + m
  <1>1. n \in Nat /\ m \in Nat /\ d \in Nat
    BY LenProperties
  <1>2. /\ Len(v) = n + d
        /\ \A i \in 1..n : v[i] = x[i]
        /\ \A i \in 1..d : v[n + i] = z[i]
        /\ \A i \in 1..n + d : i \in 1..n \/ i - n \in 1..d
    BY CatIndex DEF Indexed
  <1>3. /\ Len(Cat(x, y)) = n + m
        /\ \A i \in 1..n : Cat(x, y)[i] = x[i]
    BY CatIndex DEF Indexed
  <1>4. /\ Len(w) = (n + m) + d
        /\ \A i \in 1..n + m : w[i] = Cat(x, y)[i]
        /\ \A i \in 1..d : w[(n + m) + i] = z[i]
    <2> DEFINE c == Cat(x, y)
    <2>1. c \in Seq(B)
      BY CatType
    <2>2. Len(c) = n + m
      BY <1>3
    <2> HIDE DEF c
    <2>3. Indexed(Cat(c, z), c, z)
      BY <2>1, CatIndex
    <2> QED
      BY <2>2, <2>3 DEF c, Indexed
  <1> HIDE DEF v, w, n, m, d
  <1>5. ASSUME NEW i \in 1..n + d PROVE p(i) \in 1..Len(w) /\ v[i] = w[p(i)]
    <2>1. CASE i \in 1..n
      <3>1. i \in 1..n + m /\ i \in 1..(n + m) + d /\ p(i) = i
        BY <1>1, <2>1
      <3> QED
        BY <1>2, <1>3, <1>4, <2>1, <3>1
    <2>2. CASE i - n \in 1..d
      <3>1. /\ n + (i - n) = i /\ (n + m) + (i - n) = i + m /\ p(i) = i + m
            /\ i + m \in 1..(n + m) + d
        BY <1>1, <2>2
      <3>2. v[n + (i - n)] = z[i - n] /\ w[(n + m) + (i - n)] = z[i - n]
        BY <1>2, <1>4, <2>2
      <3> HIDE DEF p
      <3> QED
        BY <1>4, <3>1, <3>2
    <2> QED
      BY <1>2, <2>1, <2>2
  <1>6. ASSUME NEW i \in 1..n + d, NEW j \in 1..n + d, i < j PROVE p(i) < p(j)
    BY <1>1, <1>6
  <1> HIDE DEF p
  <1>7. Embeds(w, a)
    BY DEF w
  <1>8. \A i \in 1..n + d : In(v[i], a)
    BY <1>5, <1>7 DEF Embeds
  <1>9. ASSUME NEW i \in 1..n + d, NEW j \in 1..n + d, i < j
        PROVE  \E k, l \in 1..Len(a) : k < l /\ a[k] = v[i] /\ a[l] = v[j]
    <2>1. /\ p(i) \in 1..Len(w) /\ p(j) \in 1..Len(w) /\ p(i) < p(j)
          /\ v[i] = w[p(i)] /\ v[j] = w[p(j)]
      BY <1>5, <1>6, <1>9
    <2> QED
      BY <1>7, <2>1 DEF Embeds
  <1> QED
    BY <1>2, <1>8, <1>9 DEF Embeds, v

\* And for what comes first.
LEMMA EmbedsFirst ==
    ASSUME NEW B, NEW x \in Seq(B), NEW y \in Seq(B), NEW a, Embeds(Cat(x, y), a)
    PROVE  Embeds(x, a)
  <1>1. /\ Len(Cat(x, y)) = Len(x) + Len(y)
        /\ \A i \in 1..Len(x) : Cat(x, y)[i] = x[i]
        /\ Len(x) \in Nat /\ Len(y) \in Nat
    BY CatIndex, LenProperties DEF Indexed
  <1> DEFINE c == Cat(x, y)
  <1>2. \A i \in 1..Len(x) : i \in 1..Len(c) /\ c[i] = x[i]
    BY <1>1
  <1> HIDE DEF c
  <1>3. Embeds(c, a)
    BY DEF c
  <1>4. \A i \in 1..Len(x) : In(x[i], a)
    BY <1>2, <1>3 DEF Embeds
  <1>5. ASSUME NEW i \in 1..Len(x), NEW j \in 1..Len(x), i < j
        PROVE  \E k, l \in 1..Len(a) : k < l /\ a[k] = x[i] /\ a[l] = x[j]
    <2>1. /\ i \in 1..Len(c) /\ j \in 1..Len(c) /\ c[i] = x[i] /\ c[j] = x[j]
      BY <1>2
    <2>2. PICK k \in 1..Len(a), l \in 1..Len(a) : k < l /\ a[k] = c[i] /\ a[l] = c[j]
      BY <1>3, <1>5, <2>1 DEF Embeds
    <2> QED
      BY <2>1, <2>2
  <1> QED
    BY <1>4, <1>5 DEF Embeds

\* No byte is taken by the ring twice: the bytes of a thread's calls are new ones,
\* and what it has still to write was not taken.
FreshIn(a, c, w) ==
    /\ Distinct(a)
    /\ \A b : In(b, a) => b[2] <= c[b[1]]
    /\ \A t \in Sender :
          /\ Distinct(w[t])
          /\ \A b : In(b, w[t]) => b[1] = t /\ b[2] <= c[t] /\ ~In(b, a)

FreshInv == FreshIn(accepted, calls, todo)

\* The bytes of a new call are new.
LEMMA SendFresh ==
    ASSUME IInv, FreshInv, NEW t \in Sender, Send(t)
    PROVE  FreshInv'
  <1>1. PICK len \in MsgLen :
           /\ calls' = [calls EXCEPT ![t] = calls[t] + 1]
           /\ todo' = [todo EXCEPT ![t] = [i \in 1..len |-> <<t, calls'[t], i>>]]
           /\ accepted' = accepted
    BY DEF Send
  <1> DEFINE w == [i \in 1..len |-> <<t, calls[t] + 1, i>>]
  <1>2. /\ calls \in [Sender -> 0..MaxSend] /\ todo \in [Sender -> Seq(Byte)]
        /\ accepted \in Seq(Byte) /\ MaxSend \in Nat /\ len \in Nat
    BY SendAssumption DEF IInv, SenderType, RingType
  <1>3. calls'[t] = calls[t] + 1 /\ \A u \in Sender : u # t => calls'[u] = calls[u]
    BY <1>1, <1>2
  <1>4. todo'[t] = w /\ \A u \in Sender : u # t => todo'[u] = todo[u]
    BY <1>1, <1>2, <1>3
  <1>5. \A u \in Sender : calls[u] \in Nat /\ calls[u] <= calls'[u] /\ calls'[u] \in Nat
    <2> SUFFICES ASSUME NEW u \in Sender
                 PROVE  calls[u] \in Nat /\ calls[u] <= calls'[u] /\ calls'[u] \in Nat
      OBVIOUS
    <2>1. calls[u] \in Nat
      BY <1>2
    <2>2. calls'[u] = calls[u] \/ calls'[u] = calls[u] + 1
      BY <1>3
    <2> QED
      BY <2>1, <2>2
  <1>6. ASSUME NEW b, In(b, accepted)
        PROVE  b[1] \in Sender /\ b[2] \in Nat /\ b[2] <= calls[b[1]]
    <2>1. b \in Byte
      BY <1>2, <1>6, ElementOfSeq DEF In
    <2> QED
      BY <1>6, <2>1 DEF Byte, FreshInv, FreshIn
  <1>7. Distinct(w) /\ \A b : In(b, w) => b[1] = t /\ b[2] = calls[t] + 1
    <2>1. Len(w) = len /\ \A i \in 1..len : w[i] = <<t, calls[t] + 1, i>>
      <3>1. \A i \in 1..len : <<t, calls[t] + 1, i>> \in Byte
        BY <1>2, <1>5 DEF Byte
      <3>2. w \in Seq(Byte)
        BY <1>2, <3>1
      <3> QED
        BY <1>2, <3>2, LenProperties
    <2> HIDE DEF w
    <2>2. \A i \in 1..len : w[i][1] = t /\ w[i][2] = calls[t] + 1 /\ w[i][3] = i
      BY <2>1
    <2> QED
      BY <2>1, <2>2 DEF Distinct, In
  <1> HIDE DEF w
  <1>8. ASSUME NEW b, In(b, w) PROVE ~In(b, accepted)
    <2>1. b[1] = t /\ b[2] = calls[t] + 1 /\ calls[t] \in Nat
      BY <1>5, <1>7, <1>8
    <2>2. ~(b[2] <= calls[b[1]])
      BY <2>1
    <2> QED
      BY <1>6, <2>2
  <1>9. \A b : In(b, accepted) => b[2] <= calls'[b[1]]
    <2> SUFFICES ASSUME NEW b, In(b, accepted) PROVE b[2] <= calls'[b[1]]
      OBVIOUS
    <2>1. /\ b[1] \in Sender /\ b[2] \in Nat /\ b[2] <= calls[b[1]]
          /\ calls[b[1]] \in Nat /\ calls[b[1]] <= calls'[b[1]] /\ calls'[b[1]] \in Nat
      BY <1>5, <1>6
    <2> QED
      BY <2>1
  <1>10. ASSUME NEW u \in Sender
         PROVE  /\ Distinct(todo'[u])
                /\ \A b : In(b, todo'[u]) => b[1] = u /\ b[2] <= calls'[u] /\ ~In(b, accepted)
    <2>1. CASE u = t
      <3>1. calls'[t] = calls[t] + 1 /\ calls[t] \in Nat
        BY <1>3, <1>5
      <3>2. \A b : In(b, w) => b[1] = t /\ b[2] <= calls'[t] /\ ~In(b, accepted)
        BY <1>7, <1>8, <3>1
      <3> QED
        BY <1>4, <1>7, <2>1, <3>2
    <2>2. CASE u # t
      <3>1. todo'[u] = todo[u] /\ calls'[u] = calls[u]
        BY <1>3, <1>4, <2>2
      <3> QED
        BY <3>1 DEF FreshInv, FreshIn
    <2> QED
      BY <2>1, <2>2
  <1>11. accepted' = accepted
    BY <1>1
  <1> QED
    BY <1>9, <1>10, <1>11 DEF FreshInv, FreshIn

\* What is written leaves what is still to write.
LEMMA WriteFresh ==
    ASSUME IInv, FreshInv, NEW t \in Sender, NEW n \in 0..Len(todo[t]),
           accepted' = Cat(accepted, SubSeq(todo[t], 1, n)), calls' = calls,
           todo' = [todo EXCEPT ![t] = SubSeq(todo[t], n + 1, Len(todo[t]))]
    PROVE  FreshInv'
  <1> DEFINE w == todo[t]
             taken == SubSeq(w, 1, n)
             rest == SubSeq(w, n + 1, Len(w))
  <1>1. todo \in [Sender -> Seq(Byte)] /\ accepted \in Seq(Byte) /\ w \in Seq(Byte)
    BY DEF IInv, SenderType, RingType
  <1>2. todo'[t] = rest /\ \A u \in Sender : u # t => todo'[u] = todo[u]
    BY <1>1
  <1>3. Distinct(w) /\ \A b : In(b, w) => b[1] = t /\ b[2] <= calls[t] /\ ~In(b, accepted)
    BY DEF FreshInv, FreshIn
  <1>4. /\ taken \in Seq(Byte) /\ Distinct(taken) /\ Distinct(rest)
        /\ \A b : (In(b, taken) => In(b, w)) /\ (In(b, rest) => In(b, w))
        /\ \A b : ~(In(b, taken) /\ In(b, rest))
    BY <1>1, <1>3, SplitDistinct
  <1>5. accepted' = accepted \o taken
    BY DEF Cat
  <1> HIDE DEF w, taken, rest
  <1>6. /\ Distinct(accepted \o taken)
        /\ \A b : In(b, accepted \o taken) => In(b, accepted) \/ In(b, taken)
    <2>1. \A b : ~(In(b, accepted) /\ In(b, taken))
      BY <1>3, <1>4
    <2>2. Distinct(accepted)
      BY DEF FreshInv, FreshIn
    <2> QED
      BY <1>1, <1>4, <2>1, <2>2, ConcatDistinct
  <1> DEFINE a == accepted'
  <1>7. Distinct(a) /\ \A b : In(b, a) => In(b, accepted) \/ In(b, taken)
    BY <1>5, <1>6
  <1> HIDE DEF a
  <1>8. \A b : In(b, a) => b[2] <= calls[b[1]]
    <2> SUFFICES ASSUME NEW b, In(b, a) PROVE b[2] <= calls[b[1]]
      OBVIOUS
    <2>1. CASE In(b, accepted)
      BY <2>1 DEF FreshInv, FreshIn
    <2>2. CASE In(b, taken)
      BY <1>3, <1>4, <2>2
    <2> QED
      BY <1>7, <2>1, <2>2
  <1>9. ASSUME NEW u \in Sender
        PROVE  /\ Distinct(todo'[u])
               /\ \A b : In(b, todo'[u]) => b[1] = u /\ b[2] <= calls[u] /\ ~In(b, a)
    <2>1. CASE u = t
      <3>1. \A b : In(b, rest) => b[1] = t /\ b[2] <= calls[t] /\ ~In(b, a)
        BY <1>3, <1>4, <1>7
      <3> QED
        BY <1>2, <1>4, <2>1, <3>1
    <2>2. CASE u # t
      <3>1. Distinct(todo[u])
        BY DEF FreshInv, FreshIn
      <3>2. ASSUME NEW b, In(b, todo[u])
            PROVE  b[1] = u /\ b[2] <= calls[u] /\ ~In(b, accepted)
        BY <3>2 DEF FreshInv, FreshIn
      <3>3. ASSUME NEW b, In(b, todo[u]) PROVE ~In(b, taken)
        BY <1>3, <1>4, <2>2, <3>2, <3>3
      <3> QED
        BY <1>2, <1>7, <2>2, <3>1, <3>2, <3>3
    <2> QED
      BY <2>1, <2>2
  <1> QED
    BY <1>7, <1>8, <1>9 DEF FreshInv, FreshIn, a

\* A step that takes no byte of a call.
LEMMA OtherFresh ==
    ASSUME IInv, FreshInv, accepted' = accepted, calls' = calls,
           todo' = todo \/ \E t \in Sender : todo' = [todo EXCEPT ![t] = <<>>]
    PROVE  FreshInv'
  <1>1. todo \in [Sender -> Seq(Byte)]
    BY DEF IInv, SenderType
  <1>2. \A b : ~In(b, <<>>)
    BY EmptySeq DEF In
  <1>3. Distinct(<<>>)
    BY EmptySeq DEF Distinct
  <1>4. \A u \in Sender : todo'[u] = todo[u] \/ todo'[u] = <<>>
    BY <1>1
  <1>5. ASSUME NEW u \in Sender
        PROVE  /\ Distinct(todo'[u])
               /\ \A b : In(b, todo'[u]) => b[1] = u /\ b[2] <= calls[u] /\ ~In(b, accepted)
    <2>1. CASE todo'[u] = todo[u]
      BY <2>1 DEF FreshInv, FreshIn
    <2>2. CASE todo'[u] = <<>>
      BY <1>2, <1>3, <2>2
    <2> QED
      BY <1>4, <2>1, <2>2
  <1> QED
    BY <1>4, <1>5 DEF FreshInv, FreshIn

\* Every step.
LEMMA FreshStep ==
    ASSUME IInv, FreshInv, [Next]_vars
    PROVE  FreshInv'
  <1>1. CASE \E t \in Sender : Send(t)
    BY <1>1, SendFresh
  <1>2. CASE \E t \in Sender : Write(t)
    BY <1>2, TookStep, WriteFresh DEF Took
  <1>3. CASE \E t \in Sender : While(t) \/ Lock(t) \/ Wake(t)
    <2>1. /\ accepted' = accepted /\ calls' = calls
          /\ todo' = todo \/ \E t \in Sender : todo' = [todo EXCEPT ![t] = <<>>]
      BY <1>3 DEF While, Lock, Wake
    <2> QED
      BY <2>1, OtherFresh
  <1>4. CASE Close \/ AsyncCloseCB \/ AfterRecv \/ AfterSend \/ SendInl \/ Reset
             \/ Disconnect \/ Reconnect \/ UNCHANGED vars
    <2>1. accepted' = accepted /\ calls' = calls /\ todo' = todo
      BY <1>4 DEF Close, AsyncCloseCB, AfterRecv, AfterSend, SendInl, SendInlLock,
                  SendInlEmpty, SendInlRead, UvWrite, Reset, Disconnect, Reconnect,
                  ConnTo, vars, sendVars
    <2> QED
      BY <2>1, OtherFresh
  <1> QED
    BY <1>1, <1>2, <1>3, <1>4 DEF Next, SenderStep

\* The peer gets the bytes in the order in which the ring took them, and none
\* twice, although the requests that fail make gaps.
THEOREM StreamIsInOrder == Spec => []StreamInOrder
  <1> DEFINE Inv == IInv /\ FreshInv /\ Embeds(Stream, accepted)
  <1>1. Init => Inv
    <2> SUFFICES ASSUME Init PROVE FreshInv /\ Embeds(Stream, accepted)
      BY InitInv
    <2>1. /\ accepted = <<>> /\ todo = [t \in Sender |-> <<>>] /\ Len(<<>>) = 0
      BY EmptySeq DEF Init
    <2>2. \A b : ~In(b, <<>>)
      BY <2>1 DEF In
    <2>3. Distinct(<<>>)
      BY <2>1 DEF Distinct
    <2>4. FreshInv
      BY <2>1, <2>2, <2>3 DEF FreshInv, FreshIn
    <2>5. Stream = <<>>
      BY StreamInit DEF Init
    <2>6. Embeds(<<>>, <<>>)
      BY <2>1 DEF Embeds
    <2> QED
      BY <2>1, <2>4, <2>5, <2>6
  <1>2. ASSUME Inv, [Next]_vars PROVE Inv'
    <2>1. IInv' /\ FreshInv'
      BY <1>2, InductiveStep, FreshStep
    <2>2. accepted \in Seq(Byte) /\ Stream \in Seq(Byte)
      BY <1>2, StreamTypes
    <2> DEFINE a == accepted'
               w == Stream'
    <2>3. Embeds(w, a)
      <3>1. CASE Same
        BY <1>2, <3>1 DEF Same
      <3>2. CASE Lost
        <4>1. PICK x \in Seq(Byte), y \in Seq(Byte), z \in Seq(Byte) :
                 Stream = Cat(Cat(x, y), z) /\ w = Cat(x, z) /\ a = accepted
          BY <3>2 DEF Lost
        <4> HIDE DEF w, a
        <4> QED
          BY <1>2, <2>2, <4>1, EmbedsLess
      <3>3. CASE \E t \in Sender : Write(t)
        <4>a. PICK t \in Sender : Write(t)
          BY <3>3
        <4>1. PICK n \in 0..Len(todo[t]) : Took(SubSeq(todo[t], 1, n))
          BY <1>2, <4>a, TookStep
        <4> DEFINE s == SubSeq(todo[t], 1, n)
        <4>2. todo[t] \in Seq(Byte)
          BY <1>2 DEF IInv, SenderType
        <4>3. s \in Seq(Byte)
          BY <4>2, SplitDistinct
        <4>4. w = Cat(Stream, s) /\ a = Cat(accepted, s)
          BY <4>1 DEF Took
        <4> HIDE DEF w, a, s
        <4> QED
          BY <1>2, <2>2, <4>3, <4>4, EmbedsMore
      <3> QED
        BY <1>2, <3>1, <3>2, <3>3, StreamStep
    <2> QED
      BY <2>1, <2>3 DEF Embeds, In
  <1>3. ASSUME Inv PROVE StreamInOrder
    <2>1. Embeds(received, accepted)
      <3>1. received \in Seq(Byte) /\ OnTheWay \in Seq(Byte)
        BY <1>3, StreamTypes, WayType
      <3>2. Embeds(Cat(received, OnTheWay), accepted)
        BY <1>3 DEF Stream, Cat
      <3> QED
        BY <3>1, <3>2, EmbedsFirst
    <2>2. \A k, l \in 1..Len(accepted) : accepted[k] = accepted[l] => k = l
      BY <1>3 DEF FreshInv, FreshIn, Distinct
    <2> DEFINE place(b) == CHOOSE i \in 1..Len(accepted) : accepted[i] = b
    <2>3. ASSUME NEW k \in 1..Len(accepted) PROVE place(accepted[k]) = k
      <3>1. /\ place(accepted[k]) \in 1..Len(accepted)
            /\ accepted[place(accepted[k])] = accepted[k]
        OBVIOUS
      <3> HIDE DEF place
      <3> QED
        BY <2>2, <3>1
    <2>4. ASSUME NEW i \in 1..Len(received), NEW j \in 1..Len(received), i < j
          PROVE  place(received[i]) < place(received[j])
      <3>1. PICK k \in 1..Len(accepted), l \in 1..Len(accepted) :
               k < l /\ accepted[k] = received[i] /\ accepted[l] = received[j]
        BY <2>1, <2>4 DEF Embeds
      <3> HIDE DEF place
      <3> QED
        BY <2>3, <3>1
    <2> QED
      BY <2>4 DEF StreamInOrder
  <1> QED
    BY <1>1, <1>2, <1>3, PTL DEF Spec

(***************************************************************************)
(* Wake-ups: what RingDrained and SendReturns need to hold at every moment *)
(* for fairness to do the rest.                                            *)
(***************************************************************************)
\* The ring is touched under m_mutexClients only, by whoever holds it.
LockHeld ==
    /\ \A t \in Sender : pc[t] = "write" <=> m_mutexClients = t
    /\ lpc = "read" <=> m_mutexClients = Loop

\* While there are bytes in the ring the loop is about to read it, or it has a
\* signal that its callback has not answered, or the last signal of a Send is
\* still to come.
Woken ==
    m_buferWrite # <<>> =>
        \/ m_bIsUserAskForClosed
        \/ lpc # "uv_run"
        \/ pending /\ asyncOpen
        \/ \E t \in Sender : pc[t] = "wake"

\* No message is longer than the ring.
Fits == \A n \in MsgLen : n <= BUFFER_SIZE
TodoFits == \A t \in Sender : Len(todo[t]) <= BUFFER_SIZE

\* The handle that is signalled is open until the application asks to close.
OpenInv == asyncOpen \/ m_bIsUserAskForClosed

\* A step of a sender keeps the others where they are.
LEMMA GotoPc ==
    ASSUME IInv, NEW t \in Sender, NEW l, Goto(t, l)
    PROVE  pc'[t] = l /\ \A u \in Sender : u # t => pc'[u] = pc[u]
  BY DEF Goto, IInv, SenderType

\* The mutex passes from one thread to another and is given back.
LEMMA LockStep ==
    ASSUME IInv, LockHeld, [Next]_vars
    PROVE  LockHeld'
  <1>1. Loop \notin Sender /\ Nobody \notin Sender /\ Loop # Nobody
    BY SendAssumption
  <1>2. ASSUME NEW t \in Sender, Send(t) \/ While(t) \/ Wake(t) PROVE LockHeld'
    <2>1. PICK l : Goto(t, l) /\ l # "write"
      BY <1>2 DEF Send, While, Wake
    <2>2. pc[t] # "write" /\ m_mutexClients' = m_mutexClients /\ lpc' = lpc
      BY <1>2 DEF Send, While, Wake
    <2>3. \A u \in Sender : pc'[u] = "write" <=> pc[u] = "write"
      BY <2>1, <2>2, GotoPc
    <2> QED
      BY <2>2, <2>3 DEF LockHeld
  <1>3. ASSUME NEW t \in Sender, Lock(t) PROVE LockHeld'
    <2>1. m_mutexClients = Nobody /\ m_mutexClients' = t /\ lpc' = lpc
      BY <1>3 DEF Lock
    <2>2. pc'[t] = "write" /\ \A u \in Sender : u # t => pc'[u] = pc[u]
      BY <1>3, GotoPc DEF Lock
    <2> QED
      BY <1>1, <2>1, <2>2 DEF LockHeld
  <1>4. ASSUME NEW t \in Sender, Write(t) PROVE LockHeld'
    <2>1. pc[t] = "write" /\ m_mutexClients' = Nobody /\ lpc' = lpc
      BY <1>4 DEF Write
    <2>2. PICK l : Goto(t, l) /\ l # "write"
      BY <1>4 DEF Write
    <2>3. pc'[t] # "write" /\ \A u \in Sender : u # t => pc'[u] = pc[u]
      BY <2>2, GotoPc
    <2> QED
      BY <1>1, <2>1, <2>3 DEF LockHeld
  <1>5. CASE \/ Close \/ AsyncCloseCB \/ AfterRecv \/ AfterSend \/ UvWrite
             \/ Reset \/ Disconnect \/ Reconnect \/ UNCHANGED vars
    <2>1. pc' = pc /\ m_mutexClients' = m_mutexClients
      BY <1>5 DEF Close, AsyncCloseCB, AfterRecv, AfterSend, UvWrite, Reset, Disconnect,
             Reconnect, ConnTo, sendVars, vars
    <2>2. lpc' = "read" <=> lpc = "read"
      BY <1>5 DEF Close, AsyncCloseCB, AfterRecv, AfterSend, UvWrite, Reset, Disconnect,
             Reconnect, ConnTo, vars
    <2> QED
      BY <2>1, <2>2 DEF LockHeld
  <1>6. CASE SendInlLock
    BY <1>1, <1>6 DEF SendInlLock, LockHeld, sendVars
  <1>7. CASE SendInlEmpty \/ SendInlRead
    <2>1. pc' = pc /\ m_mutexClients' = Nobody /\ lpc = "read" /\ lpc' # "read"
      BY <1>7 DEF SendInlEmpty, SendInlRead, sendVars
    <2> QED
      BY <1>1, <2>1 DEF LockHeld
  <1> QED
    BY <1>2, <1>3, <1>4, <1>5, <1>6, <1>7 DEF Next, SenderStep, SendInl

\* Send's step, its unlocked test and its signals.
LEMMA SenderWakes ==
    ASSUME IInv, Fits, Woken, TodoFits, OpenInv, NEW t \in Sender,
           Send(t) \/ While(t) \/ Lock(t) \/ Wake(t)
    PROVE  Woken' /\ TodoFits' /\ OpenInv'
  <1>1. /\ m_buferWrite' = m_buferWrite /\ m_bIsUserAskForClosed' = m_bIsUserAskForClosed
        /\ lpc' = lpc /\ asyncOpen' = asyncOpen
    BY DEF Send, While, Lock, Wake
  <1>2. OpenInv'
    BY <1>1 DEF OpenInv
  <1>3. CASE Send(t) \/ Wake(t)
    <2>1. pending' = TRUE
      BY <1>3 DEF Send, Wake
    <2>2. Woken'
      BY <1>1, <1>2, <2>1 DEF Woken, OpenInv
    <2>3. TodoFits'
      <3>1. ASSUME NEW s \in Seq(Byte), Len(s) <= BUFFER_SIZE,
                   todo' = [todo EXCEPT ![t] = s]
            PROVE  TodoFits'
        BY <3>1 DEF TodoFits, IInv, SenderType
      <3>2. CASE Wake(t)
        <4>1. <<>> \in Seq(Byte) /\ Len(<<>>) <= BUFFER_SIZE
          BY EmptySeq, SendAssumption
        <4> QED
          BY <3>1, <3>2, <4>1 DEF Wake
      <3>3. CASE Send(t)
        <4>1. PICK n \in MsgLen : todo' = [todo EXCEPT ![t] = [i \in 1..n |-> <<t, calls'[t], i>>]]
          BY <3>3 DEF Send
        <4> DEFINE s == [i \in 1..n |-> <<t, calls'[t], i>>]
        <4>2. n \in Nat /\ n <= BUFFER_SIZE
          BY SendAssumption DEF Fits
        <4>3. Len(s) = n
          BY <4>2
        <4>4. todo' = [todo EXCEPT ![t] = s]
          BY <4>1
        <4> HIDE DEF s
        <4> QED
          BY <4>2, <4>3, <4>4 DEF TodoFits, IInv, SenderType
      <3> QED
        BY <1>3, <3>2, <3>3
    <2> QED
      BY <1>2, <2>2, <2>3
  <1>4. CASE While(t) \/ Lock(t)
    <2>1. pending' = pending /\ todo' = todo /\ pc[t] # "wake"
      BY <1>4 DEF While, Lock
    <2>2. \A u \in Sender : pc[u] = "wake" => pc'[u] = "wake"
      <3>1. PICK l : Goto(t, l)
        BY <1>4 DEF While, Lock
      <3> QED
        BY <2>1, <3>1, GotoPc
    <2>3. Woken'
      BY <1>1, <2>1, <2>2 DEF Woken
    <2> QED
      BY <1>2, <2>1, <2>3 DEF TodoFits
  <1> QED
    BY <1>3, <1>4

\* Who writes into an empty ring writes the whole message and goes on to signal
\* the loop; who finds it full finds the signal of another.
LEMMA WriteWakes ==
    ASSUME IInv, Woken, TodoFits, OpenInv, NEW t \in Sender, Write(t)
    PROVE  Woken' /\ TodoFits' /\ OpenInv'
  <1> DEFINE s == todo[t]
             n == IF Len(s) <= Room THEN Len(s) ELSE Room
  <1>1. /\ m_bIsUserAskForClosed' = m_bIsUserAskForClosed /\ lpc' = lpc
        /\ asyncOpen' = asyncOpen /\ pending' = pending /\ pc[t] = "write"
        /\ todo' = [todo EXCEPT ![t] = SubSeq(s, n + 1, Len(s))]
        /\ Goto(t, IF n < Len(s) THEN "while" ELSE "wake")
    BY DEF Write
  <1>2. /\ s \in Seq(Byte) /\ Len(s) \in Nat /\ Len(s) <= BUFFER_SIZE /\ BUFFER_SIZE \in Nat
        /\ Len(m_buferWrite) \in Nat /\ Len(m_buferWrite) <= BUFFER_SIZE
    BY SendAssumption, LenProperties DEF IInv, SenderType, RingType, TodoFits
  <1>3. n \in 0..Len(s) /\ (n < Len(s) => Len(m_buferWrite) # 0)
    BY <1>2 DEF Room
  <1> HIDE DEF n
  <1>4. Woken'
    <2>1. CASE n < Len(s)
      <3>1. m_buferWrite # <<>>
        BY <1>3, <2>1, EmptySeq
      <3>2. \A u \in Sender : pc[u] = "wake" => pc'[u] = "wake"
        BY <1>1, GotoPc
      <3> QED
        BY <1>1, <3>1, <3>2 DEF Woken
    <2>2. CASE ~(n < Len(s))
      <3>1. pc'[t] = "wake"
        BY <1>1, <2>2, GotoPc
      <3> QED
        BY <3>1 DEF Woken
    <2> QED
      BY <2>1, <2>2
  <1>5. TodoFits'
    <2> DEFINE r == SubSeq(s, n + 1, Len(s))
    <2>1. Len(r) <= BUFFER_SIZE
      <3>1. \A i \in n + 1..Len(s) : s[i] \in Byte
        BY <1>2, <1>3, ElementOfSeq
      <3>2. Len(r) = IF n + 1 <= Len(s) THEN Len(s) - (n + 1) + 1 ELSE 0
        BY <1>2, <1>3, <3>1, SubSeqProperties
      <3> QED
        BY <1>2, <1>3, <3>2
    <2>2. todo' = [todo EXCEPT ![t] = r]
      BY <1>1
    <2> HIDE DEF r, s
    <2> QED
      BY <2>1, <2>2 DEF TodoFits, IInv, SenderType
  <1>6. OpenInv'
    BY <1>1 DEF OpenInv
  <1> QED
    BY <1>4, <1>5, <1>6

\* The loop thread goes back to its callbacks only when it has found the ring
\* empty, and answers a signal by reading it.
LEMMA LoopWakes ==
    ASSUME IInv, Woken, TodoFits, OpenInv,
           \/ Close \/ AsyncCloseCB \/ AfterRecv \/ AfterSend \/ SendInl
           \/ Reset \/ Disconnect \/ Reconnect \/ UNCHANGED vars
    PROVE  Woken' /\ TodoFits' /\ OpenInv'
  <1>1. pc' = pc /\ todo' = todo
    BY DEF Close, AsyncCloseCB, AfterRecv, AfterSend, SendInl, SendInlLock, SendInlEmpty,
           SendInlRead, UvWrite, Reset, Disconnect, Reconnect, ConnTo, sendVars, vars
  <1>2. TodoFits'
    BY <1>1 DEF TodoFits
  <1>3. CASE Close
    BY <1>2, <1>3 DEF Close, Woken, OpenInv
  <1>4. CASE AsyncCloseCB
    <2>1. CASE m_bIsUserAskForClosed
      BY <1>2, <1>4, <2>1 DEF AsyncCloseCB, Woken, OpenInv
    <2>2. CASE ~m_bIsUserAskForClosed
      BY <1>2, <1>4, <2>2 DEF AsyncCloseCB, Woken, OpenInv
    <2> QED
      BY <2>1, <2>2
  <1>5. CASE AfterRecv \/ SendInlLock \/ SendInlRead \/ UvWrite
    <2>1. /\ lpc' # "uv_run" /\ asyncOpen' = asyncOpen
          /\ m_bIsUserAskForClosed' = m_bIsUserAskForClosed
      BY <1>5 DEF AfterRecv, SendInlLock, SendInlRead, UvWrite
    <2> QED
      BY <1>2, <2>1 DEF Woken, OpenInv
  <1>6. CASE SendInlEmpty
    <2>1. /\ m_buferWrite' = <<>> /\ asyncOpen' = asyncOpen
          /\ m_bIsUserAskForClosed' = m_bIsUserAskForClosed
      BY <1>6 DEF SendInlEmpty
    <2> QED
      BY <1>2, <2>1 DEF Woken, OpenInv
  <1>7. CASE AfterSend \/ Reset \/ Disconnect \/ Reconnect \/ UNCHANGED vars
    <2>1. /\ m_buferWrite' = m_buferWrite /\ asyncOpen' = asyncOpen /\ pending' = pending
          /\ m_bIsUserAskForClosed' = m_bIsUserAskForClosed
          /\ lpc # "uv_run" => lpc' # "uv_run"
      BY <1>7 DEF AfterSend, Reset, Disconnect, Reconnect, ConnTo, vars
    <2> QED
      BY <1>1, <1>2, <2>1 DEF Woken, OpenInv
  <1> QED
    BY <1>3, <1>4, <1>5, <1>6, <1>7 DEF SendInl

\* Senders and loop thread exclude each other at the ring.
THEOREM RingExclusive == Spec => []LockHeld
  <1>1. Init => LockHeld
    BY SendAssumption DEF Init, LockHeld
  <1> QED
    BY <1>1, LockStep, Inductive, PTL DEF Spec

\* No signal is lost, although uv_async_send makes one of many and the flag is
\* cleared before the callback reads the ring: bytes never wait in the ring for a
\* loop that nobody will wake, if no message is longer than the ring.  A longer
\* one may wait for ever, as the run client_send_large shows.
THEOREM NoSignalLost == Fits => (Spec => []Woken)
  <1> SUFFICES ASSUME Fits PROVE Spec => []Woken
    OBVIOUS
  <1>1. Init => Woken /\ TodoFits /\ OpenInv
    <2> SUFFICES ASSUME Init PROVE Woken /\ TodoFits /\ OpenInv
      OBVIOUS
    <2>1. \A t \in Sender : todo[t] = <<>>
      BY DEF Init
    <2>2. Len(<<>>) <= BUFFER_SIZE
      BY SendAssumption, EmptySeq
    <2> QED
      BY <2>1, <2>2 DEF Init, Woken, TodoFits, OpenInv
  <1>2. ASSUME IInv, Woken, TodoFits, OpenInv, [Next]_vars
        PROVE  Woken' /\ TodoFits' /\ OpenInv'
    <2>1. ASSUME NEW t \in Sender, Send(t) \/ SenderStep(t)
          PROVE  Woken' /\ TodoFits' /\ OpenInv'
      BY <1>2, <2>1, SenderWakes, WriteWakes DEF SenderStep
    <2> QED
      BY <1>2, <2>1, LoopWakes DEF Next
  <1> QED
    BY <1>1, <1>2, Inductive, PTL DEF Spec
=============================================================================
