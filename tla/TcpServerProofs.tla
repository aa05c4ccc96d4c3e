--------------------------- MODULE TcpServerProofs ---------------------------
(***************************************************************************)
(* The contexts of the server's clients, for any number of connections,    *)
(* contexts and starts and any limits of the pools: each has one owner,    *)
(* each handle and each unfinished write has its client, and whatever is   *)
(* being closed has a close callback still to run.                         *)
(***************************************************************************)
EXTENDS TcpServer, FiniteSetTheorems, SequenceFacts

(***************************************************************************)
(* The inductive invariant.  The order of a round of uv_run is part of it: *)
(* what waits in "closing" says which client or context it is about.       *)
(***************************************************************************)
Entry == {"server", "recycle", "client"} \X (Id \cup Ctx \cup {Null})

CtlInv ==
    /\ m_bIsClosed => lpc = "none"
    /\ s_id + backlog <= MaxConn
    /\ \A i \in m_mapClientsList : i <= s_id
    /\ lpc = "accept_lock" => cur \in Id /\ cur \notin m_mapClientsList /\ cur <= s_id
    /\ lpc = "SubClientClosed" => cur \in m_mapClientsList

ClientInv ==
    /\ \A i \in Clients : ctxOf[i] \in Ctx
    /\ \A i, j \in Clients : ctxOf[i] = ctxOf[j] => i = j
    /\ lpc = "accept_lock" => handle[ctxOf[cur]] = "open"
    /\ lpc = "SubClientClosed" => handle[ctxOf[cur]] = "none"
    /\ \A i \in m_mapClientsList :
          handle[ctxOf[i]] = "none" => lpc = "SubClientClosed" /\ cur = i
    /\ \A c \in Ctx : handle[c] = "open" => \E i \in Clients : ctxOf[i] = c
    /\ \A c \in Ctx : inflight[c] > 0 =>
          handle[c] # "none" /\ \E i \in Clients : ctxOf[i] = c

PoolInv ==
    /\ Distinct(m_listAvaiTcpHandle)
    /\ \A c \in Ctx : In(c, m_listAvaiTcpHandle) =>
          handle[c] = "none" /\ \A i \in Clients : ctxOf[i] # c

\* What an entry of the list of closing handles stands for.
Due(e) ==
    \/ e[1] = "server" /\ m_mutexClients = Loop
    \/ e[1] = "client" /\ e[2] \in m_mapClientsList /\ handle[ctxOf[e[2]]] = "closing"
    \/ /\ e[1] = "recycle" /\ e[2] \in Ctx /\ handle[e[2]] = "closing"
       /\ \A i \in Clients : ctxOf[i] # e[2]

QueueInv ==
    /\ Distinct(closing)
    /\ \A e \in Entry : In(e, closing) => Due(e)

IInv == TypeOK /\ CtlInv /\ ClientInv /\ PoolInv /\ QueueInv

\* Parts of the invariant, in one place.
LEMMA Parts ==
    ASSUME IInv
    PROVE  TypeOK /\ CtlInv /\ ClientInv /\ PoolInv /\ QueueInv
  BY DEF IInv

\* A server that was never started.
LEMMA InitInv == Init => IInv
  <1> SUFFICES ASSUME Init PROVE IInv
    OBVIOUS
  <1>1. \A S : <<>> \in Seq(S) /\ Len(<<>>) = 0
    BY EmptySeq
  <1>2. Distinct(<<>>) /\ \A e : ~In(e, <<>>)
    BY <1>1 DEF Distinct, In
  <1>3. {m_bIsClosed, m_bIsUserAskForClosed, leaving, pending, posted, aborted} \subseteq BOOLEAN
    BY DEF Init
  <1>4. TypeOK
    BY <1>1, <1>3, ServerAssumption DEF Init, TypeOK, Null, Nobody
  <1>5. Clients = {}
    BY DEF Init, Clients
  <1>6. CtlInv
    BY ServerAssumption DEF Init, CtlInv
  <1>7. ClientInv
    BY <1>5 DEF Init, ClientInv
  <1>8. PoolInv
    BY <1>2 DEF Init, PoolInv
  <1>9. QueueInv
    BY <1>2 DEF Init, QueueInv
  <1> QED
    BY <1>4, <1>6, <1>7, <1>8, <1>9 DEF IInv

\* A context that is taken is nobody's, and no longer kept.
LEMMA TakenIsFree ==
    ASSUME IInv, lpc = "poll", NEW c \in Ctx, TakeCtx(c)
    PROVE  /\ handle[c] = "none" /\ \A i \in m_mapClientsList : ctxOf[i] # c
           /\ m_listAvaiTcpHandle' \in Seq(Ctx) /\ Len(m_listAvaiTcpHandle') <= MAXLISTSIZE + 1
           /\ Distinct(m_listAvaiTcpHandle') /\ ~In(c, m_listAvaiTcpHandle')
           /\ \A d : In(d, m_listAvaiTcpHandle') => In(d, m_listAvaiTcpHandle)
  <1> DEFINE l == m_listAvaiTcpHandle
  <1>1. /\ l \in Seq(Ctx) /\ Len(l) <= MAXLISTSIZE + 1 /\ Len(l) \in Nat /\ Distinct(l)
        /\ MAXLISTSIZE \in Nat /\ Ctx \subseteq Nat
        /\ \A d \in Ctx : In(d, l) => handle[d] = "none" /\ \A i \in m_mapClientsList : ctxOf[i] # d
    BY Parts, LenProperties, ServerAssumption DEF TypeOK, PoolInv, Clients
  <1>2. CASE l # <<>> /\ c = Head(l) /\ l' = Tail(l)
    <2>1. /\ Head(l) \in Ctx /\ Tail(l) \in Seq(Ctx) /\ Len(Tail(l)) = Len(l) - 1
          /\ \A q : In(q, l) <=> q = Head(l) \/ In(q, Tail(l))
          /\ Distinct(Tail(l)) /\ ~In(Head(l), Tail(l))
      BY <1>1, <1>2, TailDistinct
    <2>2. Len(l) - 1 <= MAXLISTSIZE + 1
      BY <1>1
    <2> HIDE DEF l
    <2>3. In(c, l)
      BY <1>2, <2>1
    <2> QED
      BY <1>1, <1>2, <2>1, <2>2, <2>3 DEF l
  <1>3. CASE l = <<>> /\ Free # {} /\ c = Min(Free) /\ l' = l
    <2>1. Free \in SUBSET Nat
      BY <1>1 DEF Free
    <2>2. c \in Free
      BY <1>3, <2>1, MinIsLeast
    <2>3. handle[c] = "none" /\ \A i \in m_mapClientsList : ctxOf[i] # c
      BY <2>2, Parts DEF Free, TypeOK
    <2>4. ~In(c, l)
      BY <1>3, EmptySeq DEF In
    <2> HIDE DEF l
    <2> QED
      BY <1>1, <1>3, <2>3, <2>4 DEF l
  <1> QED
    BY <1>2, <1>3 DEF TakeCtx

(***************************************************************************)
(* The steps that leave clients, contexts and closing handles alone.       *)
(***************************************************************************)
\* Only the two points where a callback waits for the mutex matter.
LEMMA QuietStep ==
    ASSUME CtlInv, ClientInv, PoolInv, QueueInv,
           m_mapClientsList' = m_mapClientsList, ctxOf' = ctxOf, cur' = cur,
           handle' = handle, m_listAvaiTcpHandle' = m_listAvaiTcpHandle,
           closing' = closing, m_mutexClients' = m_mutexClients, inflight' = inflight,
           lpc \notin {"accept_lock", "SubClientClosed"} \/ lpc' = lpc,
           lpc' \notin {"accept_lock", "SubClientClosed"} \/ lpc' = lpc
    PROVE  ClientInv' /\ PoolInv' /\ QueueInv'
  <1>1. Clients' = Clients
    BY DEF Clients
  <1>2. ClientInv'
    <2>1. lpc = "SubClientClosed" => lpc' = lpc
      OBVIOUS
    <2>2. lpc' \in {"accept_lock", "SubClientClosed"} => lpc' = lpc
      OBVIOUS
    <2> QED
      BY <1>1, <2>1, <2>2 DEF ClientInv
  <1>3. PoolInv'
    BY <1>1 DEF PoolInv
  <1>4. QueueInv'
    BY <1>1 DEF QueueInv, Due
  <1> QED
    BY <1>2, <1>3, <1>4

\* The user's thread, the peers that connect, and the loop thread between its
\* callbacks.
LEMMA ControlStep ==
    ASSUME IInv,
           \/ Start \/ StartWait \/ Close \/ SendUvMessage2Handle \/ Connect
           \/ ThreadBegin \/ ThreadClosed \/ ThreadEnd
           \/ AsyncCloseCB \/ AsyncRecvMsg \/ EndPoll \/ EndRound
    PROVE  IInv'
  <1>1. TypeOK /\ CtlInv /\ ClientInv /\ PoolInv /\ QueueInv
    BY Parts
  <1>2. /\ m_mapClientsList' = m_mapClientsList /\ ctxOf' = ctxOf /\ cur' = cur /\ s_id' = s_id
        /\ handle' = handle /\ m_listAvaiTcpHandle' = m_listAvaiTcpHandle
        /\ closing' = closing /\ m_mutexClients' = m_mutexClients
        /\ inflight' = inflight /\ m_listWriteParam' = m_listWriteParam
    BY DEF Start, StartWait, Close, SendUvMessage2Handle, Connect, ThreadBegin, ThreadClosed,
           ThreadEnd, AsyncCloseCB, AsyncRecvMsg, EndPoll, EndRound,
           clientVars, ctxVars, writeVars, ctl, srvVars, flags, userVars
  <1>3. /\ lpc \notin {"accept_lock", "SubClientClosed"} \/ lpc' = lpc
        /\ lpc' \notin {"accept_lock", "SubClientClosed"} \/ lpc' = lpc
    BY <1>1 DEF Start, StartWait, Close, SendUvMessage2Handle, Connect, ThreadBegin, ThreadClosed,
           ThreadEnd, AsyncCloseCB, AsyncRecvMsg, EndPoll, EndRound, CtlInv
  <1>4. ClientInv' /\ PoolInv' /\ QueueInv'
    BY <1>1, <1>2, <1>3, QuietStep
  <1>5. /\ backlog' \in 0..MaxConn /\ s_id + backlog' <= MaxConn
        /\ starts' \in 0..MaxStart /\ posts' \in 0..MaxPost
        /\ m_bIsClosed' => lpc' = "none"
    <2>1. /\ backlog \in 0..MaxConn /\ s_id \in 0..MaxConn /\ s_id + backlog <= MaxConn
          /\ starts \in 0..MaxStart /\ posts \in 0..MaxPost
          /\ m_bIsClosed => lpc = "none"
          /\ MaxConn \in Nat /\ MaxStart \in Nat /\ MaxPost \in Nat
      BY <1>1, ServerAssumption DEF TypeOK, CtlInv
    <2>2. CASE Start \/ StartWait \/ Close \/ SendUvMessage2Handle \/ Connect
      BY <2>1, <2>2 DEF Start, StartWait, Close, SendUvMessage2Handle, Connect, ctl, flags,
                        userVars, srvVars
    <2>3. CASE ThreadBegin \/ ThreadClosed \/ ThreadEnd
      BY <2>1, <2>3 DEF ThreadBegin, ThreadClosed, ThreadEnd, userVars, srvVars, flags
    <2>4. CASE AsyncCloseCB \/ AsyncRecvMsg \/ EndPoll \/ EndRound
      BY <2>1, <2>4 DEF AsyncCloseCB, AsyncRecvMsg, EndPoll, EndRound, ctl, flags, userVars,
                        srvVars
    <2> QED
      BY <2>2, <2>3, <2>4
  <1>6. CtlInv'
    BY <1>1, <1>2, <1>3, <1>5 DEF CtlInv
  <1>7. TypeOK'
    <2>1. {m_bIsClosed', m_bIsUserAskForClosed', leaving', pending', posted', aborted'}
             \subseteq BOOLEAN
      <3>1. /\ m_bIsClosed \in BOOLEAN /\ m_bIsUserAskForClosed \in BOOLEAN
            /\ leaving \in BOOLEAN /\ pending \in BOOLEAN /\ posted \in BOOLEAN
            /\ aborted \in BOOLEAN
        BY <1>1 DEF TypeOK
      <3> QED
        BY <3>1 DEF Start, StartWait, Close, SendUvMessage2Handle, Connect, ThreadBegin,
           ThreadClosed, ThreadEnd, AsyncCloseCB, AsyncRecvMsg, EndPoll, EndRound,
           ctl, srvVars, flags, userVars
    <2>2. /\ m_nStartsSatus' \in {"DIS", "FINISH", "TIMEOUT"}
          /\ upc' \in {"out", "wait", "timeout"}
          /\ srv' \in {"none", "open", "closing"}
      BY <1>1 DEF TypeOK, Start, StartWait, Close, SendUvMessage2Handle, Connect, ThreadBegin,
           ThreadClosed, ThreadEnd, AsyncCloseCB, AsyncRecvMsg, EndPoll, EndRound,
           ctl, srvVars, flags, userVars
    <2>3. lpc' \in {"none", "start", "poll", "accept_lock", "close_lock", "closing",
                    "SubClientClosed", "DispatchThreadMsg", "exit"}
      BY <1>1 DEF TypeOK, Start, StartWait, Close, SendUvMessage2Handle, Connect, ThreadBegin,
           ThreadClosed, ThreadEnd, AsyncCloseCB, AsyncRecvMsg, EndPoll, EndRound
    <2> QED
      BY <1>1, <1>2, <1>5, <2>1, <2>2, <2>3 DEF TypeOK
  <1> QED
    BY <1>4, <1>6, <1>7 DEF IInv

(***************************************************************************)
(* Accepting, receiving and replying.                                      *)
(***************************************************************************)
\* AcceptConnection goes on to the lock with a client and an open handle, or
\* has closed the handle again and left nothing but an entry to recycle.
LEMMA AcceptStep ==
    ASSUME IInv, AcceptConnection
    PROVE  IInv'
  <1>1. TypeOK /\ CtlInv /\ ClientInv /\ PoolInv /\ QueueInv
    BY Parts
  <1> DEFINE n == s_id + 1
             l == m_listAvaiTcpHandle
  <1>2. PICK c \in Ctx :
           /\ TakeCtx(c)
           /\ \/ /\ handle' = [handle EXCEPT ![c] = "open"]
                 /\ ctxOf' = [ctxOf EXCEPT ![n] = c]
                 /\ cur' = n /\ lpc' = "accept_lock" /\ closing' = closing
              \/ /\ handle' = [handle EXCEPT ![c] = "closing"]
                 /\ closing' = <<<<"recycle", c>>>> \o closing
                 /\ ctxOf' = ctxOf /\ cur' = cur /\ lpc' = lpc
    BY DEF AcceptConnection
  <1>3. /\ lpc = "poll" /\ backlog > 0 /\ backlog' = backlog - 1 /\ s_id' = n
        /\ m_mapClientsList' = m_mapClientsList /\ inflight' = inflight
        /\ m_listWriteParam' = m_listWriteParam /\ m_mutexClients' = m_mutexClients
        /\ m_bIsClosed' = m_bIsClosed /\ m_bIsUserAskForClosed' = m_bIsUserAskForClosed
        /\ leaving' = leaving /\ pending' = pending /\ posted' = posted /\ aborted' = aborted
        /\ m_nStartsSatus' = m_nStartsSatus /\ upc' = upc /\ starts' = starts
        /\ srv' = srv /\ posts' = posts
    BY DEF AcceptConnection, ctl, flags, userVars, writeVars
  <1>4. /\ handle[c] = "none" /\ \A i \in m_mapClientsList : ctxOf[i] # c
        /\ l' \in Seq(Ctx) /\ Len(l') <= MAXLISTSIZE + 1 /\ Distinct(l') /\ ~In(c, l')
        /\ \A d : In(d, l') => In(d, l)
    BY <1>2, <1>3, TakenIsFree
  <1>5. /\ n \in Id /\ n \in 0..MaxConn /\ n \notin m_mapClientsList
        /\ backlog' \in 0..MaxConn /\ n + backlog' <= MaxConn
        /\ \A i \in m_mapClientsList : i <= n
    <2>1. /\ s_id \in 0..MaxConn /\ backlog \in 0..MaxConn /\ MaxConn \in Nat
          /\ s_id + backlog <= MaxConn
          /\ \A i \in m_mapClientsList : i <= s_id /\ i \in 1..MaxConn
      BY <1>1, ServerAssumption DEF TypeOK, CtlInv, Id
    <2>2. n \in 1..MaxConn /\ backlog - 1 \in 0..MaxConn /\ n + (backlog - 1) <= MaxConn
      BY <1>3, <2>1
    <2>3. \A i \in m_mapClientsList : i <= n /\ i # n
      BY <2>1
    <2> QED
      BY <1>3, <2>2, <2>3 DEF Id
  <1> HIDE DEF n, l
  <1>6. Clients = m_mapClientsList
    BY <1>3 DEF Clients
  <1>7. \A d \in Ctx : d # c => handle'[d] = handle[d]
    BY <1>1, <1>2 DEF TypeOK
  <1>8. CASE /\ handle' = [handle EXCEPT ![c] = "open"]
             /\ ctxOf' = [ctxOf EXCEPT ![n] = c]
             /\ cur' = n /\ lpc' = "accept_lock" /\ closing' = closing
    <2>1. /\ handle'[c] = "open" /\ ctxOf'[n] = c
          /\ \A i \in m_mapClientsList : ctxOf'[i] = ctxOf[i] /\ ctxOf[i] \in Ctx
          /\ Clients' = m_mapClientsList \cup {n}
      BY <1>1, <1>3, <1>5, <1>6, <1>8 DEF TypeOK, ClientInv, Clients
    <2>2. TypeOK'
      BY <1>1, <1>3, <1>4, <1>5, <1>8 DEF TypeOK, l
    <2>3. CtlInv'
      BY <1>1, <1>3, <1>5, <1>8 DEF CtlInv, Id
    <2>4. ClientInv'
      <3>1. \A i \in Clients' : ctxOf'[i] \in Ctx
        BY <2>1
      <3>2. \A i, j \in Clients' : ctxOf'[i] = ctxOf'[j] => i = j
        BY <1>1, <1>4, <1>6, <2>1 DEF ClientInv
      <3>3. \A i \in m_mapClientsList : handle'[ctxOf'[i]] # "none"
        BY <1>1, <1>3, <1>4, <1>7, <2>1 DEF ClientInv
      <3>4. \A d \in Ctx : handle'[d] = "open" => \E i \in Clients' : ctxOf'[i] = d
        BY <1>1, <1>6, <1>7, <2>1 DEF ClientInv
      <3>5. \A d \in Ctx : inflight[d] > 0 =>
               handle'[d] # "none" /\ \E i \in Clients' : ctxOf'[i] = d
        BY <1>1, <1>4, <1>6, <1>7, <2>1 DEF ClientInv
      <3> QED
        BY <1>3, <1>8, <2>1, <3>1, <3>2, <3>3, <3>4, <3>5 DEF ClientInv
    <2>5. PoolInv'
      BY <1>1, <1>4, <1>6, <1>7, <2>1 DEF PoolInv, l
    <2>6. QueueInv'
      <3>1. ASSUME NEW e \in Entry, Due(e) PROVE Due(e)'
        <4>1. CASE e[1] = "server" /\ m_mutexClients = Loop
          BY <1>3, <4>1 DEF Due
        <4>2. CASE e[1] = "client" /\ e[2] \in m_mapClientsList /\ handle[ctxOf[e[2]]] = "closing"
          BY <1>3, <1>4, <1>7, <2>1, <4>2 DEF Due
        <4>3. CASE /\ e[1] = "recycle" /\ e[2] \in Ctx /\ handle[e[2]] = "closing"
                   /\ \A i \in Clients : ctxOf[i] # e[2]
          BY <1>4, <1>6, <1>7, <2>1, <4>3 DEF Due
        <4> QED
          BY <3>1, <4>1, <4>2, <4>3 DEF Due
      <3> QED
        BY <1>1, <1>8, <3>1 DEF QueueInv
    <2> QED
      BY <2>2, <2>3, <2>4, <2>5, <2>6 DEF IInv
  <1>9. CASE /\ handle' = [handle EXCEPT ![c] = "closing"]
             /\ closing' = <<<<"recycle", c>>>> \o closing
             /\ ctxOf' = ctxOf /\ cur' = cur /\ lpc' = lpc
    <2> DEFINE r == <<"recycle", c>>
               one == <<r>>
    <2>1. r \in Entry /\ r[1] = "recycle" /\ r[2] = c
      BY DEF Entry
    <2> HIDE DEF r
    <2>2. /\ one \in Seq(Entry) /\ Distinct(one) /\ \A e : In(e, one) => e = r
      BY <2>1 DEF Distinct, In
    <2> HIDE DEF one
    <2>3. /\ handle'[c] = "closing" /\ Clients' = m_mapClientsList
      BY <1>1, <1>3, <1>6, <1>9 DEF TypeOK, Clients
    <2>4. closing \in Seq(Entry) /\ Distinct(closing) /\ ~Due(r)
      BY <1>1, <1>4, <2>1 DEF TypeOK, Entry, QueueInv, Due
    <2>5. /\ closing' \in Seq(Entry) /\ Distinct(closing')
          /\ \A e : In(e, closing') => e = r \/ In(e, closing)
      <3>1. closing' = one \o closing
        BY <1>9 DEF one, r
      <3>2. \A e : ~(In(e, one) /\ In(e, closing))
        BY <1>1, <2>1, <2>2, <2>4 DEF QueueInv
      <3> QED
        BY <2>2, <2>4, <3>1, <3>2, ConcatDistinct
    <2>6. TypeOK'
      BY <1>1, <1>3, <1>4, <1>5, <1>9, <2>5 DEF TypeOK, l, Entry
    <2>7. CtlInv'
      BY <1>1, <1>3, <1>5, <1>9 DEF CtlInv
    <2>8. ClientInv'
      BY <1>1, <1>3, <1>4, <1>6, <1>7, <1>9, <2>3 DEF ClientInv
    <2>9. PoolInv'
      BY <1>1, <1>4, <1>6, <1>7, <1>9, <2>3 DEF PoolInv, l
    <2>10. QueueInv'
      <3>1. Due(r)'
        BY <1>4, <1>9, <2>1, <2>3 DEF Due
      <3>2. ASSUME NEW e \in Entry, Due(e) PROVE Due(e)'
        <4>1. CASE e[1] = "server" /\ m_mutexClients = Loop
          BY <1>3, <4>1 DEF Due
        <4>2. CASE e[1] = "client" /\ e[2] \in m_mapClientsList /\ handle[ctxOf[e[2]]] = "closing"
          <5>1. ctxOf[e[2]] \in Ctx /\ ctxOf[e[2]] # c
            BY <1>1, <1>4, <1>6, <4>2 DEF ClientInv
          <5> QED
            BY <1>3, <1>7, <1>9, <4>2, <5>1 DEF Due
        <4>3. CASE /\ e[1] = "recycle" /\ e[2] \in Ctx /\ handle[e[2]] = "closing"
                   /\ \A i \in Clients : ctxOf[i] # e[2]
          BY <1>4, <1>6, <1>7, <1>9, <2>3, <4>3 DEF Due
        <4> QED
          BY <3>2, <4>1, <4>2, <4>3 DEF Due
      <3> QED
        BY <1>1, <2>5, <3>1, <3>2 DEF QueueInv
    <2> QED
      BY <2>6, <2>7, <2>8, <2>9, <2>10 DEF IInv
  <1> QED
    BY <1>2, <1>8, <1>9

\* The new client goes into the map.
LEMMA InsertStep ==
    ASSUME IInv, AcceptInsert
    PROVE  IInv'
  <1>1. TypeOK /\ CtlInv /\ ClientInv /\ PoolInv /\ QueueInv
    BY Parts
  <1>2. /\ lpc = "accept_lock" /\ lpc' = "poll" /\ cur' = Null
        /\ m_mapClientsList' = m_mapClientsList \cup {cur}
        /\ ctxOf' = ctxOf /\ s_id' = s_id /\ handle' = handle
        /\ m_listAvaiTcpHandle' = m_listAvaiTcpHandle /\ closing' = closing
        /\ inflight' = inflight /\ m_listWriteParam' = m_listWriteParam
        /\ m_mutexClients' = m_mutexClients
        /\ m_bIsClosed' = m_bIsClosed /\ m_bIsUserAskForClosed' = m_bIsUserAskForClosed
        /\ leaving' = leaving /\ pending' = pending /\ posted' = posted /\ aborted' = aborted
        /\ m_nStartsSatus' = m_nStartsSatus /\ upc' = upc /\ starts' = starts
        /\ srv' = srv /\ posts' = posts /\ backlog' = backlog
    BY DEF AcceptInsert, ctl, flags, userVars, srvVars, ctxVars, writeVars
  <1>3. cur \in Id /\ cur \notin m_mapClientsList /\ cur <= s_id
        /\ handle[ctxOf[cur]] = "open"
    BY <1>1, <1>2 DEF CtlInv, ClientInv
  <1>4. Clients' = Clients
    BY <1>2 DEF Clients
  <1>5. TypeOK'
    BY <1>1, <1>2, <1>3 DEF TypeOK
  <1>6. CtlInv'
    BY <1>1, <1>2, <1>3 DEF CtlInv
  <1>7. ClientInv'
    BY <1>1, <1>2, <1>3, <1>4 DEF ClientInv
  <1>8. PoolInv'
    BY <1>1, <1>2, <1>4 DEF PoolInv
  <1>9. QueueInv'
    BY <1>1, <1>2, <1>4 DEF QueueInv, Due
  <1> QED
    BY <1>5, <1>6, <1>7, <1>8, <1>9 DEF IInv

\* The pool of write requests stays within its limit.
LEMMA KeepBounds ==
    ASSUME TypeOK, NEW n \in Nat
    PROVE  Keep(n) \in 0..MAXLISTSIZE + 1 /\ KeptLess \in 0..MAXLISTSIZE + 1
  <1> DEFINE m == m_listWriteParam
             M == MAXLISTSIZE
  <1>1. m \in 0..M + 1 /\ M \in Nat
    BY ServerAssumption DEF TypeOK
  <1>2. KeptLess \in 0..M + 1
    BY <1>1 DEF KeptLess
  <1>3. Keep(n) \in 0..M + 1
    <2> DEFINE room == IF m > M THEN 0 ELSE M + 1 - m
    <2>1. room \in Nat /\ m + room <= M + 1
      BY <1>1
    <2>2. Keep(n) = m + (IF n <= room THEN n ELSE room)
      BY DEF Keep
    <2> HIDE DEF room, m, M
    <2>3. CASE n <= room
      BY <1>1, <2>1, <2>2, <2>3
    <2>4. CASE ~(n <= room)
      BY <1>1, <2>1, <2>2, <2>4
    <2> QED
      BY <2>3, <2>4
  <1> QED
    BY <1>2, <1>3

\* A client's handlers reply; a reply is finished.
LEMMA WriteStep ==
    ASSUME IInv, \/ \E i \in Id : AfterRecv(i)
                 \/ \E c \in Ctx : AfterSend(c)
    PROVE  IInv'
  <1>1. TypeOK /\ CtlInv /\ ClientInv /\ PoolInv /\ QueueInv
    BY Parts
  <1>2. /\ m_mapClientsList' = m_mapClientsList /\ ctxOf' = ctxOf /\ cur' = cur /\ s_id' = s_id
        /\ handle' = handle /\ m_listAvaiTcpHandle' = m_listAvaiTcpHandle
        /\ closing' = closing /\ m_mutexClients' = m_mutexClients /\ lpc' = lpc
        /\ m_bIsClosed' = m_bIsClosed /\ m_bIsUserAskForClosed' = m_bIsUserAskForClosed
        /\ leaving' = leaving /\ pending' = pending /\ posted' = posted /\ aborted' = aborted
        /\ m_nStartsSatus' = m_nStartsSatus /\ upc' = upc /\ starts' = starts
        /\ srv' = srv /\ posts' = posts /\ backlog' = backlog
    BY DEF AfterRecv, AfterSend, ctl, flags, userVars, srvVars, ctxVars, clientVars
  <1>3. PICK c \in Ctx :
           /\ inflight[c] > 0 \/ handle[c] = "open"
           /\ handle[c] # "none"
           /\ \/ /\ inflight' = inflight
                 /\ m_listWriteParam' \in {m_listWriteParam, KeptLess + 1}
              \/ inflight' = [inflight EXCEPT ![c] = @ + 1] /\ m_listWriteParam' = KeptLess
              \/ /\ inflight[c] > 0 /\ inflight' = [inflight EXCEPT ![c] = @ - 1]
                 /\ m_listWriteParam' = Keep(1)
    <2>1. ASSUME NEW i \in Id, AfterRecv(i) PROVE ctxOf[i] \in Ctx /\ handle[ctxOf[i]] = "open"
      BY <1>1, <2>1 DEF AfterRecv, ClientInv, Clients
    <2>2. CASE \E i \in Id : AfterRecv(i)
      BY <2>1, <2>2 DEF AfterRecv, sendinl, writeVars
    <2>3. CASE \E d \in Ctx : AfterSend(d)
      BY <2>3 DEF AfterSend
    <2> QED
      BY <2>2, <2>3
  <1>4. /\ inflight' \in [Ctx -> Nat] /\ m_listWriteParam' \in 0..MAXLISTSIZE + 1
        /\ \A d \in Ctx : inflight'[d] > 0 => inflight[d] > 0 \/ d = c
    <2>1. /\ inflight \in [Ctx -> Nat] /\ m_listWriteParam \in 0..MAXLISTSIZE + 1
      BY <1>1 DEF TypeOK
    <2>2. Keep(1) \in 0..MAXLISTSIZE + 1 /\ KeptLess \in 0..MAXLISTSIZE + 1
      BY <1>1, KeepBounds
    <2>3. inflight[c] + 1 \in Nat /\ (inflight[c] > 0 => inflight[c] - 1 \in Nat)
      BY <2>1
    <2>4. KeptLess + 1 \in 0..MAXLISTSIZE + 1
      BY <2>1, ServerAssumption DEF KeptLess
    <2> QED
      BY <1>3, <2>1, <2>2, <2>3, <2>4
  <1>5. Clients' = Clients
    BY <1>2 DEF Clients
  <1>6. \E i \in Clients : ctxOf[i] = c
    BY <1>1, <1>3 DEF ClientInv
  <1>7. TypeOK'
    BY <1>1, <1>2, <1>4 DEF TypeOK
  <1>8. CtlInv'
    BY <1>1, <1>2 DEF CtlInv
  <1>9. ClientInv'
    <2>1. \A d \in Ctx : inflight'[d] > 0 => handle[d] # "none" /\ \E i \in Clients : ctxOf[i] = d
      BY <1>1, <1>3, <1>4, <1>6 DEF ClientInv
    <2> HIDE <1>4
    <2> QED
      BY <1>1, <1>2, <1>5, <2>1 DEF ClientInv
  <1>10. PoolInv'
    BY <1>1, <1>2, <1>5 DEF PoolInv
  <1>11. QueueInv'
    BY <1>1, <1>2, <1>5 DEF QueueInv, Due
  <1> QED
    BY <1>7, <1>8, <1>9, <1>10, <1>11 DEF IInv

\* The connection of a client ends: its handle is closed, once.
LEMMA EofStep ==
    ASSUME IInv, NEW i \in Id, AfterRecvEof(i)
    PROVE  IInv'
  <1> DEFINE c == ctxOf[i]
             r == <<"client", i>>
             one == <<r>>
  <1>1. TypeOK /\ CtlInv /\ ClientInv /\ PoolInv /\ QueueInv
    BY Parts
  <1>2. /\ m_mapClientsList' = m_mapClientsList /\ ctxOf' = ctxOf /\ cur' = cur /\ s_id' = s_id
        /\ handle' = [handle EXCEPT ![c] = "closing"]
        /\ m_listAvaiTcpHandle' = m_listAvaiTcpHandle
        /\ closing' = one \o closing /\ m_mutexClients' = m_mutexClients /\ lpc' = lpc
        /\ m_bIsClosed' = m_bIsClosed /\ m_bIsUserAskForClosed' = m_bIsUserAskForClosed
        /\ leaving' = leaving /\ pending' = pending /\ posted' = posted /\ aborted' = aborted
        /\ m_nStartsSatus' = m_nStartsSatus /\ upc' = upc /\ starts' = starts
        /\ srv' = srv /\ posts' = posts /\ backlog' = backlog
        /\ inflight' = inflight /\ m_listWriteParam' = m_listWriteParam
        /\ lpc = "poll" /\ i \in m_mapClientsList /\ handle[c] = "open"
    BY DEF AfterRecvEof, ctl, flags, userVars, srvVars, writeVars, clientVars
  <1>3. c \in Ctx /\ Clients = m_mapClientsList /\ Clients' = Clients
    BY <1>1, <1>2 DEF ClientInv, Clients
  <1>4. /\ handle'[c] = "closing" /\ \A d \in Ctx : d # c => handle'[d] = handle[d]
    BY <1>1, <1>2, <1>3 DEF TypeOK
  <1>5. r \in Entry /\ r[1] = "client" /\ r[2] = i
    BY DEF Entry
  <1>6. closing \in Seq(Entry) /\ Distinct(closing) /\ ~Due(r)
    BY <1>1, <1>2, <1>5 DEF TypeOK, Entry, QueueInv, Due
  <1> HIDE DEF r
  <1>7. one \in Seq(Entry) /\ Distinct(one) /\ \A e : In(e, one) => e = r
    BY <1>5 DEF Distinct, In
  <1> HIDE DEF one
  <1>8. /\ closing' \in Seq(Entry) /\ Distinct(closing')
        /\ \A e : In(e, closing') => e = r \/ In(e, closing)
    <2>1. \A e : ~(In(e, one) /\ In(e, closing))
      BY <1>1, <1>5, <1>6, <1>7 DEF QueueInv
    <2> QED
      BY <1>2, <1>6, <1>7, <2>1, ConcatDistinct
  <1> HIDE DEF c
  <1>9. TypeOK'
    BY <1>1, <1>2, <1>8 DEF TypeOK, Entry
  <1>10. CtlInv'
    BY <1>1, <1>2 DEF CtlInv
  <1>11. ClientInv'
    BY <1>1, <1>2, <1>3, <1>4 DEF ClientInv
  <1>12. PoolInv'
    BY <1>1, <1>2, <1>3, <1>4 DEF PoolInv, c
  <1>13. QueueInv'
    <2>1. Due(r)'
      BY <1>2, <1>4, <1>5 DEF Due, c
    <2>2. ASSUME NEW e \in Entry, Due(e) PROVE Due(e)'
      <3>1. CASE e[1] = "server" /\ m_mutexClients = Loop
        BY <1>2, <3>1 DEF Due
      <3>2. CASE e[1] = "client" /\ e[2] \in m_mapClientsList /\ handle[ctxOf[e[2]]] = "closing"
        <4>1. ctxOf[e[2]] \in Ctx /\ ctxOf[e[2]] # c
          BY <1>1, <1>2, <1>3, <3>2 DEF ClientInv
        <4> QED
          BY <1>2, <1>4, <3>2, <4>1 DEF Due
      <3>3. CASE /\ e[1] = "recycle" /\ e[2] \in Ctx /\ handle[e[2]] = "closing"
                 /\ \A j \in Clients : ctxOf[j] # e[2]
        BY <1>2, <1>3, <1>4, <3>3 DEF Due
      <3> QED
        BY <2>2, <3>1, <3>2, <3>3 DEF Due
    <2> QED
      BY <1>1, <1>8, <2>1, <2>2 DEF QueueInv
  <1> QED
    BY <1>9, <1>10, <1>11, <1>12, <1>13 DEF IInv

(***************************************************************************)
(* Closing.                                                                *)
(***************************************************************************)
\* One entry for each client of the map: they are distinct.
LEMMA ClientEntries ==
    ASSUME NEW M \in SUBSET Id,
           NEW s \in [1..Cardinality(M) -> M],
           \A j, k \in DOMAIN s : j < k => s[j] > s[k]
    PROVE  LET es == [k \in DOMAIN s |-> <<"client", s[k]>>]
           IN  /\ es \in Seq(Entry) /\ Distinct(es)
               /\ \A e : In(e, es) => e \in Entry /\ e[1] = "client" /\ e[2] \in M
  <1> DEFINE n == Cardinality(M)
             es == [k \in 1..n |-> <<"client", s[k]>>]
  <1>1. n \in Nat
    <2>1. MaxConn \in Int /\ 1 \in Int
      BY ServerAssumption
    <2>2. IsFiniteSet(Id)
      BY <2>1, FS_Interval DEF Id
    <2>3. IsFiniteSet(M)
      BY <2>2, FS_Subset
    <2> QED
      BY <2>3, FS_CardinalityType
  <1>2. DOMAIN s = 1..n /\ \A k \in 1..n : s[k] \in M /\ s[k] \in Id
    OBVIOUS
  <1> HIDE DEF n
  <1>3. /\ es \in [1..n -> Entry]
        /\ \A k \in 1..n : es[k] = <<"client", s[k]>> /\ es[k] \in Entry
    BY <1>2 DEF Entry
  <1>4. \A k \in 1..n : es[k][1] = "client" /\ es[k][2] = s[k]
    BY <1>3
  <1> HIDE DEF es
  <1>5. es \in Seq(Entry)
    BY <1>1, <1>3, SeqDef
  <1>6. Len(es) = n
    BY <1>1, <1>3, <1>5, LenProperties
  <1>7. Distinct(es)
    <2> SUFFICES ASSUME NEW j \in 1..n, NEW k \in 1..n, es[j] = es[k], j < k PROVE FALSE
      BY <1>1, <1>6 DEF Distinct
    <2>1. s[j] > s[k] /\ s[j] = s[k] /\ s[j] \in Nat /\ s[k] \in Nat
      BY <1>2, <1>4 DEF Id
    <2> QED
      BY <2>1
  <1>8. \A e : In(e, es) => e \in Entry /\ e[1] = "client" /\ e[2] \in M
    BY <1>2, <1>3, <1>4, <1>6 DEF In
  <1> QED
    BY <1>2, <1>5, <1>7, <1>8 DEF es

\* closeinl: the mutex stays locked, every client's handle is closed and has its
\* entry, once.
LEMMA CloseStep ==
    ASSUME IInv, CloseInl
    PROVE  IInv'
  <1> DEFINE M == m_mapClientsList
             r == <<"server", Null>>
             one == <<r>>
  <1>1. TypeOK /\ CtlInv /\ ClientInv /\ PoolInv /\ QueueInv
    BY Parts
  <1>2. /\ M' = M /\ ctxOf' = ctxOf /\ cur' = cur /\ s_id' = s_id
        /\ m_listAvaiTcpHandle' = m_listAvaiTcpHandle
        /\ m_mutexClients = Nobody /\ m_mutexClients' = Loop
        /\ lpc = "close_lock" /\ lpc' = "poll"
        /\ m_bIsClosed' = m_bIsClosed /\ m_bIsUserAskForClosed' = m_bIsUserAskForClosed
        /\ leaving' = leaving /\ pending' = pending /\ posted' = posted
        /\ m_nStartsSatus' = m_nStartsSatus /\ upc' = upc /\ starts' = starts
        /\ posts' = posts
        /\ inflight' = inflight /\ m_listWriteParam' = m_listWriteParam
    BY DEF CloseInl, flags, userVars, writeVars, clientVars
  <1>3. Clients = M /\ Clients' = M
    BY <1>2 DEF Clients
  <1>4. CASE /\ \E i \in M : handle[ctxOf[i]] # "open"
             /\ aborted' = TRUE /\ handle' = handle /\ closing' = closing
             /\ srv' = srv /\ backlog' = backlog
    <2>1. TypeOK'
      BY <1>1, <1>2, <1>4 DEF TypeOK
    <2>2. CtlInv' /\ ClientInv'
      BY <1>1, <1>2, <1>3, <1>4 DEF CtlInv, ClientInv
    <2>3. PoolInv'
      BY <1>1, <1>2, <1>3, <1>4 DEF PoolInv
    <2>4. QueueInv'
      BY <1>1, <1>2, <1>3, <1>4 DEF QueueInv, Due
    <2> QED
      BY <2>1, <2>2, <2>3, <2>4 DEF IInv
  <1>5. CASE /\ \A i \in M : handle[ctxOf[i]] = "open"
             /\ handle' = [c \in Ctx |-> IF \E i \in M : ctxOf[i] = c
                                         THEN "closing" ELSE handle[c]]
             /\ \E s \in [1..Cardinality(M) -> M] :
                   /\ \A j, k \in DOMAIN s : j < k => s[j] > s[k]
                   /\ closing' = one \o [k \in DOMAIN s |-> <<"client", s[k]>>] \o closing
             /\ srv' = "closing" /\ backlog' = 0 /\ aborted' = aborted
    <2>1. PICK s \in [1..Cardinality(M) -> M] :
             /\ \A j, k \in DOMAIN s : j < k => s[j] > s[k]
             /\ closing' = one \o [k \in DOMAIN s |-> <<"client", s[k]>>] \o closing
      BY <1>5
    <2> DEFINE es == [k \in DOMAIN s |-> <<"client", s[k]>>]
               a == one \o es
    <2>2. /\ es \in Seq(Entry) /\ Distinct(es)
          /\ \A e : In(e, es) => e \in Entry /\ e[1] = "client" /\ e[2] \in M
      BY <1>1, <2>1, ClientEntries DEF TypeOK
    <2>3. closing' = a \o closing
      BY <2>1
    <2> HIDE DEF es
    <2>4. r \in Entry /\ r[1] = "server"
      BY DEF Entry
    <2> HIDE DEF r
    <2>5. one \in Seq(Entry) /\ Distinct(one) /\ \A e : In(e, one) => e = r
      BY <2>4 DEF Distinct, In
    <2> HIDE DEF one
    <2>6. /\ a \in Seq(Entry) /\ Distinct(a)
          /\ \A e : In(e, a) => e = r \/ (e \in Entry /\ e[1] = "client" /\ e[2] \in M)
      <3>1. \A e : ~(In(e, one) /\ In(e, es))
        BY <2>2, <2>4, <2>5
      <3> QED
        BY <2>2, <2>5, <3>1, ConcatDistinct
    <2> HIDE DEF a
    <2>7. closing \in Seq(Entry) /\ Distinct(closing)
      BY <1>1 DEF TypeOK, Entry, QueueInv
    <2>8. \A e \in Entry : In(e, closing) =>
             /\ e[1] = "recycle" /\ e[2] \in Ctx /\ handle[e[2]] = "closing"
             /\ \A i \in M : ctxOf[i] # e[2]
      BY <1>1, <1>2, <1>3, <1>5 DEF QueueInv, Due, Nobody, Loop
    <2>9. /\ closing' \in Seq(Entry) /\ Distinct(closing')
          /\ \A e : In(e, closing') => In(e, a) \/ In(e, closing)
      <3>1. \A e : ~(In(e, a) /\ In(e, closing))
        BY <2>4, <2>6, <2>8
      <3> QED
        BY <2>3, <2>6, <2>7, <3>1, ConcatDistinct
    <2>10. /\ \A i \in M : ctxOf[i] \in Ctx /\ handle'[ctxOf[i]] = "closing"
           /\ \A c \in Ctx : handle'[c] # "open"
           /\ \A c \in Ctx : (\A i \in M : ctxOf[i] # c) => handle'[c] = handle[c]
      BY <1>1, <1>3, <1>5 DEF ClientInv
    <2>11. TypeOK'
      <3>1. handle' \in [Ctx -> {"none", "open", "closing"}]
        BY <1>1, <1>5 DEF TypeOK
      <3>2. backlog' \in 0..MaxConn
        BY <1>5, ServerAssumption
      <3>3. closing' \in Seq({"server", "recycle", "client"} \X (Id \cup Ctx \cup {Null}))
        BY <2>9 DEF Entry
      <3> QED
        BY <1>1, <1>2, <1>5, <3>1, <3>2, <3>3 DEF TypeOK
    <2>12. CtlInv'
      <3>1. s_id + 0 <= MaxConn
        BY <1>1, ServerAssumption DEF TypeOK
      <3> QED
        BY <1>1, <1>2, <1>5, <3>1 DEF CtlInv
    <2>13. ClientInv'
      <3>1. \A c \in Ctx : inflight[c] > 0 => \E i \in M : ctxOf[i] = c
        BY <1>1, <1>3 DEF ClientInv
      <3> QED
        BY <1>1, <1>2, <1>3, <2>10, <3>1 DEF ClientInv
    <2>14. PoolInv'
      BY <1>1, <1>2, <1>3, <2>10 DEF PoolInv
    <2>15. QueueInv'
      <3>1. ASSUME NEW e \in Entry, In(e, closing') PROVE Due(e)'
        <4>1. CASE e = r
          BY <1>2, <2>4, <4>1 DEF Due
        <4>2. CASE e[1] = "client" /\ e[2] \in M
          BY <1>2, <2>10, <4>2 DEF Due
        <4>3. CASE In(e, closing)
          BY <1>2, <1>3, <2>8, <2>10, <4>3 DEF Due
        <4> QED
          BY <2>6, <2>9, <3>1, <4>1, <4>2, <4>3
      <3> QED
        BY <2>9, <3>1 DEF QueueInv
    <2> QED
      BY <2>11, <2>12, <2>13, <2>14, <2>15 DEF IInv
  <1> QED
    BY <1>4, <1>5 DEF CloseInl

\* The next handle is finished: its entry leaves the list for good.
LEMMA NextEntry ==
    ASSUME IInv, closing # <<>>, closing' = Tail(closing)
    PROVE  /\ Head(closing) \in Entry /\ Due(Head(closing))
           /\ closing' \in Seq(Entry) /\ Distinct(closing')
           /\ \A e \in Entry : In(e, closing') => Due(e) /\ e # Head(closing)
  <1>1. closing \in Seq(Entry) /\ Distinct(closing) /\ QueueInv
    BY Parts DEF TypeOK, Entry, QueueInv
  <1>2. /\ Head(closing) \in Entry /\ Tail(closing) \in Seq(Entry)
        /\ \A e : In(e, closing) <=> e = Head(closing) \/ In(e, Tail(closing))
        /\ Distinct(Tail(closing)) /\ ~In(Head(closing), Tail(closing))
    BY <1>1, TailDistinct
  <1> QED
    BY <1>1, <1>2 DEF QueueInv

\* An entry is what its two parts are.
LEMMA EntryParts == \A e, d \in Entry : e[1] = d[1] /\ e[2] = d[2] => e = d
  BY DEF Entry

\* The close callback of the server's handle: its entry leaves the list.
LEMMA ServerClosedStep ==
    ASSUME IInv, AfterServerClose
    PROVE  IInv'
  <1>1. TypeOK /\ CtlInv /\ ClientInv /\ PoolInv /\ QueueInv
    BY Parts
  <1>2. /\ m_mapClientsList' = m_mapClientsList /\ ctxOf' = ctxOf /\ cur' = cur /\ s_id' = s_id
        /\ handle' = handle /\ m_listAvaiTcpHandle' = m_listAvaiTcpHandle
        /\ m_mutexClients' = m_mutexClients /\ lpc' = lpc
        /\ m_bIsClosed' = m_bIsClosed /\ m_bIsUserAskForClosed' = m_bIsUserAskForClosed
        /\ leaving' = leaving /\ pending' = pending /\ posted' = posted /\ aborted' = aborted
        /\ m_nStartsSatus' = m_nStartsSatus /\ upc' = upc /\ starts' = starts
        /\ srv' = "none" /\ posts' = posts /\ backlog' = backlog
        /\ inflight' = inflight /\ m_listWriteParam' = m_listWriteParam
    BY DEF AfterServerClose, ctl, flags, userVars, ctxVars, clientVars, writeVars
  <1>3. /\ closing' \in Seq(Entry) /\ Distinct(closing')
        /\ \A e \in Entry : In(e, closing') => Due(e)
    BY NextEntry DEF AfterServerClose
  <1>4. Clients' = Clients
    BY <1>2 DEF Clients
  <1>5. TypeOK'
    BY <1>1, <1>2, <1>3 DEF TypeOK, Entry
  <1>6. CtlInv' /\ ClientInv' /\ PoolInv'
    BY <1>1, <1>2, <1>4 DEF CtlInv, ClientInv, PoolInv
  <1>7. QueueInv'
    BY <1>2, <1>3, <1>4 DEF QueueInv, Due
  <1> QED
    BY <1>5, <1>6, <1>7 DEF IInv

\* A context goes back to the pool: it was not there, and the pool keeps its
\* limit.
LEMMA RecycleStep ==
    ASSUME TypeOK, Distinct(m_listAvaiTcpHandle), NEW c \in Ctx,
           ~In(c, m_listAvaiTcpHandle), Recycle(c)
    PROVE  /\ m_listAvaiTcpHandle' \in Seq(Ctx) /\ Len(m_listAvaiTcpHandle') <= MAXLISTSIZE + 1
           /\ Distinct(m_listAvaiTcpHandle')
           /\ \A d : In(d, m_listAvaiTcpHandle') => In(d, m_listAvaiTcpHandle) \/ d = c
  <1> DEFINE l == m_listAvaiTcpHandle
  <1>1. /\ l \in Seq(Ctx) /\ Len(l) \in Nat /\ Len(l) <= MAXLISTSIZE + 1 /\ MAXLISTSIZE \in Nat
    BY LenProperties, ServerAssumption DEF TypeOK
  <1>2. CASE Len(l) > MAXLISTSIZE /\ l' = l
    BY <1>1, <1>2
  <1>3. CASE ~(Len(l) > MAXLISTSIZE) /\ l' = Append(l, c)
    <2>1. /\ Append(l, c) \in Seq(Ctx) /\ Len(Append(l, c)) = Len(l) + 1
          /\ \A q : In(q, Append(l, c)) <=> In(q, l) \/ q = c
          /\ Distinct(Append(l, c))
      BY <1>1, AppendDistinct
    <2>2. Len(l) + 1 <= MAXLISTSIZE + 1
      BY <1>1, <1>3
    <2> HIDE DEF l
    <2> QED
      BY <1>3, <2>1, <2>2 DEF l
  <1> QED
    BY <1>2, <1>3 DEF Recycle

\* A handle that was closed at once gives its context back.
LEMMA RecycledStep ==
    ASSUME IInv, RecycleTcpHandle
    PROVE  IInv'
  <1> DEFINE h == Head(closing)
             c == h[2]
  <1>1. TypeOK /\ CtlInv /\ ClientInv /\ PoolInv /\ QueueInv
    BY Parts
  <1>2. /\ m_mapClientsList' = m_mapClientsList /\ ctxOf' = ctxOf /\ cur' = cur /\ s_id' = s_id
        /\ handle' = [handle EXCEPT ![c] = "none"] /\ Recycle(c)
        /\ m_mutexClients' = m_mutexClients /\ lpc = "closing" /\ lpc' = lpc
        /\ m_bIsClosed' = m_bIsClosed /\ m_bIsUserAskForClosed' = m_bIsUserAskForClosed
        /\ leaving' = leaving /\ pending' = pending /\ posted' = posted /\ aborted' = aborted
        /\ m_nStartsSatus' = m_nStartsSatus /\ upc' = upc /\ starts' = starts
        /\ srv' = srv /\ posts' = posts /\ backlog' = backlog
        /\ inflight' = inflight /\ m_listWriteParam' = m_listWriteParam
        /\ h[1] = "recycle" /\ closing # <<>> /\ closing' = Tail(closing)
    BY DEF RecycleTcpHandle, ctl, flags, userVars, srvVars, clientVars, writeVars
  <1>3. /\ h \in Entry /\ Due(h)
        /\ closing' \in Seq(Entry) /\ Distinct(closing')
        /\ \A e \in Entry : In(e, closing') => Due(e) /\ e # h
    BY <1>2, NextEntry
  <1> HIDE DEF h
  <1>4. c \in Ctx /\ handle[c] = "closing" /\ \A i \in Clients : ctxOf[i] # c
    BY <1>2, <1>3 DEF Due
  <1>5. Clients = m_mapClientsList /\ Clients' = Clients
    BY <1>2 DEF Clients
  <1>6. /\ handle'[c] = "none" /\ \A d \in Ctx : d # c => handle'[d] = handle[d]
        /\ handle' \in [Ctx -> {"none", "open", "closing"}]
    BY <1>1, <1>2, <1>4 DEF TypeOK
  <1> DEFINE l == m_listAvaiTcpHandle
  <1>7. /\ l' \in Seq(Ctx) /\ Len(l') <= MAXLISTSIZE + 1 /\ Distinct(l')
        /\ \A d : In(d, l') => In(d, l) \/ d = c
    BY <1>1, <1>2, <1>4, RecycleStep DEF PoolInv
  <1> HIDE DEF c
  <1>8. TypeOK'
    BY <1>1, <1>2, <1>3, <1>6, <1>7 DEF TypeOK, Entry
  <1>9. CtlInv'
    BY <1>1, <1>2 DEF CtlInv
  <1>10. ClientInv'
    BY <1>1, <1>2, <1>4, <1>5, <1>6 DEF ClientInv
  <1>11. PoolInv'
    BY <1>1, <1>2, <1>4, <1>5, <1>6, <1>7 DEF PoolInv
  <1>12. QueueInv'
    <2>1. ASSUME NEW e \in Entry, In(e, closing') PROVE Due(e)'
      <3>1. Due(e) /\ e # h
        BY <1>3, <2>1
      <3>2. CASE e[1] = "server" /\ m_mutexClients = Loop
        BY <1>2, <3>2 DEF Due
      <3>3. CASE e[1] = "client" /\ e[2] \in m_mapClientsList /\ handle[ctxOf[e[2]]] = "closing"
        <4>1. ctxOf[e[2]] \in Ctx /\ ctxOf[e[2]] # c
          BY <1>1, <1>4, <1>5, <3>3 DEF ClientInv
        <4> QED
          BY <1>2, <1>6, <3>3, <4>1 DEF Due
      <3>4. CASE /\ e[1] = "recycle" /\ e[2] \in Ctx /\ handle[e[2]] = "closing"
                 /\ \A i \in Clients : ctxOf[i] # e[2]
        <4>1. e[2] # c
          BY <1>2, <1>3, <2>1, <3>1, <3>4, EntryParts DEF c
        <4> QED
          BY <1>2, <1>5, <1>6, <3>4, <4>1 DEF Due
      <3> QED
        BY <3>1, <3>2, <3>3, <3>4 DEF Due
    <2> QED
      BY <1>3, <2>1 DEF QueueInv
  <1> QED
    BY <1>8, <1>9, <1>10, <1>11, <1>12 DEF IInv

\* The close callback of a client begins: its handle and its writes are gone.
LEMMA ClientClosedStep ==
    ASSUME IInv, AfterClientClose
    PROVE  IInv'
  <1> DEFINE h == Head(closing)
             i == h[2]
             c == ctxOf[i]
  <1>1. TypeOK /\ CtlInv /\ ClientInv /\ PoolInv /\ QueueInv
    BY Parts
  <1>2. /\ m_mapClientsList' = m_mapClientsList /\ ctxOf' = ctxOf /\ cur' = i /\ s_id' = s_id
        /\ handle' = [handle EXCEPT ![c] = "none"]
        /\ inflight' = [inflight EXCEPT ![c] = 0] /\ m_listWriteParam' = Keep(inflight[c])
        /\ m_listAvaiTcpHandle' = m_listAvaiTcpHandle
        /\ m_mutexClients' = m_mutexClients /\ lpc = "closing" /\ lpc' = "SubClientClosed"
        /\ m_bIsClosed' = m_bIsClosed /\ m_bIsUserAskForClosed' = m_bIsUserAskForClosed
        /\ leaving' = leaving /\ pending' = pending /\ posted' = posted /\ aborted' = aborted
        /\ m_nStartsSatus' = m_nStartsSatus /\ upc' = upc /\ starts' = starts
        /\ srv' = srv /\ posts' = posts /\ backlog' = backlog
        /\ h[1] = "client" /\ closing # <<>> /\ closing' = Tail(closing)
    BY DEF AfterClientClose, ctl, flags, userVars, srvVars
  <1>3. /\ h \in Entry /\ Due(h)
        /\ closing' \in Seq(Entry) /\ Distinct(closing')
        /\ \A e \in Entry : In(e, closing') => Due(e) /\ e # h
    BY <1>2, NextEntry
  <1> HIDE DEF h
  <1>4. i \in m_mapClientsList /\ handle[c] = "closing"
    BY <1>2, <1>3 DEF Due
  <1>5. Clients = m_mapClientsList /\ Clients' = Clients
    BY <1>2 DEF Clients
  <1>6. i \in Id /\ c \in Ctx
    BY <1>1, <1>4, <1>5 DEF ClientInv, TypeOK
  <1> HIDE DEF i, c
  <1>7. /\ handle'[c] = "none" /\ \A d \in Ctx : d # c => handle'[d] = handle[d]
        /\ handle' \in [Ctx -> {"none", "open", "closing"}]
        /\ inflight'[c] = 0 /\ \A d \in Ctx : d # c => inflight'[d] = inflight[d]
        /\ inflight' \in [Ctx -> Nat] /\ m_listWriteParam' \in 0..MAXLISTSIZE + 1
    <2>1. inflight[c] \in Nat
      BY <1>1, <1>6 DEF TypeOK
    <2>2. Keep(inflight[c]) \in 0..MAXLISTSIZE + 1
      BY <1>1, <2>1, KeepBounds
    <2> QED
      BY <1>1, <1>2, <1>6, <2>2 DEF TypeOK
  <1>8. \A j \in m_mapClientsList : ctxOf[j] \in Ctx /\ (j # i => ctxOf[j] # c)
    BY <1>1, <1>4, <1>5 DEF ClientInv, c
  <1>9. TypeOK'
    BY <1>1, <1>2, <1>3, <1>6, <1>7 DEF TypeOK, Entry
  <1>10. CtlInv'
    BY <1>1, <1>2, <1>4 DEF CtlInv
  <1>11. ClientInv'
    <2>1. ctxOf'[cur'] = c
      BY <1>2 DEF c
    <2>2. \A j \in m_mapClientsList : handle'[ctxOf[j]] = "none" => j = i
      BY <1>1, <1>2, <1>7, <1>8 DEF ClientInv
    <2>3. \A d \in Ctx : handle'[d] = "open" => \E j \in Clients : ctxOf[j] = d
      BY <1>1, <1>7 DEF ClientInv
    <2>4. \A d \in Ctx : inflight'[d] > 0 =>
             handle'[d] # "none" /\ \E j \in Clients : ctxOf[j] = d
      BY <1>1, <1>7 DEF ClientInv
    <2>5. \A j, k \in Clients : ctxOf[j] = ctxOf[k] => j = k
      BY <1>1 DEF ClientInv
    <2> QED
      BY <1>2, <1>5, <1>7, <1>8, <2>1, <2>2, <2>3, <2>4, <2>5 DEF ClientInv
  <1>12. PoolInv'
    BY <1>1, <1>2, <1>4, <1>5, <1>7 DEF PoolInv, c
  <1>13. QueueInv'
    <2>1. ASSUME NEW e \in Entry, In(e, closing') PROVE Due(e)'
      <3>1. Due(e) /\ e # h
        BY <1>3, <2>1
      <3>2. CASE e[1] = "server" /\ m_mutexClients = Loop
        BY <1>2, <3>2 DEF Due
      <3>3. CASE e[1] = "client" /\ e[2] \in m_mapClientsList /\ handle[ctxOf[e[2]]] = "closing"
        <4>1. e[2] # i
          BY <1>2, <1>3, <3>1, <3>3, EntryParts DEF i
        <4> QED
          BY <1>2, <1>7, <1>8, <3>3, <4>1 DEF Due
      <3>4. CASE /\ e[1] = "recycle" /\ e[2] \in Ctx /\ handle[e[2]] = "closing"
                 /\ \A j \in Clients : ctxOf[j] # e[2]
        <4>1. e[2] # c
          BY <1>4, <1>5, <3>4 DEF c
        <4> QED
          BY <1>2, <1>5, <1>7, <3>4, <4>1 DEF Due
      <3> QED
        BY <3>1, <3>2, <3>3, <3>4 DEF Due
    <2> QED
      BY <1>3, <2>1 DEF QueueInv
  <1> QED
    BY <1>9, <1>10, <1>11, <1>12, <1>13 DEF IInv

\* The client leaves the map, and its context is free again.
LEMMA SubClientStep ==
    ASSUME IInv, SubClientClosed
    PROVE  IInv'
  <1> DEFINE c == ctxOf[cur]
             l == m_listAvaiTcpHandle
  <1>1. TypeOK /\ CtlInv /\ ClientInv /\ PoolInv /\ QueueInv
    BY Parts
  <1>2. /\ lpc = "SubClientClosed" /\ lpc' = "closing" /\ cur' = Null /\ s_id' = s_id
        /\ cur \in m_mapClientsList
        /\ Recycle(c) /\ m_mapClientsList' = m_mapClientsList \ {cur}
        /\ ctxOf' = [ctxOf EXCEPT ![cur] = Null]
        /\ handle' = handle /\ closing' = closing
        /\ inflight' = inflight /\ m_listWriteParam' = m_listWriteParam
        /\ m_mutexClients' = m_mutexClients
        /\ m_bIsClosed' = m_bIsClosed /\ m_bIsUserAskForClosed' = m_bIsUserAskForClosed
        /\ leaving' = leaving /\ pending' = pending /\ posted' = posted /\ aborted' = aborted
        /\ m_nStartsSatus' = m_nStartsSatus /\ upc' = upc /\ starts' = starts
        /\ srv' = srv /\ posts' = posts /\ backlog' = backlog
    BY <1>1 DEF SubClientClosed, ctl, flags, userVars, srvVars, writeVars, CtlInv
  <1>3. /\ Clients = m_mapClientsList /\ Clients' = m_mapClientsList \ {cur}
        /\ c \in Ctx /\ handle[c] = "none" /\ ~In(c, l)
    BY <1>1, <1>2 DEF Clients, ClientInv, PoolInv
  <1>4. /\ l' \in Seq(Ctx) /\ Len(l') <= MAXLISTSIZE + 1 /\ Distinct(l')
        /\ \A d : In(d, l') => In(d, l) \/ d = c
    BY <1>1, <1>2, <1>3, RecycleStep DEF PoolInv
  <1>5. \A i \in m_mapClientsList \ {cur} : ctxOf'[i] = ctxOf[i] /\ ctxOf[i] \in Ctx /\ ctxOf[i] # c
    BY <1>1, <1>2, <1>3 DEF TypeOK, ClientInv
  <1> HIDE DEF l, c
  <1>6. TypeOK'
    BY <1>1, <1>2, <1>4 DEF TypeOK, l
  <1>7. CtlInv'
    BY <1>1, <1>2 DEF CtlInv
  <1>8. ClientInv'
    <2>1. \A i \in Clients' : ctxOf'[i] \in Ctx
      BY <1>3, <1>5
    <2>2. \A i, j \in Clients' : ctxOf'[i] = ctxOf'[j] => i = j
      BY <1>1, <1>3, <1>5 DEF ClientInv
    <2>3. \A i \in m_mapClientsList' : handle'[ctxOf'[i]] # "none"
      BY <1>1, <1>2, <1>3, <1>5 DEF ClientInv
    <2>4. ASSUME NEW d \in Ctx, handle[d] # "none", NEW i \in Clients, ctxOf[i] = d
          PROVE  \E j \in Clients' : ctxOf'[j] = d
      <3>1. i # cur
        BY <1>3, <2>4 DEF c
      <3> QED
        BY <1>3, <1>5, <2>4, <3>1
    <2>5. \A d \in Ctx : handle'[d] = "open" => \E j \in Clients' : ctxOf'[j] = d
      BY <1>1, <1>2, <2>4 DEF ClientInv
    <2>6. \A d \in Ctx : inflight'[d] > 0 =>
             handle'[d] # "none" /\ \E j \in Clients' : ctxOf'[j] = d
      BY <1>1, <1>2, <2>4 DEF ClientInv
    <2> QED
      BY <1>2, <2>1, <2>2, <2>3, <2>5, <2>6 DEF ClientInv
  <1>9. PoolInv'
    BY <1>1, <1>2, <1>3, <1>4, <1>5 DEF PoolInv, l
  <1>10. QueueInv'
    <2>1. ASSUME NEW e \in Entry, Due(e) PROVE Due(e)'
      <3>1. CASE e[1] = "server" /\ m_mutexClients = Loop
        BY <1>2, <3>1 DEF Due
      <3>2. CASE e[1] = "client" /\ e[2] \in m_mapClientsList /\ handle[ctxOf[e[2]]] = "closing"
        <4>1. e[2] # cur
          BY <1>3, <3>2 DEF c
        <4> QED
          BY <1>2, <1>5, <3>2, <4>1 DEF Due
      <3>3. CASE /\ e[1] = "recycle" /\ e[2] \in Ctx /\ handle[e[2]] = "closing"
                 /\ \A i \in Clients : ctxOf[i] # e[2]
        BY <1>2, <1>3, <1>5, <3>3 DEF Due
      <3> QED
        BY <2>1, <3>1, <3>2, <3>3 DEF Due
    <2> QED
      BY <1>1, <1>2, <2>1 DEF QueueInv
  <1> QED
    BY <1>6, <1>7, <1>8, <1>9, <1>10 DEF IInv

(***************************************************************************)
(* The theorems.                                                           *)
(***************************************************************************)
\* Every step of the loop thread and of the user's keeps the invariant.
THEOREM Inductive == Spec => []IInv
  <1>1. ASSUME IInv, [Next]_vars PROVE IInv'
    <2>1. CASE \/ Start \/ StartWait \/ Close \/ SendUvMessage2Handle \/ Connect
               \/ ThreadBegin \/ ThreadClosed \/ ThreadEnd
               \/ AsyncCloseCB \/ AsyncRecvMsg \/ EndPoll \/ EndRound
      BY <1>1, <2>1, ControlStep
    <2>2. CASE AcceptConnection \/ AcceptInsert
      BY <1>1, <2>2, AcceptStep, InsertStep
    <2>3. CASE (\E i \in Id : AfterRecv(i)) \/ (\E c \in Ctx : AfterSend(c))
      BY <1>1, <2>3, WriteStep
    <2>4. CASE \E i \in Id : AfterRecvEof(i)
      BY <1>1, <2>4, EofStep
    <2>5. CASE CloseInl \/ AfterServerClose \/ RecycleTcpHandle \/ AfterClientClose
               \/ SubClientClosed
      BY <1>1, <2>5, CloseStep, ServerClosedStep, RecycledStep, ClientClosedStep, SubClientStep
    <2>6. CASE UNCHANGED vars
      <3>1. /\ m_mapClientsList' = m_mapClientsList /\ ctxOf' = ctxOf /\ cur' = cur
            /\ s_id' = s_id /\ backlog' = backlog /\ lpc' = lpc
            /\ handle' = handle /\ m_listAvaiTcpHandle' = m_listAvaiTcpHandle
            /\ closing' = closing /\ m_mutexClients' = m_mutexClients /\ inflight' = inflight
            /\ m_bIsClosed' = m_bIsClosed
        BY <2>6 DEF vars, ctl, flags, srvVars, clientVars, ctxVars, writeVars
      <3>2. ClientInv' /\ PoolInv' /\ QueueInv'
        BY <1>1, <3>1, Parts, QuietStep
      <3>3. CtlInv'
        BY <1>1, <3>1, Parts DEF CtlInv
      <3>4. TypeOK'
        BY <1>1, <2>6, Parts DEF vars, ctl, flags, userVars, srvVars, clientVars, ctxVars,
                                 writeVars, TypeOK
      <3> QED
        BY <3>2, <3>3, <3>4 DEF IInv
    <2> QED
      BY <1>1, <2>1, <2>2, <2>3, <2>4, <2>5, <2>6 DEF Next, Closings
  <1> QED
    BY <1>1, InitInv, PTL DEF Spec

\* Types and limits: both pools hold at most one more than MAXLISTSIZE.
THEOREM TypeCorrect == Spec => []TypeOK
  <1>1. IInv => TypeOK
    BY Parts
  <1> QED
    BY <1>1, Inductive, PTL

\* A context serves one client at a time, and is kept for reuse only when no
\* client and no handle uses it.
THEOREM OneOwner == Spec => []CtxOwned
  <1>1. ASSUME IInv PROVE CtxOwned
    <2> DEFINE l == m_listAvaiTcpHandle
    <2>1. l \in Seq(Ctx) /\ Distinct(l)
          /\ \A c \in Ctx : In(c, l) => handle[c] = "none" /\ \A i \in Clients : ctxOf[i] # c
      BY <1>1, Parts DEF TypeOK, PoolInv
    <2>2. DOMAIN l = 1..Len(l) /\ \A k \in 1..Len(l) : l[k] \in Ctx
      BY <2>1, LenProperties
    <2>3. IsInjective(l)
      BY <2>1, <2>2 DEF IsInjective, Distinct
    <2>4. \A c \in Kept : c \in Ctx /\ In(c, l)
      BY <2>2 DEF Kept, Range, In
    <2> HIDE DEF l
    <2>5. \A i, j \in Clients : ctxOf[i] = ctxOf[j] => i = j
      BY <1>1, Parts DEF ClientInv
    <2> QED
      BY <2>1, <2>3, <2>4, <2>5 DEF CtxOwned, l
  <1> QED
    BY <1>1, Inductive, PTL

\* A client keeps its handle until its close callback, and no handle is open
\* without a client.
THEOREM NoOrphans == Spec => []ClientsHaveHandles
  <1>1. ASSUME IInv PROVE ClientsHaveHandles
    <2>1. ASSUME NEW i \in Clients, handle[ctxOf[i]] = "none"
          PROVE  lpc = "SubClientClosed" /\ cur = i
      BY <1>1, <2>1, Parts DEF ClientInv, Clients
    <2> QED
      BY <1>1, <2>1, Parts DEF ClientInv, ClientsHaveHandles
  <1> QED
    BY <1>1, Inductive, PTL

\* A write that is not finished finds its context in use by its client.
THEOREM WritesAnswered == Spec => []WritesHaveContext
  <1>1. IInv => WritesHaveContext
    BY Parts DEF ClientInv, WritesHaveContext
  <1> QED
    BY <1>1, Inductive, PTL

(***************************************************************************)
(* Nothing that is being closed is forgotten: every handle that uv_close   *)
(* was called for has the entry from which its close callback will run.    *)
(***************************************************************************)
\* Whatever c waits for to be finished: its own entry, or that of its client.
Awaited(c) ==
    \/ In(<<"recycle", c>>, closing)
    \/ \E i \in m_mapClientsList : ctxOf[i] = c /\ In(<<"client", i>>, closing)

NothingForgotten ==
    /\ srv = "closing" => In(<<"server", Null>>, closing)
    /\ \A c \in Ctx : handle[c] = "closing" => Awaited(c)

\* The three kinds of entries.
LEMMA EntryKinds ==
    /\ <<"server", Null>> \in Entry
    /\ \A c \in Ctx : <<"recycle", c>> \in Entry
    /\ \A i \in Id : <<"client", i>> \in Entry
  BY DEF Entry

\* A list with new entries in front has the old ones, too.
LEMMA InFront ==
    ASSUME NEW a \in Seq(Entry), NEW e \in Entry, In(e, a) \/ In(e, closing), TypeOK,
           closing' = a \o closing
    PROVE  In(e, closing')
  BY ConcatIn DEF TypeOK, Entry

\* Most steps touch neither the handles nor the list.
LEMMA QuietForgets ==
    ASSUME NothingForgotten, srv' = srv \/ srv' = "open", handle' = handle,
           closing' = closing, ctxOf' = ctxOf, m_mapClientsList \subseteq m_mapClientsList'
    PROVE  NothingForgotten'
  BY DEF NothingForgotten, Awaited

\* Accepting: an attempt that fails has its entry at the front of the list.
LEMMA AcceptForgets ==
    ASSUME IInv, NothingForgotten, AcceptConnection
    PROVE  NothingForgotten'
  <1> DEFINE n == s_id + 1
  <1>1. TypeOK /\ CtlInv
    BY Parts
  <1>2. srv' = srv /\ m_mapClientsList' = m_mapClientsList
    BY DEF AcceptConnection
  <1>3. \A i \in m_mapClientsList : i \in Id /\ i # n
    <2>1. \A i \in m_mapClientsList : i \in Id /\ i <= s_id /\ i \in Nat /\ s_id \in Nat
      BY <1>1 DEF TypeOK, CtlInv, Id
    <2> QED
      BY <2>1
  <1>4. PICK c \in Ctx :
           \/ /\ handle' = [handle EXCEPT ![c] = "open"]
              /\ ctxOf' = [ctxOf EXCEPT ![n] = c] /\ closing' = closing
           \/ /\ handle' = [handle EXCEPT ![c] = "closing"]
              /\ closing' = <<<<"recycle", c>>>> \o closing /\ ctxOf' = ctxOf
    BY DEF AcceptConnection
  <1> HIDE DEF n
  <1>5. \A d \in Ctx : d # c => handle'[d] = handle[d]
    BY <1>1, <1>4 DEF TypeOK
  <1>6. CASE /\ handle' = [handle EXCEPT ![c] = "open"]
             /\ ctxOf' = [ctxOf EXCEPT ![n] = c] /\ closing' = closing
    <2>1. handle'[c] = "open" /\ \A i \in m_mapClientsList : ctxOf'[i] = ctxOf[i]
      BY <1>1, <1>3, <1>6 DEF TypeOK
    <2>2. \A d \in Ctx : Awaited(d) => Awaited(d)'
      BY <1>2, <1>6, <2>1 DEF Awaited
    <2>3. \A d \in Ctx : handle'[d] = "closing" => handle[d] = "closing"
      BY <1>5, <2>1
    <2> QED
      BY <1>2, <1>6, <2>2, <2>3 DEF NothingForgotten
  <1>7. CASE /\ handle' = [handle EXCEPT ![c] = "closing"]
             /\ closing' = <<<<"recycle", c>>>> \o closing /\ ctxOf' = ctxOf
    <2> DEFINE r == <<"recycle", c>>
               one == <<r>>
    <2>1. r \in Entry /\ closing' = one \o closing
      BY <1>7, EntryKinds
    <2> HIDE DEF r
    <2>2. one \in Seq(Entry) /\ In(r, one)
      BY <2>1 DEF In
    <2> HIDE DEF one
    <2>3. In(r, closing') /\ \A e \in Entry : In(e, closing) => In(e, closing')
      BY <1>1, <2>1, <2>2, InFront
    <2>4. ASSUME NEW d \in Ctx, handle'[d] = "closing" PROVE Awaited(d)'
      <3>1. CASE d = c
        BY <2>3, <3>1 DEF Awaited, r
      <3>2. CASE d # c
        BY <1>2, <1>3, <1>5, <1>7, <2>3, <2>4, <3>2, EntryKinds DEF NothingForgotten, Awaited
      <3> QED
        BY <3>1, <3>2
    <2> QED
      BY <1>2, <2>3, <2>4, EntryKinds DEF NothingForgotten
  <1> QED
    BY <1>4, <1>6, <1>7

\* The end of a connection: the entry of its client is at the front of the list.
LEMMA EofForgets ==
    ASSUME IInv, NothingForgotten, NEW i \in Id, AfterRecvEof(i)
    PROVE  NothingForgotten'
  <1> DEFINE r == <<"client", i>>
             one == <<r>>
  <1>1. TypeOK
    BY Parts
  <1>2. /\ srv' = srv /\ m_mapClientsList' = m_mapClientsList /\ ctxOf' = ctxOf
        /\ i \in m_mapClientsList
        /\ handle' = [handle EXCEPT ![ctxOf[i]] = "closing"]
    BY DEF AfterRecvEof, srvVars, clientVars
  <1>3. r \in Entry /\ closing' = one \o closing
    BY EntryKinds DEF AfterRecvEof
  <1> HIDE DEF r
  <1>4. one \in Seq(Entry) /\ In(r, one)
    BY <1>3 DEF In
  <1> HIDE DEF one
  <1>5. In(r, closing') /\ \A e \in Entry : In(e, closing) => In(e, closing')
    BY <1>1, <1>3, <1>4, InFront
  <1>6. ASSUME NEW d \in Ctx, handle'[d] = "closing" PROVE Awaited(d)'
    <2>1. CASE d = ctxOf[i]
      BY <1>2, <1>5, <2>1 DEF Awaited, r
    <2>2. CASE d # ctxOf[i]
      <3>1. handle[d] = "closing"
        BY <1>1, <1>2, <1>6, <2>2 DEF TypeOK
      <3>2. \A j \in m_mapClientsList : j \in Id
        BY <1>1 DEF TypeOK
      <3> QED
        BY <1>2, <1>5, <3>1, <3>2, EntryKinds DEF NothingForgotten, Awaited
    <2> QED
      BY <2>1, <2>2
  <1> QED
    BY <1>2, <1>5, <1>6, EntryKinds DEF NothingForgotten

\* Every client of the map has its entry in the list that closeinl makes.
LEMMA ClientEntriesAll ==
    ASSUME NEW M \in SUBSET Id,
           NEW s \in [1..Cardinality(M) -> M],
           \A j, k \in DOMAIN s : j < k => s[j] > s[k]
    PROVE  \A i \in M : In(<<"client", i>>, [k \in DOMAIN s |-> <<"client", s[k]>>])
  <1> DEFINE n == Cardinality(M)
             es == [k \in 1..n |-> <<"client", s[k]>>]
  <1>1. n \in Nat /\ IsFiniteSet(M) /\ IsFiniteSet(1..n) /\ Cardinality(1..n) = n
    <2>1. MaxConn \in Int /\ 1 \in Int
      BY ServerAssumption
    <2>2. IsFiniteSet(M)
      BY <2>1, FS_Interval, FS_Subset DEF Id
    <2>3. n \in Nat
      BY <2>2, FS_CardinalityType
    <2>4. IsFiniteSet(1..n) /\ Cardinality(1..n) = n
      BY <2>3, FS_Interval
    <2> QED
      BY <2>2, <2>3, <2>4
  <1>2. DOMAIN s = 1..n /\ s \in [1..n -> M] /\ \A k \in 1..n : s[k] \in M /\ s[k] \in Id
    OBVIOUS
  <1>3. \A j, k \in 1..n : s[j] = s[k] => j = k
    <2> SUFFICES ASSUME NEW j \in 1..n, NEW k \in 1..n, s[j] = s[k], j < k PROVE FALSE
      BY <1>1
    <2>1. s[j] \in Nat
      BY <1>2 DEF Id
    <2>2. s[j] > s[k]
      BY <1>2
    <2> QED
      BY <2>1, <2>2
  <1> HIDE DEF n
  <1>4. \A i \in M : \E k \in 1..n : s[k] = i
    <2>1. s \in Injection(1..n, M)
      BY <1>2, <1>3 DEF Injection, IsInjective
    <2>2. s \in Surjection(1..n, M)
      BY <1>1, <2>1, FS_Injection DEF n
    <2> QED
      BY <2>2 DEF Surjection
  <1>5. es \in Seq(Entry) /\ Len(es) = n
    <2>1. \A k \in 1..n : <<"client", s[k]>> \in Entry
      BY <1>2, EntryKinds
    <2>2. es \in [1..n -> Entry]
      BY <2>1
    <2> HIDE DEF es
    <2>3. es \in Seq(Entry)
      BY <1>1, <2>2, SeqDef
    <2> QED
      BY <1>1, <2>2, <2>3, LenProperties
  <1>6. \A i \in M : In(<<"client", i>>, es)
    BY <1>4, <1>5 DEF In
  <1> QED
    BY <1>2, <1>6

\* closeinl: the server's handles and those of all clients get their entries.
LEMMA CloseForgets ==
    ASSUME IInv, NothingForgotten, CloseInl
    PROVE  NothingForgotten'
  <1> DEFINE M == m_mapClientsList
             r == <<"server", Null>>
             one == <<r>>
  <1>1. TypeOK /\ M \in SUBSET Id /\ closing \in Seq(Entry)
    BY Parts DEF TypeOK, Entry
  <1>2. M' = M /\ ctxOf' = ctxOf
    BY DEF CloseInl, clientVars
  <1>3. CASE handle' = handle /\ closing' = closing /\ srv' = srv
    BY <1>2, <1>3, QuietForgets
  <1>4. CASE /\ handle' = [c \in Ctx |-> IF \E i \in M : ctxOf[i] = c
                                         THEN "closing" ELSE handle[c]]
             /\ \E s \in [1..Cardinality(M) -> M] :
                   /\ \A j, k \in DOMAIN s : j < k => s[j] > s[k]
                   /\ closing' = one \o [k \in DOMAIN s |-> <<"client", s[k]>>] \o closing
    <2>1. PICK s \in [1..Cardinality(M) -> M] :
             /\ \A j, k \in DOMAIN s : j < k => s[j] > s[k]
             /\ closing' = one \o [k \in DOMAIN s |-> <<"client", s[k]>>] \o closing
      BY <1>4
    <2> DEFINE es == [k \in DOMAIN s |-> <<"client", s[k]>>]
               a == one \o es
    <2>2. es \in Seq(Entry) /\ \A i \in M : In(<<"client", i>>, es)
      BY <1>1, <2>1, ClientEntries, ClientEntriesAll
    <2>3. closing' = a \o closing
      BY <2>1
    <2> HIDE DEF es
    <2>4. r \in Entry
      BY EntryKinds
    <2> HIDE DEF r
    <2>5. one \in Seq(Entry) /\ In(r, one)
      BY <2>4 DEF In
    <2> HIDE DEF one
    <2>6. a \in Seq(Entry) /\ In(r, a) /\ \A i \in M : In(<<"client", i>>, a)
      BY <2>2, <2>5, ConcatIn, ConcatProperties
    <2> HIDE DEF a
    <2>7. /\ In(r, closing') /\ \A i \in M : In(<<"client", i>>, closing')
          /\ \A e \in Entry : In(e, closing) => In(e, closing')
      BY <1>1, <2>3, <2>4, <2>6, InFront, EntryKinds
    <2>8. ASSUME NEW d \in Ctx, handle'[d] = "closing" PROVE Awaited(d)'
      <3>1. CASE \E i \in M : ctxOf[i] = d
        BY <1>2, <2>7, <3>1 DEF Awaited
      <3>2. CASE ~\E i \in M : ctxOf[i] = d
        <4>1. handle[d] = "closing"
          BY <1>4, <2>8, <3>2
        <4> QED
          BY <2>7, <3>2, <4>1, EntryKinds DEF NothingForgotten, Awaited
      <3> QED
        BY <3>1, <3>2
    <2> QED
      BY <2>7, <2>8 DEF NothingForgotten, r
  <1> QED
    BY <1>3, <1>4 DEF CloseInl

\* The close callback that runs next is the one whose entry leaves the list.
LEMMA NextLeaves ==
    ASSUME IInv, closing # <<>>, closing' = Tail(closing)
    PROVE  /\ Head(closing) \in Entry /\ Due(Head(closing))
           /\ \A e \in Entry : In(e, closing) => e = Head(closing) \/ In(e, closing')
  <1>1. closing \in Seq(Entry)
    BY Parts DEF TypeOK, Entry
  <1> QED
    BY <1>1, NextEntry, TailDistinct

\* AfterServerClose and RecycleTcpHandle: the handle of the entry is finished.
LEMMA FinishForgets ==
    ASSUME IInv, NothingForgotten, AfterServerClose \/ RecycleTcpHandle
    PROVE  NothingForgotten'
  <1> DEFINE h == Head(closing)
  <1>1. TypeOK
    BY Parts
  <1>2. m_mapClientsList' = m_mapClientsList /\ ctxOf' = ctxOf
    BY DEF AfterServerClose, RecycleTcpHandle, clientVars
  <1>3. h \in Entry /\ \A e \in Entry : In(e, closing) => e = h \/ In(e, closing')
    BY NextLeaves DEF AfterServerClose, RecycleTcpHandle
  <1>4. \A i \in m_mapClientsList : i \in Id
    BY <1>1 DEF TypeOK
  <1>5. CASE AfterServerClose
    <2>1. h[1] = "server" /\ srv' = "none" /\ handle' = handle
      BY <1>5 DEF AfterServerClose, ctxVars
    <2> HIDE DEF h
    <2>2. /\ \A c \in Ctx : <<"recycle", c>> # h
          /\ \A i \in Id : <<"client", i>> # h
      BY <2>1
    <2>3. \A c \in Ctx : Awaited(c) => Awaited(c)'
      BY <1>2, <1>3, <1>4, <2>2, EntryKinds DEF Awaited
    <2> QED
      BY <2>1, <2>3 DEF NothingForgotten
  <1>6. CASE RecycleTcpHandle
    <2>1. h[1] = "recycle" /\ srv' = srv /\ handle' = [handle EXCEPT ![h[2]] = "none"]
      BY <1>6 DEF RecycleTcpHandle, srvVars
    <2>2. h[2] \in Ctx
      BY <1>6, <2>1, NextLeaves DEF Due, RecycleTcpHandle
    <2> HIDE DEF h
    <2>3. /\ handle'[h[2]] = "none" /\ \A c \in Ctx : c # h[2] => handle'[c] = handle[c]
      BY <1>1, <2>1, <2>2 DEF TypeOK
    <2>4. /\ \A c \in Ctx : c # h[2] => <<"recycle", c>> # h
          /\ \A i \in Id : <<"client", i>> # h
          /\ <<"server", Null>> # h
      BY <2>1
    <2>5. \A c \in Ctx : c # h[2] /\ Awaited(c) => Awaited(c)'
      BY <1>2, <1>3, <1>4, <2>4, EntryKinds DEF Awaited
    <2>6. \A c \in Ctx : handle'[c] = "closing" => c # h[2] /\ handle[c] = "closing"
      BY <2>3
    <2> QED
      BY <1>3, <2>1, <2>4, <2>5, <2>6, EntryKinds DEF NothingForgotten
  <1> QED
    BY <1>5, <1>6

\* AfterClientClose and SubClientClosed: a client whose handle is finished is
\* no other handle's client, so the others keep what they wait for.
LEMMA ClientForgets ==
    ASSUME IInv, NothingForgotten, AfterClientClose \/ SubClientClosed
    PROVE  NothingForgotten'
  <1> DEFINE h == Head(closing)
  <1>1. TypeOK /\ ClientInv
    BY Parts
  <1>2. srv' = srv
    BY DEF AfterClientClose, SubClientClosed, srvVars
  <1>3. \A i \in m_mapClientsList : i \in Id
    BY <1>1 DEF TypeOK
  <1>4. CASE AfterClientClose
    <2>1. /\ h \in Entry /\ Due(h)
          /\ \A e \in Entry : In(e, closing) => e = h \/ In(e, closing')
      BY <1>4, NextLeaves DEF AfterClientClose
    <2>2. /\ h[1] = "client" /\ handle' = [handle EXCEPT ![ctxOf[h[2]]] = "none"]
          /\ m_mapClientsList' = m_mapClientsList /\ ctxOf' = ctxOf
      BY <1>4 DEF AfterClientClose
    <2> HIDE DEF h
    <2>3. /\ \A c \in Ctx : <<"recycle", c>> # h
          /\ \A i \in Id : ctxOf[i] # ctxOf[h[2]] => <<"client", i>> # h
          /\ <<"server", Null>> # h
      BY <2>2
    <2>4. \A c \in Ctx : c # ctxOf[h[2]] /\ Awaited(c) => Awaited(c)'
      BY <1>3, <2>1, <2>2, <2>3, EntryKinds DEF Awaited
    <2>5. \A c \in Ctx : handle'[c] = "closing" => c # ctxOf[h[2]] /\ handle[c] = "closing"
      BY <1>1, <2>2 DEF TypeOK
    <2> QED
      BY <1>2, <2>1, <2>3, <2>4, <2>5, EntryKinds DEF NothingForgotten
  <1>5. CASE SubClientClosed
    <2>1. /\ handle' = handle /\ closing' = closing /\ lpc = "SubClientClosed"
          /\ \/ /\ m_mapClientsList' = m_mapClientsList \ {cur}
                /\ ctxOf' = [ctxOf EXCEPT ![cur] = Null]
             \/ m_mapClientsList' = m_mapClientsList /\ ctxOf' = ctxOf
      BY <1>5 DEF SubClientClosed
    <2>2. handle[ctxOf[cur]] = "none"
      BY <1>1, <2>1 DEF ClientInv
    <2>3. \A i \in m_mapClientsList :
             i # cur => i \in m_mapClientsList' /\ ctxOf'[i] = ctxOf[i]
      BY <1>1, <1>3, <2>1 DEF TypeOK
    <2>4. \A c \in Ctx : handle[c] = "closing" /\ Awaited(c) => Awaited(c)'
      <3> SUFFICES ASSUME NEW c \in Ctx, handle[c] = "closing", Awaited(c) PROVE Awaited(c)'
        OBVIOUS
      <3>1. \A i \in m_mapClientsList : ctxOf[i] = c => i # cur
        BY <2>2
      <3> QED
        BY <2>1, <2>3, <3>1 DEF Awaited
    <2> QED
      BY <1>2, <2>1, <2>4 DEF NothingForgotten
  <1> QED
    BY <1>4, <1>5

\* The close callback of whatever is being closed is still to run: no client is
\* left in the map behind a handle that nobody will finish, and the loop thread
\* does not wait for a close callback that will not come.
THEOREM EveryCloseIsAwaited == Spec => []NothingForgotten
  <1>1. Init => NothingForgotten
    BY DEF Init, NothingForgotten
  <1>2. ASSUME IInv, NothingForgotten, [Next]_vars PROVE NothingForgotten'
    <2>1. CASE \/ Start \/ StartWait \/ Close \/ SendUvMessage2Handle \/ Connect
               \/ ThreadBegin \/ ThreadClosed \/ ThreadEnd \/ AcceptInsert
      <3>1. /\ srv' = srv \/ srv' = "open"
            /\ handle' = handle /\ closing' = closing /\ ctxOf' = ctxOf
            /\ m_mapClientsList \subseteq m_mapClientsList'
        BY <2>1 DEF Start, StartWait, Close, SendUvMessage2Handle, Connect, ThreadBegin,
                    ThreadClosed, ThreadEnd, AcceptInsert, srvVars, clientVars, ctxVars
      <3> QED
        BY <1>2, <3>1, QuietForgets
    <2>2. CASE \/ AsyncCloseCB \/ AsyncRecvMsg \/ EndPoll \/ EndRound \/ UNCHANGED vars
               \/ (\E i \in Id : AfterRecv(i)) \/ (\E c \in Ctx : AfterSend(c))
      <3>1. /\ srv' = srv /\ handle' = handle /\ closing' = closing /\ ctxOf' = ctxOf
            /\ m_mapClientsList' = m_mapClientsList
        BY <2>2 DEF AsyncCloseCB, AsyncRecvMsg, EndPoll, EndRound, AfterRecv, AfterSend,
                    vars, srvVars, clientVars, ctxVars
      <3> QED
        BY <1>2, <3>1, QuietForgets
    <2>3. CASE AcceptConnection \/ \E i \in Id : AfterRecvEof(i)
      BY <1>2, <2>3, AcceptForgets, EofForgets
    <2>4. CASE CloseInl \/ AfterServerClose \/ RecycleTcpHandle \/ AfterClientClose
               \/ SubClientClosed
      BY <1>2, <2>4, CloseForgets, FinishForgets, ClientForgets
    <2> QED
      BY <1>2, <2>1, <2>2, <2>3, <2>4 DEF Next, Closings
  <1> QED
    BY <1>1, <1>2, Inductive, PTL DEF Spec
=============================================================================
