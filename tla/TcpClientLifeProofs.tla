------------------------ MODULE TcpClientLifeProofs ------------------------
(***************************************************************************)
(* What Connect returns, what tcphandle.data holds when a callback reads   *)
(* it, and what uv_walk finds in the queue of handles and closes, for both *)
(* ports of libuv and however often the server comes and goes.             *)
(***************************************************************************)
EXTENDS TcpClientLife, SequenceFacts, TLAPS

(***************************************************************************)
(* What Connect returns.                                                   *)
(***************************************************************************)
\* The status says finished only after AfterConnect has said so, and it is what
\* Connect judges by.
ReportInv ==
    /\ m_nConnectStatus = "CONNECT_FINISH" => everUp
    /\ result => everUp

\* Connect returns true only if a connection was made, however its timeout,
\* the answer of the server and AfterConnect interleave.
THEOREM ConnectHonest == Spec => []TrueMeansConnected
  <1>1. Init => ReportInv
    BY DEF Init, ReportInv
  <1>2. ASSUME ReportInv, [Next]_vars PROVE ReportInv'
    <2>1. CASE ConnectTimeout
      BY <1>2, <2>1 DEF ConnectTimeout, ReportInv, histVars
    <2>2. CASE ConnectReturn
      BY <1>2, <2>2 DEF ConnectReturn, ReportInv, histVars
    <2>3. CASE AfterConnect
      BY <1>2, <2>3 DEF AfterConnect, Connected, Running, ReportInv, userVars
    <2>4. CASE Connect \/ ConnectWait \/ Close \/ ServerFlaps \/ Answer
               \/ UNCHANGED vars
      BY <1>2, <2>4 DEF Connect, ConnectWait, Close, ServerFlaps, Answer, vars,
                        ReportInv, userVars, histVars
    <2>5. CASE AfterRecv \/ AfterClientClose \/ ReconnectTimer \/ ReconnectFails
               \/ AsyncCloseCB \/ RunReturns
      BY <1>2, <2>5 DEF AfterRecv, AfterClientClose, ReconnectTimer, ReconnectFails,
                        AsyncCloseCB, CloseInl, WalkHandle, WalkDone, RunReturns, Running,
                        ReportInv, userVars, histVars
    <2> QED
      BY <1>2, <2>1, <2>2, <2>3, <2>4, <2>5 DEF Next
  <1>3. ReportInv => TrueMeansConnected
    BY DEF ReportInv, TrueMeansConnected
  <1> QED
    BY <1>1, <1>2, <1>3, PTL DEF Spec

(***************************************************************************)
(* What the callbacks find in tcphandle.data.                              *)
(***************************************************************************)
\* Until Close is called no handle is being closed by a walk, and the pieces of
\* the reconnection agree: an attempt waits for its answer with the TcpClientCtx
\* as data, an attempt that failed left it there.
DataInv ==
    ~m_bIsUserAskForClosed =>
       /\ ~signalled /\ closed = {} /\ lpc \in {"none", "running", "returned"}
       /\ sock \in {"none", "failed"} => data = "ctx"
       /\ sock \in {"pending", "accepted", "dropped", "refused"} => request
       /\ sock \in {"up", "lost", "deaf", "failed", "none"} => ~request
       /\ upc = "idle" => sock = "none"

\* A callback that reads tcphandle.data finds there what it takes it for, until
\* Close is called: the TcpClientCtx while the handle is connected or connects,
\* the client when the handle is closed to be connected again.
THEOREM DataCorrect == Spec => []DataFits
  <1> DEFINE IInv == DataInv /\ DataFits
  <1>1. Init => IInv
    BY DEF Init, DataInv, DataFits
  <1>2. ASSUME IInv, [Next]_vars PROVE IInv'
    <2>1. CASE Connect \/ ConnectWait \/ ConnectTimeout \/ ConnectReturn \/ Close
               \/ UNCHANGED vars
      BY <1>2, <2>1 DEF Connect, ConnectWait, ConnectTimeout, ConnectReturn, Close, vars,
                        DataInv, DataFits, userVars, recVars, closeVars
    <2>2. CASE ServerFlaps \/ Answer
      BY <1>2, <2>2 DEF ServerFlaps, Answer, DataInv, DataFits, userVars, recVars, closeVars
    <2>3. CASE AfterConnect
      BY <1>2, <2>3 DEF AfterConnect, Connected, Running, StopReconnect, DataInv, DataFits,
                        userVars, recVars, closeVars
    <2>4. CASE AfterRecv
      BY <1>2, <2>4 DEF AfterRecv, Running, DataInv, DataFits, userVars
    <2>5. CASE AfterClientClose
      <3>1. CASE m_bIsUserAskForClosed
        BY <2>5, <3>1 DEF AfterClientClose, Running, DataInv, DataFits, userVars
      <3>2. CASE ~m_bIsUserAskForClosed
        <4>1. /\ ~confused /\ ~(closeCb /\ data = "ctx")
              /\ ~("timer" \in closed) /\ ~aborted
          BY <1>2, <2>5, <3>2 DEF AfterClientClose, DataInv, DataFits
        <4>2. ~confused' /\ ~aborted'
          <5>1. confused' = (confused \/ (closeCb /\ data = "ctx"))
            BY <2>5, Zenon DEF AfterClientClose
          <5>2. aborted' = ("timer" \in closed) \/ UNCHANGED aborted
            BY <2>5, Zenon DEF AfterClientClose
          <5>3. aborted' = aborted => ~aborted'
            BY <4>1
          <5> QED
            BY <4>1, <5>1, <5>2, <5>3, Zenon
        <4> QED
          BY <1>2, <2>5, <3>2, <4>2 DEF AfterClientClose, Running, DataInv, DataFits, userVars
      <3> QED
        BY <3>1, <3>2
    <2>6. CASE ReconnectTimer \/ ReconnectFails
      BY <1>2, <2>6 DEF ReconnectTimer, ReconnectFails, Running, DataInv, DataFits,
                        userVars, closeVars
    <2>7. CASE AsyncCloseCB \/ RunReturns
      BY <1>2, <2>7 DEF AsyncCloseCB, CloseInl, WalkHandle, WalkDone, RunReturns, Running,
                        StopReconnect, DataInv, DataFits, userVars, recVars, closeVars
    <2> QED
      BY <1>2, <2>1, <2>2, <2>3, <2>4, <2>5, <2>6, <2>7 DEF Next
  <1>3. IInv => DataFits
    OBVIOUS
  <1> QED
    BY <1>1, <1>2, <1>3, PTL DEF Spec

(***************************************************************************)
(* The macros of queue.h, link by link.                                    *)
(***************************************************************************)
NodeLinks == [Node -> Node]
LinkPairs == [next : NodeLinks, prev : NodeLinks]

\* What r is after n was inserted at the end of the queue of h in q, after n was
\* removed from the queue that its links name, and after the queue of h, which
\* was not empty, was moved to n.
Inserted(q, h, n, r) ==
    /\ r \in LinkPairs
    /\ \A m \in Node :
          /\ r.next[m] = IF m = q.prev[h] THEN n ELSE IF m = n THEN h ELSE q.next[m]
          /\ r.prev[m] = IF m = h THEN n ELSE IF m = n THEN q.prev[h] ELSE q.prev[m]
Removed(q, n, r) ==
    /\ r \in LinkPairs
    /\ \A m \in Node :
          /\ r.next[m] = IF m = q.prev[n] THEN q.next[n] ELSE q.next[m]
          /\ r.prev[m] = IF m = q.next[n] THEN q.prev[n] ELSE q.prev[m]
Moved(q, h, n, r) ==
    /\ r \in LinkPairs
    /\ r.next[n] = q.next[h] /\ r.prev[q.next[h]] = n
    /\ r.prev[h] = h
    /\ r.next[q.prev[h]] = n
    /\ \A m \in Node \ {n, h, q.prev[h]} : r.next[m] = q.next[m]

\* QUEUE_INSERT_TAIL sets two links in each direction; where both are of one
\* node, the later assignment counts.
LEMMA InsertLinks ==
    ASSUME NEW q \in LinkPairs, NEW h \in Node, NEW n \in Node
    PROVE  Inserted(q, h, n, QueueInsertTail(q, h, n))
  <1>1. q.next \in NodeLinks /\ q.prev \in NodeLinks /\ q.prev[h] \in Node
    BY DEF LinkPairs, NodeLinks
  <1> DEFINE nx == [q.next EXCEPT ![n] = h, ![q.prev[h]] = n]
             pv == [q.prev EXCEPT ![n] = q.prev[h], ![h] = n]
  <1>2. nx \in NodeLinks /\ pv \in NodeLinks
    BY <1>1 DEF NodeLinks
  <1>3. \A m \in Node :
           /\ nx[m] = IF m = q.prev[h] THEN n ELSE IF m = n THEN h ELSE q.next[m]
           /\ pv[m] = IF m = h THEN n ELSE IF m = n THEN q.prev[h] ELSE q.prev[m]
    BY <1>1 DEF NodeLinks
  <1>4. QueueInsertTail(q, h, n) = [next |-> nx, prev |-> pv]
    BY DEF QueueInsertTail
  <1> HIDE DEF nx, pv
  <1> QED
    BY <1>2, <1>3, <1>4 DEF LinkPairs, Inserted

\* QUEUE_REMOVE links the two neighbours that the links of the node name.
LEMMA RemoveLinks ==
    ASSUME NEW q \in LinkPairs, NEW n \in Node
    PROVE  Removed(q, n, QueueRemove(q, n))
  <1>1. q.next \in NodeLinks /\ q.prev \in NodeLinks /\ q.prev[n] \in Node /\ q.next[n] \in Node
    BY DEF LinkPairs, NodeLinks
  <1> DEFINE nx == [q.next EXCEPT ![q.prev[n]] = q.next[n]]
             pv == [q.prev EXCEPT ![nx[n]] = q.prev[n]]
  <1>2. nx \in NodeLinks /\ \A m \in Node : nx[m] = IF m = q.prev[n] THEN q.next[n] ELSE q.next[m]
    BY <1>1 DEF NodeLinks
  <1>3. nx[n] = q.next[n]
    BY <1>2
  <1>4. pv \in NodeLinks /\ \A m \in Node : pv[m] = IF m = q.next[n] THEN q.prev[n] ELSE q.prev[m]
    BY <1>1, <1>3 DEF NodeLinks
  <1>5. QueueRemove(q, n) = [next |-> nx, prev |-> pv]
    BY DEF QueueRemove
  <1> HIDE DEF nx, pv
  <1> QED
    BY <1>2, <1>4, <1>5 DEF LinkPairs, Removed

\* QUEUE_MOVE from a queue that has a first node f, whose predecessor is the
\* head: the nodes from f on hang at n, and the head is alone.
LEMMA MoveLinks ==
    ASSUME NEW q \in LinkPairs, NEW h \in Node, NEW n \in Node, h # n,
           q.next[h] \notin {h, n}, q.prev[h] \notin {h, n}, q.prev[q.next[h]] = h
    PROVE  Moved(q, h, n, QueueMove(q, h, n))
  <1> DEFINE f == q.next[h]
             p1 == [q.prev EXCEPT ![n] = q.prev[h]]
             n1 == [q.next EXCEPT ![p1[n]] = n]
             n2 == [n1 EXCEPT ![n] = f]
             p2 == [p1 EXCEPT ![h] = p1[f]]
             n3 == [n2 EXCEPT ![p2[h]] = h]
             p3 == [p2 EXCEPT ![f] = n]
  <1>1. q.next \in NodeLinks /\ q.prev \in NodeLinks /\ q.prev[h] \in Node /\ f \in Node
    BY DEF LinkPairs, NodeLinks
  <1>2. p1 \in NodeLinks /\ p1[n] = q.prev[h] /\ p1[f] = h
    BY <1>1 DEF NodeLinks
  <1>3. n1 \in NodeLinks /\ \A m \in Node : n1[m] = IF m = q.prev[h] THEN n ELSE q.next[m]
    BY <1>1, <1>2 DEF NodeLinks
  <1>4. n2 \in NodeLinks /\ n2[n] = f /\ \A m \in Node \ {n} : n2[m] = n1[m]
    BY <1>1, <1>3 DEF NodeLinks
  <1>5. p2 \in NodeLinks /\ p2[h] = h
    BY <1>1, <1>2 DEF NodeLinks
  <1>6. n3 \in NodeLinks /\ \A m \in Node \ {h} : n3[m] = n2[m]
    BY <1>4, <1>5 DEF NodeLinks
  <1>7. p3 \in NodeLinks /\ p3[f] = n /\ p3[h] = h
    BY <1>1, <1>5 DEF NodeLinks
  <1>8. QueueMove(q, h, n) = [next |-> n3, prev |-> p3]
    BY DEF QueueMove
  <1> HIDE DEF f, p1, n1, n2, p2, n3, p3
  <1>9. n3[n] = f /\ n3[q.prev[h]] = n
        /\ \A m \in Node \ {n, h, q.prev[h]} : n3[m] = q.next[m]
    BY <1>1, <1>3, <1>4, <1>6
  <1> QED
    BY <1>6, <1>7, <1>8, <1>9 DEF LinkPairs, Moved, f

(***************************************************************************)
(* The types.                                                              *)
(***************************************************************************)
\* The links are of nodes: TypeOK names the sets.
LinkTypes == next \in NodeLinks /\ prev \in NodeLinks

\* The flags, by themselves.
FlagTypes ==
    /\ listening \in BOOLEAN /\ result \in BOOLEAN /\ m_bIsUserAskForClosed \in BOOLEAN
    /\ signalled \in BOOLEAN /\ m_bIsReconnecting \in BOOLEAN /\ timer \in BOOLEAN
    /\ request \in BOOLEAN /\ closeCb \in BOOLEAN /\ confused \in BOOLEAN
    /\ aborted \in BOOLEAN /\ renewed \in BOOLEAN /\ everUp \in BOOLEAN
    /\ timer => m_bIsReconnecting

StateTypes ==
    /\ flaps \in 0..MaxFlap
    /\ upc \in {"idle", "waiting", "late", "judge", "returned"}
    /\ m_nConnectStatus \in Status
    /\ data \in {"ctx", "client"}
    /\ lpc \in {"none", "running", "walking", "returned"}
    /\ sock \in {"none", "pending", "accepted", "dropped", "refused", "up", "lost",
                 "deaf", "failed", "closing", "closed"}
    /\ sock \in {"pending", "accepted", "dropped", "refused"} => request

FoundTypes == closed \subseteq Handle \ {"copy"} /\ found \in Seq(Handle)

Types == LinkTypes /\ FlagTypes /\ StateTypes /\ FoundTypes

\* The four parts are what TypeOK says.
LEMMA TypesMeanTypeOK == Types <=> TypeOK
  <1>1. /\ listening \in BOOLEAN /\ result \in BOOLEAN /\ m_bIsUserAskForClosed \in BOOLEAN
        /\ signalled \in BOOLEAN /\ m_bIsReconnecting \in BOOLEAN /\ timer \in BOOLEAN
        /\ request \in BOOLEAN /\ closeCb \in BOOLEAN /\ confused \in BOOLEAN
        /\ aborted \in BOOLEAN /\ renewed \in BOOLEAN /\ everUp \in BOOLEAN
        <=> {listening, result, m_bIsUserAskForClosed, signalled, m_bIsReconnecting, timer,
             request, closeCb, confused, aborted, renewed, everUp} \subseteq BOOLEAN
    OBVIOUS
  <1> QED
    BY <1>1, Zenon DEF Types, LinkTypes, FlagTypes, StateTypes, FoundTypes, TypeOK, NodeLinks

\* No step makes a flag anything else, or starts the timer while the client
\* does not reconnect.
LEMMA FlagTypesStep ==
    ASSUME FlagTypes, [Next]_vars
    PROVE  FlagTypes'
  <1>1. CASE Connect
    <2>1. request' \in BOOLEAN
      BY <1>1, Zenon DEF Connect, FlagTypes
    <2> QED
      BY <1>1, <2>1 DEF Connect, userVars, peerVars, recVars, closeVars, histVars, FlagTypes
  <1>2. CASE ConnectReturn
    <2>1. result' \in BOOLEAN
      BY <1>2, Zenon DEF ConnectReturn, FlagTypes
    <2> QED
      BY <1>2, <2>1 DEF ConnectReturn, userVars, peerVars, recVars, closeVars, histVars, FlagTypes
  <1>3. CASE Close
    <2>1. signalled' \in BOOLEAN /\ m_bIsUserAskForClosed' \in BOOLEAN
      BY <1>3, Zenon DEF Close, FlagTypes
    <2> QED
      BY <1>3, <2>1 DEF Close, peerVars, recVars, closeVars, histVars, FlagTypes
  <1>4. CASE ServerFlaps
    <2>1. listening' \in BOOLEAN
      BY <1>4, Zenon DEF ServerFlaps, FlagTypes
    <2> QED
      BY <1>4, <2>1 DEF ServerFlaps, userVars, recVars, closeVars, histVars, FlagTypes
  <1>5. CASE AfterConnect
    <2>1. /\ request' \in BOOLEAN /\ everUp' \in BOOLEAN /\ m_bIsReconnecting' \in BOOLEAN
          /\ timer' \in BOOLEAN /\ (timer' => m_bIsReconnecting')
      <3>1. request' \in BOOLEAN
        BY <1>5, Zenon DEF AfterConnect, Connected
      <3>2. CASE everUp' = TRUE /\ StopReconnect
        BY <3>1, <3>2, Zenon DEF StopReconnect
      <3>3. CASE everUp' = TRUE /\ UNCHANGED recVars
        <4>1. everUp' \in BOOLEAN
          BY <3>3, Zenon
        <4> QED
          BY <3>1, <3>3, <4>1 DEF recVars, FlagTypes
      <3>4. CASE /\ timer' = (timer \/ m_bIsReconnecting)
                 /\ UNCHANGED <<everUp, m_bIsReconnecting, data>>
        <4>1. timer' \in BOOLEAN
          BY <3>4, Zenon
        <4>2. timer' => m_bIsReconnecting
          BY <3>4, Zenon DEF FlagTypes
        <4> QED
          BY <3>1, <3>4, <4>1, <4>2 DEF FlagTypes
      <3> QED
        BY <1>5, <3>2, <3>3, <3>4, Zenon DEF AfterConnect, Connected
    <2>2. UNCHANGED <<listening, userVars, signalled, closeVars, renewed>>
      BY <1>5 DEF AfterConnect
    <2> QED
      BY <2>1, <2>2 DEF userVars, closeVars, FlagTypes
  <1>6. CASE AfterRecv
    <2>1. m_bIsReconnecting' \in BOOLEAN /\ closeCb' \in BOOLEAN
      BY <1>6, Zenon DEF AfterRecv, FlagTypes
    <2> QED
      BY <1>6, <2>1 DEF AfterRecv, Running, userVars, peerVars, histVars, FlagTypes
  <1>7. CASE AfterClientClose
    <2>1. confused' \in BOOLEAN
      BY <1>7, Zenon DEF AfterClientClose
    <2>2. aborted' \in BOOLEAN /\ timer' \in BOOLEAN /\ (timer' => m_bIsReconnecting')
      <3>1. CASE /\ m_bIsReconnecting
                 /\ timer' = ("timer" \notin closed) /\ aborted' = ("timer" \in closed)
        <4>1. aborted' \in BOOLEAN /\ timer' \in BOOLEAN
          <5>1. ("timer" \in closed) \in BOOLEAN /\ ("timer" \notin closed) \in BOOLEAN
            OBVIOUS
          <5> QED
            BY <3>1, <5>1, Zenon
        <4>2. m_bIsReconnecting' = m_bIsReconnecting
          BY <1>7 DEF AfterClientClose
        <4> QED
          BY <3>1, <4>1, <4>2, Zenon
      <3>2. CASE UNCHANGED <<timer, aborted>>
        BY <1>7, <3>2 DEF AfterClientClose, FlagTypes
      <3> QED
        BY <1>7, <3>1, <3>2, Zenon DEF AfterClientClose
    <2> QED
      BY <1>7, <2>1, <2>2 DEF AfterClientClose, Running, userVars, peerVars, histVars, FlagTypes
  <1>8. CASE ReconnectTimer
    <2>1. request' \in BOOLEAN /\ renewed' \in BOOLEAN
      BY <1>8, Zenon DEF ReconnectTimer, FlagTypes
    <2> QED
      BY <1>8, <2>1 DEF ReconnectTimer, Running, userVars, peerVars, closeVars, FlagTypes
  <1>9. CASE ReconnectFails
    <2>1. closeCb' \in BOOLEAN /\ renewed' \in BOOLEAN
      BY <1>9, Zenon DEF ReconnectFails, FlagTypes
    <2> QED
      BY <1>9, <2>1 DEF ReconnectFails, userVars, FlagTypes
  <1>10. CASE CloseInl
    <2>1. /\ signalled' \in BOOLEAN /\ m_bIsReconnecting' \in BOOLEAN /\ timer' \in BOOLEAN
          /\ timer' => m_bIsReconnecting'
      BY <1>10, Zenon DEF CloseInl, StopReconnect, FlagTypes
    <2> QED
      BY <1>10, <2>1 DEF CloseInl, StopReconnect, Running, userVars, peerVars, closeVars,
                           histVars, FlagTypes
  <1>11. CASE WalkHandle
    <2>1. closeCb' \in BOOLEAN
      BY <1>11, Zenon DEF WalkHandle, FlagTypes
    <2> QED
      BY <1>11, <2>1 DEF WalkHandle, userVars, peerVars, recVars, FlagTypes
  <1>12. CASE ConnectWait \/ ConnectTimeout \/ Answer \/ WalkDone \/ RunReturns \/ UNCHANGED vars
    BY <1>12 DEF ConnectWait, ConnectTimeout, Answer, WalkDone, RunReturns, Running, vars,
                 FlagTypes, userVars, peerVars, recVars, closeVars, histVars
  <1> QED
    BY <1>1, <1>2, <1>3, <1>4, <1>5, <1>6, <1>7, <1>8, <1>9, <1>10, <1>11, <1>12
       DEF Next, AsyncCloseCB

\* A request is there as long as its answer is due.
LEMMA StateTypesStep ==
    ASSUME StateTypes, [Next]_vars
    PROVE  StateTypes'
  <1>1. CASE ServerFlaps
    <2>1. \/ sock' = sock
          \/ sock = "up" /\ sock' = "lost"
          \/ sock = "accepted" /\ sock' = "dropped"
      BY <1>1, Zenon DEF ServerFlaps
    <2> QED
      BY <1>1, <2>1, LifeAssumption DEF ServerFlaps, StateTypes, userVars, recVars
  <1>2. CASE ReconnectFails
    BY <1>2, LifeAssumption DEF ReconnectFails, StateTypes, userVars
  <1>3. CASE AfterConnect
    BY <1>3, LifeAssumption DEF AfterConnect, Connected, StateTypes, Status, StopReconnect, userVars, peerVars, recVars
  <1>4. CASE Connect \/ ConnectWait \/ ConnectTimeout \/ ConnectReturn \/ Close \/ Answer
             \/ UNCHANGED vars
    BY <1>4 DEF Connect, ConnectWait, ConnectTimeout, ConnectReturn, Close, Answer, vars,
                StateTypes, Status, userVars, peerVars, recVars
  <1>5. CASE AfterRecv \/ ReconnectTimer \/ AfterClientClose
    BY <1>5 DEF AfterRecv, ReconnectTimer, AfterClientClose, Running, StateTypes, userVars, peerVars
  <1>6. CASE CloseInl \/ WalkHandle \/ WalkDone \/ RunReturns
    BY <1>6 DEF CloseInl, StopReconnect, WalkHandle, WalkDone, RunReturns, Running,
                StateTypes, userVars, peerVars, recVars
  <1> QED
    BY <1>1, <1>2, <1>3, <1>4, <1>5, <1>6 DEF Next, AsyncCloseCB

(***************************************************************************)
(* The walk of closeinl.  The queue is known link by link.  The copy is    *)
(* not in it until the timer has initialised it, although the copy's own   *)
(* links say so: its first close takes m_tcpHandle and the timer's handle  *)
(* out instead.  An initialisation of a copy that is still in the queue    *)
(* makes it its own successor, which cuts off the end of the queue but     *)
(* never its beginning.                                                    *)
(***************************************************************************)
\* As init leaves the queue.
LinksMade ==
    /\ next["recv"] = "tcp" /\ next["tcp"] = "timer" /\ next["timer"] = "loop"
    /\ prev["loop"] = "timer"
    /\ next["copy"] = "loop" /\ prev["copy"] = "recv"
    /\ ~renewed /\ sock # "closed"
    /\ m_bIsReconnecting => sock = "closing"

\* The copy was closed.
LinksCut ==
    /\ next["recv"] = "loop" /\ prev["loop"] = "recv"
    /\ sock = "closed"

\* The copy was initialised: once, or again without having been closed.
LinksRenewed ==
    /\ next["recv"] = "copy" /\ prev["loop"] = "copy"
    /\ \/ next["copy"] = "loop" /\ prev["copy"] = "recv" /\ sock # "closed"
       \/ next["copy"] = "copy" /\ prev["copy"] = "copy"
    /\ renewed

\* The loop's queue begins with the two async handles.
QueueHead ==
    /\ next["loop"] = "async" /\ prev["async"] = "loop"
    /\ next["async"] = "recv" /\ prev["recv"] = "async"
    /\ found = <<>>

\* The loop's queue between Connect and the walk.
QueueInv ==
    upc # "idle" /\ lpc # "walking" /\ closed = {} =>
        QueueHead /\ (LinksMade \/ LinksCut \/ LinksRenewed)

\* What a walk has found when it is done.
Walks == {<<"async", "recv">>, <<"async", "recv", "tcp", "timer">>, <<"async", "recv", "copy">>}

\* A walk that has found the handles of s comes to the handle h.
WalkAt(s, h) ==
    /\ next["walk"] = h /\ prev[h] = "walk"
    /\ found = s

\* The walk closes the copy, or the timer of a copy that was never renewed.
Ended == sock \in {"closing", "closed"} \/ ("timer" \in closed /\ ~renewed)

\* The handles that the walk finds behind the async handles.
Behind ==
    \/ next["recv"] = "tcp" /\ next["tcp"] = "timer" /\ next["timer"] = "walk" /\ ~renewed
    \/ next["recv"] = "walk" /\ sock \in {"closing", "closed"}
    \/ next["recv"] = "copy" /\ next["copy"] = "walk"

\* The queue of the walk.
WalkInv ==
    lpc = "walking" =>
       \/ /\ WalkAt(<<>>, "async") /\ closed = {}
          /\ next["async"] = "recv" /\ prev["loop"] = "loop" /\ Behind
       \/ WalkAt(<<"async">>, "recv") /\ prev["loop"] = "async" /\ Behind /\ closed = {"async"}
       \/ /\ WalkAt(<<"async", "recv">>, "tcp") /\ closed = {"async", "recv"}
          /\ prev["loop"] = "recv" /\ next["tcp"] = "timer" /\ next["timer"] = "walk" /\ ~renewed
       \/ /\ WalkAt(<<"async", "recv", "tcp">>, "timer") /\ closed = {"async", "recv", "tcp"}
          /\ prev["loop"] = "tcp" /\ next["timer"] = "walk" /\ ~renewed
       \/ /\ WalkAt(<<"async", "recv">>, "copy") /\ closed = {"async", "recv"}
          /\ prev["loop"] = "recv" /\ next["copy"] = "walk"
       \/ next["walk"] = "walk" /\ found \in Walks /\ {"async", "recv"} \subseteq closed /\ Ended

\* Before Connect there is nothing; after the walk there is what it found.
StageInv ==
    /\ upc = "idle" =>
          /\ next = [n \in Node |-> n] /\ prev = [n \in Node |-> n]
          /\ closed = {} /\ found = <<>> /\ ~renewed
          /\ ~m_bIsUserAskForClosed /\ ~m_bIsReconnecting
    /\ upc = "idle" <=> lpc = "none"
    /\ signalled => m_bIsUserAskForClosed
    /\ lpc # "walking" /\ closed # {} => {"async", "recv"} \subseteq closed /\ found \in Walks
    /\ lpc = "returned" => closed # {}

\* A walk stops the reconnection.  After it the timer stays stopped, and only a
\* copy that was never renewed can still lose its connection.
EndInv ==
    /\ lpc = "walking" => ~m_bIsReconnecting
    /\ closed # {} /\ lpc # "walking" =>
          /\ Ended
          /\ ~timer
          /\ m_bIsReconnecting => /\ "timer" \in closed /\ ~renewed /\ ~request
                                 /\ sock \in {"closing", "closed"}
    /\ sock \in {"none", "up", "lost", "deaf", "failed", "closed"} => ~request
    /\ aborted => "timer" \in closed /\ ~renewed

QueueInvs == QueueInv /\ WalkInv /\ StageInv /\ EndInv

\* Connect: init puts four handles into the queue, and copies the links of
\* m_tcpHandle before the timer is behind it.
LEMMA ConnectQueue ==
    ASSUME Types, QueueInvs, Connect
    PROVE  LinkTypes' /\ FoundTypes' /\ QueueInvs'
  <1> DEFINE q0 == Links
             q1 == QueueInsertTail(q0, "loop", "async")
             q2 == QueueInsertTail(q1, "loop", "recv")
             q3 == QueueInsertTail(q2, "loop", "tcp")
             q4 == [next |-> [q3.next EXCEPT !["copy"] = q3.next["tcp"]],
                    prev |-> [q3.prev EXCEPT !["copy"] = q3.prev["tcp"]]]
             q5 == QueueInsertTail(q4, "loop", "timer")
  <1>0. {"loop", "async", "recv", "tcp", "timer", "copy"} \subseteq Node
    BY DEF Node, Handle
  <1>1. q0 \in LinkPairs /\ \A m \in Node : q0.next[m] = m /\ q0.prev[m] = m
    BY DEF Connect, QueueInvs, StageInv, Links, LinkPairs, Types, LinkTypes
  <1> HIDE DEF q0
  <1>2. /\ q1 \in LinkPairs
        /\ q1.next["loop"] = "async" /\ q1.prev["async"] = "loop"
        /\ q1.next["async"] = "loop" /\ q1.prev["loop"] = "async"
    <2>1. Inserted(q0, "loop", "async", q1)
      BY <1>0, <1>1, InsertLinks
    <2> HIDE DEF q1
    <2> QED
      BY <1>0, <1>1, <2>1 DEF Inserted
  <1> HIDE DEF q1
  <1>3. /\ q2 \in LinkPairs
        /\ q2.next["loop"] = "async" /\ q2.prev["async"] = "loop"
        /\ q2.next["async"] = "recv" /\ q2.prev["recv"] = "async"
        /\ q2.next["recv"] = "loop" /\ q2.prev["loop"] = "recv"
    <2>1. Inserted(q1, "loop", "recv", q2)
      BY <1>0, <1>2, InsertLinks
    <2> HIDE DEF q2
    <2> QED
      BY <1>0, <1>2, <2>1 DEF Inserted
  <1> HIDE DEF q2
  <1>4. /\ q3 \in LinkPairs
        /\ q3.next["loop"] = "async" /\ q3.prev["async"] = "loop"
        /\ q3.next["async"] = "recv" /\ q3.prev["recv"] = "async"
        /\ q3.next["recv"] = "tcp" /\ q3.prev["tcp"] = "recv"
        /\ q3.next["tcp"] = "loop" /\ q3.prev["loop"] = "tcp"
    <2>1. Inserted(q2, "loop", "tcp", q3)
      BY <1>0, <1>3, InsertLinks
    <2> HIDE DEF q3
    <2> QED
      BY <1>0, <1>3, <2>1 DEF Inserted
  <1> HIDE DEF q3
  <1>5. /\ q4 \in LinkPairs
        /\ q4.next["loop"] = "async" /\ q4.prev["async"] = "loop"
        /\ q4.next["async"] = "recv" /\ q4.prev["recv"] = "async"
        /\ q4.next["recv"] = "tcp"
        /\ q4.next["tcp"] = "loop" /\ q4.prev["loop"] = "tcp"
        /\ q4.next["copy"] = "loop" /\ q4.prev["copy"] = "recv"
    BY <1>0, <1>4 DEF LinkPairs, NodeLinks
  <1> HIDE DEF q4
  <1>6. /\ q5 \in LinkPairs
        /\ q5.next["loop"] = "async" /\ q5.prev["async"] = "loop"
        /\ q5.next["async"] = "recv" /\ q5.prev["recv"] = "async"
        /\ q5.next["recv"] = "tcp"
        /\ q5.next["tcp"] = "timer" /\ q5.next["timer"] = "loop" /\ q5.prev["loop"] = "timer"
        /\ q5.next["copy"] = "loop" /\ q5.prev["copy"] = "recv"
    <2>1. Inserted(q4, "loop", "timer", q5)
      BY <1>0, <1>5, InsertLinks
    <2> HIDE DEF q5
    <2> QED
      BY <1>0, <1>5, <2>1 DEF Inserted
  <1>7. next' = q5.next /\ prev' = q5.prev
    BY DEF Connect, SetLinks, InitLinks, q0, q1, q2, q3, q4
  <1> HIDE DEF q5
  <1>8. LinkTypes'
    BY <1>6, <1>7 DEF LinkTypes, LinkPairs
  <1>9. /\ lpc' = "running" /\ upc' = "waiting" /\ sock' = "pending" /\ found' = <<>>
        /\ closed' = {} /\ ~renewed' /\ ~m_bIsReconnecting'
        /\ UNCHANGED <<signalled, m_bIsUserAskForClosed, found, closed, aborted>>
    BY DEF Connect, QueueInvs, StageInv, closeVars, histVars, recVars
  <1>10. LinksMade'
    BY <1>6, <1>7, <1>9 DEF LinksMade
  <1>11. QueueInv' /\ WalkInv'
    BY <1>6, <1>7, <1>9, <1>10 DEF QueueInv, QueueHead, WalkInv
  <1>12. EndInv'
    BY <1>9 DEF QueueInvs, EndInv
  <1>13. StageInv' /\ FoundTypes'
    BY <1>9 DEF QueueInvs, StageInv, Types, FoundTypes
  <1> QED
    BY <1>8, <1>11, <1>12, <1>13 DEF QueueInvs

\* The end of the copy's close.  Its links take it out of the queue if the
\* timer put it in once, and other handles otherwise.
LEMMA CloseQueue ==
    ASSUME Types, QueueInvs, AfterClientClose
    PROVE  LinkTypes' /\ FoundTypes' /\ QueueInvs'
  <1> DEFINE q == Links
             r == QueueRemove(q, "copy")
  <1>0. {"loop", "async", "recv", "tcp", "timer", "copy"} \subseteq Node
    BY DEF Node, Handle
  <1>1. q \in LinkPairs /\ q.next = next /\ q.prev = prev
    BY DEF Types, LinkTypes, Links, LinkPairs
  <1>2. next' = r.next /\ prev' = r.prev
    BY DEF AfterClientClose, SetLinks
  <1> HIDE DEF q
  <1>3. r \in LinkPairs
        /\ \A m \in Node :
              /\ r.next[m] = IF m = prev["copy"] THEN next["copy"] ELSE next[m]
              /\ r.prev[m] = IF m = next["copy"] THEN prev["copy"] ELSE prev[m]
    <2>1. Removed(q, "copy", r)
      BY <1>0, <1>1, RemoveLinks
    <2> HIDE DEF r
    <2> QED
      BY <1>1, <2>1 DEF Removed
  <1> HIDE DEF r
  <1>4. LinkTypes'
    BY <1>2, <1>3 DEF LinkTypes, LinkPairs
  <1>5. /\ sock = "closing" /\ sock' = "closed" /\ lpc = "running"
        /\ UNCHANGED <<lpc, upc, m_bIsReconnecting, closed, found, renewed, signalled,
                       m_bIsUserAskForClosed>>
    BY DEF AfterClientClose, Running, userVars, histVars
  <1>6. QueueInv'
    <2>1. SUFFICES ASSUME upc # "idle", closed = {} PROVE QueueInv'
      BY <1>5 DEF QueueInv
    <2>2. QueueHead /\ (LinksMade \/ LinksCut \/ LinksRenewed)
      BY <1>5, <2>1 DEF QueueInvs, QueueInv
    <2>3. ~LinksCut
      BY <1>5 DEF LinksCut
    <2>4. CASE next["copy"] = "loop" /\ prev["copy"] = "recv"
      BY <1>0, <1>2, <1>3, <1>5, <2>2, <2>4 DEF QueueInv, QueueHead, LinksCut
    <2>5. CASE LinksRenewed /\ next["copy"] = "copy" /\ prev["copy"] = "copy"
      BY <1>0, <1>2, <1>3, <1>5, <2>2, <2>5 DEF QueueInv, QueueHead, LinksRenewed
    <2> QED
      BY <2>2, <2>3, <2>4, <2>5 DEF LinksMade, LinksRenewed
  <1>7. StageInv' /\ FoundTypes' /\ WalkInv'
    BY <1>5 DEF QueueInvs, StageInv, Types, FoundTypes, WalkInv
  <1>8. EndInv'
    <2>1. EndInv /\ ~request /\ request' = request
      BY DEF QueueInvs, AfterClientClose
    <2>2. CASE UNCHANGED <<timer, aborted>>
      BY <1>5, <2>1, <2>2 DEF EndInv, Ended
    <2>3. CASE m_bIsReconnecting /\ timer' = ("timer" \notin closed) /\ aborted' = ("timer" \in closed)
      <3>1. CASE closed = {}
        <4>1. ~aborted'
          BY <2>3, <3>1
        <4> QED
          BY <1>5, <2>1, <3>1, <4>1 DEF EndInv
      <3>2. CASE closed # {}
        <4>1. "timer" \in closed /\ ~renewed
          BY <1>5, <2>1, <2>3, <3>2 DEF EndInv
        <4>2. ~timer'
          BY <2>3, <4>1, Zenon
        <4> QED
          BY <1>5, <2>1, <4>1, <4>2 DEF EndInv, Ended
      <3> QED
        BY <3>1, <3>2
    <2> QED
      BY <2>2, <2>3, Zenon DEF AfterClientClose
  <1> QED
    BY <1>4, <1>6, <1>7, <1>8 DEF QueueInvs

\* uv_tcp_init by the timer: the copy comes to the end of the queue.  If it was
\* there already it becomes its own successor.
LEMMA RenewQueue ==
    ASSUME Types, QueueInvs, ReconnectTimer \/ ReconnectFails
    PROVE  LinkTypes' /\ FoundTypes' /\ QueueInvs'
  <1> DEFINE q == Links
             r == QueueInsertTail(q, "loop", "copy")
  <1>0. {"loop", "async", "recv", "tcp", "timer", "copy"} \subseteq Node
    BY DEF Node, Handle
  <1>1. q \in LinkPairs /\ q.next = next /\ q.prev = prev
    BY DEF Types, LinkTypes, Links, LinkPairs
  <1>2. next' = r.next /\ prev' = r.prev
    BY DEF ReconnectTimer, ReconnectFails, SetLinks
  <1> HIDE DEF q
  <1>3. Inserted(q, "loop", "copy", r)
    BY <1>0, <1>1, InsertLinks
  <1> HIDE DEF r
  <1>4. LinkTypes' /\ \A m \in Node :
           /\ next'[m] = IF m = prev["loop"] THEN "copy" ELSE IF m = "copy" THEN "loop" ELSE next[m]
           /\ prev'[m] = IF m = "loop" THEN "copy" ELSE IF m = "copy" THEN prev["loop"] ELSE prev[m]
    BY <1>1, <1>2, <1>3 DEF LinkTypes, LinkPairs, Inserted
  <1>5. /\ sock \in {"closed", "failed"} /\ m_bIsReconnecting /\ lpc = "running"
        /\ sock' # "closed"
        /\ UNCHANGED <<lpc, upc, m_bIsReconnecting, closed, found, signalled,
                       m_bIsUserAskForClosed>>
    BY DEF ReconnectTimer, ReconnectFails, Running, userVars, closeVars
  <1>6. renewed'
    BY Zenon DEF ReconnectTimer, ReconnectFails
  <1>7. QueueInv'
    <2>1. SUFFICES ASSUME upc # "idle", closed = {} PROVE QueueInv'
      BY <1>5 DEF QueueInv
    <2>2. QueueHead /\ (LinksMade \/ LinksCut \/ LinksRenewed)
      BY <1>5, <2>1 DEF QueueInvs, QueueInv
    <2>3. ~LinksMade
      BY <1>5 DEF LinksMade
    <2>4. CASE LinksCut
      BY <1>0, <1>4, <1>5, <1>6, <2>2, <2>4 DEF QueueInv, QueueHead, LinksCut, LinksRenewed
    <2>5. CASE LinksRenewed
      BY <1>0, <1>4, <1>5, <1>6, <2>2, <2>5 DEF QueueInv, QueueHead, LinksRenewed
    <2> QED
      BY <2>2, <2>3, <2>4, <2>5
  <1>8. upc # "idle"
    BY <1>5 DEF QueueInvs, StageInv
  <1>9. StageInv' /\ FoundTypes' /\ WalkInv'
    BY <1>5, <1>8 DEF QueueInvs, StageInv, Types, FoundTypes, WalkInv
  <1>10. EndInv'
    <2>1. timer
      BY Zenon DEF ReconnectTimer, ReconnectFails
    <2>2. closed = {}
      BY <1>5, <2>1 DEF QueueInvs, EndInv
    <2>3. sock' \notin {"none", "up", "lost", "deaf", "failed", "closed"} /\ aborted' = aborted
      BY DEF ReconnectTimer, ReconnectFails, closeVars
    <2>4. ~aborted'
      BY <2>2, <2>3 DEF QueueInvs, EndInv
    <2> QED
      BY <1>5, <2>2, <2>3, <2>4 DEF EndInv
  <1> QED
    BY <1>4, <1>7, <1>9, <1>10 DEF QueueInvs

\* closeinl stops the reconnection, and uv_walk takes the queue over.
LEMMA CloseInlQueue ==
    ASSUME Types, QueueInvs, CloseInl
    PROVE  LinkTypes' /\ FoundTypes' /\ QueueInvs'
  <1> DEFINE q == Links
             r == QueueMove(q, "loop", "walk")
  <1>0. {"loop", "walk", "async", "recv", "tcp", "timer", "copy"} \subseteq Node
    BY DEF Node, Handle
  <1>1. q \in LinkPairs /\ q.next = next /\ q.prev = prev
    BY DEF Types, LinkTypes, Links, LinkPairs
  <1>2. next' = r.next /\ prev' = r.prev
    BY DEF CloseInl, SetLinks
  <1>3. /\ lpc = "running" /\ lpc' = "walking" /\ "async" \notin closed
        /\ UNCHANGED <<upc, closed, found, sock, request, renewed, m_bIsUserAskForClosed, aborted>>
    BY DEF CloseInl, Running, userVars, closeVars, histVars
  <1>4. ~signalled' /\ ~m_bIsReconnecting' /\ signalled
    BY Zenon DEF CloseInl, StopReconnect
  <1>5. upc # "idle" /\ closed = {}
    BY <1>3 DEF QueueInvs, StageInv
  <1>6. QueueHead /\ (LinksMade \/ LinksCut \/ LinksRenewed)
    BY <1>3, <1>5 DEF QueueInvs, QueueInv
  <1>7. /\ next["loop"] = "async" /\ prev["async"] = "loop" /\ next["async"] = "recv" /\ found = <<>>
        /\ prev["loop"] \in {"timer", "recv", "copy"}
    BY <1>6 DEF QueueHead, LinksMade, LinksCut, LinksRenewed
  <1> HIDE DEF q
  <1>8. Moved(q, "loop", "walk", r)
    <2>1. /\ "loop" # "walk" /\ q.next["loop"] \notin {"loop", "walk"}
          /\ q.prev["loop"] \notin {"loop", "walk"} /\ q.prev[q.next["loop"]] = "loop"
      BY <1>1, <1>7
    <2>2. "loop" \in Node /\ "walk" \in Node
      BY <1>0
    <2> QED
      BY <1>1, <2>1, <2>2, MoveLinks
  <1> HIDE DEF r
  <1>9. /\ LinkTypes'
        /\ next'["walk"] = "async" /\ prev'["async"] = "walk" /\ prev'["loop"] = "loop"
        /\ next'[prev["loop"]] = "walk"
        /\ \A m \in Node \ {"walk", "loop", prev["loop"]} : next'[m] = next[m]
    BY <1>1, <1>2, <1>7, <1>8 DEF Moved, LinkTypes, LinkPairs
  <1>10. next'["async"] = "recv"
    BY <1>0, <1>7, <1>9
  <1>11. Behind'
    <2>1. CASE LinksMade
      BY <1>0, <1>3, <1>9, <2>1 DEF LinksMade, Behind
    <2>2. CASE LinksCut
      BY <1>3, <1>9, <2>2 DEF LinksCut, Behind
    <2>3. CASE LinksRenewed
      BY <1>0, <1>9, <2>3 DEF LinksRenewed, Behind
    <2> QED
      BY <1>6, <2>1, <2>2, <2>3
  <1>12. WalkInv' /\ QueueInv'
    BY <1>3, <1>5, <1>7, <1>9, <1>10, <1>11 DEF WalkInv, WalkAt, QueueInv
  <1>13. StageInv' /\ FoundTypes' /\ EndInv'
    BY <1>3, <1>4, <1>5 DEF QueueInvs, StageInv, Types, FoundTypes, EndInv
  <1> QED
    BY <1>9, <1>12, <1>13 DEF QueueInvs

\* A step of uv_walk: the first handle leaves the queue of the walk, whose next
\* handle is then the first, and goes to the end of the loop's.
LEMMA WalkLinks ==
    ASSUME Types, NEW f \in Node, WalkHandle, First = f, prev[f] = "walk", f # "walk", f # "loop",
           prev["loop"] # "walk", prev["loop"] # f, next[f] \notin {"loop", f}
    PROVE  /\ LinkTypes'
           /\ next'["walk"] = next[f] /\ prev'[next[f]] = "walk" /\ prev'["loop"] = f
           /\ \A m \in Node \ {f, "walk", prev["loop"]} : next'[m] = next[m]
  <1> DEFINE q == Links
             q1 == QueueRemove(q, f)
             r == QueueInsertTail(q1, "loop", f)
  <1>0. {"loop", "walk"} \subseteq Node
    BY DEF Node
  <1>1. q \in LinkPairs /\ q.next = next /\ q.prev = prev
    BY DEF Types, LinkTypes, Links, LinkPairs
  <1>2. next' = r.next /\ prev' = r.prev
    BY DEF WalkHandle, SetLinks
  <1> HIDE DEF q
  <1>3. Removed(q, f, q1)
    BY <1>1, RemoveLinks
  <1>4. Inserted(q1, "loop", f, r)
    <2>1. q1 \in LinkPairs /\ "loop" \in Node
      BY <1>0, <1>3 DEF Removed
    <2> HIDE DEF q1
    <2> QED
      BY <2>1, InsertLinks
  <1> HIDE DEF q1, r
  <1>5. next[f] \in Node /\ prev["loop"] \in Node
    BY <1>0 DEF Types, LinkTypes, NodeLinks
  <1>6. /\ q1.next["walk"] = next[f] /\ q1.prev[next[f]] = "walk" /\ q1.prev["loop"] = prev["loop"]
        /\ \A m \in Node \ {"walk"} : q1.next[m] = next[m]
    BY <1>0, <1>1, <1>3, <1>5 DEF Removed
  <1>7. LinkTypes'
    BY <1>2, <1>4 DEF Inserted, LinkPairs, LinkTypes
  <1>8. next'["walk"] = next[f] /\ prev'[next[f]] = "walk" /\ prev'["loop"] = f
    BY <1>0, <1>2, <1>4, <1>5, <1>6 DEF Inserted
  <1>9. \A m \in Node \ {f, "walk", prev["loop"]} : next'[m] = next[m]
    BY <1>2, <1>4, <1>6 DEF Inserted
  <1> QED
    BY <1>7, <1>8, <1>9

\* What a walk has found, handle by handle.
LEMMA WalkFinds ==
    /\ Append(<<>>, "async") = <<"async">>
    /\ Append(<<"async">>, "recv") = <<"async", "recv">>
    /\ Append(<<"async", "recv">>, "copy") = <<"async", "recv", "copy">>
    /\ Append(<<"async", "recv">>, "tcp") = <<"async", "recv", "tcp">>
    /\ Append(<<"async", "recv", "tcp">>, "timer") = <<"async", "recv", "tcp", "timer">>
  <1> DEFINE Is(s, p, t) ==
          /\ s \in Seq(Handle) /\ p \in Handle /\ t \in Seq(Handle)
          /\ Len(t) = Len(s) + 1 /\ t[Len(s) + 1] = p /\ \A i \in 1..Len(s) : t[i] = s[i]
  <1>1. \A s, p, t : Is(s, p, t) => Append(s, p) = t
    BY AppendIs
  <1>2. Is(<<>>, "async", <<"async">>) /\ Is(<<"async">>, "recv", <<"async", "recv">>)
    BY DEF Handle
  <1>3. /\ Is(<<"async", "recv">>, "copy", <<"async", "recv", "copy">>)
        /\ Is(<<"async", "recv">>, "tcp", <<"async", "recv", "tcp">>)
    BY DEF Handle
  <1>4. Is(<<"async", "recv", "tcp">>, "timer", <<"async", "recv", "tcp", "timer">>)
    BY DEF Handle
  <1> HIDE DEF Is
  <1> QED
    BY <1>1, <1>2, <1>3, <1>4

\* Each step of the walk finds the handle that follows: the two async handles
\* first, and then the copy, or m_tcpHandle and the timer, or nothing.
LEMMA WalkQueue ==
    ASSUME Types, QueueInvs, WalkHandle
    PROVE  LinkTypes' /\ FoundTypes' /\ QueueInvs'
  <1>0. {"loop", "walk", "async", "recv", "tcp", "timer", "copy"} \subseteq Node
    BY DEF Node, Handle
  <1>1. /\ lpc = "walking" /\ First # "walk" /\ next["walk"] = First
        /\ found' = Append(found, First)
        /\ UNCHANGED <<lpc, upc, request, renewed, aborted, signalled, m_bIsUserAskForClosed,
                       m_bIsReconnecting>>
    BY DEF WalkHandle, First, userVars, recVars
  <1>2. First # "copy" => closed' = closed \cup {First} /\ sock' = sock
    BY DEF WalkHandle
  <1>3. First = "copy" => closed' = closed /\ sock' \in {"closing", "closed"}
                          /\ (sock' = "closed" => sock = "closed")
    BY DEF WalkHandle
  <1>a. /\ Append(<<>>, "async") = <<"async">> /\ Append(<<"async">>, "recv") = <<"async", "recv">>
        /\ Append(<<"async", "recv">>, "copy") = <<"async", "recv", "copy">>
        /\ Append(<<"async", "recv">>, "tcp") = <<"async", "recv", "tcp">>
        /\ Append(<<"async", "recv", "tcp">>, "timer") = <<"async", "recv", "tcp", "timer">>
    BY WalkFinds
  <1>b. /\ {} \cup {"async"} = {"async"} /\ {"async"} \cup {"recv"} = {"async", "recv"}
        /\ {"async", "recv"} \cup {"tcp"} = {"async", "recv", "tcp"}
        /\ {"async", "recv", "tcp"} \cup {"timer"} = {"async", "recv", "tcp", "timer"}
    OBVIOUS
  <1>4. /\ First \in Handle /\ LinkTypes' /\ WalkInv'
    <2>1. CASE /\ WalkAt(<<>>, "async") /\ closed = {}
               /\ next["async"] = "recv" /\ prev["loop"] = "loop" /\ Behind
      <3>1. /\ LinkTypes'
            /\ next'["walk"] = "recv" /\ prev'["recv"] = "walk" /\ prev'["loop"] = "async"
            /\ \A m \in Node \ {"async", "walk", "loop"} : next'[m] = next[m]
        BY <1>0, <1>1, <2>1, WalkLinks DEF WalkAt
      <3>2. found' = <<"async">> /\ closed' = {"async"} /\ sock' = sock
        BY <1>1, <1>2, <1>a, <1>b, <2>1 DEF WalkAt
      <3>3. Behind'
        BY <1>0, <1>1, <2>1, <3>1, <3>2 DEF Behind
      <3>4. WalkAt(<<"async">>, "recv")' /\ prev'["loop"] = "async" /\ closed' = {"async"}
        BY <3>1, <3>2 DEF WalkAt
      <3>5. First \in Handle
        BY <1>1, <2>1 DEF WalkAt, Handle
      <3> QED
        BY <3>1, <3>3, <3>4, <3>5 DEF WalkInv
    <2>2. CASE WalkAt(<<"async">>, "recv") /\ prev["loop"] = "async" /\ Behind /\ closed = {"async"}
      <3>0. next["recv"] \in {"tcp", "walk", "copy"}
        BY <2>2 DEF Behind
      <3>1. /\ LinkTypes'
            /\ next'["walk"] = next["recv"] /\ prev'[next["recv"]] = "walk" /\ prev'["loop"] = "recv"
            /\ \A m \in Node \ {"recv", "walk", "async"} : next'[m] = next[m]
        BY <1>0, <1>1, <2>2, <3>0, WalkLinks DEF WalkAt
      <3>2. found' = <<"async", "recv">> /\ closed' = {"async", "recv"} /\ sock' = sock
        BY <1>1, <1>2, <1>a, <1>b, <2>2 DEF WalkAt
      <3>3. WalkInv'
        <4>1. CASE next["recv"] = "tcp" /\ next["tcp"] = "timer" /\ next["timer"] = "walk" /\ ~renewed
          BY <1>0, <1>1, <3>1, <3>2, <4>1 DEF WalkInv, WalkAt
        <4>2. CASE next["recv"] = "walk" /\ sock \in {"closing", "closed"}
          BY <3>1, <3>2, <4>2 DEF WalkInv, Walks, Ended
        <4>3. CASE next["recv"] = "copy" /\ next["copy"] = "walk"
          BY <1>0, <3>1, <3>2, <4>3 DEF WalkInv, WalkAt
        <4> QED
          BY <2>2, <4>1, <4>2, <4>3 DEF Behind
      <3> QED
        BY <1>1, <2>2, <3>1, <3>3 DEF WalkAt, Handle
    <2>3. CASE /\ WalkAt(<<"async", "recv">>, "tcp") /\ closed = {"async", "recv"}
               /\ prev["loop"] = "recv" /\ next["tcp"] = "timer" /\ next["timer"] = "walk" /\ ~renewed
      <3>1. /\ LinkTypes'
            /\ next'["walk"] = "timer" /\ prev'["timer"] = "walk" /\ prev'["loop"] = "tcp"
            /\ \A m \in Node \ {"tcp", "walk", "recv"} : next'[m] = next[m]
        BY <1>0, <1>1, <2>3, WalkLinks DEF WalkAt
      <3>2. found' = <<"async", "recv", "tcp">> /\ closed' = {"async", "recv", "tcp"}
        BY <1>1, <1>2, <1>a, <1>b, <2>3 DEF WalkAt
      <3>3. /\ WalkAt(<<"async", "recv", "tcp">>, "timer")' /\ closed' = {"async", "recv", "tcp"}
            /\ prev'["loop"] = "tcp" /\ next'["timer"] = "walk" /\ ~renewed'
        BY <1>0, <1>1, <2>3, <3>1, <3>2 DEF WalkAt
      <3>4. First \in Handle
        BY <1>1, <2>3 DEF WalkAt, Handle
      <3> QED
        BY <3>1, <3>3, <3>4 DEF WalkInv
    <2>4. CASE /\ WalkAt(<<"async", "recv", "tcp">>, "timer") /\ closed = {"async", "recv", "tcp"}
               /\ prev["loop"] = "tcp" /\ next["timer"] = "walk" /\ ~renewed
      <3>1. LinkTypes' /\ next'["walk"] = "walk"
        BY <1>0, <1>1, <2>4, WalkLinks DEF WalkAt
      <3>2. found' = <<"async", "recv", "tcp", "timer">> /\ closed' = {"async", "recv", "tcp", "timer"}
        BY <1>1, <1>2, <1>a, <1>b, <2>4 DEF WalkAt
      <3>3. found' \in Walks /\ {"async", "recv"} \subseteq closed' /\ Ended'
        BY <1>1, <2>4, <3>2 DEF Walks, Ended
      <3>4. First \in Handle
        BY <1>1, <2>4 DEF WalkAt, Handle
      <3> QED
        BY <3>1, <3>3, <3>4 DEF WalkInv
    <2>5. CASE /\ WalkAt(<<"async", "recv">>, "copy") /\ closed = {"async", "recv"}
               /\ prev["loop"] = "recv" /\ next["copy"] = "walk"
      <3>1. LinkTypes' /\ next'["walk"] = "walk"
        BY <1>0, <1>1, <2>5, WalkLinks DEF WalkAt
      <3>2. found' = <<"async", "recv", "copy">> /\ closed' = {"async", "recv"}
            /\ sock' \in {"closing", "closed"}
        BY <1>1, <1>3, <1>a, <2>5 DEF WalkAt
      <3>3. found' \in Walks /\ {"async", "recv"} \subseteq closed' /\ Ended'
        BY <3>2 DEF Walks, Ended
      <3>4. First \in Handle
        BY <1>1, <2>5 DEF WalkAt, Handle
      <3> QED
        BY <3>1, <3>3, <3>4 DEF WalkInv
    <2> QED
      BY <1>1, <2>1, <2>2, <2>3, <2>4, <2>5 DEF QueueInvs, WalkInv
  <1>5. FoundTypes'
    <2>1. closed' \subseteq Handle \ {"copy"}
      BY <1>2, <1>3, <1>4 DEF Types, FoundTypes
    <2> QED
      BY <1>1, <1>4, <2>1 DEF Types, FoundTypes
  <1>6. QueueInv' /\ StageInv'
    BY <1>1 DEF QueueInvs, QueueInv, StageInv
  <1>7. EndInv'
    <2>1. closed \subseteq closed'
      BY <1>2, <1>3
    <2>2. First # "copy" => sock' = sock
      BY <1>2
    <2>3. /\ ~m_bIsReconnecting
          /\ sock \in {"none", "up", "lost", "deaf", "failed", "closed"} => ~request
          /\ aborted => "timer" \in closed /\ ~renewed
      BY <1>1 DEF QueueInvs, EndInv
    <2> QED
      BY <1>1, <1>3, <2>1, <2>2, <2>3 DEF EndInv
  <1> QED
    BY <1>4, <1>5, <1>6, <1>7 DEF QueueInvs

\* What the user's thread and the server do to all this.
LEMMA OthersQueue ==
    ASSUME Types, QueueInvs,
           ConnectWait \/ ConnectTimeout \/ ConnectReturn \/ Close \/ ServerFlaps \/ Answer
           \/ UNCHANGED vars
    PROVE  LinkTypes' /\ FoundTypes' /\ QueueInvs'
  <1>1. /\ UNCHANGED <<next, prev, closed, found, renewed, aborted, m_bIsReconnecting, timer, lpc,
                       request>>
        /\ signalled' => signalled \/ Close
        /\ upc' = "idle" <=> upc = "idle"
        /\ m_bIsUserAskForClosed' = m_bIsUserAskForClosed \/ Close
    BY DEF ConnectWait, ConnectTimeout, ConnectReturn, Close, ServerFlaps, Answer, vars,
           queueVars, userVars, recVars, closeVars, histVars
  <1>2. \/ sock' = sock
        \/ sock = "up" /\ sock' = "lost"
        \/ sock \in {"accepted", "pending"} /\ sock' \in {"accepted", "dropped", "refused"}
    <2>1. CASE ServerFlaps
      BY <2>1, Zenon DEF ServerFlaps
    <2>2. CASE Answer
      BY <2>2 DEF Answer
    <2>3. CASE ConnectWait \/ ConnectTimeout \/ ConnectReturn \/ Close \/ UNCHANGED vars
      BY <2>3 DEF ConnectWait, ConnectTimeout, ConnectReturn, Close, vars
    <2> QED
      BY <2>1, <2>2, <2>3
  <1>3. LinkTypes' /\ FoundTypes'
    BY <1>1 DEF Types, LinkTypes, FoundTypes
  <1>4. QueueInv'
    BY <1>1, <1>2 DEF QueueInvs, QueueInv, QueueHead, LinksMade, LinksCut, LinksRenewed
  <1>5. WalkInv'
    BY <1>1, <1>2 DEF QueueInvs, WalkInv, WalkAt, Behind, Ended
  <1>6. StageInv'
    <2>1. Close => m_bIsUserAskForClosed' /\ upc # "idle"
      BY DEF Close
    <2> QED
      BY <1>1, <2>1 DEF QueueInvs, StageInv
  <1>7. EndInv'
    BY <1>1, <1>2 DEF QueueInvs, EndInv, Ended
  <1> QED
    BY <1>3, <1>4, <1>5, <1>6, <1>7 DEF QueueInvs

\* What the loop thread does without touching a queue.
LEMMA CallbacksQueue ==
    ASSUME Types, QueueInvs, AfterConnect \/ AfterRecv \/ WalkDone \/ RunReturns
    PROVE  LinkTypes' /\ FoundTypes' /\ QueueInvs'
  <1>1. /\ UNCHANGED <<next, prev, closed, found, renewed, aborted, upc, signalled,
                       m_bIsUserAskForClosed>>
        /\ lpc \in {"running", "walking"} /\ lpc' \in {"running", "returned"}
    BY DEF AfterConnect, Connected, AfterRecv, WalkDone, RunReturns, Running,
           queueVars, userVars, closeVars, histVars
  <1>2. LinkTypes' /\ FoundTypes' /\ WalkInv'
    BY <1>1 DEF Types, LinkTypes, FoundTypes, WalkInv
  <1>3. CASE AfterConnect
    <2>0. request /\ ~request'
      BY <1>3, Zenon DEF AfterConnect, Connected
    <2>1. /\ request /\ ~request' /\ lpc = "running" /\ lpc' = "running"
          /\ sock' = sock \/ (sock' \in {"up", "lost", "deaf", "failed"} /\ sock # "closing")
          /\ sock \in {"accepted", "dropped", "refused", "closing"}
      BY <1>3, <2>0 DEF AfterConnect, Connected, Running
    <2>2. m_bIsReconnecting' => m_bIsReconnecting
      BY <1>3, Zenon DEF AfterConnect, Connected, StopReconnect, recVars
    <2>3. timer' => timer \/ m_bIsReconnecting
      BY <1>3, Zenon DEF AfterConnect, Connected, StopReconnect, recVars
    <2>4. QueueInv'
      BY <1>1, <2>1, <2>2 DEF QueueInvs, QueueInv, QueueHead, LinksMade, LinksCut, LinksRenewed
    <2>5. StageInv' /\ EndInv'
      BY <1>1, <2>1, <2>2, <2>3 DEF QueueInvs, StageInv, EndInv, Ended
    <2> QED
      BY <1>2, <2>4, <2>5 DEF QueueInvs
  <1>4. CASE AfterRecv
    <2>1. /\ sock = "lost" /\ sock' = "closing" /\ lpc = "running"
          /\ UNCHANGED <<lpc, request, timer>>
      BY <1>4 DEF AfterRecv, Running
    <2>2. QueueInv'
      BY <1>1, <2>1 DEF QueueInvs, QueueInv, QueueHead, LinksMade, LinksCut, LinksRenewed
    <2>3. StageInv' /\ EndInv'
      BY <1>1, <2>1 DEF QueueInvs, StageInv, EndInv, Ended
    <2> QED
      BY <1>2, <2>2, <2>3 DEF QueueInvs
  <1>5. CASE WalkDone
    <2>1. /\ lpc = "walking" /\ next["walk"] = "walk" /\ lpc' = "running"
          /\ UNCHANGED <<sock, request, timer, m_bIsReconnecting>>
      BY <1>5 DEF WalkDone, First, recVars
    <2>2. found \in Walks /\ {"async", "recv"} \subseteq closed /\ Ended
      BY <2>1 DEF QueueInvs, WalkInv, WalkAt
    <2>3. ~m_bIsReconnecting /\ ~timer
      BY <2>1 DEF QueueInvs, EndInv, Types, FlagTypes
    <2>4. QueueInv' /\ StageInv'
      BY <1>1, <2>1, <2>2 DEF QueueInvs, QueueInv, StageInv
    <2>5. EndInv'
      BY <1>1, <2>1, <2>2, <2>3 DEF QueueInvs, EndInv, Ended
    <2> QED
      BY <1>2, <2>4, <2>5 DEF QueueInvs
  <1>6. CASE RunReturns
    <2>1. /\ lpc = "running" /\ closed # {} /\ lpc' = "returned"
          /\ UNCHANGED <<sock, request, timer, m_bIsReconnecting>>
      BY <1>6 DEF RunReturns, Running, recVars
    <2>2. QueueInv' /\ StageInv' /\ EndInv'
      BY <1>1, <2>1 DEF QueueInvs, QueueInv, StageInv, EndInv, Ended
    <2> QED
      BY <1>2, <2>2 DEF QueueInvs
  <1> QED
    BY <1>3, <1>4, <1>5, <1>6

LifeInv == Types /\ QueueInvs

\* The types, the links and the stages hold initially and each step keeps them.
LEMMA LifeInvariant == Spec => []LifeInv
  <1>1. Init => LifeInv
    <2> SUFFICES ASSUME Init PROVE LifeInv
      OBVIOUS
    <2>1. LinkTypes
      BY DEF Init, LinkTypes, NodeLinks
    <2>2. FlagTypes
      <3>1. TRUE \in BOOLEAN /\ FALSE \in BOOLEAN
        OBVIOUS
      <3> QED
        BY <3>1, Zenon DEF Init, FlagTypes
    <2>3. StateTypes /\ FoundTypes
      BY LifeAssumption DEF Init, StateTypes, FoundTypes, Status
    <2>4. QueueInvs
      BY DEF Init, QueueInvs, QueueInv, WalkInv, StageInv, EndInv
    <2> QED
      BY <2>1, <2>2, <2>3, <2>4 DEF LifeInv, Types
  <1>2. ASSUME LifeInv, [Next]_vars PROVE LifeInv'
    <2>1. FlagTypes' /\ StateTypes'
      BY <1>2, FlagTypesStep, StateTypesStep DEF LifeInv, Types
    <2>2. LinkTypes' /\ FoundTypes' /\ QueueInvs'
      BY <1>2, ConnectQueue, CloseQueue, RenewQueue, CloseInlQueue, WalkQueue, OthersQueue,
         CallbacksQueue DEF LifeInv, Next, AsyncCloseCB
    <2> QED
      BY <2>1, <2>2 DEF LifeInv, Types
  <1> QED
    BY <1>1, <1>2, PTL DEF Spec

\* Type correctness: in particular a request is there as long as its answer is
\* due, and the timer is started only while the client reconnects.
THEOREM LifeTypes == Spec => []TypeOK
  <1>1. LifeInv => TypeOK
    BY TypesMeanTypeOK DEF LifeInv
  <1> QED
    BY <1>1, LifeInvariant, PTL

\* The walk of closeinl meets no handle twice, and it closes both async handles
\* or none, whatever closing and initialising the copy did to the queue.
THEOREM WalkCorrect == Spec => []WalkSound
  <1>1. LifeInv => WalkSound
    <2> SUFFICES ASSUME LifeInv PROVE WalkSound
      OBVIOUS
    <2>1. found \in Walks \cup {<<>>, <<"async">>, <<"async", "recv", "tcp">>}
      <3>1. CASE upc = "idle" \/ (lpc # "walking" /\ closed # {})
        BY <3>1 DEF LifeInv, QueueInvs, StageInv
      <3>2. CASE upc # "idle" /\ lpc # "walking" /\ closed = {}
        BY <3>2 DEF LifeInv, QueueInvs, QueueInv, QueueHead
      <3>3. CASE lpc = "walking"
        BY <3>3 DEF LifeInv, QueueInvs, WalkInv, WalkAt, Walks
      <3> QED
        BY <3>1, <3>2, <3>3
    <2>2. IsInjective(found)
      BY <2>1 DEF Walks, IsInjective
    <2>3. lpc = "running" /\ "async" \in closed => "recv" \in closed
      BY DEF LifeInv, QueueInvs, StageInv
    <2> QED
      BY <2>2, <2>3 DEF WalkSound
  <1> QED
    BY <1>1, LifeInvariant, PTL

\* After the walk a client that has reconnected is closed or being closed, and
\* does not reconnect again.
RenewedIsClosed ==
    "async" \in closed /\ lpc # "walking" /\ renewed =>
        sock \in {"closing", "closed"} /\ ~timer /\ ~m_bIsReconnecting

\* Close ends with a closed connection once the client has reconnected: the walk
\* finds the copy that was renewed, unless it is being closed already.  This is
\* the safety part of LoopEnds.
THEOREM CloseComplete == Spec => []RenewedIsClosed
  <1>1. LifeInv => RenewedIsClosed
    BY DEF LifeInv, QueueInvs, EndInv, Ended, RenewedIsClosed
  <1> QED
    BY <1>1, LifeInvariant, PTL

\* A started timer that is closed makes libuv's assertion fail.
AbortsFirst == aborted => "timer" \in closed /\ ~renewed

\* The assertion of uv__handle_start fails, if ever, in a client that was closed
\* in its first connection, which the walk did not find: AfterClientClose starts
\* the timer that the walk has closed.
THEOREM AbortOnlyFirst == Spec => []AbortsFirst
  <1>1. LifeInv => AbortsFirst
    BY DEF LifeInv, QueueInvs, EndInv, AbortsFirst
  <1> QED
    BY <1>1, LifeInvariant, PTL
=============================================================================
