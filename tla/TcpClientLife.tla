--------------------------- MODULE TcpClientLife ---------------------------
(***************************************************************************)
(* The life of a CTCPClient's connection: Connect by the user's thread,    *)
(* which waits for the loop thread to report; the loss of the connection   *)
(* and the reconnect timer; Close, which asks the loop thread to close     *)
(* every handle that uv_walk finds.  What is sent is TcpClientSend's.      *)
(*                                                                         *)
(* CTCPHandle::init gives m_tcpHandle to the loop, and CTCPClient::init    *)
(* copies that struct into m_handleClient->tcphandle, which connects.  The *)
(* copy is not in the loop's handle_queue, although its own two links say  *)
(* so; the queue is therefore kept link by link.  With OnUnix, the copied  *)
(* watcher is taken for one that is already queued: uv__io_start and       *)
(* uv__io_feed leave it alone, and nothing is ever reported for it.        *)
(*                                                                         *)
(* One call of Connect: a second one would start a second thread on the    *)
(* same loop.  An attempt is answered before the timer, which repeats,     *)
(* comes again; else the request of the attempt would be used twice.       *)
(***************************************************************************)
EXTENDS SequencesExt, Naturals

CONSTANTS OnUnix,    \* the port of libuv: its unix or its win directory
          MaxFlap    \* bound: how often the server goes away or comes back, or
                     \* a call of libuv fails

ASSUME LifeAssumption == OnUnix \in BOOLEAN /\ MaxFlap \in Nat

\* What has links: the loop's queue, the queue that uv_walk has on its stack,
\* and the handles.  "copy" is m_handleClient->tcphandle.
Handle == {"async", "recv", "tcp", "timer", "copy"}
Node == Handle \cup {"loop", "walk"}

VARIABLES
    next, prev,          \* the links of the nodes
    listening,           \* the server accepts
    flaps,
    upc,                 \* the user's thread
    result,              \* what Connect returned
    m_nConnectStatus,
    m_bIsUserAskForClosed,
    signalled,           \* m_asyncHandle was sent to
    m_bIsReconnecting,
    data,                \* m_handleClient->tcphandle.data
    timer,               \* m_timerReconnet is started
    lpc,                 \* the thread that runs the loop
    sock,                \* the socket of the copy
    request,             \* m_connetcReq waits for its answer
    closeCb,             \* the copy's close callback is AfterClientClose
    closed,              \* the other handles that were closed
    confused,            \* AfterClientClose took a TcpClientCtx for a CTCPClient
    aborted,             \* an assertion of libuv failed
    found,               \* history: the handles that the walk found
    renewed,             \* history: the timer initialised the copy
    everUp               \* history: a connection was made

queueVars == <<next, prev>>
peerVars == <<listening, flaps>>
userVars == <<upc, result, m_bIsUserAskForClosed>>
recVars == <<m_bIsReconnecting, data, timer>>
closeVars == <<closeCb, closed, confused, aborted>>
histVars == <<found, renewed, everUp>>
vars == <<queueVars, peerVars, userVars, m_nConnectStatus, signalled, recVars,
          lpc, sock, request, closeVars, histVars>>

Init ==
    /\ next = [n \in Node |-> n]
    /\ prev = [n \in Node |-> n]
    /\ listening \in BOOLEAN
    /\ flaps = 0
    /\ upc = "idle"
    /\ result = FALSE
    /\ m_nConnectStatus = "CONNECT_DIS"
    /\ m_bIsUserAskForClosed = FALSE
    /\ signalled = FALSE
    /\ m_bIsReconnecting = FALSE
    /\ data = "ctx"
    /\ timer = FALSE
    /\ lpc = "none"
    /\ sock = "none"
    /\ request = FALSE
    /\ closeCb = FALSE
    /\ closed = {}
    /\ confused = FALSE
    /\ aborted = FALSE
    /\ found = <<>>
    /\ renewed = FALSE
    /\ everUp = FALSE

(***************************************************************************)
(* The macros of queue.h, on a record of links.                            *)
(***************************************************************************)
Links == [next |-> next, prev |-> prev]

\* QUEUE_INSERT_TAIL, in the order of its four assignments.
QueueInsertTail(q, h, n) ==
    [next |-> [q.next EXCEPT ![n] = h, ![q.prev[h]] = n],
     prev |-> [q.prev EXCEPT ![n] = q.prev[h], ![h] = n]]

\* QUEUE_REMOVE.
QueueRemove(q, n) ==
    LET n1 == [q.next EXCEPT ![q.prev[n]] = q.next[n]]
    IN [next |-> n1, prev |-> [q.prev EXCEPT ![n1[n]] = q.prev[n]]]

\* QUEUE_MOVE of a queue that is not empty: QUEUE_SPLIT at its first node.
QueueMove(q, h, n) ==
    LET f == q.next[h]
        p1 == [q.prev EXCEPT ![n] = q.prev[h]]
        n1 == [q.next EXCEPT ![p1[n]] = n]
        n2 == [n1 EXCEPT ![n] = f]
        p2 == [p1 EXCEPT ![h] = p1[f]]
        n3 == [n2 EXCEPT ![p2[h]] = h]
    IN [next |-> n3, prev |-> [p2 EXCEPT ![f] = n]]

SetLinks(q) == next' = q.next /\ prev' = q.prev

(***************************************************************************)
(* The user's thread.                                                      *)
(***************************************************************************)
\* init of both classes: the copy gets the links that m_tcpHandle has when it
\* is the last of the queue, before the timer is put behind it.
InitLinks ==
    LET tcp == QueueInsertTail(QueueInsertTail(QueueInsertTail(Links, "loop", "async"),
                                     "loop", "recv"), "loop", "tcp")
        copied == [next |-> [tcp.next EXCEPT !["copy"] = tcp.next["tcp"]],
                   prev |-> [tcp.prev EXCEPT !["copy"] = tcp.prev["tcp"]]]
    IN QueueInsertTail(copied, "loop", "timer")

\* closeinl returns at once, the handles are made and the connection is begun,
\* all before the thread exists that runs the loop.
Connect ==
    /\ upc = "idle"
    /\ SetLinks(InitLinks)
    /\ sock' = "pending"
    /\ request' = TRUE
    /\ lpc' = "running"
    /\ upc' = "waiting"
    /\ UNCHANGED <<peerVars, result, m_bIsUserAskForClosed, m_nConnectStatus, signalled,
                   recVars, closeVars, histVars>>

\* The loop of Connect sees the status change, or has slept a hundred times.
\* The test and the assignment are two steps: AfterConnect may come between.
ConnectWait ==
    /\ upc = "waiting"
    /\ upc' = IF m_nConnectStatus = "CONNECT_DIS" THEN "late" ELSE "judge"
    /\ UNCHANGED <<queueVars, peerVars, result, m_bIsUserAskForClosed, m_nConnectStatus,
                   signalled, recVars, lpc, sock, request, closeVars, histVars>>

ConnectTimeout ==
    /\ upc = "late"
    /\ upc' = "judge"
    /\ m_nConnectStatus' = "CONNECT_TIMEOUT"
    /\ UNCHANGED <<queueVars, peerVars, result, m_bIsUserAskForClosed, signalled,
                   recVars, lpc, sock, request, closeVars, histVars>>

\* A fault: any status but the first is taken for a connection.
ConnectReturnAny ==
    /\ upc = "judge"
    /\ upc' = "returned"
    /\ result' = (m_nConnectStatus # "CONNECT_DIS")
    /\ UNCHANGED <<queueVars, peerVars, m_bIsUserAskForClosed, m_nConnectStatus, signalled,
                   recVars, lpc, sock, request, closeVars, histVars>>

ConnectReturn ==
    /\ upc = "judge"
    /\ upc' = "returned"
    /\ result' = (m_nConnectStatus = "CONNECT_FINISH")
    /\ UNCHANGED <<queueVars, peerVars, m_bIsUserAskForClosed, m_nConnectStatus, signalled,
                   recVars, lpc, sock, request, closeVars, histVars>>

Close ==
    /\ upc = "returned"
    /\ ~m_bIsUserAskForClosed
    /\ m_bIsUserAskForClosed' = TRUE
    /\ signalled' = TRUE
    /\ UNCHANGED <<queueVars, peerVars, upc, result, m_nConnectStatus, recVars, lpc, sock,
                   request, closeVars, histVars>>

(***************************************************************************)
(* The server.                                                             *)
(***************************************************************************)
\* It begins or stops to listen, and loses its connections when it stops.
ServerFlaps ==
    /\ flaps < MaxFlap
    /\ flaps' = flaps + 1
    /\ listening' = ~listening
    /\ sock' = CASE sock = "up" -> "lost"
                 [] sock = "accepted" -> "dropped"
                 [] OTHER -> sock
    /\ UNCHANGED <<queueVars, userVars, m_nConnectStatus, signalled, recVars, lpc,
                   request, closeVars, histVars>>

\* It answers an attempt.
Answer ==
    /\ sock = "pending"
    /\ sock' = IF listening THEN "accepted" ELSE "refused"
    /\ UNCHANGED <<queueVars, peerVars, userVars, m_nConnectStatus, signalled, recVars, lpc,
                   request, closeVars, histVars>>

(***************************************************************************)
(* The callbacks of the loop thread.  Each is one step: none blocks, and   *)
(* the user's thread shares m_nConnectStatus alone.                        *)
(***************************************************************************)
Running == lpc = "running" /\ UNCHANGED <<peerVars, userVars>>

\* A fault: the timer goes on.
StopReconnectOnly ==
    /\ m_bIsReconnecting' = FALSE
    /\ data' = "ctx"
    /\ UNCHANGED timer

StopReconnect ==
    /\ m_bIsReconnecting' = FALSE
    /\ data' = "ctx"
    /\ timer' = FALSE

\* libuv reports nothing for a copied watcher on unix, but the end of a request
\* whose handle was closed.
Heard == ~OnUnix \/ sock = "closing"

\* The connection is made.  It is read from now on or, when uv_read_start fails,
\* stays open unread ("deaf"): the status is then an error, but the reconnection
\* counts as done.  The vendored uv_read_start has no error for this handle.
Connected ==
    /\ sock \in {"accepted", "dropped"}
    /\ everUp' = TRUE
    /\ IF m_bIsReconnecting THEN StopReconnect ELSE UNCHANGED recVars
    /\ \/ /\ sock' = IF sock = "accepted" THEN "up" ELSE "lost"
          /\ m_nConnectStatus' = "CONNECT_FINISH"
          /\ UNCHANGED flaps
       \/ /\ flaps < MaxFlap
          /\ flaps' = flaps + 1
          /\ sock' = "deaf"
          /\ m_nConnectStatus' = "CONNECT_ERROR"

\* A fault: the timer is not started again after an attempt that failed.
AfterConnectOnce ==
    /\ lpc = "running" /\ UNCHANGED <<userVars, listening>>
    /\ request /\ sock \in {"accepted", "dropped", "refused", "closing"}
    /\ Heard
    /\ request' = FALSE
    /\ \/ Connected
       \/ /\ sock \in {"refused", "closing"}
          /\ sock' = IF sock = "refused" THEN "failed" ELSE sock
          /\ m_nConnectStatus' = "CONNECT_ERROR"
          /\ timer' = FALSE
          /\ UNCHANGED <<flaps, everUp, m_bIsReconnecting, data>>
    /\ UNCHANGED <<queueVars, signalled, lpc, closeVars, found, renewed>>

\* A closed handle's attempt ends with an error, too.
AfterConnect ==
    /\ lpc = "running" /\ UNCHANGED <<userVars, listening>>
    /\ request /\ sock \in {"accepted", "dropped", "refused", "closing"}
    /\ Heard
    /\ request' = FALSE
    /\ \/ Connected
       \/ /\ sock \in {"refused", "closing"}
          /\ sock' = IF sock = "refused" THEN "failed" ELSE sock
          /\ m_nConnectStatus' = "CONNECT_ERROR"
          /\ timer' = (timer \/ m_bIsReconnecting)
          /\ UNCHANGED <<flaps, everUp, m_bIsReconnecting, data>>
    /\ UNCHANGED <<queueVars, signalled, lpc, closeVars, found, renewed>>

\* A fault: the reconnection is not announced to the close callback.
AfterRecvSilent ==
    /\ Running
    /\ sock = "lost" /\ Heard
    /\ m_bIsReconnecting' = TRUE
    /\ sock' = "closing"
    /\ closeCb' = TRUE
    /\ UNCHANGED <<queueVars, m_nConnectStatus, signalled, data, timer, lpc, request,
                   closed, confused, aborted, histVars>>

\* AfterRecv with an error: StartReconnect and uv_close.
AfterRecv ==
    /\ Running
    /\ sock = "lost" /\ Heard
    /\ m_bIsReconnecting' = TRUE
    /\ data' = "client"
    /\ sock' = "closing"
    /\ closeCb' = TRUE
    /\ UNCHANGED <<queueVars, m_nConnectStatus, signalled, timer, lpc, request,
                   closed, confused, aborted, histVars>>

\* The end of a close: the handle leaves the queue that its links name, and
\* AfterClientClose starts the timer.  Its data may by now be the TcpClientCtx,
\* which it takes for the client: what it reads there as m_handleClient is not
\* this handle.  On a closed timer the assertion of uv__handle_start fails.
\* (The other handles also leave their queue; nothing walks it again.)
AfterClientClose ==
    /\ Running
    /\ sock = "closing" /\ ~request
    /\ SetLinks(QueueRemove(Links, "copy"))
    /\ sock' = "closed"
    /\ confused' = (confused \/ (closeCb /\ data = "ctx"))
    /\ \/ /\ closeCb /\ data = "client" /\ m_bIsReconnecting
          /\ timer' = ("timer" \notin closed)
          /\ aborted' = ("timer" \in closed)
       \/ /\ ~(closeCb /\ data = "client" /\ m_bIsReconnecting)
          /\ UNCHANGED <<timer, aborted>>
    /\ UNCHANGED <<m_nConnectStatus, signalled, m_bIsReconnecting, data, lpc, request,
                   closeCb, closed, histVars>>

\* A fault: the handle is not initialised again.
ReconnectTimerNoInit ==
    /\ Running
    /\ timer /\ m_bIsReconnecting
    /\ sock \in {"closed", "failed"}
    /\ data' = "ctx"
    /\ sock' = "pending"
    /\ request' = TRUE
    /\ renewed' = TRUE
    /\ UNCHANGED <<queueVars, m_nConnectStatus, signalled, m_bIsReconnecting, timer, lpc,
                   closeVars, found, everUp>>

\* uv_tcp_init puts the handle at the end of the queue, also when it is there
\* already: after an attempt that failed it was not closed.
ReconnectTimer ==
    /\ Running
    /\ timer /\ m_bIsReconnecting
    /\ sock \in {"closed", "failed"}
    /\ SetLinks(QueueInsertTail(Links, "loop", "copy"))
    /\ data' = "ctx"
    /\ sock' = "pending"
    /\ request' = TRUE
    /\ renewed' = TRUE
    /\ UNCHANGED <<m_nConnectStatus, signalled, m_bIsReconnecting, timer, lpc,
                   closeVars, found, everUp>>

\* uv_tcp_connect fails at once: the handle is closed, with no callback, and
\* the timer goes on.
ReconnectFails ==
    /\ lpc = "running" /\ UNCHANGED <<userVars, listening>>
    /\ flaps < MaxFlap
    /\ flaps' = flaps + 1
    /\ timer /\ m_bIsReconnecting
    /\ sock \in {"closed", "failed"}
    /\ SetLinks(QueueInsertTail(Links, "loop", "copy"))
    /\ data' = "ctx"
    /\ sock' = "closing"
    /\ closeCb' = FALSE
    /\ renewed' = TRUE
    /\ UNCHANGED <<m_nConnectStatus, signalled, m_bIsReconnecting, timer, lpc, request,
                   closed, confused, aborted, found, everUp>>

\* AsyncCloseCB after Close: closeinl stops the timer, and uv_walk begins by
\* moving all handles to a queue of its own.
CloseInl ==
    /\ Running
    /\ signalled /\ "async" \notin closed
    /\ signalled' = FALSE
    /\ StopReconnect
    /\ SetLinks(QueueMove(Links, "loop", "walk"))
    /\ lpc' = "walking"
    /\ UNCHANGED <<m_nConnectStatus, sock, request, closeVars, histVars>>

First == next["walk"]

\* A fault: the handle is not taken out of uv_walk's queue.
WalkHandleStays ==
    /\ lpc = "walking" /\ UNCHANGED <<peerVars, userVars>>
    /\ First # "walk"
    /\ SetLinks(QueueInsertTail(Links, "loop", First))
    /\ found' = Append(found, First)
    /\ closed' = IF First = "copy" THEN closed ELSE closed \cup {First}
    /\ UNCHANGED <<m_nConnectStatus, signalled, recVars, lpc, request, sock, closeCb,
                   confused, aborted, renewed, everUp>>

\* The first handle goes back to the loop's queue, and CloseWalkCB closes it
\* unless it is being closed.
WalkHandle ==
    /\ lpc = "walking" /\ UNCHANGED <<peerVars, userVars>>
    /\ First # "walk"
    /\ SetLinks(QueueInsertTail(QueueRemove(Links, First), "loop", First))
    /\ found' = Append(found, First)
    /\ \/ /\ First = "copy" /\ sock \notin {"closing", "closed"}
          /\ sock' = "closing"
          /\ closeCb' = TRUE
          /\ UNCHANGED closed
       \/ /\ First # "copy"
          /\ closed' = closed \cup {First}
          /\ UNCHANGED <<sock, closeCb>>
       \/ /\ First = "copy" /\ sock \in {"closing", "closed"}
          /\ UNCHANGED <<sock, closeCb, closed>>
    /\ UNCHANGED <<m_nConnectStatus, signalled, recVars, lpc, request,
                   confused, aborted, renewed, everUp>>

WalkDone ==
    /\ lpc = "walking" /\ UNCHANGED <<peerVars, userVars>>
    /\ First = "walk"
    /\ lpc' = "running"
    /\ UNCHANGED <<queueVars, m_nConnectStatus, signalled, recVars, sock, request, closeVars,
                   histVars>>

AsyncCloseCB == CloseInl \/ WalkHandle \/ WalkDone

\* uv_run returns when no handle is active: an idle m_tcpHandle, or a socket
\* that failed or is not read, does not count.
RunReturns ==
    /\ Running
    /\ {"async", "recv"} \subseteq closed
    /\ ~timer
    /\ sock \in {"failed", "deaf", "closed"}
    /\ lpc' = "returned"
    /\ UNCHANGED <<queueVars, m_nConnectStatus, signalled, recVars, sock, request, closeVars,
                   histVars>>

Next ==
    /\ ~aborted
    /\ \/ Connect \/ ConnectWait \/ ConnectTimeout \/ ConnectReturn \/ Close
       \/ ServerFlaps \/ Answer
       \/ AfterConnect \/ AfterRecv \/ AfterClientClose
       \/ ReconnectTimer \/ ReconnectFails \/ AsyncCloseCB \/ RunReturns

Spec == Init /\ [][Next]_vars

(***************************************************************************)
(* Both threads run, and the loop calls back for whatever stays due.  An   *)
(* attempt is answered in the end.  Nobody has to call Close.              *)
(***************************************************************************)
Fairness ==
    /\ WF_vars(~aborted /\ (ConnectWait \/ ConnectTimeout \/ ConnectReturn))
    /\ WF_vars(~aborted /\ Answer)
    /\ WF_vars(~aborted /\ AfterConnect)
    /\ WF_vars(~aborted /\ AfterRecv)
    /\ WF_vars(~aborted /\ AfterClientClose)
    /\ WF_vars(~aborted /\ (ReconnectTimer \/ ReconnectFails))
    /\ WF_vars(~aborted /\ AsyncCloseCB)
    /\ WF_vars(~aborted /\ RunReturns)

FairSpec == Spec /\ Fairness

(***************************************************************************)
(* Properties.                                                             *)
(***************************************************************************)
Status == {"CONNECT_DIS", "CONNECT_TIMEOUT", "CONNECT_FINISH", "CONNECT_ERROR"}

\* The types; a request is there as long as its answer is due, and the timer is
\* started only while the client reconnects.
TypeOK ==
    /\ next \in [Node -> Node] /\ prev \in [Node -> Node]
    /\ {listening, result, m_bIsUserAskForClosed, signalled, m_bIsReconnecting, timer,
        request, closeCb, confused, aborted, renewed, everUp} \subseteq BOOLEAN
    /\ flaps \in 0..MaxFlap
    /\ upc \in {"idle", "waiting", "late", "judge", "returned"}
    /\ m_nConnectStatus \in Status
    /\ data \in {"ctx", "client"}
    /\ lpc \in {"none", "running", "walking", "returned"}
    /\ sock \in {"none", "pending", "accepted", "dropped", "refused", "up", "lost",
                 "deaf", "failed", "closing", "closed"}
    /\ sock \in {"pending", "accepted", "dropped", "refused"} => request
    /\ timer => m_bIsReconnecting
    /\ closed \subseteq Handle \ {"copy"}
    /\ found \in Seq(Handle)

\* Connect returns true only if the connection was made, however the timeout,
\* the answer of the server and its report interleave.
TrueMeansConnected == result => everUp

\* The walk of closeinl meets no handle twice and finds both async handles,
\* although the handle that reconnects is taken out of a queue that it was not
\* in and put into one that it is in already.
WalkSound ==
    /\ IsInjective(found)
    /\ lpc = "running" /\ "async" \in closed => "recv" \in closed

\* tcphandle.data is what the next callback takes it for: the TcpClientCtx for
\* those of the connection, the client for the close callback after a loss.
\* Only Close can make them disagree, or have a closed timer started.
DataFits ==
    ~m_bIsUserAskForClosed =>
       /\ ~confused /\ ~aborted
       /\ sock \in {"pending", "accepted", "dropped", "refused", "up", "lost", "deaf"} => data = "ctx"
       /\ sock = "closing" /\ closeCb => data = "client" /\ m_bIsReconnecting

\* A client that lost its connection gets it back when the server listens again
\* and the client is not closed, after any number of attempts that fail.  It may
\* be one that is not read, whose next loss nobody will notice.
Reconnects ==
    <>[](listening /\ ~m_bIsUserAskForClosed) =>
        (m_bIsReconnecting ~> sock \in {"up", "deaf"})

\* Close ends the loop once the connection was lost: from then on the handle is
\* closed, or one that the walk finds.  A first connection the walk never finds.
LoopEnds ==
    m_bIsUserAskForClosed /\ signalled /\ (m_bIsReconnecting \/ renewed)
        ~> lpc = "returned"

\* tcpclient.h: Connect connects the server.  A connection that the server has
\* accepted is reported to the client.
AcceptedIsReported == sock = "accepted" ~> m_nConnectStatus = "CONNECT_FINISH"
=============================================================================
