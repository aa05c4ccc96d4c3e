----------------------------- MODULE TcpServer -----------------------------
(***************************************************************************)
(* CTCPServer and AcceptClient on a libuv loop: starting, accepting,       *)
(* receiving, replying, the closing of a client and of the server, and the *)
(* pools of client contexts and write requests.                            *)
(*                                                                         *)
(* The user's thread calls Start and Close; the loop thread runs every     *)
(* callback.  A round of uv_run polls for events and calls their callbacks *)
(* ("poll"), then finishes the handles whose uv_close was called, the last *)
(* one first ("closing").  A callback is one step unless it has to lock    *)
(* m_mutexClients: then it waits at a program point of its own.            *)
(*                                                                         *)
(* External calls that cannot fail here are taken to succeed: uv_tcp_init, *)
(* and uv_accept, which is only called with a connection at hand.          *)
(***************************************************************************)
EXTENDS SequencesExt

CONSTANTS Ctx,          \* bound: the addresses a TcpClientCtx can have
          MAXLISTSIZE,  \* beyond it a context or a request is freed, not kept
          MaxConn,      \* bound: the connections made to the server
          MaxStart,     \* bound: the calls of Start
          MaxReply,     \* bound: the replies that are not finished
          MaxPost       \* bound: the calls of SendUvMessage2Handle

ASSUME ServerAssumption ==
    /\ Ctx \subseteq Nat \ {0} /\ IsFiniteSet(Ctx)
    /\ {MAXLISTSIZE, MaxConn, MaxStart, MaxReply, MaxPost} \subseteq Nat

Nobody == "nobody"
Loop == "loop"
Null == 0

VARIABLES
    m_bIsClosed,
    m_bIsUserAskForClosed,
    m_nStartsSatus,       \* CONNECT_DIS, CONNECT_FINISH or CONNECT_TIMEOUT
    m_mutexClients,       \* the holder of the mutex
    m_mapClientsList,     \* the client ids in the map
    m_listAvaiTcpHandle,  \* the contexts kept for reuse
    m_listWriteParam,     \* how many write requests are kept for reuse
    upc,                  \* where the user's thread is in Start
    starts,               \* how often it has called it
    lpc,                  \* where the loop thread is
    leaving,              \* a loop thread that has still to reset the flag
    srv,                  \* the server's own handles: none, open or closing
    pending,              \* m_asyncHandle was signalled
    posted,               \* m_asyncHandleForRecvMsg was signalled
    posts,                \* how often
    backlog,              \* connections that wait to be accepted
    s_id,                 \* the last client id
    ctxOf,                \* AcceptClient::m_pClientHandle of every client
    cur,                  \* the client a callback works on
    handle,               \* the uv_tcp_t of every context: none, open or closing
    inflight,             \* its write requests that are not finished
    closing,              \* the handles to finish, the next one first
    aborted               \* an assertion of libuv has failed

flags == <<m_bIsClosed, m_bIsUserAskForClosed, m_nStartsSatus>>
userVars == <<upc, starts>>
ctl == <<flags, userVars, m_mutexClients, leaving, aborted>>
srvVars == <<srv, pending, posted, posts, backlog>>
clientVars == <<m_mapClientsList, s_id, ctxOf, cur>>
ctxVars == <<m_listAvaiTcpHandle, handle>>
writeVars == <<m_listWriteParam, inflight>>
vars == <<ctl, srvVars, lpc, clientVars, ctxVars, writeVars, closing>>

Id == 1..MaxConn

Init ==
    /\ m_bIsClosed = TRUE
    /\ m_bIsUserAskForClosed = FALSE
    /\ m_nStartsSatus = "DIS"
    /\ m_mutexClients = Nobody
    /\ m_mapClientsList = {}
    /\ m_listAvaiTcpHandle = <<>>
    /\ m_listWriteParam = 0
    /\ upc = "out"
    /\ starts = 0
    /\ lpc = "none"
    /\ leaving = FALSE
    /\ srv = "none"
    /\ pending = FALSE
    /\ posted = FALSE
    /\ posts = 0
    /\ backlog = 0
    /\ s_id = 0
    /\ ctxOf = [i \in Id |-> Null]
    /\ cur = Null
    /\ handle = [c \in Ctx |-> "none"]
    /\ inflight = [c \in Ctx |-> 0]
    /\ closing = <<>>
    /\ aborted = FALSE

(***************************************************************************)
(* The user's thread.                                                      *)
(***************************************************************************)
\* closeinl returns at once, init opens the handles, bind and listen follow,
\* and the loop thread is created.  Start is not called on a server that
\* runs, and its bind succeeds.
Start ==
    /\ upc = "out" /\ starts < MaxStart
    /\ m_bIsClosed
    /\ m_bIsClosed' = FALSE
    /\ srv' = "open"
    /\ lpc' = "start"
    /\ pending' = FALSE /\ posted' = FALSE
    /\ upc' = "wait"
    /\ starts' = starts + 1
    /\ UNCHANGED <<clientVars, ctxVars, writeVars, m_bIsUserAskForClosed,
                   m_nStartsSatus, m_mutexClients, leaving, posts, backlog, closing,
                   aborted>>

\* The loop on m_nStartsSatus; after a hundred sleeps it is overwritten.
StartWait ==
    /\ \/ /\ upc = "wait" /\ m_nStartsSatus # "DIS"
          /\ upc' = "out"
          /\ UNCHANGED m_nStartsSatus
       \/ /\ upc = "wait" /\ m_nStartsSatus = "DIS"
          /\ upc' = "timeout"
          /\ UNCHANGED m_nStartsSatus
       \/ /\ upc = "timeout"
          /\ m_nStartsSatus' = "TIMEOUT"
          /\ upc' = "out"
    /\ UNCHANGED <<srvVars, clientVars, ctxVars, writeVars, m_bIsClosed,
                   m_bIsUserAskForClosed, m_mutexClients, starts, lpc, leaving, closing,
                   aborted>>

Close ==
    /\ upc = "out"
    /\ ~m_bIsClosed
    /\ m_bIsUserAskForClosed' = TRUE
    /\ pending' = TRUE
    /\ UNCHANGED <<userVars, clientVars, ctxVars, writeVars, m_bIsClosed,
                   m_nStartsSatus, m_mutexClients, lpc, leaving, srv, posted, posts,
                   backlog, closing, aborted>>

\* CUVThreadMng::SendUvMessage2Handle, from a CUVThread.
SendUvMessage2Handle ==
    /\ srv = "open" /\ posts < MaxPost
    /\ posts' = posts + 1
    /\ posted' = TRUE
    /\ UNCHANGED <<ctl, clientVars, ctxVars, writeVars, lpc, srv, pending, backlog,
                   closing>>

\* A peer connects; bound: not before Start has returned, whose wait shares
\* nothing with the callbacks but m_nStartsSatus.
Connect ==
    /\ srv = "open" /\ upc = "out"
    /\ s_id + backlog < MaxConn
    /\ backlog' = backlog + 1
    /\ UNCHANGED <<ctl, clientVars, ctxVars, writeVars, lpc, srv, pending, posted,
                   posts, closing>>

(***************************************************************************)
(* StartThread.                                                            *)
(***************************************************************************)
ThreadBegin ==
    /\ lpc = "start"
    /\ m_nStartsSatus' = "FINISH"
    /\ lpc' = "poll"
    /\ UNCHANGED <<userVars, srvVars, clientVars, ctxVars, writeVars, m_bIsClosed,
                   m_bIsUserAskForClosed, m_mutexClients, leaving, closing, aborted>>

\* A fault: the flag that IsClosed reads is not set.
ThreadClosedSilent ==
    /\ lpc = "exit"
    /\ leaving' = TRUE
    /\ lpc' = "none"
    /\ UNCHANGED <<flags, userVars, srvVars, clientVars, ctxVars, writeVars,
                   m_mutexClients, closing, aborted>>

\* uv_run has returned: first this flag is set, ...
ThreadClosed ==
    /\ lpc = "exit"
    /\ m_bIsClosed' = TRUE
    /\ leaving' = TRUE
    /\ lpc' = "none"
    /\ UNCHANGED <<userVars, srvVars, clientVars, ctxVars, writeVars,
                   m_bIsUserAskForClosed, m_nStartsSatus, m_mutexClients, closing,
                   aborted>>

\* ... then that one, when the user may have started the server again.
ThreadEnd ==
    /\ leaving
    /\ leaving' = FALSE
    /\ m_bIsUserAskForClosed' = FALSE
    /\ UNCHANGED <<userVars, srvVars, clientVars, ctxVars, writeVars, m_bIsClosed,
                   m_nStartsSatus, m_mutexClients, lpc, closing, aborted>>

(***************************************************************************)
(* The callbacks of a poll.                                                *)
(***************************************************************************)
\* Whatever has been allocated: kept, held by a client, or being closed.
Kept == Range(m_listAvaiTcpHandle)
Free == {c \in Ctx : c \notin Kept /\ handle[c] = "none"
                     /\ \A i \in Id : i \in m_mapClientsList \/ i = cur => ctxOf[i] # c}

\* A fault: the context that is used again stays in the list.
TakeCtxKept(c) ==
    /\ c = IF m_listAvaiTcpHandle # <<>> THEN Head(m_listAvaiTcpHandle) ELSE Min(Free)
    /\ UNCHANGED m_listAvaiTcpHandle

\* c is the first context of the list, or a new one.
TakeCtx(c) ==
    \/ /\ m_listAvaiTcpHandle # <<>> /\ c = Head(m_listAvaiTcpHandle)
       /\ m_listAvaiTcpHandle' = Tail(m_listAvaiTcpHandle)
    \/ /\ m_listAvaiTcpHandle = <<>> /\ Free # {} /\ c = Min(Free)
       /\ UNCHANGED m_listAvaiTcpHandle

\* AcceptConnection up to the lock.  A context that is reused keeps its
\* CPacketSync as it is: Start sets the head and the tail of packets only.
AcceptConnection ==
    /\ lpc = "poll"
    /\ srv = "open" /\ backlog > 0
    /\ backlog' = backlog - 1
    /\ s_id' = s_id + 1
    /\ \E c \in Ctx :
          /\ TakeCtx(c)
          \* uv_read_start succeeds, or the handle is closed again.
          /\ \/ /\ handle' = [handle EXCEPT ![c] = "open"]
                /\ ctxOf' = [ctxOf EXCEPT ![s_id'] = c]
                /\ cur' = s_id'
                /\ lpc' = "accept_lock"
                /\ UNCHANGED closing
             \/ /\ handle' = [handle EXCEPT ![c] = "closing"]
                /\ closing' = <<<<"recycle", c>>>> \o closing
                /\ UNCHANGED <<ctxOf, cur, lpc>>
    /\ UNCHANGED <<ctl, writeVars, srv, pending, posted, posts, m_mapClientsList>>

\* A fault: the new AcceptClient is not put into the map.
AcceptForget ==
    /\ lpc = "accept_lock"
    /\ m_mutexClients = Nobody
    /\ cur' = Null
    /\ lpc' = "poll"
    /\ UNCHANGED <<ctl, srvVars, ctxVars, writeVars, m_mapClientsList, s_id, ctxOf, closing>>

\* Lock, insert the new AcceptClient, unlock.
AcceptInsert ==
    /\ lpc = "accept_lock"
    /\ m_mutexClients = Nobody
    /\ m_mapClientsList' = m_mapClientsList \cup {cur}
    /\ cur' = Null
    /\ lpc' = "poll"
    /\ UNCHANGED <<ctl, srvVars, ctxVars, writeVars, s_id, ctxOf, closing>>

\* How many requests are kept when sendinl takes one; a fault: from an empty
\* list, too.
KeptLessOne == m_listWriteParam - 1
KeptLess == IF m_listWriteParam = 0 THEN 0 ELSE m_listWriteParam - 1

\* A request is taken and given to libuv.  When uv_write fails it is put back,
\* with no look at the limit.
sendinl(c) ==
    \/ /\ FoldFunction(+, 0, inflight) < MaxReply
       /\ inflight' = [inflight EXCEPT ![c] = @ + 1]
       /\ m_listWriteParam' = KeptLess
    \/ /\ m_listWriteParam' = KeptLess + 1
       /\ UNCHANGED inflight

\* Data of client i: its handlers may reply with SendUvMessage.  The parser
\* of the packets is PacketSync; it stays in the context.
AfterRecv(i) ==
    LET c == ctxOf[i] IN
    /\ lpc = "poll"
    /\ i \in m_mapClientsList /\ handle[c] = "open"
    /\ UNCHANGED writeVars \/ sendinl(c)
    /\ UNCHANGED <<ctl, srvVars, clientVars, lpc, m_listAvaiTcpHandle, handle, closing>>

\* How many requests are kept when n more are given back.
Keep(n) == LET room == IF m_listWriteParam > MAXLISTSIZE
                       THEN 0 ELSE MAXLISTSIZE + 1 - m_listWriteParam
           IN  m_listWriteParam + (IF n <= room THEN n ELSE room)

AfterSend(c) ==
    /\ lpc = "poll"
    /\ handle[c] = "open" /\ inflight[c] > 0
    /\ inflight' = [inflight EXCEPT ![c] = @ - 1]
    /\ m_listWriteParam' = Keep(1)
    /\ UNCHANGED <<ctl, srvVars, clientVars, ctxVars, lpc, closing>>

\* A fault: the client is taken from the map before its handle is closed.
AfterRecvErase(i) ==
    LET c == ctxOf[i] IN
    /\ lpc = "poll"
    /\ i \in m_mapClientsList /\ handle[c] = "open"
    /\ handle' = [handle EXCEPT ![c] = "closing"]
    /\ closing' = <<<<"client", i>>>> \o closing
    /\ m_mapClientsList' = m_mapClientsList \ {i}
    /\ UNCHANGED <<ctl, srvVars, s_id, ctxOf, cur, writeVars, lpc, m_listAvaiTcpHandle>>

\* Error or end of file: AcceptClient::Close.
AfterRecvEof(i) ==
    LET c == ctxOf[i] IN
    /\ lpc = "poll"
    /\ i \in m_mapClientsList /\ handle[c] = "open"
    /\ handle' = [handle EXCEPT ![c] = "closing"]
    /\ closing' = <<<<"client", i>>>> \o closing
    /\ UNCHANGED <<ctl, srvVars, clientVars, writeVars, lpc, m_listAvaiTcpHandle>>

AsyncCloseCB ==
    /\ lpc = "poll"
    /\ srv = "open" /\ pending
    /\ pending' = FALSE
    /\ lpc' = IF m_bIsUserAskForClosed /\ ~m_bIsClosed THEN "close_lock" ELSE "poll"
    /\ UNCHANGED <<ctl, clientVars, ctxVars, writeVars, srv, posted, posts, backlog,
                   closing>>

\* closeinl: it locks the mutex and never unlocks it, closes every client of
\* the map and then every other handle of the loop.  A handle that is being
\* closed already makes uv_close fail its assertion.
CloseInl ==
    LET isOpen(i) == handle[ctxOf[i]] = "open" IN
    /\ lpc = "close_lock"
    /\ m_mutexClients = Nobody
    /\ m_mutexClients' = Loop
    /\ lpc' = "poll"
    /\ \/ /\ \A i \in m_mapClientsList : isOpen(i)
          /\ handle' = [c \in Ctx |-> IF \E i \in m_mapClientsList : ctxOf[i] = c
                                      THEN "closing" ELSE handle[c]]
          /\ \E clients \in [1..Cardinality(m_mapClientsList) -> m_mapClientsList] :
                \* in the order of the map, the last one first
                /\ \A j, k \in DOMAIN clients : j < k => clients[j] > clients[k]
                /\ closing' = <<<<"server", Null>>>>
                              \o [k \in DOMAIN clients |-> <<"client", clients[k]>>] \o closing
          /\ srv' = "closing"
          /\ backlog' = 0
          /\ UNCHANGED aborted
       \/ /\ \E i \in m_mapClientsList : ~isOpen(i)
          /\ aborted' = TRUE
          /\ UNCHANGED <<handle, closing, srv, backlog>>
    /\ UNCHANGED <<flags, userVars, clientVars, writeVars, leaving, pending, posted,
                   posts, m_listAvaiTcpHandle>>

\* The other async callback: DispatchThreadMsg, which never returns.
AsyncRecvMsg ==
    /\ lpc = "poll"
    /\ srv = "open" /\ posted
    /\ posted' = FALSE
    /\ lpc' = "DispatchThreadMsg"
    /\ UNCHANGED <<ctl, clientVars, ctxVars, writeVars, srv, pending, posts, backlog,
                   closing>>

(***************************************************************************)
(* The end of a round of uv_run.                                           *)
(***************************************************************************)
\* The list to finish is taken: there is something to finish.
EndPoll ==
    /\ lpc = "poll"
    /\ closing # <<>>
    /\ lpc' = "closing"
    /\ UNCHANGED <<ctl, srvVars, clientVars, ctxVars, writeVars, closing>>

\* The server's own handles: AfterServerClose only prints.
AfterServerClose ==
    /\ lpc = "closing"
    /\ closing # <<>> /\ Head(closing)[1] = "server"
    /\ closing' = Tail(closing)
    /\ srv' = "none"
    /\ UNCHANGED <<ctl, clientVars, ctxVars, writeVars, lpc, pending, posted, posts,
                   backlog>>

\* Give a context back to the list, or free it.
Recycle(c) ==
    m_listAvaiTcpHandle' = IF Len(m_listAvaiTcpHandle) > MAXLISTSIZE
                           THEN m_listAvaiTcpHandle ELSE Append(m_listAvaiTcpHandle, c)

RecycleTcpHandle ==
    /\ lpc = "closing"
    /\ closing # <<>> /\ Head(closing)[1] = "recycle"
    /\ closing' = Tail(closing)
    /\ handle' = [handle EXCEPT ![Head(closing)[2]] = "none"]
    /\ Recycle(Head(closing)[2])
    /\ UNCHANGED <<ctl, srvVars, clientVars, writeVars, lpc>>

\* The unfinished writes are cancelled, and AcceptClient::AfterClientClose
\* calls SubClientClosed, which has to lock the mutex.
AfterClientClose ==
    /\ lpc = "closing"
    /\ closing # <<>> /\ Head(closing)[1] = "client"
    /\ closing' = Tail(closing)
    /\ LET c == ctxOf[Head(closing)[2]] IN
       /\ handle' = [handle EXCEPT ![c] = "none"]
       /\ inflight' = [inflight EXCEPT ![c] = 0]
       /\ m_listWriteParam' = Keep(inflight[c])
    /\ cur' = Head(closing)[2]
    /\ lpc' = "SubClientClosed"
    /\ UNCHANGED <<ctl, srvVars, m_mapClientsList, s_id, ctxOf, m_listAvaiTcpHandle>>

\* A fault: the client stays in the map.
SubClientKept ==
    /\ lpc = "SubClientClosed"
    /\ m_mutexClients = Nobody
    /\ cur' = Null
    /\ lpc' = "closing"
    /\ UNCHANGED <<ctl, srvVars, ctxVars, writeVars, m_mapClientsList, s_id, ctxOf, closing>>

\* Lock, recycle the context, delete the AcceptClient, unlock.
SubClientClosed ==
    /\ lpc = "SubClientClosed"
    /\ m_mutexClients = Nobody
    /\ IF cur \in m_mapClientsList
       THEN /\ Recycle(ctxOf[cur])
            /\ m_mapClientsList' = m_mapClientsList \ {cur}
            /\ ctxOf' = [ctxOf EXCEPT ![cur] = Null]
       ELSE UNCHANGED <<m_listAvaiTcpHandle, m_mapClientsList, ctxOf>>
    /\ cur' = Null
    /\ lpc' = "closing"
    /\ UNCHANGED <<ctl, srvVars, writeVars, s_id, handle, closing>>

\* uv_run goes on while a handle is open, else it returns.
EndRound ==
    /\ lpc = "closing"
    /\ closing = <<>>
    /\ lpc' = IF srv = "none" /\ \A c \in Ctx : handle[c] = "none" THEN "exit" ELSE "poll"
    /\ UNCHANGED <<ctl, srvVars, clientVars, ctxVars, writeVars, closing>>

Closings == AfterServerClose \/ RecycleTcpHandle \/ AfterClientClose \/ SubClientClosed \/ EndRound

Next ==
    /\ ~aborted
    /\ \/ Start \/ StartWait \/ Close \/ SendUvMessage2Handle \/ Connect
       \/ ThreadBegin \/ ThreadClosed \/ ThreadEnd
       \/ AcceptConnection \/ AcceptInsert
       \/ \E i \in Id : AfterRecv(i) \/ AfterRecvEof(i)
       \/ \E c \in Ctx : AfterSend(c)
       \/ AsyncCloseCB \/ CloseInl \/ AsyncRecvMsg
       \/ EndPoll \/ Closings

Spec == Init /\ [][Next]_vars

(***************************************************************************)
(* The loop thread runs, and a poll calls back for everything that is due: *)
(* no event is put off for ever by others.  Peers and users need not act.  *)
(***************************************************************************)
Fairness ==
    /\ WF_vars(~aborted /\ (ThreadBegin \/ ThreadClosed))
    /\ WF_vars(~aborted /\ ThreadEnd)
    /\ WF_vars(~aborted /\ (AcceptInsert \/ CloseInl \/ Closings))
    /\ WF_vars(~aborted /\ StartWait)
    /\ SF_vars(~aborted /\ AcceptConnection)
    /\ SF_vars(~aborted /\ AsyncCloseCB)
    /\ SF_vars(~aborted /\ AsyncRecvMsg)
    /\ SF_vars(~aborted /\ EndPoll)

FairSpec == Spec /\ Fairness

(***************************************************************************)
(* Properties.                                                             *)
(***************************************************************************)
\* The types, and the limits of both pools, which the test with > makes one more.
TypeOK ==
    /\ {m_bIsClosed, m_bIsUserAskForClosed, leaving, pending, posted, aborted} \subseteq BOOLEAN
    /\ m_nStartsSatus \in {"DIS", "FINISH", "TIMEOUT"}
    /\ m_mutexClients \in {Nobody, Loop}
    /\ m_mapClientsList \subseteq Id
    /\ m_listAvaiTcpHandle \in Seq(Ctx) /\ Len(m_listAvaiTcpHandle) <= MAXLISTSIZE + 1
    /\ m_listWriteParam \in 0..MAXLISTSIZE + 1
    /\ upc \in {"out", "wait", "timeout"} /\ starts \in 0..MaxStart
    /\ lpc \in {"none", "start", "poll", "accept_lock", "close_lock", "closing",
                "SubClientClosed", "DispatchThreadMsg", "exit"}
    /\ srv \in {"none", "open", "closing"}
    /\ posts \in 0..MaxPost /\ backlog \in 0..MaxConn /\ s_id \in 0..MaxConn
    /\ ctxOf \in [Id -> Ctx \cup {Null}] /\ cur \in Id \cup {Null}
    /\ handle \in [Ctx -> {"none", "open", "closing"}]
    /\ inflight \in [Ctx -> Nat]
    /\ closing \in Seq({"server", "recycle", "client"} \X (Id \cup Ctx \cup {Null}))

\* The clients whose AcceptClient exists.
Clients == m_mapClientsList \cup IF lpc = "accept_lock" THEN {cur} ELSE {}

\* A context serves one client at a time: it is never in the list of free
\* contexts while a client or a handle still uses it, nor twice in the list.
CtxOwned ==
    /\ IsInjective(m_listAvaiTcpHandle)
    /\ \A i, j \in Clients : ctxOf[i] = ctxOf[j] => i = j
    /\ \A c \in Kept : handle[c] = "none" /\ \A i \in Clients : ctxOf[i] # c

\* A client has a handle that is open or being closed until its close callback
\* has run, and every open handle has a client: no connection is orphaned.
ClientsHaveHandles ==
    /\ \A i \in Clients : handle[ctxOf[i]] = "none" => lpc = "SubClientClosed" /\ cur = i
    /\ \A c \in Ctx : handle[c] = "open" => \E i \in Clients : ctxOf[i] = c

\* AfterSend finds the context of its request: it is neither freed nor reused
\* while a write to it is not finished.
WritesHaveContext ==
    \A c \in Ctx : inflight[c] > 0 => handle[c] # "none" /\ \E i \in Clients : ctxOf[i] = c

\* A client whose connection ends leaves the map, and its context is recycled,
\* while nobody asks to close the server and no message is sent to its handle.
ClosedClientLeaves ==
    \A i \in Id :
        i \in m_mapClientsList /\ handle[ctxOf[i]] = "closing"
            ~> (i \notin m_mapClientsList \/ m_bIsUserAskForClosed \/ lpc = "DispatchThreadMsg"
                \/ m_mutexClients = Loop)

\* A server that is closed with no client left does come to be closed.
IdleServerCloses ==
    srv = "closing" /\ m_mapClientsList = {} ~> m_bIsClosed

\* tcpserver.h: Close sends the close command, IsClosed tells when it is closed.
CloseCompletes == m_bIsUserAskForClosed ~> m_bIsClosed
=============================================================================
