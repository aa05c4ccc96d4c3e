--------------------------- MODULE TcpClientSend ---------------------------
(***************************************************************************)
(* How a CTCPClient sends.  Any thread calls Send, which copies the bytes  *)
(* into the ring m_buferWrite under m_mutexClients, sleeping and trying    *)
(* again while they do not fit, and wakes the loop with uv_async_send      *)
(* before the first and after the last write.  The loop thread moves the   *)
(* ring into uv_write requests from three callbacks: the async one, the    *)
(* one of a finished write and the one of received data.                   *)
(*                                                                         *)
(* The ring is the queue of BoundedFifo, which PodCircularBuffer           *)
(* implements.  Its capacity and the length of a write_param are both      *)
(* BUFFER_SIZE.  How a lost connection comes back is not modelled here:    *)
(* it is down, and up again some time after its writes were cancelled.     *)
(***************************************************************************)
EXTENDS SequencesExt

CONSTANTS Sender,       \* the threads that call Send
          MsgLen,       \* the lengths they send
          BUFFER_SIZE,  \* the capacity of the ring and of a write_param
          MAXLISTSIZE,  \* beyond it a write_param is freed, not recycled
          Param,        \* bound: the addresses a write_param can have
          MaxSend,      \* bound: the calls of Send of a thread
          MaxReset,     \* bound: how often the connection is lost
          Nobody        \* the holder of a mutex that is free

Loop == "loop"

ASSUME SendAssumption ==
    /\ MsgLen \subseteq Nat \ {0}
    /\ BUFFER_SIZE \in Nat \ {0}
    /\ MAXLISTSIZE \in Nat
    /\ Param \subseteq Nat \ {0} /\ IsFiniteSet(Param)
    /\ MaxSend \in Nat /\ MaxReset \in Nat
    /\ Nobody \notin Sender \cup {Loop} /\ Loop \notin Sender

VARIABLES
    m_buferWrite,          \* the bytes in the ring
    m_mutexClients,        \* the holder of the mutex, or Nobody
    m_bIsUserAskForClosed,
    pending,               \* m_asyncHandle was signalled and its callback not yet called
    asyncOpen,             \* m_asyncHandle was not closed
    pc,                    \* where each sender is in Send
    todo,                  \* the bytes it has still to write
    calls,                 \* how often it has called Send
    lpc,                   \* where the loop thread is: in uv_run or in send_inl
    writep,                \* its local variable writep
    m_listWriteParam,      \* the write_params to use again
    buf,                   \* the contents of every write_param
    queued,                \* the uv_write requests that are not finished
    conn,                  \* the connection of m_handleClient->tcphandle
    resets,                \* how often it was lost
    accepted,              \* history: the bytes the ring took, in order
    received,              \* history: the bytes the peer got
    dropped                \* history: a request failed

sendVars == <<pc, todo, calls>>
paramVars == <<writep, m_listWriteParam, buf, queued>>
connVars == <<conn, resets>>
vars == <<m_buferWrite, m_mutexClients, m_bIsUserAskForClosed, pending, asyncOpen,
          sendVars, lpc, paramVars, connVars, accepted, received, dropped>>

\* A byte is known by its sender, the call and its place in the message.
Byte == Sender \X Nat \X Nat
Null == 0    \* no write_param

Init ==
    /\ m_buferWrite = <<>>
    /\ m_mutexClients = Nobody
    /\ m_bIsUserAskForClosed = FALSE
    /\ pending = FALSE
    /\ asyncOpen = TRUE
    /\ pc = [t \in Sender |-> "idle"]
    /\ todo = [t \in Sender |-> <<>>]
    /\ calls = [t \in Sender |-> 0]
    /\ lpc = "uv_run"
    /\ writep = Null
    /\ m_listWriteParam = <<>>
    /\ buf = [p \in Param |-> <<>>]
    /\ queued = <<>>
    /\ conn = "up"
    /\ resets = 0
    /\ accepted = <<>>
    /\ received = <<>>
    /\ dropped = FALSE

(***************************************************************************)
(* Send.                                                                   *)
(***************************************************************************)
Goto(t, label) == pc' = [pc EXCEPT ![t] = label]

\* A call, up to its first uv_async_send.
Send(t) ==
    /\ pc[t] = "idle"
    /\ calls[t] < MaxSend
    /\ calls' = [calls EXCEPT ![t] = @ + 1]
    /\ \E len \in MsgLen : todo' = [todo EXCEPT ![t] = [i \in 1..len |-> <<t, calls'[t], i>>]]
    /\ pending' = TRUE
    /\ Goto(t, "while")
    /\ UNCHANGED <<m_buferWrite, m_mutexClients, m_bIsUserAskForClosed, asyncOpen,
                   lpc, paramVars, connVars, accepted, received, dropped>>

\* The condition of its loop, read without the lock.
While(t) ==
    /\ pc[t] = "while"
    /\ Goto(t, IF m_bIsUserAskForClosed THEN "wake" ELSE "lock")
    /\ UNCHANGED <<m_buferWrite, m_mutexClients, m_bIsUserAskForClosed, pending, asyncOpen,
                   todo, calls, lpc, paramVars, connVars, accepted, received, dropped>>

Lock(t) ==
    /\ pc[t] = "lock"
    /\ m_mutexClients = Nobody
    /\ m_mutexClients' = t
    /\ Goto(t, "write")
    /\ UNCHANGED <<m_buferWrite, m_bIsUserAskForClosed, pending, asyncOpen,
                   todo, calls, lpc, paramVars, connVars, accepted, received, dropped>>

\* A fault: one byte more than there is room for.
RoomAndOne == BUFFER_SIZE - Len(m_buferWrite) + 1
Room == BUFFER_SIZE - Len(m_buferWrite)

\* A fault: the second part of a message starts where the first one did.
WriteFromStart(t) ==
    LET n == IF Len(todo[t]) <= Room THEN Len(todo[t]) ELSE Room
        taken == SubSeq(todo[t], 1, n)
    IN
    /\ pc[t] = "write"
    /\ m_buferWrite' = m_buferWrite \o taken
    /\ accepted' = accepted \o taken
    /\ todo' = [todo EXCEPT ![t] = SubSeq(@, 1, Len(@) - n)]
    /\ Goto(t, IF n < Len(todo[t]) THEN "while" ELSE "wake")
    /\ m_mutexClients' = Nobody
    /\ UNCHANGED <<m_bIsUserAskForClosed, pending, asyncOpen, calls, lpc, paramVars,
                   connVars, received, dropped>>

\* write and unlock; what did not fit is tried again after a sleep.
Write(t) ==
    LET n == IF Len(todo[t]) <= Room THEN Len(todo[t]) ELSE Room
        taken == SubSeq(todo[t], 1, n)
    IN
    /\ pc[t] = "write"
    /\ m_buferWrite' = m_buferWrite \o taken
    /\ accepted' = accepted \o taken
    /\ todo' = [todo EXCEPT ![t] = SubSeq(@, n + 1, Len(@))]
    /\ Goto(t, IF n < Len(todo[t]) THEN "while" ELSE "wake")
    /\ m_mutexClients' = Nobody
    /\ UNCHANGED <<m_bIsUserAskForClosed, pending, asyncOpen, calls, lpc, paramVars,
                   connVars, received, dropped>>

\* A fault: the last signal is left out.
WakeSilent(t) ==
    /\ pc[t] = "wake"
    /\ todo' = [todo EXCEPT ![t] = <<>>]
    /\ Goto(t, "idle")
    /\ UNCHANGED <<m_buferWrite, m_mutexClients, m_bIsUserAskForClosed, pending, asyncOpen,
                   calls, lpc, paramVars, connVars, accepted, received, dropped>>

\* The last uv_async_send, and the return.
Wake(t) ==
    /\ pc[t] = "wake"
    /\ pending' = TRUE
    /\ todo' = [todo EXCEPT ![t] = <<>>]
    /\ Goto(t, "idle")
    /\ UNCHANGED <<m_buferWrite, m_mutexClients, m_bIsUserAskForClosed, asyncOpen, calls,
                   lpc, paramVars, connVars, accepted, received, dropped>>

\* Called by the application, from any thread and as often as it likes:
\* m_bIsClosed is false from the first Connect on.
Close ==
    /\ m_bIsUserAskForClosed' = TRUE
    /\ pending' = TRUE
    /\ UNCHANGED <<m_buferWrite, m_mutexClients, asyncOpen, sendVars, lpc, paramVars,
                   connVars, accepted, received, dropped>>

(***************************************************************************)
(* The loop thread: its callbacks, and send_inl which they call.           *)
(***************************************************************************)
\* libuv clears the flag before it calls back, so that a signal given while
\* the callback runs causes another call.  closeinl closes this handle, with
\* the others that uv_walk finds: the copy in m_handleClient is not one.
AsyncCloseCB ==
    /\ lpc = "uv_run"
    /\ pending /\ asyncOpen
    /\ pending' = FALSE
    /\ IF m_bIsUserAskForClosed
       THEN asyncOpen' = FALSE /\ UNCHANGED lpc
       ELSE lpc' = "lock" /\ UNCHANGED asyncOpen
    /\ UNCHANGED <<m_buferWrite, m_mutexClients, m_bIsUserAskForClosed, sendVars, paramVars,
                   connVars, accepted, received, dropped>>

\* Data from the peer: send_inl, then the packets (PacketSync).
AfterRecv ==
    /\ lpc = "uv_run"
    /\ conn = "up"
    /\ lpc' = "lock"
    /\ UNCHANGED <<m_buferWrite, m_mutexClients, m_bIsUserAskForClosed, pending, asyncOpen,
                   sendVars, paramVars, connVars, accepted, received, dropped>>

\* Keep a write_param for a later write, or free it.
Recycle(p) ==
    m_listWriteParam' = IF Len(m_listWriteParam) > MAXLISTSIZE THEN m_listWriteParam
                                                               ELSE Append(m_listWriteParam, p)

\* A write has finished: well, or because the connection is lost.
AfterSend ==
    /\ lpc = "uv_run"
    /\ queued # <<>>
    /\ queued' = Tail(queued)
    /\ Recycle(Head(queued))
    /\ \/ /\ conn = "up"
          /\ received' = received \o buf[Head(queued)]
          /\ lpc' = "lock"
          /\ UNCHANGED dropped
       \/ /\ conn # "up"
          /\ dropped' = TRUE
          /\ UNCHANGED <<received, lpc>>
    /\ UNCHANGED <<m_buferWrite, m_mutexClients, m_bIsUserAskForClosed, pending, asyncOpen,
                   sendVars, writep, buf, connVars, accepted>>

SendInlLock ==
    /\ lpc = "lock"
    /\ m_mutexClients = Nobody
    /\ m_mutexClients' = Loop
    /\ lpc' = "read"
    /\ UNCHANGED <<m_buferWrite, m_bIsUserAskForClosed, pending, asyncOpen, sendVars,
                   paramVars, connVars, accepted, received, dropped>>

\* A fault: the return leaves the mutex locked.
SendInlEmptyLocked ==
    /\ lpc = "read"
    /\ m_buferWrite = <<>>
    /\ lpc' = "uv_run"
    /\ UNCHANGED <<m_buferWrite, m_mutexClients, m_bIsUserAskForClosed, pending, asyncOpen,
                   sendVars, paramVars, connVars, accepted, received, dropped>>

\* The ring is empty: unlock and return.
SendInlEmpty ==
    /\ lpc = "read"
    /\ m_buferWrite = <<>>
    /\ m_mutexClients' = Nobody
    /\ lpc' = "uv_run"
    /\ UNCHANGED <<m_buferWrite, m_bIsUserAskForClosed, pending, asyncOpen, sendVars,
                   paramVars, connVars, accepted, received, dropped>>

InUse == Range(m_listWriteParam) \cup Range(queued)

\* A fault: the write_param that is used again stays in the list.
TakeParamKept ==
    /\ writep' = IF m_listWriteParam # <<>> THEN Head(m_listWriteParam) ELSE Min(Param \ InUse)
    /\ UNCHANGED m_listWriteParam

\* Take a write_param of the list, or allocate one.
TakeParam ==
    \/ /\ m_listWriteParam # <<>>
       /\ writep' = Head(m_listWriteParam)
       /\ m_listWriteParam' = Tail(m_listWriteParam)
    \/ /\ m_listWriteParam = <<>>
       /\ Param \ InUse # {}
       /\ writep' = Min(Param \ InUse)
       /\ UNCHANGED m_listWriteParam

\* Read the ring into it and unlock.
SendInlRead ==
    /\ lpc = "read"
    /\ m_buferWrite # <<>>
    /\ TakeParam
    /\ buf' = [buf EXCEPT ![writep'] = m_buferWrite]
    /\ m_buferWrite' = <<>>
    /\ m_mutexClients' = Nobody
    /\ lpc' = "uv_write"
    /\ UNCHANGED <<m_bIsUserAskForClosed, pending, asyncOpen, sendVars, queued, connVars,
                   accepted, received, dropped>>

\* A fault: the write_param is recycled when uv_write returns.
UvWriteRecycle ==
    /\ lpc = "uv_write"
    /\ queued' = Append(queued, writep)
    /\ m_listWriteParam' = Append(m_listWriteParam, writep)
    /\ writep' = Null
    /\ lpc' = "lock"
    /\ UNCHANGED <<m_buferWrite, m_mutexClients, m_bIsUserAskForClosed, pending, asyncOpen,
                   sendVars, buf, connVars, accepted, received, dropped>>

\* uv_write fails at once only when the handle has no socket.
UvWrite ==
    /\ lpc = "uv_write"
    /\ \/ /\ conn # "down"
          /\ queued' = Append(queued, writep)
          /\ UNCHANGED <<m_listWriteParam, dropped>>
       \/ /\ conn = "down"
          /\ m_listWriteParam' = Append(m_listWriteParam, writep)
          /\ dropped' = TRUE
          /\ UNCHANGED queued
    /\ writep' = Null
    /\ lpc' = "lock"
    /\ UNCHANGED <<m_buferWrite, m_mutexClients, m_bIsUserAskForClosed, pending, asyncOpen,
                   sendVars, buf, connVars, accepted, received>>

(***************************************************************************)
(* The connection.                                                         *)
(***************************************************************************)
ConnTo(from, to) ==
    /\ conn = from
    /\ conn' = to
    /\ UNCHANGED <<m_buferWrite, m_mutexClients, m_bIsUserAskForClosed, pending, asyncOpen,
                   sendVars, lpc, paramVars, accepted, received, dropped>>

\* The peer or the network breaks it: writes fail from now on.
Reset ==
    /\ resets < MaxReset
    /\ resets' = resets + 1
    /\ ConnTo("up", "reset")

\* AfterRecv with nread < 0: uv_close takes the socket from the handle.
Disconnect ==
    /\ lpc = "uv_run"
    /\ ConnTo("reset", "down")
    /\ UNCHANGED resets

\* ReconnectTimer and AfterConnect, after the writes were cancelled.
Reconnect ==
    /\ lpc = "uv_run"
    /\ queued = <<>>
    /\ ConnTo("down", "up")
    /\ UNCHANGED resets

SenderStep(t) == While(t) \/ Lock(t) \/ Write(t) \/ Wake(t)
SendInl == SendInlLock \/ SendInlEmpty \/ SendInlRead \/ UvWrite

Next ==
    \/ \E t \in Sender : Send(t) \/ SenderStep(t)
    \/ Close
    \/ AsyncCloseCB \/ AfterRecv \/ AfterSend
    \/ SendInl
    \/ Reset \/ Disconnect \/ Reconnect

Spec == Init /\ [][Next]_vars

(***************************************************************************)
(* Threads run.  The loop serves in turn every callback that stays due, so *)
(* one is not put off for ever by the others.  A thread that waits for the *)
(* mutex gets it in the end: whoever holds it is about to unlock it, and   *)
(* sleeps or waits in epoll before it locks again.                         *)
(***************************************************************************)
Fairness ==
    /\ \A t \in Sender : /\ WF_vars(While(t) \/ Write(t) \/ Wake(t))
                         /\ SF_vars(Lock(t))
    /\ WF_vars(SendInlEmpty \/ SendInlRead \/ UvWrite)
    /\ SF_vars(SendInlLock)
    /\ SF_vars(AsyncCloseCB)
    /\ SF_vars(AfterSend)

FairSpec == Spec /\ Fairness

(***************************************************************************)
(* Properties.                                                             *)
(***************************************************************************)
\* The types, the limit of the ring, and that of the list, which the test with >
\* makes one more, on every path and the error paths too.
TypeOK ==
    /\ m_buferWrite \in Seq(Byte) /\ Len(m_buferWrite) <= BUFFER_SIZE
    /\ m_mutexClients \in Sender \cup {Loop, Nobody}
    /\ {m_bIsUserAskForClosed, pending, asyncOpen, dropped} \subseteq BOOLEAN
    /\ pc \in [Sender -> {"idle", "while", "lock", "write", "wake"}]
    /\ todo \in [Sender -> Seq(Byte)]
    /\ calls \in [Sender -> 0..MaxSend]
    /\ lpc \in {"uv_run", "lock", "read", "uv_write"}
    /\ writep \in Param \cup {Null}
    /\ m_listWriteParam \in Seq(Param) /\ Len(m_listWriteParam) <= MAXLISTSIZE + 1
    /\ queued \in Seq(Param)
    /\ buf \in [Param -> Seq(Byte)]
    /\ conn \in {"up", "reset", "down"}
    /\ resets \in 0..MaxReset
    /\ accepted \in Seq(Byte) /\ received \in Seq(Byte)

\* A write_param is in one place: free to be used, being filled, or owned by
\* libuv until AfterSend.  None is filled again while libuv still sends it.
ParamsOwned ==
    LET places == m_listWriteParam \o queued \o (IF writep = Null THEN <<>> ELSE <<writep>>)
    IN  IsInjective(places)

\* The bytes of the write_params of s, whose contents are b, one after the other.
Flat(b, s) ==
    LET F[i \in 0..Len(s)] == IF i = 0 THEN <<>> ELSE F[i - 1] \o b[s[i]]
    IN  F[Len(s)]

\* The bytes on their way to the peer, in order.
OnTheWay == Flat(buf, queued) \o (IF writep = Null THEN <<>> ELSE buf[writep]) \o m_buferWrite

\* Until a request fails, every byte the ring took was received or is on its
\* way, in the order in which it was taken, and the peer gets none twice.
StreamComplete == ~dropped => received \o OnTheWay = accepted

\* Lost connections make gaps, never disorder or duplicates.
StreamInOrder ==
    LET place(b) == CHOOSE i \in 1..Len(accepted) : accepted[i] = b
    IN  \A i, j \in 1..Len(received) : i < j => place(received[i]) < place(received[j])

\* The bytes in the ring are taken out of it, without any further Send,
\* unless the user asks to close: no signal of uv_async_send is lost.
RingDrained == m_buferWrite # <<>> ~> (m_buferWrite = <<>> \/ m_bIsUserAskForClosed)

\* Every Send returns when no message is longer than the ring: whoever
\* writes into an empty ring writes all of it and then wakes the loop.
SendReturns == \A t \in Sender : pc[t] # "idle" ~> pc[t] = "idle"
=============================================================================
