--------------------------- MODULE ThreadRegistry ---------------------------
(***************************************************************************)
(* CUVThreadMng and the part of CUVThread that talks to it.  A thread      *)
(* registers from OnInit: it posts to itself one REGIST message for every  *)
(* thread the manager's map already holds, adds itself to the map under    *)
(* the write lock, and posts a REGIST message for itself to every thread   *)
(* of the map.  Both iterations over the map are made WITHOUT the lock.    *)
(* Each thread keeps its own map of the threads it may send to, fed by     *)
(* these messages, and looks up the destination of SendUvMessage there.    *)
(*                                                                         *)
(* A thread is named by its type, the key of the map; types are distinct.  *)
(* The mailbox of a thread is the queue that ThreadMsgBase implements.     *)
(***************************************************************************)
EXTENDS Naturals, Sequences, FiniteSetsExt

CONSTANTS Thread,   \* the thread types
          Leaver,   \* the threads whose handler calls OnExit
          MaxApp    \* bound: mailboxes in which an application message waits

ASSUME ThreadAssumption ==
    /\ Thread \subseteq Nat \ {0}
    /\ Leaver \subseteq Thread
    /\ MaxApp \in Nat

End == 0    \* m_mapThread.end()
Free == 0   \* the write lock is held by nobody

VARIABLES
    m_mapThread,  \* the manager's map: the keys it holds
    m_lock,       \* the holder of the write lock, or Free
    m_map,        \* CUVThread::m_mapThread of each thread
    mbox,         \* the mailbox of each thread
    pc,           \* where each thread is in OnInit, Run and OnExit
    it,           \* its iterator over the manager's map
    ub,           \* an iterator whose node was erased has been used
    order,        \* history: the threads in the order they entered the map
    seen,         \* history: the map when the thread began to register
    told          \* history: the map when the thread left it

mng == <<m_mapThread, m_lock>>
hist == <<order, seen, told>>
vars == <<m_mapThread, m_lock, m_map, mbox, pc, it, ub, order, seen, told>>

Init ==
    /\ m_mapThread = {}
    /\ m_lock = Free
    /\ m_map = [t \in Thread |-> {}]
    /\ mbox = [t \in Thread |-> <<>>]
    /\ pc = [t \in Thread |-> "new"]
    /\ it = [t \in Thread |-> End]
    /\ ub = FALSE
    /\ order = <<>>
    /\ seen = [t \in Thread |-> {}]
    /\ told = [t \in Thread |-> {}]

\* std::map iterates in the order of the keys.
First(S) == IF S = {} THEN End ELSE Min(S)
\* A fault: the next key, whether the map has it or not.
AfterNext(S, k) == k + 1
After(S, k) == First({j \in S : j > k})

Message(kind, k) == [kind |-> kind, key |-> k]
Post(t, m) == mbox' = [mbox EXCEPT ![t] = Append(@, m)]
Goto(t, label) == pc' = [pc EXCEPT ![t] = label]
Advance(t) == it' = [it EXCEPT ![t] = After(m_mapThread, @)]
\* The iterator of t points at a node of the map.
OnNode(t) == it[t] # End /\ it[t] \in m_mapThread

(***************************************************************************)
(* Start, ThreadFun, OnInit: RegistThread.                                 *)
(***************************************************************************)
\* A fault: the first loop leaves out the first thread.
StartSecond(t) ==
    /\ pc[t] = "new"
    /\ it' = [it EXCEPT ![t] = After(m_mapThread, First(m_mapThread))]
    /\ seen' = [seen EXCEPT ![t] = m_mapThread]
    /\ Goto(t, "snapshot")
    /\ UNCHANGED <<mng, m_map, mbox, ub, order, told>>

Start(t) ==
    /\ pc[t] = "new"
    /\ it' = [it EXCEPT ![t] = First(m_mapThread)]
    /\ seen' = [seen EXCEPT ![t] = m_mapThread]
    /\ Goto(t, "snapshot")
    /\ UNCHANGED <<mng, m_map, mbox, ub, order, told>>

\* The first loop: tell the new thread of a thread of the map.
Snapshot(t) ==
    /\ pc[t] = "snapshot"
    /\ \/ /\ OnNode(t)
          /\ Post(t, Message("REGIST", it[t]))
          /\ Advance(t)
          /\ UNCHANGED pc
       \/ /\ it[t] = End
          /\ Goto(t, "insert")
          /\ UNCHANGED <<mbox, it>>
    /\ UNCHANGED <<mng, m_map, ub, hist>>

\* WriteLock, m_mapThread[nType] = pThread, WriteUnLock.
Insert(t) ==
    /\ pc[t] = "insert"
    /\ m_lock = Free
    /\ m_mapThread' = m_mapThread \cup {t}
    /\ order' = Append(order, t)
    /\ Goto(t, "begin")
    /\ UNCHANGED <<m_lock, m_map, mbox, it, ub, seen, told>>

\* A fault: the second loop leaves out the first thread.
BeginSecond(t) ==
    /\ pc[t] = "begin"
    /\ it' = [it EXCEPT ![t] = After(m_mapThread, First(m_mapThread))]
    /\ Goto(t, "broadcast")
    /\ UNCHANGED <<mng, m_map, mbox, ub, hist>>

Begin(t) ==
    /\ pc[t] = "begin"
    /\ it' = [it EXCEPT ![t] = First(m_mapThread)]
    /\ Goto(t, "broadcast")
    /\ UNCHANGED <<mng, m_map, mbox, ub, hist>>

\* The second loop: tell a thread of the map of the new thread.
Broadcast(t) ==
    /\ pc[t] = "broadcast"
    /\ \/ /\ OnNode(t)
          /\ Post(it[t], Message("REGIST", t))
          /\ Advance(t)
          /\ UNCHANGED pc
       \/ /\ it[t] = End
          /\ Goto(t, "run")
          /\ UNCHANGED <<mbox, it>>
    /\ UNCHANGED <<mng, m_map, ub, hist>>

\* The node an unlocked iterator points at was erased: its use is undefined,
\* and nothing is said of the program from there on.
UseErasedNode(t) ==
    /\ pc[t] \in {"snapshot", "broadcast"}
    /\ it[t] # End /\ it[t] \notin m_mapThread
    /\ ub' = TRUE
    /\ UNCHANGED <<mng, m_map, mbox, pc, it, hist>>

(***************************************************************************)
(* Run: the two handlers of CUVThread and those of the application.        *)
(***************************************************************************)
Running(t) == pc[t] \in {"run", "left"}

\* Two faults: a thread that leaves is kept, and a new one replaces the others.
AppliedKeep(S, m) == IF m.kind = "REGIST" THEN S \cup {m.key} ELSE S
AppliedReplace(S, m) == IF m.kind = "REGIST" THEN {m.key} ELSE S \ {m.key}

\* What a message makes of the thread's own map S.
Applied(S, m) ==
    CASE m.kind = "REGIST"    -> S \cup {m.key}
      [] m.kind = "UN_REGIST" -> S \ {m.key}
      [] OTHER                -> S

OnUvThreadMessage(t) ==
    /\ Running(t)
    /\ mbox[t] # <<>>
    /\ m_map' = [m_map EXCEPT ![t] = Applied(@, Head(mbox[t]))]
    /\ mbox' = [mbox EXCEPT ![t] = Tail(@)]
    /\ UNCHANGED <<mng, pc, it, ub, hist>>

\* An application message; its source address and payload are left out.
App == Message("APP", 0)
\* MaxApp bounds the mailboxes one waits in, and it enters an empty one only.
Room(dst) ==
    /\ mbox[dst] = <<>>
    /\ Cardinality({t \in Thread : \E i \in 1..Len(mbox[t]) : mbox[t][i] = App}) < MaxApp

\* CUVThread::SendUvMessage, from a handler of t: it looks the destination
\* up in the thread's own map and returns -1 when it is not there.
SendUvMessage(t, dst) ==
    /\ pc[t] = "run"
    /\ dst \in m_map[t]
    /\ Room(dst)
    /\ Post(dst, App)
    /\ UNCHANGED <<mng, m_map, pc, it, ub, hist>>

\* CUVThreadMng::SendUvMessage, from any thread of the application: it looks
\* the destination up in the manager's map under the read lock.
SendByManager(dst) ==
    /\ m_lock = Free
    /\ dst \in m_mapThread
    /\ Room(dst)
    /\ Post(dst, App)
    /\ UNCHANGED <<mng, m_map, pc, it, ub, hist>>

(***************************************************************************)
(* OnExit: UnRegistThread posts to the others under the write lock, then   *)
(* the thread empties its own map.  Run never returns, so the thread goes  *)
(* on dispatching.                                                         *)
(***************************************************************************)
Erase(t) ==
    /\ t \in Leaver
    /\ pc[t] = "run"
    /\ m_lock = Free
    /\ m_lock' = t
    /\ m_mapThread' = m_mapThread \ {t}
    /\ it' = [it EXCEPT ![t] = First(m_mapThread')]
    /\ told' = [told EXCEPT ![t] = m_mapThread']
    /\ Goto(t, "notify")
    /\ UNCHANGED <<m_map, mbox, ub, order, seen>>

Notify(t) ==
    /\ pc[t] = "notify"
    /\ \/ /\ it[t] # End
          /\ Post(it[t], Message("UN_REGIST", t))
          /\ Advance(t)
          /\ UNCHANGED <<m_lock, m_map, pc>>
       \/ /\ it[t] = End
          /\ m_lock' = Free
          /\ m_map' = [m_map EXCEPT ![t] = {}]
          /\ Goto(t, "left")
          /\ UNCHANGED <<mbox, it>>
    /\ UNCHANGED <<m_mapThread, ub, hist>>

RegistThread(t) ==
    Start(t) \/ Snapshot(t) \/ Insert(t) \/ Begin(t) \/ Broadcast(t)

Next ==
    /\ ~ub
    /\ \/ \E t \in Thread : \/ RegistThread(t) \/ UseErasedNode(t)
                            \/ OnUvThreadMessage(t)
                            \/ Erase(t) \/ Notify(t)
       \/ \E t, dst \in Thread : SendUvMessage(t, dst)
       \/ \E dst \in Thread : SendByManager(dst)

Spec == Init /\ [][Next]_vars

\* A thread that was started runs: it registers, leaves the manager's lock
\* and dispatches.  No handler has to send or to leave.
Fairness ==
    \A t \in Thread :
        /\ WF_vars(~ub /\ (\/ Snapshot(t) \/ Insert(t) \/ Begin(t) \/ Broadcast(t)
                           \/ UseErasedNode(t)))
        /\ WF_vars(~ub /\ Notify(t))
        /\ WF_vars(~ub /\ OnUvThreadMessage(t))

FairSpec == Spec /\ Fairness

(***************************************************************************)
(* Properties.                                                             *)
(***************************************************************************)
Kind == {"REGIST", "UN_REGIST", "APP"}

TypeOK ==
    /\ m_mapThread \subseteq Thread
    /\ m_lock \in Thread \cup {Free}
    /\ m_map \in [Thread -> SUBSET Thread]
    /\ \A t \in Thread : \A i \in 1..Len(mbox[t]) :
          mbox[t][i] \in [kind : Kind, key : Thread \cup {0}]
    /\ pc \in [Thread -> {"new", "snapshot", "insert", "begin", "broadcast",
                          "run", "notify", "left"}]
    /\ it \in [Thread -> Thread \cup {End}]
    /\ ub \in BOOLEAN

\* The messages about k that wait in the mailbox of t.
About(t, k) == {i \in 1..Len(mbox[t]) : mbox[t][i].kind # "APP" /\ mbox[t][i].key = k}

\* t knows k, or will once it has handled what waits in its mailbox.
WillKnow(t, k) ==
    IF About(t, k) = {} THEN k \in m_map[t]
                        ELSE mbox[t][Max(About(t, k))].kind = "REGIST"

Before(x, y) == \E i, j \in 1..Len(order) : i <= j /\ order[i] = x /\ order[j] = y

\* However two registrations interleave, the thread that entered the map
\* first learns of the one that entered it later: the broadcast begins after
\* the insertion.  With x = y: a thread can send to itself.
EarlierLearnsLater ==
    \A x, y \in m_mapThread :
        Before(x, y) /\ pc[y] = "run" /\ ~ub => WillKnow(x, y)

\* A thread learns of every thread that was in the map when it began to
\* register, and is still there.
SnapshotComplete ==
    \A y \in Thread : \A x \in seen[y] \cap m_mapThread :
        pc[y] \in {"insert", "begin", "broadcast", "run"} /\ ~ub => WillKnow(y, x)

\* A thread that has left is forgotten by every thread that was in the map:
\* none of their messages about it come in the wrong order.
LeaverForgotten ==
    \A y \in Thread : \A x \in told[y] \cap m_mapThread :
        pc[y] = "left" => ~WillKnow(x, y)

\* What EarlierLearnsLater promises comes true: the earlier thread ends up
\* with the later one in its own map.
EventuallyReachable ==
    \A x, y \in Thread \ Leaver :
        Before(x, y) ~> (y \in m_map[x] \/ ub)

\* README: a CUVThread can send to any CUVThread.
AnyThreadReachable ==
    \A x, y \in m_mapThread :
        pc[x] = "run" /\ pc[y] = "run" => WillKnow(x, y)
=============================================================================
