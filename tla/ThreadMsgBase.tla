--------------------------- MODULE ThreadMsgBase ---------------------------
(***************************************************************************)
(* CThreadMsgBase: the mailbox of a CUVThread and of a CTCPHandle.  Any    *)
(* thread pushes heap-allocated NodeMsg records onto a circular singly     *)
(* linked list of which only the tail is kept; one dispatcher polls the    *)
(* tail WITHOUT the lock, detaches the whole ring under the lock and walks *)
(* it without the lock, deleting each node after its handler has run.      *)
(*                                                                         *)
(* Memory is a set of addresses that are reused as soon as they are freed, *)
(* so that a node of the next ring can have the address of the first node  *)
(* of the ring being walked, the address at which the walk stops.          *)
(***************************************************************************)
EXTENDS Naturals, Sequences

CONSTANTS Sender,     \* the threads that only push
          Disp,       \* the thread that runs DispatchThreadMsg
          Addr,       \* bound: the addresses a NodeMsg can have
          Msg,        \* the messages
          NULL,       \* nullptr
          NoMsg,      \* nothing was delivered yet
          Free        \* the lock is held by nobody

ASSUME ConstantsAssumption ==
    /\ Disp \notin Sender
    /\ NULL \notin Addr
    /\ Free \notin Sender \cup {Disp}

Thread == Sender \cup {Disp}

VARIABLES
    m_lock,     \* the holder of the mutex, or Free
    m_pMsgTail, \* the last node of the ring, or NULL
    next,       \* NodeMsg::next of every address
    msg,        \* NodeMsg::m_nMsgType, m_pData and m_nSrcAddr of every address
    alloc,      \* the addresses that are allocated
    pc,         \* where each thread is in PushBackMsg
    node,       \* the node it pushes
    dpc,        \* where the dispatcher is in DispatchThreadMsg
    first,      \* its local variables first,
    nxt,        \* next
    req,        \* and req
    handled,    \* the message it delivered last
    ring,       \* history: the nodes of the ring, in the order of the pushes
    batch       \* history: the detached nodes not yet delivered

pushVars == <<pc, node>>
dispVars == <<dpc, first, nxt, req, handled>>
vars == <<m_lock, m_pMsgTail, next, msg, alloc, pc, node,
          dpc, first, nxt, req, handled, ring, batch>>

Init ==
    /\ m_lock = Free
    /\ m_pMsgTail = NULL
    /\ next = [a \in Addr |-> NULL]
    /\ msg = [a \in Addr |-> NoMsg]
    /\ alloc = {}
    /\ pc = [t \in Thread |-> "idle"]
    /\ node = [t \in Thread |-> NULL]
    /\ dpc = "poll"
    /\ first = NULL
    /\ nxt = NULL
    /\ req = NULL
    /\ handled = NoMsg
    /\ ring = <<>>
    /\ batch = <<>>

(***************************************************************************)
(* PushBackMsg.  A handler that runs in the dispatcher may push too, to    *)
(* its own mailbox included.                                               *)
(***************************************************************************)
NewNode(t, m) ==
    /\ pc[t] = "idle"
    /\ t = Disp => dpc = "handle"
    /\ \E a \in Addr \ alloc :
          /\ alloc' = alloc \cup {a}
          /\ msg' = [msg EXCEPT ![a] = m]
          /\ node' = [node EXCEPT ![t] = a]
    /\ pc' = [pc EXCEPT ![t] = "lock"]
    /\ UNCHANGED <<m_lock, m_pMsgTail, next, dispVars, ring, batch>>

PushLock(t) ==
    /\ pc[t] = "lock"
    /\ m_lock = Free
    /\ m_lock' = t
    /\ pc' = [pc EXCEPT ![t] = "link"]
    /\ UNCHANGED <<m_pMsgTail, next, msg, alloc, node, dispVars, ring, batch>>

\* A fault: the thread's pointer is cleared before it becomes the tail.
PushLinkCleared(t) ==
    /\ pc[t] = "link"
    /\ node' = [node EXCEPT ![t] = NULL]
    /\ m_pMsgTail' = node'[t]
    /\ ring' = Append(ring, m_pMsgTail')
    /\ pc' = [pc EXCEPT ![t] = "unlock"]
    /\ UNCHANGED <<m_lock, next, msg, alloc, dispVars, batch>>

\* A fault: the node is linked behind the tail, and the tail is not moved.
PushLinkFirst(t) ==
    /\ pc[t] = "link"
    /\ IF m_pMsgTail = NULL
       THEN /\ next' = [next EXCEPT ![node[t]] = node[t]]
            /\ m_pMsgTail' = node[t]
       ELSE /\ next' = [next EXCEPT ![node[t]] = next[m_pMsgTail], ![m_pMsgTail] = node[t]]
            /\ UNCHANGED m_pMsgTail
    /\ ring' = Append(ring, node[t])
    /\ node' = [node EXCEPT ![t] = NULL]
    /\ pc' = [pc EXCEPT ![t] = "unlock"]
    /\ UNCHANGED <<m_lock, msg, alloc, dispVars, batch>>

\* The pointer writes of a push are one step: they are made under the lock,
\* and the one read outside it is of m_pMsgTail alone.
PushLink(t) ==
    /\ pc[t] = "link"
    /\ \/ /\ m_pMsgTail = NULL
          /\ next' = [next EXCEPT ![node[t]] = node[t]]
       \/ /\ m_pMsgTail # NULL
          /\ next' = [next EXCEPT ![node[t]] = next[m_pMsgTail],
                                  ![m_pMsgTail] = node[t]]
    /\ m_pMsgTail' = node[t]
    /\ ring' = Append(ring, node[t])
    /\ node' = [node EXCEPT ![t] = NULL]
    /\ pc' = [pc EXCEPT ![t] = "unlock"]
    /\ UNCHANGED <<m_lock, msg, alloc, dispVars, batch>>

\* A fault: the unlock is forgotten.
PushKeepLock(t) ==
    /\ pc[t] = "unlock"
    /\ pc' = [pc EXCEPT ![t] = "idle"]
    /\ UNCHANGED <<m_lock, m_pMsgTail, next, msg, alloc, node, dispVars, ring, batch>>

PushUnlock(t) ==
    /\ pc[t] = "unlock"
    /\ m_lock' = Free
    /\ pc' = [pc EXCEPT ![t] = "idle"]
    /\ UNCHANGED <<m_pMsgTail, next, msg, alloc, node, dispVars, ring, batch>>

(***************************************************************************)
(* DispatchThreadMsg: an endless loop.  While the tail is null it sleeps   *)
(* and tries again, which is Poll not being enabled.                       *)
(***************************************************************************)
Poll ==
    /\ dpc = "poll"
    /\ m_pMsgTail # NULL
    /\ dpc' = "lock"
    /\ UNCHANGED <<m_lock, m_pMsgTail, next, msg, alloc, pushVars,
                   first, nxt, req, handled, ring, batch>>

\* A fault: the lock is tried, and its failure ignored.
DispatchTryLock ==
    /\ dpc = "lock"
    /\ m_lock' = Disp
    /\ dpc' = "detach"
    /\ UNCHANGED <<m_pMsgTail, next, msg, alloc, pushVars,
                   first, nxt, req, handled, ring, batch>>

DispatchLock ==
    /\ dpc = "lock"
    /\ m_lock = Free
    /\ m_lock' = Disp
    /\ dpc' = "detach"
    /\ UNCHANGED <<m_pMsgTail, next, msg, alloc, pushVars,
                   first, nxt, req, handled, ring, batch>>

\* A fault: the tail is left pointing into the detached ring.
DetachKeepTail ==
    /\ dpc = "detach"
    /\ first' = next[m_pMsgTail]
    /\ nxt' = next[m_pMsgTail]
    /\ batch' = ring
    /\ ring' = <<>>
    /\ dpc' = "unlock"
    /\ UNCHANGED <<m_lock, m_pMsgTail, next, msg, alloc, pushVars, req, handled>>

Detach ==
    /\ dpc = "detach"
    /\ first' = next[m_pMsgTail]
    /\ nxt' = next[m_pMsgTail]
    /\ m_pMsgTail' = NULL
    /\ batch' = ring
    /\ ring' = <<>>
    /\ dpc' = "unlock"
    /\ UNCHANGED <<m_lock, next, msg, alloc, pushVars, req, handled>>

DispatchUnlock ==
    /\ dpc = "unlock"
    /\ m_lock' = Free
    /\ dpc' = "walk"
    /\ UNCHANGED <<m_pMsgTail, next, msg, alloc, pushVars,
                   first, nxt, req, handled, ring, batch>>

\* A fault: the walk goes round the ring.
WalkRound ==
    /\ dpc = "walk"
    /\ nxt # NULL
    /\ req' = nxt
    /\ nxt' = next[nxt]
    /\ handled' = msg[nxt]
    /\ batch' = Tail(batch)
    /\ dpc' = "handle"
    /\ UNCHANGED <<m_lock, m_pMsgTail, next, msg, alloc, pushVars, first, ring>>

\* Fetch the next node and call OnDispatchMsg with its message.
Walk ==
    /\ dpc = "walk"
    /\ nxt # NULL
    /\ req' = nxt
    /\ nxt' = IF next[nxt] # first THEN next[nxt] ELSE NULL
    /\ handled' = msg[nxt]
    /\ batch' = Tail(batch)
    /\ dpc' = "handle"
    /\ UNCHANGED <<m_lock, m_pMsgTail, next, msg, alloc, pushVars, first, ring>>

\* A fault: the node is forgotten, not deleted.
DeleteLeak ==
    /\ dpc = "handle"
    /\ pc[Disp] = "idle"
    /\ req' = NULL
    /\ dpc' = "walk"
    /\ UNCHANGED <<m_lock, m_pMsgTail, next, msg, alloc, pushVars, first, nxt, handled,
                   ring, batch>>

\* The handler has returned (it is not inside a push of its own): ~NodeMsg
\* clears next and the address is free again.
Delete ==
    /\ dpc = "handle"
    /\ pc[Disp] = "idle"
    /\ alloc' = alloc \ {req}
    /\ next' = [next EXCEPT ![req] = NULL]
    /\ req' = NULL
    /\ dpc' = "walk"
    /\ UNCHANGED <<m_lock, m_pMsgTail, msg, pushVars, first, nxt, handled,
                   ring, batch>>

WalkDone ==
    /\ dpc = "walk"
    /\ nxt = NULL
    /\ dpc' = "poll"
    /\ UNCHANGED <<m_lock, m_pMsgTail, next, msg, alloc, pushVars,
                   first, nxt, req, handled, ring, batch>>

PushBackMsg(t) ==
    \/ \E m \in Msg : NewNode(t, m)
    \/ PushLock(t)
    \/ PushLink(t)
    \/ PushUnlock(t)

DispatchThreadMsg ==
    \/ Poll \/ DispatchLock \/ Detach \/ DispatchUnlock
    \/ Walk \/ Delete \/ WalkDone

Next == (\E t \in Thread : PushBackMsg(t)) \/ DispatchThreadMsg

Spec == Init /\ [][Next]_vars

(***************************************************************************)
(* A thread that runs is scheduled; nobody has to push.  The mutex is only *)
(* assumed to be given to a waiter that finds it free for ever.            *)
(***************************************************************************)
Fairness ==
    /\ WF_vars(DispatchThreadMsg)
    /\ \A t \in Thread : WF_vars(PushLock(t) \/ PushLink(t) \/ PushUnlock(t))

FairSpec == Spec /\ Fairness

(***************************************************************************)
(* Properties.                                                             *)
(***************************************************************************)
TypeOK ==
    /\ m_lock \in Thread \cup {Free}
    /\ m_pMsgTail \in Addr \cup {NULL}
    /\ next \in [Addr -> Addr \cup {NULL}]
    /\ msg \in [Addr -> Msg \cup {NoMsg}]
    /\ alloc \subseteq Addr
    /\ pc \in [Thread -> {"idle", "lock", "link", "unlock"}]
    /\ node \in [Thread -> Addr \cup {NULL}]
    /\ dpc \in {"poll", "lock", "detach", "unlock", "walk", "handle"}
    /\ {first, nxt, req} \subseteq Addr \cup {NULL}
    /\ handled \in Msg \cup {NoMsg}
    /\ ring \in Seq(Addr)
    /\ batch \in Seq(Addr)

Holds(t) == \/ pc[t] \in {"link", "unlock"}
            \/ t = Disp /\ dpc \in {"detach", "unlock"}

\* The threads between Lock and UnLock are exactly the holder of the mutex,
\* and the dispatcher pushes only from inside a handler, when it holds none:
\* a handler that pushes to its own mailbox does not lock the mutex twice.
LockInv ==
    /\ \A t \in Thread : Holds(t) <=> m_lock = t
    /\ pc[Disp] # "idle" => dpc = "handle"

Nodes(s) == {s[i] : i \in 1..Len(s)}
Queued == Nodes(batch) \cup Nodes(ring)
Distinct(s) == \A i, j \in 1..Len(s) : s[i] = s[j] => i = j

\* s is linked from its first node to its last, and that one to end.
Chained(s, end) ==
    /\ \A i \in 1..Len(s) - 1 : next[s[i]] = s[i + 1]
    /\ s # <<>> => next[s[Len(s)]] = end

\* The ring that m_pMsgTail closes holds the pushed nodes in their order, and
\* is not empty when the dispatcher, past its unlocked test, detaches it.
RingInv ==
    /\ m_pMsgTail = IF ring = <<>> THEN NULL ELSE ring[Len(ring)]
    /\ ring # <<>> => Chained(ring, ring[1])
    /\ dpc \in {"lock", "detach"} => ring # <<>>

\* The walk: next is the first node not yet delivered, every other one is
\* linked from its predecessor, and only the last is followed by first.
WalkInv ==
    /\ nxt = IF batch = <<>> THEN NULL ELSE batch[1]
    /\ Chained(batch, first)
    /\ \A i \in 2..Len(batch) : batch[i] # first
    /\ batch # <<>> => dpc \in {"unlock", "walk", "handle"}

\* Every allocated node is in exactly one place: at a thread that is pushing
\* it, in the ring, in the batch, or under its handler, and keeps the message
\* it was made for.  So no node is freed twice, used after it was freed,
\* delivered twice or leaked.
OwnedInv ==
    /\ Distinct(ring) /\ Distinct(batch) /\ Nodes(ring) \cap Nodes(batch) = {}
    /\ \A t \in Thread : node[t] # NULL <=> pc[t] \in {"lock", "link"}
    /\ \A t \in Thread : node[t] # NULL => node[t] \notin Queued \cup {req}
    /\ \A t, u \in Thread : node[t] = node[u] /\ node[t] # NULL => t = u
    /\ req # NULL <=> dpc = "handle"
    /\ req \notin Queued
    /\ alloc = (Queued \cup {req} \cup {node[t] : t \in Thread}) \ {NULL}
    /\ \A a \in alloc : msg[a] \in Msg

Msgs(s) == [i \in 1..Len(s) |-> msg[s[i]]]

\* The linked list implements the queue: the messages are delivered once
\* each, in the order in which the pushes took the lock.
Queue == INSTANCE MsgQueue WITH queue <- Msgs(batch) \o Msgs(ring)

ImplementsQueue == Queue!QueueSpec

\* Whatever is linked into the ring is delivered: the unlocked poll misses
\* no wake-up and the walk ends.
Delivered == \A a \in Addr : a \in Nodes(ring) ~> a \notin Queued
=============================================================================
