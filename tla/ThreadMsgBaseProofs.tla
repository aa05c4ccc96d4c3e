------------------------ MODULE ThreadMsgBaseProofs ------------------------
(***************************************************************************)
(* The mailbox for any number of senders, addresses and messages: the      *)
(* linked list is what the two histories say it is, every node has one     *)
(* owner, and the mailbox implements the queue of MsgQueue.                *)
(***************************************************************************)
EXTENDS ThreadMsgBase, SequenceTheorems, TLAPS

\* The inductive invariant.  No part is inductive alone: the unlocked walk is
\* safe because no pusher owns a node of the batch (OwnedInv), a push finds a
\* well-formed ring because no other thread is between Lock and UnLock
\* (LockInv), and a node's links survive because addresses are not shared.
IInv == TypeOK /\ LockInv /\ RingInv /\ WalkInv /\ OwnedInv

\* The dispatcher is a thread, and the two null values are nobody and nothing.
LEMMA ThreadFacts == Disp \in Thread /\ Free \notin Thread /\ NULL \notin Addr
  BY ConstantsAssumption DEF Thread

\* The mutex is free, the list is empty and nothing is allocated.
LEMMA InitIInv == Init => IInv
  <1> SUFFICES ASSUME Init PROVE IInv
    OBVIOUS
  <1>1. TypeOK
    BY ThreadFacts DEF Init, TypeOK
  <1>2. LockInv
    BY ThreadFacts DEF Init, LockInv, Holds
  <1>3. RingInv /\ WalkInv
    BY DEF Init, RingInv, WalkInv, Chained
  <1>4. OwnedInv
    BY DEF Init, OwnedInv, Distinct, Nodes, Queued
  <1> QED
    BY <1>1, <1>2, <1>3, <1>4 DEF IInv

\* new NodeMsg: the address is fresh, so it is in no list and under no handler.
LEMMA NewNodeInv ==
    ASSUME IInv, NEW t \in Thread, NEW m \in Msg, NewNode(t, m)
    PROVE  IInv'
  <1> USE ThreadFacts
  <1>1. PICK a \in Addr \ alloc : /\ alloc' = alloc \cup {a}
                                  /\ msg' = [msg EXCEPT ![a] = m]
                                  /\ node' = [node EXCEPT ![t] = a]
    BY DEF NewNode
  <1>2. TypeOK'
    BY <1>1 DEF IInv, TypeOK, NewNode, dispVars
  <1>3. LockInv'
    BY DEF IInv, TypeOK, LockInv, Holds, NewNode, dispVars
  <1>4. RingInv' /\ WalkInv'
    BY DEF IInv, RingInv, WalkInv, Chained, NewNode, dispVars
  <1>5. OwnedInv'
    <2>1. UNCHANGED <<ring, batch, req, dpc>> /\ Queued' = Queued
      BY DEF NewNode, dispVars, Queued, Nodes
    <2>2. a \notin Queued \cup {req} /\ \A u \in Thread : node[u] # a
      BY DEF IInv, OwnedInv
    <2>3. node'[t] = a /\ \A u \in Thread \ {t} : node'[u] = node[u]
      BY <1>1 DEF IInv, TypeOK
    <2>4. node[t] = NULL
      BY DEF IInv, OwnedInv, NewNode
    <2>5. (Distinct(ring) /\ Distinct(batch) /\ Nodes(ring) \cap Nodes(batch) = {})'
      BY <2>1 DEF IInv, OwnedInv, Distinct, Nodes
    <2>6. \A u \in Thread : node'[u] # NULL <=> pc'[u] \in {"lock", "link"}
      BY <2>3 DEF IInv, TypeOK, OwnedInv, NewNode
    <2>7. /\ \A u \in Thread : node'[u] # NULL => node'[u] \notin Queued' \cup {req'}
          /\ \A u, v \in Thread : node'[u] = node'[v] /\ node'[u] # NULL => u = v
      BY <2>1, <2>2, <2>3 DEF IInv, OwnedInv
    <2>8. {node'[u] : u \in Thread} \ {NULL} = ({node[u] : u \in Thread} \ {NULL}) \cup {a}
      BY <2>3, <2>4
    <2>9. alloc' = (Queued' \cup {req'} \cup {node'[u] : u \in Thread}) \ {NULL}
      BY <1>1, <2>1, <2>8 DEF IInv, OwnedInv
    <2>10. \A b \in alloc' : msg'[b] \in Msg
      BY <1>1 DEF IInv, TypeOK, OwnedInv
    <2>11. (req' # NULL <=> dpc' = "handle") /\ req' \notin Queued'
      BY <2>1 DEF IInv, OwnedInv
    <2> QED
      BY <2>5, <2>6, <2>7, <2>9, <2>10, <2>11 DEF OwnedInv
  <1> QED
    BY <1>2, <1>3, <1>4, <1>5 DEF IInv

\* Lock of PushBackMsg: the mutex was free, so nobody else holds it.
LEMMA PushLockInv ==
    ASSUME IInv, NEW t \in Thread, PushLock(t)
    PROVE  IInv'
  <1> USE ThreadFacts
  <1>1. TypeOK'
    BY DEF IInv, TypeOK, PushLock, dispVars
  <1>2. LockInv'
    BY DEF IInv, TypeOK, LockInv, Holds, PushLock, dispVars
  <1>3. RingInv' /\ WalkInv'
    BY DEF IInv, RingInv, WalkInv, Chained, PushLock, dispVars
  <1>4. OwnedInv'
    <2>1. UNCHANGED <<ring, batch, node, req, alloc, msg, dpc>>
      BY DEF PushLock, dispVars
    <2>2. \A u \in Thread : node'[u] # NULL <=> pc'[u] \in {"lock", "link"}
      BY <2>1 DEF IInv, TypeOK, OwnedInv, PushLock
    <2> QED
      BY <2>1, <2>2 DEF IInv, OwnedInv, Queued, Nodes, Distinct
  <1> QED
    BY <1>1, <1>2, <1>3, <1>4 DEF IInv

\* The node a thread pushes is in no list, so linking it changes no link of
\* the batch and of the ring only that of its last node.
LEMMA PushLinkInv ==
    ASSUME IInv, NEW t \in Thread, PushLink(t)
    PROVE  IInv'
  <1> USE ThreadFacts
  <1> DEFINE n == node[t]
             k == Len(ring)
  <1>1. /\ n \in Addr /\ n # NULL /\ n \notin Nodes(ring) /\ n \notin Nodes(batch)
        /\ n # req /\ ring \in Seq(Addr) /\ batch \in Seq(Addr)
        /\ next \in [Addr -> Addr \cup {NULL}] /\ k \in Nat
    BY DEF IInv, TypeOK, OwnedInv, Queued, PushLink
  <1>2. /\ ring' = Append(ring, n) /\ m_pMsgTail' = n
        /\ ring' \in Seq(Addr) /\ Len(ring') = k + 1 /\ ring'[k + 1] = n
        /\ \A i \in 1..k : ring'[i] = ring[i]
    BY <1>1 DEF PushLink
  <1>3. m_pMsgTail # NULL => k > 0 /\ m_pMsgTail = ring[k] /\ ring[k] \in Addr
    BY <1>1 DEF IInv, RingInv
  <1>4. TypeOK'
    <2>1. next' \in [Addr -> Addr \cup {NULL}]
      <3>1. next[m_pMsgTail] \in Addr \cup {NULL} \/ m_pMsgTail = NULL
        BY <1>1, <1>3
      <3> HIDE DEF n
      <3>2. CASE m_pMsgTail = NULL
        <4>1. next' = [next EXCEPT ![n] = n]
          BY <3>2, ThreadFacts DEF PushLink, n
        <4> QED
          BY <1>1, <4>1
      <3>3. CASE m_pMsgTail # NULL
        <4>1. next' = [next EXCEPT ![n] = next[m_pMsgTail], ![m_pMsgTail] = n]
          BY <3>3 DEF PushLink, n
        <4> QED
          BY <1>1, <3>1, <3>3, <4>1
      <3> QED
        BY <3>2, <3>3
    <2>2. pc' \in [Thread -> {"idle", "lock", "link", "unlock"}]
      BY DEF IInv, TypeOK, PushLink
    <2>3. node' \in [Thread -> Addr \cup {NULL}]
      BY DEF IInv, TypeOK, PushLink
    <2>4. UNCHANGED <<m_lock, msg, alloc, dispVars, batch>>
      BY DEF PushLink
    <2> QED
      BY <1>1, <1>2, <2>1, <2>2, <2>3, <2>4 DEF IInv, TypeOK, dispVars
  <1>5. LockInv'
    BY DEF IInv, TypeOK, LockInv, Holds, PushLink, dispVars
  <1>6. RingInv'
    <2>1. \A i \in 1..k : ring[i] \in Addr /\ ring[i] # n
      BY <1>1 DEF Nodes
    <2>2. \A i \in 1..k : i # k => ring[i] # ring[k]
      BY <1>1 DEF IInv, OwnedInv, Distinct
    <2>3. CASE m_pMsgTail = NULL
      <3>1. ring = <<>>
        BY <2>3, <1>1 DEF IInv, RingInv
      <3>2. next' = [next EXCEPT ![n] = n]
        BY <2>3 DEF PushLink
      <3> QED
        BY <1>1, <1>2, <3>1, <3>2 DEF RingInv, Chained
    <2>4. CASE m_pMsgTail # NULL
      <3>1. next' = [next EXCEPT ![n] = next[ring[k]], ![ring[k]] = n]
        BY <1>3, <2>4 DEF PushLink
      <3>2. next[ring[k]] = ring[1] /\ \A i \in 1..k - 1 : next[ring[i]] = ring[i + 1]
        BY <1>1, <1>3, <2>4 DEF IInv, RingInv, Chained
      <3>3. \A i \in 1..k : next'[ring'[i]] = ring'[i + 1]
        BY <1>1, <1>2, <1>3, <2>1, <2>2, <2>4, <3>1, <3>2
      <3>4. next'[ring'[k + 1]] = ring'[1]
        BY <1>1, <1>2, <1>3, <2>1, <2>4, <3>1, <3>2
      <3> QED
        BY <1>1, <1>2, <3>3, <3>4 DEF RingInv, Chained
    <2> QED
      BY <2>3, <2>4
  <1>7. WalkInv'
    <2>1. \A i \in 1..Len(batch) : batch[i] # n /\ batch[i] # m_pMsgTail
      <3>1. TAKE i \in 1..Len(batch)
      <3>2. batch[i] \in Nodes(batch) /\ batch[i] \in Addr
        BY <1>1 DEF Nodes
      <3>3. CASE m_pMsgTail = NULL
        BY <1>1, <3>2, <3>3
      <3>4. CASE m_pMsgTail # NULL
        <4>1. m_pMsgTail \in Nodes(ring)
          BY <1>1, <1>3, <3>4 DEF Nodes
        <4>2. Nodes(ring) \cap Nodes(batch) = {}
          BY DEF IInv, OwnedInv
        <4> HIDE DEF n
        <4> QED
          BY <1>1, <3>2, <4>1, <4>2
      <3> QED
        BY <3>3, <3>4
    <2>2. \A i \in 1..Len(batch) : next'[batch[i]] = next[batch[i]]
      BY <1>1, <2>1 DEF PushLink
    <2>3. batch' = batch /\ nxt' = nxt /\ first' = first /\ dpc' = dpc
      BY DEF PushLink, dispVars
    <2> QED
      BY <1>1, <2>2, <2>3 DEF IInv, WalkInv, Chained
  <1>8. OwnedInv'
    <2>1. Nodes(ring)' = Nodes(ring) \cup {n}
      BY <1>1, <1>2 DEF Nodes
    <2>2. Distinct(ring)'
      BY <1>1, <1>2 DEF IInv, OwnedInv, Distinct, Nodes
    <2>3. UNCHANGED <<batch, req, dpc, alloc, msg>>
      BY DEF PushLink, dispVars
    <2>4. Queued' = Queued \cup {n}
      BY <2>1, <2>3 DEF Queued, Nodes
    <2>5. node'[t] = NULL /\ \A u \in Thread \ {t} : node'[u] = node[u]
      BY DEF IInv, TypeOK, PushLink
    <2>6. (Distinct(batch) /\ Nodes(ring) \cap Nodes(batch) = {})'
      <3>1. Nodes(batch)' = Nodes(batch) /\ Distinct(batch)' = Distinct(batch)
        BY <2>3 DEF Nodes, Distinct
      <3> QED
        BY <1>1, <2>1, <3>1 DEF IInv, OwnedInv
    <2>7. \A u \in Thread : node'[u] # NULL <=> pc'[u] \in {"lock", "link"}
      BY <2>5 DEF IInv, TypeOK, OwnedInv, PushLink
    <2>8. /\ \A u \in Thread : node'[u] # NULL => node'[u] \notin Queued' \cup {req'}
          /\ \A u, v \in Thread : node'[u] = node'[v] /\ node'[u] # NULL => u = v
      BY <1>1, <2>3, <2>4, <2>5 DEF IInv, OwnedInv
    <2>9. {node'[u] : u \in Thread} \cup {n, NULL} = {node[u] : u \in Thread} \cup {NULL}
      BY <2>5
    <2>10. alloc' = (Queued' \cup {req'} \cup {node'[u] : u \in Thread}) \ {NULL}
      BY <1>1, <2>3, <2>4, <2>9 DEF IInv, OwnedInv
    <2>11. (req' # NULL <=> dpc' = "handle") /\ req' \notin Queued'
           /\ \A b \in alloc' : msg'[b] \in Msg
      BY <1>1, <2>3, <2>4 DEF IInv, OwnedInv
    <2> QED
      BY <2>2, <2>6, <2>7, <2>8, <2>10, <2>11 DEF OwnedInv
  <1> QED
    BY <1>4, <1>5, <1>6, <1>7, <1>8 DEF IInv

\* UnLock of PushBackMsg: its holder gives the mutex back.
LEMMA PushUnlockInv ==
    ASSUME IInv, NEW t \in Thread, PushUnlock(t)
    PROVE  IInv'
  <1> USE ThreadFacts
  <1>1. TypeOK'
    BY DEF IInv, TypeOK, PushUnlock, dispVars
  <1>2. LockInv'
    BY DEF IInv, TypeOK, LockInv, Holds, PushUnlock, dispVars
  <1>3. RingInv' /\ WalkInv'
    BY DEF IInv, RingInv, WalkInv, Chained, PushUnlock, dispVars
  <1>4. OwnedInv'
    <2>1. UNCHANGED <<ring, batch, node, req, alloc, msg, dpc>>
      BY DEF PushUnlock, dispVars
    <2>2. \A u \in Thread : node'[u] # NULL <=> pc'[u] \in {"lock", "link"}
      BY <2>1 DEF IInv, TypeOK, OwnedInv, PushUnlock
    <2> QED
      BY <2>1, <2>2 DEF IInv, OwnedInv, Queued, Nodes, Distinct
  <1> QED
    BY <1>1, <1>2, <1>3, <1>4 DEF IInv

\* The three steps of the dispatcher that touch no node.
LEMMA PollInv ==
    ASSUME IInv, Poll \/ DispatchLock \/ DispatchUnlock \/ WalkDone
    PROVE  IInv'
  <1> USE ThreadFacts
  <1>1. UNCHANGED <<m_pMsgTail, next, msg, alloc, pc, node, first, nxt, req, handled, ring, batch>>
    BY DEF Poll, DispatchLock, DispatchUnlock, WalkDone, pushVars
  <1>2. TypeOK'
    BY <1>1 DEF IInv, TypeOK, Poll, DispatchLock, DispatchUnlock, WalkDone
  <1>3. LockInv'
    <2>1. CASE Poll \/ WalkDone
      BY <1>1, <2>1 DEF IInv, LockInv, Holds, Poll, WalkDone
    <2>2. CASE DispatchLock
      BY <1>1, <2>2 DEF IInv, LockInv, Holds, DispatchLock
    <2>3. CASE DispatchUnlock
      BY <1>1, <2>3 DEF IInv, LockInv, Holds, DispatchUnlock
    <2> QED
      BY <2>1, <2>2, <2>3
  <1>4. RingInv'
    BY <1>1 DEF IInv, RingInv, Chained, Poll, DispatchLock, DispatchUnlock, WalkDone
  <1>5. WalkInv'
    <2>1. batch # <<>> => dpc' \in {"unlock", "walk", "handle"}
      <3>1. WalkDone => batch = <<>>
        <4>1. batch # <<>> => batch[1] \in Addr
          BY DEF IInv, TypeOK
        <4> QED
          BY <4>1 DEF IInv, WalkInv, WalkDone
      <3> QED
        BY <3>1 DEF IInv, WalkInv, Poll, DispatchLock, DispatchUnlock
    <2> QED
      BY <1>1, <2>1 DEF IInv, WalkInv, Chained
  <1>6. OwnedInv'
    <2>1. (dpc' = "handle") <=> (dpc = "handle")
      BY DEF Poll, DispatchLock, DispatchUnlock, WalkDone
    <2>2. /\ Nodes(ring)' = Nodes(ring) /\ Nodes(batch)' = Nodes(batch)
          /\ Distinct(ring)' = Distinct(ring) /\ Distinct(batch)' = Distinct(batch)
      BY <1>1 DEF Nodes, Distinct
    <2>3. Queued' = Queued
      BY <2>2 DEF Queued
    <2> QED
      BY <1>1, <2>1, <2>2, <2>3 DEF IInv, OwnedInv
  <1> QED
    BY <1>2, <1>3, <1>4, <1>5, <1>6 DEF IInv

\* The ring becomes the batch: its first node is where the walk starts and
\* what its last node is followed by.
LEMMA DetachInv ==
    ASSUME IInv, Detach
    PROVE  IInv'
  <1> USE ThreadFacts
  <1>1. /\ batch = <<>> /\ ring # <<>> /\ ring \in Seq(Addr) /\ Len(ring) \in Nat \ {0}
        /\ ring[1] \in Addr /\ next[m_pMsgTail] = ring[1]
    <2>1. ring # <<>> /\ dpc = "detach" /\ ring \in Seq(Addr) /\ batch \in Seq(Addr)
      BY DEF IInv, TypeOK, RingInv, Detach
    <2>2. Len(ring) \in Nat \ {0} /\ ring[1] \in Addr
      BY <2>1
    <2>3. batch = <<>>
      BY <2>1 DEF IInv, WalkInv
    <2>4. next[m_pMsgTail] = ring[1]
      BY <2>1 DEF IInv, RingInv, Chained
    <2> QED
      BY <2>1, <2>2, <2>3, <2>4
  <1>2. UNCHANGED <<next, msg, alloc, pc, node, m_lock, req, handled>>
    BY DEF Detach, pushVars
  <1>3. batch' = ring /\ ring' = <<>> /\ first' = ring[1] /\ nxt' = ring[1]
    BY <1>1 DEF Detach
  <1>4. TypeOK'
    BY <1>1, <1>2, <1>3 DEF IInv, TypeOK, Detach
  <1>5. LockInv'
    BY <1>2 DEF IInv, LockInv, Holds, Detach
  <1>6. RingInv'
    BY <1>3 DEF RingInv, Detach
  <1>7. WalkInv'
    <2>1. \A i \in 2..Len(ring) : ring[i] # ring[1]
      BY <1>1 DEF IInv, OwnedInv, Distinct
    <2>2. Chained(batch, first)'
      BY <1>1, <1>2, <1>3 DEF IInv, RingInv, Chained
    <2> QED
      BY <1>1, <1>3, <2>1, <2>2 DEF WalkInv, Detach
  <1>8. OwnedInv'
    <2>1. Nodes(ring') = {} /\ Nodes(batch') = Nodes(ring) /\ Nodes(batch) = {}
      BY <1>1, <1>3 DEF Nodes
    <2>2. Queued' = Queued
      BY <2>1 DEF Queued, Nodes
    <2>3. Distinct(ring') /\ Distinct(batch')
      BY <1>3 DEF IInv, OwnedInv, Distinct
    <2>4. dpc # "handle" /\ dpc' # "handle"
      BY DEF Detach
    <2>5. (Distinct(ring) /\ Distinct(batch) /\ Nodes(ring) \cap Nodes(batch) = {})'
      BY <2>1, <2>3 DEF Nodes, Distinct
    <2> QED
      BY <1>2, <2>2, <2>4, <2>5 DEF IInv, OwnedInv
  <1> QED
    BY <1>4, <1>5, <1>6, <1>7, <1>8 DEF IInv

\* The walk takes the first node of the batch; it stops behind the last one,
\* the only one that is followed by first.
LEMMA WalkStepInv ==
    ASSUME IInv, Walk
    PROVE  IInv'
  <1> USE ThreadFacts
  <1> DEFINE k == Len(batch)
  <1>1. /\ batch # <<>> /\ batch \in Seq(Addr) /\ k \in Nat \ {0}
        /\ nxt = batch[1] /\ nxt \in Addr
    BY DEF IInv, TypeOK, WalkInv, Walk
  <1>2. UNCHANGED <<next, msg, alloc, pc, node, m_lock, m_pMsgTail, first, ring>>
    BY DEF Walk, pushVars
  <1>3. /\ batch' = Tail(batch) /\ batch' \in Seq(Addr) /\ Len(batch') = k - 1
        /\ \A i \in 1..k - 1 : batch'[i] = batch[i + 1]
    BY <1>1 DEF Walk
  <1>4. req' = batch[1] /\ dpc' = "handle" /\ dpc = "walk" /\ req = NULL
    BY <1>1 DEF IInv, OwnedInv, Walk
  <1>5. TypeOK'
    <2>1. msg[nxt] \in Msg \cup {NoMsg} /\ next[nxt] \in Addr \cup {NULL}
      BY <1>1 DEF IInv, TypeOK
    <2> QED
      BY <1>1, <1>2, <1>3, <2>1 DEF IInv, TypeOK, Walk
  <1>6. LockInv'
    BY <1>2 DEF IInv, LockInv, Holds, Walk
  <1>7. RingInv'
    BY <1>2, <1>4 DEF IInv, RingInv, Chained
  <1>8. WalkInv'
    <2>1. CASE k = 1
      <3>1. next[nxt] = first
        BY <1>1, <2>1 DEF IInv, WalkInv, Chained
      <3>2. batch' = <<>> /\ nxt' = NULL
        BY <1>3, <2>1, <3>1 DEF Walk
      <3> QED
        BY <3>2 DEF WalkInv, Chained
    <2>2. CASE k > 1
      <3>1. next[nxt] = batch[2] /\ batch[2] # first
        BY <1>1, <2>2 DEF IInv, WalkInv, Chained
      <3>2. batch' # <<>> /\ nxt' = batch'[1]
        <4>1. 1 \in 1..k - 1 /\ 1 + 1 = 2
          BY <1>1, <2>2
        <4>2. batch'[1] = batch[2]
          BY <1>3, <4>1
        <4>3. nxt' = IF next[nxt] # first THEN next[nxt] ELSE NULL
          BY DEF Walk
        <4>4. Len(batch') # 0
          BY <1>1, <1>3, <2>2
        <4> HIDE DEF k
        <4> QED
          BY <3>1, <4>2, <4>3, <4>4
      <3>3. Chained(batch, first)'
        <4>1. /\ \A i \in 1..k - 1 : next[batch[i]] = batch[i + 1]
              /\ next[batch[k]] = first
          BY <1>1 DEF IInv, WalkInv, Chained
        <4>2. k - 1 \in 1..k - 1 /\ (k - 1) + 1 = k
          BY <1>1, <2>2
        <4>3. batch'[k - 1] = batch[k]
          BY <1>3, <4>2
        <4>4. \A i \in 1..(k - 1) - 1 : next[batch'[i]] = batch'[i + 1]
          <5> SUFFICES ASSUME NEW i \in 1..(k - 1) - 1 PROVE next[batch'[i]] = batch'[i + 1]
            OBVIOUS
          <5>1. i \in 1..k - 1 /\ i + 1 \in 1..k - 1
            BY <1>1
          <5>2. batch'[i] = batch[i + 1] /\ batch'[i + 1] = batch[(i + 1) + 1]
            BY <1>3, <5>1
          <5> QED
            BY <4>1, <5>1, <5>2
        <4> HIDE DEF k
        <4> QED
          BY <1>2, <1>3, <4>1, <4>3, <4>4 DEF Chained
      <3>4. \A i \in 2..Len(batch') : batch'[i] # first'
        <4> SUFFICES ASSUME NEW i \in 2..k - 1 PROVE batch'[i] # first
          BY <1>2, <1>3
        <4>1. i \in 1..k - 1 /\ i + 1 \in 2..k
          BY <1>1
        <4> QED
          BY <1>3, <4>1 DEF IInv, WalkInv
      <3> QED
        BY <1>4, <3>2, <3>3, <3>4 DEF WalkInv, Chained
    <2>3. \A j \in Nat \ {0} : j = 1 \/ j > 1
      OBVIOUS
    <2>4. k = 1 \/ k > 1
      BY <1>1, <2>3
    <2> QED
      BY <2>1, <2>2, <2>4
  <1>9. OwnedInv'
    <2>1. Nodes(batch) = Nodes(batch') \cup {batch[1]}
      <3>1. Nodes(batch) \subseteq Nodes(batch') \cup {batch[1]}
        <4>1. SUFFICES ASSUME NEW i \in 1..k PROVE batch[i] \in Nodes(batch') \cup {batch[1]}
          BY DEF Nodes
        <4>2. CASE i # 1
          <5>1. i - 1 \in 1..k - 1 /\ batch'[i - 1] = batch[i]
            BY <1>1, <1>3, <4>2
          <5> QED
            BY <1>3, <5>1 DEF Nodes
        <4> QED
          BY <4>2
      <3>2. Nodes(batch') \cup {batch[1]} \subseteq Nodes(batch)
        BY <1>1, <1>3 DEF Nodes
      <3> QED
        BY <3>1, <3>2
    <2>2. batch[1] \notin Nodes(batch')
      BY <1>1, <1>3 DEF IInv, OwnedInv, Distinct, Nodes
    <2>3. batch[1] \notin Nodes(ring)
      BY <2>1 DEF IInv, OwnedInv
    <2>4. Distinct(batch')
      BY <1>1, <1>3 DEF IInv, OwnedInv, Distinct
    <2>5. Nodes(ring') = Nodes(ring) /\ Distinct(ring')
      BY <1>2 DEF IInv, OwnedInv
    <2>6. Queued = Queued' \cup {req'} /\ req' \notin Queued' /\ req' # NULL
      <3>1. Queued' = Nodes(batch') \cup Nodes(ring')
        BY DEF Queued, Nodes
      <3>2. Queued = Nodes(batch) \cup Nodes(ring)
        BY DEF Queued
      <3> QED
        BY <1>1, <1>4, <2>1, <2>2, <2>3, <2>5, <3>1, <3>2
    <2>7. (Distinct(ring) /\ Distinct(batch) /\ Nodes(ring) \cap Nodes(batch) = {})'
      <3>1. Nodes(ring') \cap Nodes(batch') = {}
        BY <2>1, <2>5 DEF IInv, OwnedInv
      <3> QED
        BY <2>4, <2>5, <3>1 DEF Distinct, Nodes
    <2>8. Queued \cup {req} \cup {NULL} = Queued' \cup {req'} \cup {NULL}
      BY <1>4, <2>6
    <2>9. alloc' = (Queued' \cup {req'} \cup {node'[u] : u \in Thread}) \ {NULL}
      BY <1>2, <2>8 DEF IInv, OwnedInv
    <2> QED
      BY <1>2, <1>4, <2>6, <2>7, <2>9 DEF IInv, OwnedInv
  <1> QED
    BY <1>5, <1>6, <1>7, <1>8, <1>9 DEF IInv

\* The handled node is in neither list, so clearing its link breaks none.
LEMMA DeleteInv ==
    ASSUME IInv, Delete
    PROVE  IInv'
  <1> USE ThreadFacts
  <1>1. /\ req \in Addr /\ req # NULL /\ req \notin Nodes(ring) /\ req \notin Nodes(batch)
        /\ next \in [Addr -> Addr \cup {NULL}] /\ ring \in Seq(Addr) /\ batch \in Seq(Addr)
    BY DEF IInv, TypeOK, OwnedInv, Queued, Delete
  <1>2. UNCHANGED <<m_lock, m_pMsgTail, msg, pc, node, first, nxt, handled, ring, batch>>
    BY DEF Delete, pushVars
  <1>3. next' = [next EXCEPT ![req] = NULL] /\ req' = NULL /\ alloc' = alloc \ {req}
    BY DEF Delete
  <1>4. TypeOK'
    BY <1>1, <1>2, <1>3 DEF IInv, TypeOK, Delete
  <1>5. LockInv'
    BY <1>2 DEF IInv, LockInv, Holds, Delete
  <1>6. /\ \A i \in 1..Len(ring) : next'[ring[i]] = next[ring[i]]
        /\ \A i \in 1..Len(batch) : next'[batch[i]] = next[batch[i]]
    BY <1>1, <1>3 DEF Nodes
  <1>7. RingInv'
    BY <1>1, <1>2, <1>6 DEF IInv, RingInv, Chained, Delete
  <1>8. WalkInv'
    BY <1>1, <1>2, <1>6 DEF IInv, WalkInv, Chained, Delete
  <1>9. OwnedInv'
    <2>1. Queued' = Queued
      BY <1>2 DEF Queued, Nodes
    <2>2. req \notin Queued /\ \A u \in Thread : node[u] # req
      BY <1>1 DEF IInv, OwnedInv
    <2>3. alloc' = (Queued' \cup {req'} \cup {node'[u] : u \in Thread}) \ {NULL}
      BY <1>1, <1>2, <1>3, <2>1, <2>2 DEF IInv, OwnedInv
    <2>4. (Distinct(ring) /\ Distinct(batch) /\ Nodes(ring) \cap Nodes(batch) = {})'
      BY <1>2 DEF IInv, OwnedInv, Distinct, Nodes
    <2>5. NULL \notin Queued
      BY <1>1 DEF IInv, TypeOK, Queued, Nodes
    <2> QED
      BY <1>1, <1>2, <1>3, <2>1, <2>2, <2>3, <2>4, <2>5 DEF IInv, OwnedInv, Delete
  <1> QED
    BY <1>4, <1>5, <1>7, <1>8, <1>9 DEF IInv

\* The invariant is inductive: every step of the code preserves it.
LEMMA NextInv == IInv /\ [Next]_vars => IInv'
  <1> SUFFICES ASSUME IInv, [Next]_vars PROVE IInv'
    OBVIOUS
  <1>1. CASE UNCHANGED vars
    <2>1. TypeOK' /\ LockInv'
      BY <1>1 DEF IInv, TypeOK, LockInv, Holds, vars, dispVars, pushVars
    <2>2. RingInv' /\ WalkInv'
      BY <1>1 DEF IInv, RingInv, WalkInv, Chained, vars, dispVars, pushVars
    <2>3. OwnedInv'
      <3>1. Queued' = Queued
        BY <1>1 DEF Queued, Nodes, vars, dispVars
      <3>2. (Distinct(ring) /\ Distinct(batch) /\ Nodes(ring) \cap Nodes(batch) = {})'
        BY <1>1 DEF IInv, OwnedInv, Distinct, Nodes, vars
      <3>3. UNCHANGED <<alloc, req, node, pc, dpc, msg>>
        BY <1>1 DEF vars, pushVars, dispVars
      <3> QED
        BY <3>1, <3>2, <3>3 DEF IInv, OwnedInv
    <2> QED
      BY <2>1, <2>2, <2>3 DEF IInv
  <1>2. ASSUME NEW t \in Thread, PushBackMsg(t) PROVE IInv'
    BY <1>2, NewNodeInv, PushLockInv, PushLinkInv, PushUnlockInv DEF PushBackMsg
  <1>3. CASE DispatchThreadMsg
    BY <1>3, PollInv, DetachInv, WalkStepInv, DeleteInv DEF DispatchThreadMsg
  <1> QED
    BY <1>1, <1>2, <1>3 DEF Next

\* It holds in every reachable state.
LEMMA Invariance == Spec => []IInv
  BY InitIInv, NextInv, PTL DEF Spec

\* The variables of the mailbox keep their types: no null or freed pointer
\* is stored where PushBackMsg or DispatchThreadMsg expects a node.
THEOREM TypeCorrect == Spec => []TypeOK
  <1>1. IInv => TypeOK
    BY DEF IInv
  <1> QED
    BY <1>1, Invariance, PTL

\* Lock and UnLock of CUVMutex bracket the two critical sections, and the
\* handler's own pushes never lock the mutex its thread holds.
THEOREM MutualExclusion == Spec => []LockInv
  <1>1. IInv => LockInv
    BY DEF IInv
  <1> QED
    BY <1>1, Invariance, PTL

\* DispatchThreadMsg, past its unlocked test of m_pMsgTail, always detaches a
\* ring that is not empty and well-linked.
THEOREM RingCorrect == Spec => []RingInv
  <1>1. IInv => RingInv
    BY DEF IInv
  <1> QED
    BY <1>1, Invariance, PTL

\* The unlocked walk visits the detached nodes in order and stops after the
\* last, although addresses are reused while it goes on.
THEOREM WalkCorrect == Spec => []WalkInv
  <1>1. IInv => WalkInv
    BY DEF IInv
  <1> QED
    BY <1>1, Invariance, PTL

\* Every NodeMsg has one owner until it is deleted: no leak, no double free.
THEOREM OneOwner == Spec => []OwnedInv
  <1>1. IInv => OwnedInv
    BY DEF IInv
  <1> QED
    BY <1>1, Invariance, PTL

(***************************************************************************)
(* Refinement: the batch and then the ring are the queue of MsgQueue.      *)
(***************************************************************************)
Content == Msgs(batch) \o Msgs(ring)

\* A sequence is the function of its elements: to compare sequences pointwise.
LEMMA SeqIsFunction ==
    ASSUME NEW S, NEW s \in Seq(S)
    PROVE  s = [i \in 1..Len(s) |-> s[i]]
  <1>1. s \in [1..Len(s) -> S]
    BY LenProperties
  <1> QED
    BY <1>1

\* The messages of the two lists are sequences of messages, of their lengths.
LEMMA ContentFacts ==
    ASSUME IInv
    PROVE  /\ Msgs(batch) \in Seq(Msg) /\ Len(Msgs(batch)) = Len(batch)
           /\ Msgs(ring) \in Seq(Msg) /\ Len(Msgs(ring)) = Len(ring)
           /\ Len(batch) \in Nat /\ Len(ring) \in Nat
  <1>1. ring \in Seq(Addr) /\ batch \in Seq(Addr) /\ NULL \notin Addr
    BY ThreadFacts DEF IInv, TypeOK
  <1>2. Nodes(batch) \cup Nodes(ring) \subseteq alloc
    BY <1>1 DEF IInv, OwnedInv, Queued, Nodes
  <1>3. /\ \A i \in 1..Len(ring) : msg[ring[i]] \in Msg
        /\ \A i \in 1..Len(batch) : msg[batch[i]] \in Msg
    BY <1>2 DEF IInv, OwnedInv, Nodes
  <1> QED
    BY <1>1, <1>3 DEF Msgs

\* A step that keeps the lists, their messages and the last delivery.
LEMMA SameContent ==
    ASSUME UNCHANGED <<batch, ring, handled>>,
           \A i \in 1..Len(batch) : msg'[batch[i]] = msg[batch[i]],
           \A i \in 1..Len(ring) : msg'[ring[i]] = msg[ring[i]]
    PROVE  UNCHANGED <<Content, handled>>
  <1>1. Msgs(batch)' = Msgs(batch) /\ Msgs(ring)' = Msgs(ring)
    BY DEF Msgs
  <1> QED
    BY <1>1 DEF Content

\* Filling a fresh node changes no message of the queue.
LEMMA NewNodeStep ==
    ASSUME IInv, NEW t \in Thread, NEW m \in Msg, NewNode(t, m)
    PROVE  UNCHANGED <<Content, handled>>
  <1>1. PICK a \in Addr \ alloc : msg' = [msg EXCEPT ![a] = m]
    BY DEF NewNode
  <1>2. a \notin Queued
    BY <1>1, ThreadFacts DEF IInv, OwnedInv
  <1>3. /\ \A i \in 1..Len(batch) : batch[i] # a
        /\ \A i \in 1..Len(ring) : ring[i] # a
    BY <1>2 DEF Queued, Nodes
  <1>4. /\ \A i \in 1..Len(batch) : batch[i] \in Addr
        /\ \A i \in 1..Len(ring) : ring[i] \in Addr
    BY DEF IInv, TypeOK
  <1>5. /\ \A i \in 1..Len(batch) : msg'[batch[i]] = msg[batch[i]]
        /\ \A i \in 1..Len(ring) : msg'[ring[i]] = msg[ring[i]]
    BY <1>1, <1>3, <1>4 DEF IInv, TypeOK
  <1>6. UNCHANGED <<batch, ring, handled>>
    BY DEF NewNode, dispVars
  <1> QED
    BY <1>5, <1>6, SameContent

\* Linking a node appends its message to the queue.
LEMMA PushLinkStep ==
    ASSUME IInv, NEW t \in Thread, PushLink(t)
    PROVE  \E m \in Msg : Content' = Append(Content, m) /\ UNCHANGED handled
  <1> DEFINE m == msg[node[t]]
             b == Msgs(batch)
             r == Msgs(ring)
  <1>1. m \in Msg
    BY ThreadFacts DEF IInv, OwnedInv, PushLink
  <1>2. /\ ring' = Append(ring, node[t]) /\ ring \in Seq(Addr) /\ node[t] \in Addr
        /\ UNCHANGED <<batch, msg, handled>>
    BY DEF PushLink, dispVars, IInv, TypeOK, OwnedInv
  <1>3. b \in Seq(Msg) /\ r \in Seq(Msg) /\ Len(r) = Len(ring)
    BY ContentFacts
  <1>4. Msgs(ring)' = [i \in 1..Len(ring) + 1 |-> msg[ring'[i]]]
    BY <1>2 DEF Msgs
  <1>5. Append(r, m) = [i \in 1..Len(ring) + 1 |-> msg[ring'[i]]]
    <2>1. \A i \in 1..Len(ring) : r[i] = msg[ring'[i]]
      BY <1>2 DEF Msgs
    <2>2. m = msg[ring'[Len(ring) + 1]]
      BY <1>2
    <2>3. /\ Append(r, m) \in Seq(Msg) /\ Len(Append(r, m)) = Len(ring) + 1
          /\ \A i \in 1..Len(ring) : Append(r, m)[i] = r[i]
          /\ Append(r, m)[Len(ring) + 1] = m
      <3> HIDE DEF r, m
      <3> QED
        BY <1>1, <1>3
    <2>4. Append(r, m) = [i \in 1..Len(ring) + 1 |-> Append(r, m)[i]]
      <3> HIDE DEF r, m
      <3>1. Append(r, m) = [i \in 1..Len(Append(r, m)) |-> Append(r, m)[i]]
        BY <2>3, SeqIsFunction, Zenon
      <3> QED
        BY <2>3, <3>1
    <2>5. Len(ring) \in Nat /\ \A i \in 1..Len(ring) + 1 : i \in 1..Len(ring) \/ i = Len(ring) + 1
      BY <1>2
    <2>6. \A i \in 1..Len(ring) + 1 : Append(r, m)[i] = msg[ring'[i]]
      <3> HIDE DEF r, m
      <3> QED
        BY <2>1, <2>2, <2>3, <2>5
    <2> HIDE DEF r, m
    <2> QED
      BY <2>4, <2>6
  <1>6. Msgs(ring)' = Append(r, m) /\ Msgs(batch)' = b
    BY <1>2, <1>4, <1>5 DEF Msgs
  <1>7. b \o Append(r, m) = Append(b \o r, m)
    <2> HIDE DEF b, r, m
    <2> QED
      BY <1>1, <1>3, AppendIsConcat, ConcatAssociative, ConcatProperties
  <1> QED
    BY <1>1, <1>2, <1>6, <1>7 DEF Content

\* Detaching the ring moves messages from one list to the other, in order.
LEMMA DetachStep ==
    ASSUME IInv, Detach
    PROVE  UNCHANGED <<Content, handled>>
  <1>1. batch = <<>> /\ batch' = ring /\ ring' = <<>> /\ UNCHANGED <<msg, handled>>
    BY DEF IInv, WalkInv, Detach
  <1>2. /\ Msgs(batch) = <<>> /\ Msgs(ring)' = <<>> /\ Msgs(batch)' = Msgs(ring)
        /\ Msgs(ring) \in Seq(Msg)
    BY <1>1, ContentFacts DEF Msgs
  <1> QED
    BY <1>1, <1>2, ConcatEmptySeq DEF Content

\* Fetching a node delivers the oldest message.
LEMMA WalkStep ==
    ASSUME IInv, Walk
    PROVE  Content # <<>> /\ handled' = Head(Content) /\ Content' = Tail(Content)
  <1> DEFINE b == Msgs(batch)
             r == Msgs(ring)
             k == Len(batch)
  <1>1. /\ batch # <<>> /\ batch \in Seq(Addr) /\ nxt = batch[1] /\ batch' = Tail(batch)
        /\ k \in Nat \ {0} /\ UNCHANGED <<msg, ring>> /\ handled' = msg[nxt]
    BY DEF IInv, TypeOK, WalkInv, Walk
  <1>2. b \in Seq(Msg) /\ r \in Seq(Msg) /\ Len(b) = k
    BY ContentFacts
  <1>3. Msgs(batch)' = Tail(b) /\ handled' = b[1] /\ Msgs(ring)' = r
    <2>1. Msgs(batch)' = [i \in 1..k - 1 |-> msg[batch[i + 1]]]
      BY <1>1 DEF Msgs
    <2>2. Tail(b) = [i \in 1..k - 1 |-> b[i + 1]]
      <3> HIDE DEF b, k
      <3>1. b # <<>>
        BY <1>1, <1>2
      <3>2. /\ Tail(b) \in Seq(Msg) /\ Len(Tail(b)) = k - 1
            /\ \A i \in 1..k - 1 : Tail(b)[i] = b[i + 1]
        BY <1>2, <3>1, HeadTailProperties
      <3>3. Tail(b) = [i \in 1..Len(Tail(b)) |-> Tail(b)[i]]
        BY <3>2, SeqIsFunction, Zenon
      <3> QED
        BY <3>2, <3>3
    <2>3. \A i \in 1..k - 1 : i + 1 \in 1..k /\ b[i + 1] = msg[batch[i + 1]]
      BY <1>1 DEF Msgs
    <2>4. Tail(b) = [i \in 1..k - 1 |-> msg[batch[i + 1]]]
      <3> HIDE DEF b
      <3> QED
        BY <2>2, <2>3
    <2>5. b[1] = msg[batch[1]]
      BY <1>1 DEF Msgs
    <2> QED
      BY <1>1, <2>1, <2>4, <2>5 DEF Msgs
  <1>4. b \o r # <<>> /\ Head(b \o r) = b[1] /\ Tail(b \o r) = Tail(b) \o r
    <2> HIDE DEF b, r
    <2>1. b # <<>>
      BY <1>1, <1>2
    <2> QED
      BY <1>2, <2>1, <1>1
  <1> QED
    BY <1>3, <1>4 DEF Content

\* Locks, unlocks, polls and deletes leave the queue as it is.
LEMMA OtherSteps ==
    ASSUME IInv, NEW t \in Thread,
           \/ PushLock(t) \/ PushUnlock(t) \/ Poll \/ DispatchLock \/ DispatchUnlock
           \/ Delete \/ WalkDone \/ UNCHANGED vars
    PROVE  UNCHANGED <<Content, handled>>
  <1>1. UNCHANGED <<batch, ring, handled, msg>>
    BY DEF PushLock, PushUnlock, Poll, DispatchLock, DispatchUnlock, Delete, WalkDone,
           vars, dispVars, pushVars
  <1> QED
    BY <1>1, SameContent

\* CThreadMsgBase implements the queue: PushLink is the push, the Walk step
\* is the delivery, every other step of the code is invisible.
THEOREM ImplementsMsgQueue == Spec => ImplementsQueue
  <1>1. Init => Queue!QueueInit
    <2> SUFFICES ASSUME Init PROVE Msgs(batch) \o Msgs(ring) = <<>> /\ handled = NoMsg
      BY DEF Queue!QueueInit
    <2>1. Msgs(batch) = <<>> /\ Msgs(ring) = <<>>
      BY DEF Init, Msgs
    <2> QED
      BY <2>1 DEF Init
  <1>2. IInv /\ [Next]_vars => [Queue!QueueNext]_(Queue!queueVars)
    <2> SUFFICES ASSUME IInv, [Next]_vars PROVE [Queue!QueueNext]_(Queue!queueVars)
      OBVIOUS
    <2>1. ASSUME UNCHANGED <<Content, handled>> PROVE [Queue!QueueNext]_(Queue!queueVars)
      BY <2>1 DEF Content, Queue!queueVars
    <2>2. ASSUME NEW m \in Msg, Content' = Append(Content, m), UNCHANGED handled
          PROVE  [Queue!QueueNext]_(Queue!queueVars)
      BY <2>2 DEF Content, Queue!QueueNext, Queue!Push
    <2>3. ASSUME Content # <<>>, handled' = Head(Content), Content' = Tail(Content)
          PROVE  [Queue!QueueNext]_(Queue!queueVars)
      BY <2>3 DEF Content, Queue!QueueNext, Queue!Deliver
    <2>4. CASE UNCHANGED vars
      BY <2>1, <2>4, OtherSteps, ThreadFacts
    <2>5. ASSUME NEW t \in Thread, PushBackMsg(t)
          PROVE  [Queue!QueueNext]_(Queue!queueVars)
      <3>1. CASE \E m \in Msg : NewNode(t, m)
        BY <2>1, <3>1, NewNodeStep
      <3>2. CASE PushLink(t)
        BY <2>2, <3>2, PushLinkStep
      <3>3. CASE PushLock(t) \/ PushUnlock(t)
        BY <2>1, <3>3, OtherSteps
      <3> QED
        BY <2>5, <3>1, <3>2, <3>3 DEF PushBackMsg
    <2>6. CASE DispatchThreadMsg
      <3>1. CASE Detach
        BY <2>1, <3>1, DetachStep
      <3>2. CASE Walk
        BY <2>3, <3>2, WalkStep
      <3>3. CASE Poll \/ DispatchLock \/ DispatchUnlock \/ Delete \/ WalkDone
        BY <2>1, <3>3, OtherSteps, ThreadFacts
      <3> QED
        BY <2>6, <3>1, <3>2, <3>3 DEF DispatchThreadMsg
    <2> QED
      BY <2>4, <2>5, <2>6 DEF Next
  <1> QED
    BY <1>1, <1>2, Invariance, PTL DEF Spec, ImplementsQueue, Queue!QueueSpec
=============================================================================
