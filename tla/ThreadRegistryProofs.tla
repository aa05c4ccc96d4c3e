------------------------ MODULE ThreadRegistryProofs ------------------------
(***************************************************************************)
(* What threads are sure to learn of each other, for any number of threads *)
(* that register, leave and send in any interleaving.                      *)
(***************************************************************************)
EXTENDS ThreadRegistry, SequenceFacts

(***************************************************************************)
(* Iterators.                                                              *)
(***************************************************************************)
\* First and After give an iterator's position: nothing of the map lies between
\* two positions that follow each other.
LEMMA IteratorSteps ==
    ASSUME NEW S \in SUBSET Thread
    PROVE  /\ First(S) \in S \cup {End}
           /\ First(S) = End => S = {}
           /\ \A x \in S : ~(x < First(S))
           /\ \A k \in Thread :
                 /\ After(S, k) \in S \cup {End}
                 /\ \A x \in S : After(S, k) = End \/ x < After(S, k) => x < k \/ x = k
  <1>1. Thread \subseteq Nat \ {0} /\ S \subseteq Nat
    BY ThreadAssumption
  <1>2. ASSUME NEW Q \in SUBSET S
        PROVE  /\ First(Q) \in Q \cup {End}
               /\ First(Q) = End => Q = {}
               /\ \A x \in Q : ~(x < First(Q))
    <2>1. CASE Q = {}
      BY <2>1 DEF First
    <2>2. CASE Q # {}
      <3>1. First(Q) \in Q /\ \A y \in Q : First(Q) <= y
        BY <1>1, <2>2, MinIsLeast DEF First
      <3>2. First(Q) # End
        BY <1>1, <3>1 DEF End
      <3>3. ASSUME NEW x \in Q PROVE ~(x < First(Q))
        <4> DEFINE f == First(Q)
        <4>1. f \in Nat /\ x \in Nat /\ f <= x
          BY <1>1, <3>1
        <4> HIDE DEF f
        <4>2. ~(x < f)
          BY <4>1
        <4> QED
          BY <4>2 DEF f
      <3> QED
        BY <3>1, <3>2, <3>3
    <2> QED
      BY <2>1, <2>2
  <1>3. ASSUME NEW k \in Thread
        PROVE  /\ After(S, k) \in S \cup {End}
               /\ \A x \in S : After(S, k) = End \/ x < After(S, k) => x < k \/ x = k
    <2> DEFINE Q == {j \in S : j > k}
    <2>1. /\ First(Q) \in Q \cup {End}
          /\ First(Q) = End => Q = {}
          /\ \A x \in Q : ~(x < First(Q))
      BY <1>2
    <2>2. After(S, k) = First(Q)
      BY DEF After
    <2>3. \A x \in S : x \notin Q => x < k \/ x = k
      BY <1>1
    <2> QED
      BY <2>1, <2>2, <2>3
  <1> QED
    BY <1>2, <1>3

(***************************************************************************)
(* What the messages of a mailbox come to.                                 *)
(***************************************************************************)
Msg == {m \in [kind : Kind, key : Thread \cup {0}] : m.kind # "APP" => m.key \in Thread}
Concerns(m, k) == m.kind # "APP" /\ m.key = k
Positions(s, k) == {i \in 1..Len(s) : s[i].kind # "APP" /\ s[i].key = k}

\* WillKnow of a thread with mailbox s and map S.
Knows(s, S, k) ==
    IF Positions(s, k) = {} THEN k \in S
                            ELSE s[Max(Positions(s, k))].kind = "REGIST"

\* The last message about k decides.
LEMMA LastDecides ==
    ASSUME NEW s \in Seq(Msg), NEW S, NEW k
    PROVE  /\ Positions(s, k) = {} => (Knows(s, S, k) <=> k \in S)
           /\ \A i \in Positions(s, k) :
                 (\A j \in Positions(s, k) : j <= i)
                    => (Knows(s, S, k) <=> s[i].kind = "REGIST")
           /\ Positions(s, k) # {} =>
                 \E i \in Positions(s, k) : \A j \in Positions(s, k) : j <= i
  <1> DEFINE A == Positions(s, k)
  <1>1. A \in SUBSET (1..Len(s)) /\ Len(s) \in Nat
    BY LenProperties DEF Positions
  <1>2. A = {} => (Knows(s, S, k) <=> k \in S)
    BY DEF Knows
  <1>3. A # {} => Max(A) \in A /\ \A y \in A : y <= Max(A)
    BY <1>1, MaxIsGreatest
  <1>4. ASSUME NEW i \in A, \A j \in A : j <= i
        PROVE  Knows(s, S, k) <=> s[i].kind = "REGIST"
    <2>1. Max(A) = i
      <3> DEFINE x == Max(A)
      <3>1. x \in A /\ x <= i /\ i <= x
        BY <1>3, <1>4
      <3>2. x \in Nat /\ i \in Nat
        BY <1>1, <3>1
      <3> HIDE DEF x
      <3>3. x = i
        BY <3>1, <3>2
      <3> QED
        BY <3>3 DEF x
    <2> QED
      BY <2>1 DEF Knows
  <1> QED
    BY <1>2, <1>3, <1>4

\* A message that is posted about k is the one that decides for k, and only
\* for k.
LEMMA AppendKnows ==
    ASSUME NEW s \in Seq(Msg), NEW S, NEW k, NEW m \in Msg
    PROVE  /\ Append(s, m) \in Seq(Msg)
           /\ Concerns(m, k) => (Knows(Append(s, m), S, k) <=> m.kind = "REGIST")
           /\ ~Concerns(m, k) => (Knows(Append(s, m), S, k) <=> Knows(s, S, k))
  <1> DEFINE a == Append(s, m)
             n == Len(s)
             A == Positions(s, k)
             B == Positions(a, k)
  <1>1. /\ a \in Seq(Msg) /\ Len(a) = n + 1 /\ n \in Nat
        /\ \A i \in 1..n : a[i] = s[i]
        /\ a[n + 1] = m
    BY AppendProperties, LenProperties
  <1> HIDE DEF a
  <1>2. \A i \in 1..n + 1 : i = n + 1 \/ i \in 1..n
    BY <1>1
  <1>3. ASSUME Concerns(m, k) PROVE Knows(a, S, k) <=> m.kind = "REGIST"
    <2>1. n + 1 \in 1..n + 1
      BY <1>1
    <2>2. n + 1 \in B
      BY <1>1, <1>3, <2>1 DEF Positions, Concerns
    <2>3. \A j \in B : j <= n + 1
      BY <1>1 DEF Positions
    <2> HIDE DEF B, n
    <2>4. Knows(a, S, k) <=> a[n + 1].kind = "REGIST"
      BY <1>1, <2>2, <2>3, LastDecides DEF B
    <2> QED
      BY <1>1, <2>4
  <1>4. ASSUME ~Concerns(m, k) PROVE Knows(a, S, k) <=> Knows(s, S, k)
    <2>1. A = B
      <3>1. \A i \in A : i \in B
        BY <1>1 DEF Positions
      <3>2. \A i \in B : i \in A
        BY <1>1, <1>2, <1>4 DEF Positions, Concerns
      <3> QED
        BY <3>1, <3>2
    <2>2. \A i \in A : i \in 1..n
      BY DEF Positions
    <2> HIDE DEF A, B, n
    <2>3. CASE A = {}
      BY <1>1, <2>1, <2>3, LastDecides DEF A, B
    <2>4. CASE A # {}
      <3>1. PICK i \in A : \A j \in A : j <= i
        BY <2>4, LastDecides DEF A
      <3>2. Knows(s, S, k) <=> s[i].kind = "REGIST"
        BY <3>1, LastDecides DEF A
      <3>3. Knows(a, S, k) <=> a[i].kind = "REGIST"
        BY <1>1, <2>1, <3>1, LastDecides DEF B
      <3> QED
        BY <1>1, <2>2, <3>2, <3>3
    <2> QED
      BY <2>3, <2>4
  <1> QED
    BY <1>1, <1>3, <1>4 DEF a

\* Handling the first message changes the map as it was foretold.
LEMMA TailKnows ==
    ASSUME NEW s \in Seq(Msg), s # <<>>, NEW S, NEW k
    PROVE  /\ Tail(s) \in Seq(Msg) /\ Head(s) \in Msg
           /\ Knows(Tail(s), Applied(S, Head(s)), k) <=> Knows(s, S, k)
  <1> DEFINE t == Tail(s)
             m == Head(s)
             T == Applied(S, m)
             n == Len(s)
             A == Positions(s, k)
             B == Positions(t, k)
  <1>1. /\ m \in Msg /\ t \in Seq(Msg) /\ Len(t) = n - 1
        /\ \A i \in 1..n - 1 : t[i] = s[i + 1]
        /\ m = s[1] /\ n \in Nat /\ n >= 1
    <2>1. /\ Head(s) \in Msg /\ t \in Seq(Msg) /\ Len(t) = n - 1
          /\ \A i \in 1..Len(t) : t[i] = s[i + 1]
          /\ n \in Nat
      BY HeadTailProperties, LenProperties
    <2>2. n # 0
      BY EmptySeq
    <2>3. Head(s) = s[1]
      BY HeadTailProperties
    <2> QED
      BY <2>1, <2>2, <2>3
  <1> HIDE DEF t, n
  <1>2. \A i \in 1..n : i = 1 \/ (i - 1 \in 1..n - 1 /\ i - 1 + 1 = i /\ t[i - 1] = s[i])
    <2> SUFFICES ASSUME NEW i \in 1..n, i # 1
                 PROVE  i - 1 \in 1..n - 1 /\ i - 1 + 1 = i /\ t[i - 1] = s[i]
      OBVIOUS
    <2>1. i - 1 \in 1..n - 1 /\ i - 1 + 1 = i
      BY <1>1
    <2> QED
      BY <1>1, <2>1
  <1>3. \A i \in B : i \in 1..n - 1 /\ i + 1 \in A /\ t[i] = s[i + 1]
    <2> SUFFICES ASSUME NEW i \in B PROVE i \in 1..n - 1 /\ i + 1 \in A /\ t[i] = s[i + 1]
      OBVIOUS
    <2>1. i \in 1..n - 1 /\ t[i].kind # "APP" /\ t[i].key = k
      BY <1>1 DEF Positions
    <2>2. i + 1 \in 1..n /\ t[i] = s[i + 1]
      BY <1>1, <2>1
    <2> QED
      BY <2>1, <2>2 DEF Positions, n
  <1>4. \A i \in A : i \in 1..n /\ (i = 1 \/ i - 1 \in B)
    <2> SUFFICES ASSUME NEW i \in A, i # 1 PROVE i \in 1..n /\ i - 1 \in B
      BY <1>1 DEF Positions, n
    <2>1. i \in 1..n /\ s[i].kind # "APP" /\ s[i].key = k
      BY DEF Positions, n
    <2>2. i - 1 \in 1..Len(t) /\ t[i - 1] = s[i]
      BY <1>1, <1>2, <2>1
    <2> QED
      BY <2>1, <2>2 DEF Positions
  <1>5. 1 \in A <=> Concerns(m, k)
    BY <1>1 DEF Positions, Concerns, n
  <1>6. Concerns(m, k) => (k \in T <=> m.kind = "REGIST")
    BY <1>1 DEF Applied, Concerns, Msg, Kind
  <1>7. ~Concerns(m, k) => (k \in T <=> k \in S)
    BY <1>1 DEF Applied, Concerns, Msg, Kind
  <1>8. Knows(t, T, k) <=> Knows(s, S, k)
    <2> HIDE DEF A, B, T, m
    <2>1. CASE B # {}
      <3>1. PICK i \in B : \A j \in B : j <= i
        BY <1>1, <2>1, LastDecides DEF B
      <3>2. i + 1 \in A /\ i \in 1..n - 1 /\ t[i] = s[i + 1]
        BY <1>3, <3>1
      <3>3. ASSUME NEW j \in A PROVE j <= i + 1
        <4>1. CASE j = 1
          BY <1>1, <3>2, <4>1
        <4>2. CASE j - 1 \in B
          BY <1>1, <1>4, <3>1, <3>2, <3>3, <4>2
        <4> QED
          BY <1>4, <3>3, <4>1, <4>2
      <3>4. Knows(s, S, k) <=> s[i + 1].kind = "REGIST"
        BY <3>2, <3>3, LastDecides DEF A
      <3>5. Knows(t, T, k) <=> t[i].kind = "REGIST"
        BY <1>1, <3>1, LastDecides DEF B
      <3> QED
        BY <3>2, <3>4, <3>5
    <2>2. CASE B = {} /\ Concerns(m, k)
      <3>1. 1 \in A /\ \A j \in A : j <= 1
        BY <1>4, <1>5, <2>2
      <3>2. Knows(s, S, k) <=> s[1].kind = "REGIST"
        BY <3>1, LastDecides DEF A
      <3>3. Knows(t, T, k) <=> k \in T
        BY <1>1, <2>2, LastDecides DEF B
      <3> QED
        BY <1>1, <1>6, <2>2, <3>2, <3>3
    <2>3. CASE B = {} /\ ~Concerns(m, k)
      <3>1. A = {}
        BY <1>4, <1>5, <2>3
      <3>2. Knows(s, S, k) <=> k \in S
        BY <3>1, LastDecides DEF A
      <3>3. Knows(t, T, k) <=> k \in T
        BY <1>1, <2>3, LastDecides DEF B
      <3> QED
        BY <1>7, <2>3, <3>2, <3>3
    <2> QED
      BY <2>1, <2>2, <2>3
  <1> QED
    BY <1>1, <1>8 DEF t

(***************************************************************************)
(* The invariant.                                                          *)
(***************************************************************************)
Entered == {"begin", "broadcast", "run", "notify", "left"}
Label == {"new", "snapshot", "insert"} \cup Entered

TypeInv ==
    /\ m_mapThread \in SUBSET Thread
    /\ m_lock \in Thread \cup {Free}
    /\ m_map \in [Thread -> SUBSET Thread]
    /\ mbox \in [Thread -> Seq(Msg)]
    /\ pc \in [Thread -> Label]
    /\ it \in [Thread -> Thread \cup {End}]
    /\ ub \in BOOLEAN
    /\ order \in Seq(Thread)
    /\ seen \in [Thread -> SUBSET Thread]
    /\ told \in [Thread -> SUBSET Thread]

\* The map holds a thread from its insertion to its removal.
StageInv ==
    \A t \in Thread : t \in m_mapThread <=> pc[t] \in {"begin", "broadcast", "run"}

\* What the histories name has entered the map once, and will not enter again.
EnterInv ==
    /\ \A i \in 1..Len(order) : pc[order[i]] \in Entered
    /\ \A t \in Thread : \A x \in seen[t] \cup told[t] : pc[x] \in Entered

\* The iterator of t has left the place of x behind.
Passed(t, x) == it[t] = End \/ x < it[t]

K(x, k) == Knows(mbox[x], m_map[x], k)

\* y has told x that it registers; has read in the map that x is there; has
\* told x that it leaves.
HasTold(y, x) == pc[y] = "run" \/ (pc[y] = "broadcast" /\ Passed(y, x))
HasRead(y, x) == \/ pc[y] \in {"insert", "begin", "broadcast", "run"}
                 \/ pc[y] = "snapshot" /\ Passed(y, x)
HasLeft(y, x) == pc[y] = "left" \/ (pc[y] = "notify" /\ Passed(y, x))

\* The threads that were in the map before y know it once they are told.
LearnInv == \A x, y \in m_mapThread : Before(x, y) /\ HasTold(y, x) => K(x, y)

\* y knows those that were in the map when it began, once it has read of them.
SnapInv == \A y \in Thread : \A x \in seen[y] \cap m_mapThread : HasRead(y, x) => K(y, x)

\* Those in the map that y has taken its leave of have forgotten it.
LeaveInv == \A y \in Thread : \A x \in told[y] \cap m_mapThread : HasLeft(y, x) => ~K(x, y)

IInv == TypeInv /\ StageInv /\ EnterInv /\ LearnInv /\ SnapInv /\ LeaveInv

\* Nobody has registered.
LEMMA InitInv == Init => IInv
  <1> SUFFICES ASSUME Init PROVE IInv
    OBVIOUS
  <1>1. TypeInv
    BY EmptySeq DEF Init, TypeInv, Free, End, Label
  <1>2. StageInv
    BY DEF Init, StageInv
  <1>3. EnterInv
    BY EmptySeq DEF Init, EnterInv
  <1>4. LearnInv /\ SnapInv /\ LeaveInv
    BY DEF Init, LearnInv, SnapInv, LeaveInv
  <1> QED
    BY <1>1, <1>2, <1>3, <1>4 DEF IInv

\* A message to t about a thread decides what t will know of that thread; all
\* else stays as it was.
LEMMA PostStep ==
    ASSUME TypeInv, NEW t \in Thread, NEW m \in Msg, Post(t, m), m_map' = m_map
    PROVE  /\ mbox' \in [Thread -> Seq(Msg)]
           /\ \A x, k \in Thread :
                 Knows(mbox'[x], m_map'[x], k) <=>
                    IF x = t /\ Concerns(m, k) THEN m.kind = "REGIST" ELSE K(x, k)
  <1>1. /\ mbox \in [Thread -> Seq(Msg)] /\ mbox' = [mbox EXCEPT ![t] = Append(mbox[t], m)]
    BY DEF TypeInv, Post
  <1>2. Append(mbox[t], m) \in Seq(Msg)
    BY <1>1, AppendKnows
  <1>3. mbox' \in [Thread -> Seq(Msg)]
    BY <1>1, <1>2
  <1>4. ASSUME NEW x \in Thread, NEW k \in Thread
        PROVE  Knows(mbox'[x], m_map'[x], k) <=>
                  IF x = t /\ Concerns(m, k) THEN m.kind = "REGIST" ELSE K(x, k)
    <2>1. CASE x = t
      <3>1. mbox'[x] = Append(mbox[t], m) /\ m_map'[x] = m_map[t] /\ mbox[t] \in Seq(Msg)
        BY <1>1, <2>1
      <3>2. /\ Concerns(m, k) =>
                  (Knows(Append(mbox[t], m), m_map[t], k) <=> m.kind = "REGIST")
            /\ ~Concerns(m, k) =>
                  (Knows(Append(mbox[t], m), m_map[t], k) <=> Knows(mbox[t], m_map[t], k))
        BY <3>1, AppendKnows
      <3> QED
        BY <2>1, <3>1, <3>2 DEF K
    <2>2. CASE x # t
      <3>1. mbox'[x] = mbox[x] /\ m_map'[x] = m_map[x]
        BY <1>1, <2>2
      <3> QED
        BY <2>2, <3>1 DEF K
    <2> QED
      BY <2>1, <2>2
  <1> QED
    BY <1>3, <1>4

\* The messages that are sent.
LEMMA Messages ==
    /\ \A k \in Thread : /\ Message("REGIST", k) \in Msg
                         /\ Message("UN_REGIST", k) \in Msg
                         /\ Message("REGIST", k).kind = "REGIST"
                         /\ Message("UN_REGIST", k).kind # "REGIST"
    /\ \A k, x \in Thread : /\ Concerns(Message("REGIST", k), x) <=> x = k
                            /\ Concerns(Message("UN_REGIST", k), x) <=> x = k
    /\ App \in Msg /\ \A x \in Thread : ~Concerns(App, x)
  BY DEF Message, Msg, Kind, Concerns, App

\* A step that says nothing about threads.
Quiet == \A x, k \in Thread : Knows(mbox'[x], m_map'[x], k) <=> K(x, k)

\* Neither mailboxes nor maps change.
LEMMA NothingSent ==
    ASSUME mbox' = mbox, m_map' = m_map
    PROVE  Quiet
  BY DEF Quiet, K

(***************************************************************************)
(* The steps.                                                              *)
(***************************************************************************)
\* What each part of the invariant is about, for a step of one thread t.
Others(t) == \A y \in Thread : y # t => pc'[y] = pc[y] /\ it'[y] = it[y]

\* Parts of the invariant, in one place.
LEMMA Parts ==
    ASSUME IInv
    PROVE  TypeInv /\ StageInv /\ EnterInv /\ LearnInv /\ SnapInv /\ LeaveInv
  BY DEF IInv

\* The order in which threads entered is a matter of the history alone.
LEMMA SameOrder ==
    ASSUME order' = order
    PROVE  \A x, y : Before(x, y)' <=> Before(x, y)
  BY DEF Before

\* A step that says nothing about threads, moves no iterator past a thread and
\* puts nobody into the map.
LEMMA QuietStep ==
    ASSUME TypeInv, LearnInv, SnapInv, LeaveInv, Quiet,
           m_mapThread' \subseteq m_mapThread, order' = order, seen' = seen, told' = told,
           \A y \in Thread : \A x \in m_mapThread' :
              /\ HasTold(y, x)' => HasTold(y, x)
              /\ HasRead(y, x)' => HasRead(y, x)
              /\ HasLeft(y, x)' => HasLeft(y, x)
    PROVE  LearnInv' /\ SnapInv' /\ LeaveInv'
  <1>1. m_mapThread \subseteq Thread
    BY DEF TypeInv
  <1>2. LearnInv'
    BY <1>1, SameOrder DEF LearnInv, K, Quiet
  <1>3. SnapInv'
    BY <1>1 DEF SnapInv, K, Quiet
  <1>4. LeaveInv'
    BY <1>1 DEF LeaveInv, K, Quiet
  <1> QED
    BY <1>2, <1>3, <1>4

\* The histories name those that have entered, and a step of t from Entered to
\* Entered, or none, leaves it so.
LEMMA EnterStep ==
    ASSUME TypeInv, EnterInv, order' = order, seen' = seen, told' = told,
           \A x \in Thread : pc[x] \in Entered => pc'[x] \in Entered
    PROVE  EnterInv'
  <1>1. \A i \in 1..Len(order) : order[i] \in Thread
    BY DEF TypeInv
  <1>2. \A i \in 1..Len(order) : pc'[order[i]] \in Entered
    BY <1>1 DEF EnterInv
  <1>3. \A y \in Thread : \A x \in seen[y] \cup told[y] : x \in Thread
    BY DEF TypeInv
  <1> QED
    BY <1>2, <1>3 DEF EnterInv

\* RegistThread begins: nothing is read yet.
LEMMA StartStep ==
    ASSUME IInv, NEW t \in Thread, Start(t)
    PROVE  IInv'
  <1>1. /\ TypeInv /\ StageInv /\ EnterInv /\ LearnInv /\ SnapInv /\ LeaveInv
    BY Parts
  <1>2. /\ m_mapThread' = m_mapThread /\ m_lock' = m_lock /\ m_map' = m_map /\ mbox' = mbox
        /\ ub' = ub /\ order' = order /\ told' = told
        /\ pc[t] = "new" /\ pc' = [pc EXCEPT ![t] = "snapshot"]
        /\ it' = [it EXCEPT ![t] = First(m_mapThread)]
        /\ seen' = [seen EXCEPT ![t] = m_mapThread]
    BY DEF Start, Goto, mng
  <1>3. /\ First(m_mapThread) \in m_mapThread \cup {End}
        /\ First(m_mapThread) = End => m_mapThread = {}
        /\ \A x \in m_mapThread : ~(x < First(m_mapThread))
    BY <1>1, IteratorSteps DEF TypeInv
  <1>4. TypeInv'
    BY <1>1, <1>2, <1>3 DEF TypeInv, Label
  <1>5. /\ pc'[t] = "snapshot" /\ it'[t] = First(m_mapThread) /\ seen'[t] = m_mapThread
        /\ Others(t) /\ \A y \in Thread : y # t => seen'[y] = seen[y]
    BY <1>1, <1>2 DEF TypeInv, Others
  <1>6. StageInv'
    BY <1>1, <1>2, <1>5 DEF StageInv, Others
  <1>7. EnterInv'
    <2>1. \A x \in m_mapThread : pc[x] \in Entered
      BY <1>1 DEF StageInv, TypeInv, Entered
    <2>2. \A x \in Thread : pc[x] \in Entered => pc'[x] = pc[x]
      BY <1>2, <1>5 DEF Others, Entered
    <2>3. \A i \in 1..Len(order) : order[i] \in Thread
      BY <1>1 DEF TypeInv
    <2>4. \A y \in Thread : seen[y] \cup told[y] \subseteq Thread
      BY <1>1 DEF TypeInv
    <2>5. \A i \in 1..Len(order) : pc'[order[i]] \in Entered
      BY <1>1, <2>2, <2>3 DEF EnterInv
    <2>6. ASSUME NEW y \in Thread, NEW x \in seen'[y] \cup told[y] PROVE pc'[x] \in Entered
      <3>1. x \in m_mapThread \/ x \in seen[y] \cup told[y]
        BY <1>5, <2>6
      <3> QED
        BY <1>1, <2>1, <2>2, <2>4, <3>1 DEF EnterInv, TypeInv
    <2> QED
      BY <1>2, <2>5, <2>6 DEF EnterInv
  <1>8. LearnInv'
    <2> SUFFICES ASSUME NEW x \in m_mapThread, NEW y \in m_mapThread, Before(x, y),
                        HasTold(y, x)'
                 PROVE  Knows(mbox[x], m_map[x], y)
      BY <1>2, SameOrder DEF LearnInv, K
    <2>1. y # t /\ y \in Thread
      BY <1>1, <1>5 DEF HasTold, TypeInv
    <2> QED
      BY <1>1, <1>5, <2>1 DEF LearnInv, HasTold, K, Passed, Others
  <1>9. SnapInv'
    <2> SUFFICES ASSUME NEW y \in Thread, NEW x \in seen'[y] \cap m_mapThread,
                        HasRead(y, x)'
                 PROVE  Knows(mbox[y], m_map[y], x)
      BY <1>2 DEF SnapInv, K
    <2>1. y # t
      BY <1>3, <1>5 DEF Passed, HasRead
    <2> QED
      BY <1>1, <1>5, <2>1 DEF SnapInv, HasRead, Passed, K, Others
  <1>10. LeaveInv'
    BY <1>1, <1>2, <1>5 DEF LeaveInv, HasLeft, K, Passed, Others
  <1> QED
    BY <1>4, <1>6, <1>7, <1>8, <1>9, <1>10 DEF IInv

\* A thread enters the map: nobody has registered after it, and none of the
\* histories names it.
LEMMA InsertStep ==
    ASSUME IInv, NEW t \in Thread, Insert(t)
    PROVE  IInv'
  <1>1. /\ TypeInv /\ StageInv /\ EnterInv /\ LearnInv /\ SnapInv /\ LeaveInv
    BY Parts
  <1>2. /\ m_mapThread' = m_mapThread \cup {t} /\ m_lock' = m_lock /\ m_map' = m_map
        /\ mbox' = mbox /\ it' = it /\ ub' = ub /\ seen' = seen /\ told' = told
        /\ order' = Append(order, t)
        /\ pc[t] = "insert" /\ pc' = [pc EXCEPT ![t] = "begin"]
    BY DEF Insert, Goto
  <1>3. /\ order' \in Seq(Thread) /\ Len(order') = Len(order) + 1 /\ Len(order) \in Nat
        /\ \A i \in 1..Len(order) : order'[i] = order[i] /\ order[i] \in Thread
        /\ order'[Len(order) + 1] = t
    BY <1>1, <1>2, AppendProperties, LenProperties DEF TypeInv
  <1>4. TypeInv'
    BY <1>1, <1>2, <1>3 DEF TypeInv, Label, Entered
  <1>5. pc'[t] = "begin" /\ Others(t)
    BY <1>1, <1>2 DEF TypeInv, Others
  <1>6. StageInv'
    BY <1>1, <1>2, <1>5 DEF StageInv, Others
  <1>7. \A x \in Thread : pc[x] \in Entered => pc'[x] \in Entered /\ x # t
    BY <1>2, <1>5 DEF Others, Entered
  <1>8. EnterInv'
    <2>1. ASSUME NEW i \in 1..Len(order') PROVE pc'[order'[i]] \in Entered
      <3>1. CASE i \in 1..Len(order)
        BY <1>1, <1>3, <1>7, <3>1 DEF EnterInv
      <3>2. CASE i = Len(order) + 1
        BY <1>3, <1>5, <3>2 DEF Entered
      <3> QED
        BY <1>3, <2>1, <3>1, <3>2
    <2>2. ASSUME NEW y \in Thread, NEW x \in seen[y] \cup told[y] PROVE pc'[x] \in Entered
      BY <1>1, <1>7, <2>2 DEF EnterInv, TypeInv
    <2> QED
      BY <1>2, <2>1, <2>2 DEF EnterInv
  <1>9. LearnInv'
    <2> SUFFICES ASSUME NEW x \in m_mapThread', NEW y \in m_mapThread', Before(x, y)',
                        HasTold(y, x)'
                 PROVE  Knows(mbox[x], m_map[x], y)
      BY <1>2 DEF LearnInv, K
    <2>1. y # t /\ y \in m_mapThread /\ pc'[y] = pc[y] /\ y \in Thread
      BY <1>1, <1>2, <1>5 DEF HasTold, Others, TypeInv
    <2>2. PICK i, j \in 1..Len(order') : i <= j /\ order'[i] = x /\ order'[j] = y
      BY DEF Before
    <2>3. j \in 1..Len(order) /\ i \in 1..Len(order)
      BY <1>3, <2>1, <2>2
    <2>4. order[i] = x /\ order[j] = y
      BY <1>3, <2>2, <2>3
    <2>5. Before(x, y)
      BY <2>2, <2>3, <2>4 DEF Before
    <2>6. x # t
      BY <1>1, <1>3, <1>7, <2>3, <2>4 DEF EnterInv
    <2> QED
      BY <1>1, <1>2, <2>1, <2>5, <2>6 DEF LearnInv, HasTold, K, Passed
  <1>10. SnapInv'
    <2> SUFFICES ASSUME NEW y \in Thread, NEW x \in seen[y] \cap m_mapThread',
                        HasRead(y, x)'
                 PROVE  Knows(mbox[y], m_map[y], x)
      BY <1>2 DEF SnapInv, K
    <2>1. x # t
      BY <1>1, <1>7 DEF EnterInv, TypeInv
    <2>2. HasRead(y, x)
      BY <1>2, <1>5 DEF Others, Passed, HasRead
    <2> QED
      BY <1>1, <1>2, <2>1, <2>2 DEF SnapInv, K
  <1>11. LeaveInv'
    <2> SUFFICES ASSUME NEW y \in Thread, NEW x \in told[y] \cap m_mapThread',
                        HasLeft(y, x)'
                 PROVE  ~Knows(mbox[x], m_map[x], y)
      BY <1>2 DEF LeaveInv, K
    <2>1. x # t /\ y # t
      BY <1>1, <1>5, <1>7 DEF HasLeft, EnterInv, TypeInv
    <2> QED
      BY <1>1, <1>2, <1>5, <2>1 DEF LeaveInv, HasLeft, K, Others, Passed
  <1> QED
    BY <1>4, <1>6, <1>8, <1>9, <1>10, <1>11 DEF IInv

\* The broadcast begins: no thread is told yet, for the map holds t at least.
LEMMA BeginStep ==
    ASSUME IInv, NEW t \in Thread, Begin(t)
    PROVE  IInv'
  <1>1. /\ TypeInv /\ StageInv /\ EnterInv /\ LearnInv /\ SnapInv /\ LeaveInv
    BY Parts
  <1>2. /\ m_mapThread' = m_mapThread /\ m_lock' = m_lock /\ m_map' = m_map /\ mbox' = mbox
        /\ ub' = ub /\ order' = order /\ seen' = seen /\ told' = told
        /\ pc[t] = "begin" /\ pc' = [pc EXCEPT ![t] = "broadcast"]
        /\ it' = [it EXCEPT ![t] = First(m_mapThread)]
    BY DEF Begin, Goto, mng, hist
  <1>3. /\ First(m_mapThread) \in m_mapThread \cup {End}
        /\ First(m_mapThread) = End => m_mapThread = {}
        /\ \A x \in m_mapThread : ~(x < First(m_mapThread))
    BY <1>1, IteratorSteps DEF TypeInv
  <1>4. TypeInv'
    BY <1>1, <1>2, <1>3 DEF TypeInv, Label, Entered
  <1>5. pc'[t] = "broadcast" /\ it'[t] = First(m_mapThread) /\ Others(t)
    BY <1>1, <1>2 DEF TypeInv, Others
  <1>6. StageInv'
    BY <1>1, <1>2, <1>5 DEF StageInv, Others
  <1>7. EnterInv'
    BY <1>1, <1>2, <1>5, EnterStep DEF Others, Entered
  <1>8. ASSUME NEW y \in Thread, NEW x \in m_mapThread
        PROVE  /\ HasTold(y, x)' => HasTold(y, x)
               /\ HasRead(y, x)' => HasRead(y, x)
               /\ HasLeft(y, x)' => HasLeft(y, x)
    <2>1. CASE y = t
      BY <1>2, <1>3, <1>5, <2>1 DEF HasTold, HasRead, HasLeft, Passed
    <2>2. CASE y # t
      BY <1>5, <2>2 DEF HasTold, HasRead, HasLeft, Passed, Others
    <2> QED
      BY <2>1, <2>2
  <1>9. LearnInv' /\ SnapInv' /\ LeaveInv'
    BY <1>1, <1>2, <1>8, NothingSent, QuietStep
  <1> QED
    BY <1>4, <1>6, <1>7, <1>9 DEF IInv

\* The first loop: t tells itself of the thread its iterator is at.
LEMMA SnapshotStep ==
    ASSUME IInv, NEW t \in Thread, Snapshot(t)
    PROVE  IInv'
  <1>1. /\ TypeInv /\ StageInv /\ EnterInv /\ LearnInv /\ SnapInv /\ LeaveInv
    BY Parts
  <1>2. /\ m_mapThread' = m_mapThread /\ m_lock' = m_lock /\ m_map' = m_map
        /\ ub' = ub /\ order' = order /\ seen' = seen /\ told' = told
        /\ pc[t] = "snapshot"
    BY DEF Snapshot, mng, hist
  <1>3. CASE it[t] = End
    <2>1. /\ pc' = [pc EXCEPT ![t] = "insert"] /\ it' = it /\ mbox' = mbox
      BY <1>3 DEF Snapshot, OnNode, Goto
    <2>2. pc'[t] = "insert" /\ Others(t) /\ TypeInv'
      BY <1>1, <1>2, <2>1 DEF TypeInv, Others, Label
    <2>3. StageInv' /\ EnterInv'
      BY <1>1, <1>2, <2>2, EnterStep DEF StageInv, Others, Entered
    <2>4. ASSUME NEW y \in Thread, NEW x \in m_mapThread
          PROVE  /\ HasTold(y, x)' => HasTold(y, x)
                 /\ HasRead(y, x)' => HasRead(y, x)
                 /\ HasLeft(y, x)' => HasLeft(y, x)
      BY <1>2, <1>3, <2>2 DEF HasTold, HasRead, HasLeft, Passed, Others
    <2>5. LearnInv' /\ SnapInv' /\ LeaveInv'
      BY <1>1, <1>2, <2>1, <2>4, NothingSent, QuietStep
    <2> QED
      BY <2>2, <2>3, <2>5 DEF IInv
  <1>4. CASE it[t] # End
    <2> DEFINE k == it[t]
    <2>1. /\ k \in m_mapThread /\ k \in Thread /\ pc' = pc
          /\ it' = [it EXCEPT ![t] = After(m_mapThread, k)]
          /\ Post(t, Message("REGIST", k))
      BY <1>1, <1>4 DEF Snapshot, OnNode, Advance, TypeInv
    <2> HIDE DEF k
    <2>2. /\ mbox' \in [Thread -> Seq(Msg)]
          /\ \A x, y \in Thread : Knows(mbox'[x], m_map'[x], y) <=> (x = t /\ y = k) \/ K(x, y)
      BY <1>1, <1>2, <2>1, Messages, PostStep
    <2>3. /\ After(m_mapThread, k) \in m_mapThread \cup {End}
          /\ \A x \in m_mapThread :
                After(m_mapThread, k) = End \/ x < After(m_mapThread, k) => x < k \/ x = k
      BY <1>1, <2>1, IteratorSteps DEF TypeInv
    <2>4. it'[t] = After(m_mapThread, k) /\ Others(t) /\ TypeInv'
      BY <1>1, <1>2, <2>1, <2>2, <2>3 DEF TypeInv, Others
    <2>5. StageInv' /\ EnterInv'
      BY <1>1, <1>2, <2>1, EnterStep DEF StageInv
    <2>6. LearnInv'
      <3> SUFFICES ASSUME NEW x \in m_mapThread, NEW y \in m_mapThread, Before(x, y),
                          HasTold(y, x)'
                   PROVE  Knows(mbox'[x], m_map'[x], y)
        BY <1>2, SameOrder DEF LearnInv, K
      <3>1. y # t /\ y \in Thread /\ x \in Thread
        BY <1>1, <1>2, <2>1 DEF HasTold, TypeInv
      <3>2. HasTold(y, x)
        BY <2>1, <2>4, <3>1 DEF HasTold, Passed, Others
      <3> QED
        BY <1>1, <2>2, <3>1, <3>2 DEF LearnInv
    <2>7. SnapInv'
      <3> SUFFICES ASSUME NEW y \in Thread, NEW x \in seen[y] \cap m_mapThread,
                          HasRead(y, x)'
                   PROVE  Knows(mbox'[y], m_map'[y], x)
        BY <1>2 DEF SnapInv, K
      <3>1. x \in Thread
        BY <1>1 DEF TypeInv
      <3>2. HasRead(y, x) \/ (y = t /\ x = k)
        <4>1. CASE y = t
          BY <1>2, <2>1, <2>3, <2>4, <4>1 DEF HasRead, Passed, k
        <4>2. CASE y # t
          BY <2>1, <2>4, <4>2 DEF HasRead, Passed, Others
        <4> QED
          BY <4>1, <4>2
      <3> QED
        BY <1>1, <2>2, <3>1, <3>2 DEF SnapInv
    <2>8. LeaveInv'
      <3> SUFFICES ASSUME NEW y \in Thread, NEW x \in told[y] \cap m_mapThread,
                          HasLeft(y, x)'
                   PROVE  ~Knows(mbox'[x], m_map'[x], y)
        BY <1>2 DEF LeaveInv, K
      <3>1. y # t /\ x \in Thread /\ y \notin m_mapThread
        BY <1>1, <1>2, <2>1 DEF HasLeft, TypeInv, StageInv
      <3>2. HasLeft(y, x) /\ y # k
        BY <2>1, <2>4, <3>1 DEF HasLeft, Passed, Others
      <3> QED
        BY <1>1, <2>2, <3>1, <3>2 DEF LeaveInv
    <2> QED
      BY <2>4, <2>5, <2>6, <2>7, <2>8 DEF IInv
  <1> QED
    BY <1>3, <1>4

\* The second loop: t tells of itself the thread its iterator is at.
LEMMA BroadcastStep ==
    ASSUME IInv, NEW t \in Thread, Broadcast(t)
    PROVE  IInv'
  <1>1. /\ TypeInv /\ StageInv /\ EnterInv /\ LearnInv /\ SnapInv /\ LeaveInv
    BY Parts
  <1>2. /\ m_mapThread' = m_mapThread /\ m_lock' = m_lock /\ m_map' = m_map
        /\ ub' = ub /\ order' = order /\ seen' = seen /\ told' = told
        /\ pc[t] = "broadcast"
    BY DEF Broadcast, mng, hist
  <1>3. CASE it[t] = End
    <2>1. /\ pc' = [pc EXCEPT ![t] = "run"] /\ it' = it /\ mbox' = mbox
      BY <1>3 DEF Broadcast, OnNode, Goto
    <2>2. pc'[t] = "run" /\ Others(t) /\ TypeInv'
      BY <1>1, <1>2, <2>1 DEF TypeInv, Others, Label, Entered
    <2>3. StageInv' /\ EnterInv'
      BY <1>1, <1>2, <2>2, EnterStep DEF StageInv, Others, Entered
    <2>4. ASSUME NEW y \in Thread, NEW x \in m_mapThread
          PROVE  /\ HasTold(y, x)' => HasTold(y, x)
                 /\ HasRead(y, x)' => HasRead(y, x)
                 /\ HasLeft(y, x)' => HasLeft(y, x)
      BY <1>2, <1>3, <2>2 DEF HasTold, HasRead, HasLeft, Passed, Others
    <2>5. LearnInv' /\ SnapInv' /\ LeaveInv'
      BY <1>1, <1>2, <2>1, <2>4, NothingSent, QuietStep
    <2> QED
      BY <2>2, <2>3, <2>5 DEF IInv
  <1>4. CASE it[t] # End
    <2> DEFINE k == it[t]
    <2>1. /\ k \in m_mapThread /\ k \in Thread /\ pc' = pc
          /\ it' = [it EXCEPT ![t] = After(m_mapThread, k)]
          /\ Post(k, Message("REGIST", t))
      BY <1>1, <1>4 DEF Broadcast, OnNode, Advance, TypeInv
    <2> HIDE DEF k
    <2>2. /\ mbox' \in [Thread -> Seq(Msg)]
          /\ \A x, y \in Thread : Knows(mbox'[x], m_map'[x], y) <=> (x = k /\ y = t) \/ K(x, y)
      BY <1>1, <1>2, <2>1, Messages, PostStep
    <2>3. /\ After(m_mapThread, k) \in m_mapThread \cup {End}
          /\ \A x \in m_mapThread :
                After(m_mapThread, k) = End \/ x < After(m_mapThread, k) => x < k \/ x = k
      BY <1>1, <2>1, IteratorSteps DEF TypeInv
    <2>4. it'[t] = After(m_mapThread, k) /\ Others(t) /\ TypeInv'
      BY <1>1, <1>2, <2>1, <2>2, <2>3 DEF TypeInv, Others
    <2>5. StageInv' /\ EnterInv'
      BY <1>1, <1>2, <2>1, EnterStep DEF StageInv
    <2>6. LearnInv'
      <3> SUFFICES ASSUME NEW x \in m_mapThread, NEW y \in m_mapThread, Before(x, y),
                          HasTold(y, x)'
                   PROVE  Knows(mbox'[x], m_map'[x], y)
        BY <1>2, SameOrder DEF LearnInv, K
      <3>1. x \in Thread /\ y \in Thread
        BY <1>1 DEF TypeInv
      <3>2. HasTold(y, x) \/ (x = k /\ y = t)
        <4>1. CASE y = t
          BY <1>2, <2>1, <2>3, <2>4, <4>1 DEF HasTold, Passed, k
        <4>2. CASE y # t
          BY <2>1, <2>4, <3>1, <4>2 DEF HasTold, Passed, Others
        <4> QED
          BY <4>1, <4>2
      <3> QED
        BY <1>1, <2>2, <3>1, <3>2 DEF LearnInv
    <2>7. SnapInv'
      <3> SUFFICES ASSUME NEW y \in Thread, NEW x \in seen[y] \cap m_mapThread,
                          HasRead(y, x)'
                   PROVE  Knows(mbox'[y], m_map'[y], x)
        BY <1>2 DEF SnapInv, K
      <3>1. x \in Thread
        BY <1>1 DEF TypeInv
      <3>2. HasRead(y, x)
        <4>1. CASE y = t
          BY <1>2, <4>1 DEF HasRead
        <4>2. CASE y # t
          BY <2>1, <2>4, <4>2 DEF HasRead, Passed, Others
        <4> QED
          BY <4>1, <4>2
      <3> QED
        BY <1>1, <2>2, <3>1, <3>2 DEF SnapInv
    <2>8. LeaveInv'
      <3> SUFFICES ASSUME NEW y \in Thread, NEW x \in told[y] \cap m_mapThread,
                          HasLeft(y, x)'
                   PROVE  ~Knows(mbox'[x], m_map'[x], y)
        BY <1>2 DEF LeaveInv, K
      <3>1. y # t /\ x \in Thread
        BY <1>1, <1>2, <2>1 DEF HasLeft, TypeInv
      <3>2. HasLeft(y, x)
        BY <2>1, <2>4, <3>1 DEF HasLeft, Passed, Others
      <3> QED
        BY <1>1, <2>2, <3>1, <3>2 DEF LeaveInv
    <2> QED
      BY <2>4, <2>5, <2>6, <2>7, <2>8 DEF IInv
  <1> QED
    BY <1>3, <1>4

\* A thread handles its first message; an application sends; an erased node is
\* used: what threads know or will know stays.
LEMMA MessageStep ==
    ASSUME IInv,
           \/ \E t \in Thread : OnUvThreadMessage(t) \/ UseErasedNode(t)
           \/ \E t, dst \in Thread : SendUvMessage(t, dst)
           \/ \E dst \in Thread : SendByManager(dst)
    PROVE  IInv'
  <1>1. /\ TypeInv /\ StageInv /\ EnterInv /\ LearnInv /\ SnapInv /\ LeaveInv
    BY Parts
  <1>2. /\ m_mapThread' = m_mapThread /\ m_lock' = m_lock /\ pc' = pc /\ it' = it
        /\ order' = order /\ seen' = seen /\ told' = told
    BY DEF OnUvThreadMessage, UseErasedNode, SendUvMessage, SendByManager, mng, hist
  <1>3. ub' \in BOOLEAN
    BY <1>1 DEF OnUvThreadMessage, UseErasedNode, SendUvMessage, SendByManager, TypeInv
  <1>4. mbox' \in [Thread -> Seq(Msg)] /\ m_map' \in [Thread -> SUBSET Thread] /\ Quiet
    <2>1. ASSUME NEW t \in Thread, OnUvThreadMessage(t)
          PROVE  mbox' \in [Thread -> Seq(Msg)] /\ m_map' \in [Thread -> SUBSET Thread] /\ Quiet
      <3> DEFINE s == mbox[t]
                 S == m_map[t]
                 T == Applied(S, Head(s))
      <3>1. /\ s \in Seq(Msg) /\ s # <<>> /\ S \in SUBSET Thread
            /\ mbox' = [mbox EXCEPT ![t] = Tail(s)]
            /\ m_map' = [m_map EXCEPT ![t] = T]
        BY <1>1, <2>1 DEF OnUvThreadMessage, TypeInv
      <3>2. /\ Tail(s) \in Seq(Msg) /\ Head(s) \in Msg
            /\ \A k : Knows(Tail(s), T, k) <=> Knows(s, S, k)
        BY <3>1, TailKnows
      <3>3. T \in SUBSET Thread
        BY <3>1, <3>2 DEF Applied, Msg, Kind
      <3> HIDE DEF s, S, T
      <3>4. mbox' \in [Thread -> Seq(Msg)] /\ m_map' \in [Thread -> SUBSET Thread]
        BY <1>1, <3>1, <3>2, <3>3 DEF TypeInv
      <3>5. ASSUME NEW x \in Thread, NEW k \in Thread
            PROVE  Knows(mbox'[x], m_map'[x], k) <=> K(x, k)
        <4>1. CASE x = t
          <5>1. mbox'[x] = Tail(s) /\ m_map'[x] = T
            BY <1>1, <3>1, <4>1 DEF TypeInv
          <5> QED
            BY <3>2, <4>1, <5>1 DEF K, s, S
        <4>2. CASE x # t
          <5>1. mbox'[x] = mbox[x] /\ m_map'[x] = m_map[x]
            BY <1>1, <3>1, <4>2 DEF TypeInv
          <5> QED
            BY <5>1 DEF K
        <4> QED
          BY <4>1, <4>2
      <3> QED
        BY <3>4, <3>5 DEF Quiet
    <2>2. ASSUME NEW t \in Thread, UseErasedNode(t)
          PROVE  mbox' \in [Thread -> Seq(Msg)] /\ m_map' \in [Thread -> SUBSET Thread] /\ Quiet
      BY <1>1, <2>2, NothingSent DEF UseErasedNode, TypeInv
    <2>3. ASSUME NEW dst \in Thread, Post(dst, App), m_map' = m_map
          PROVE  mbox' \in [Thread -> Seq(Msg)] /\ m_map' \in [Thread -> SUBSET Thread] /\ Quiet
      <3>1. /\ mbox' \in [Thread -> Seq(Msg)]
            /\ \A x, k \in Thread : Knows(mbox'[x], m_map'[x], k) <=> K(x, k)
        BY <1>1, <2>3, Messages, PostStep
      <3> QED
        BY <1>1, <2>3, <3>1 DEF Quiet, TypeInv
    <2> QED
      BY <2>1, <2>2, <2>3 DEF SendUvMessage, SendByManager
  <1>5. TypeInv' /\ StageInv'
    BY <1>1, <1>2, <1>3, <1>4 DEF TypeInv, StageInv
  <1>6. EnterInv'
    BY <1>1, <1>2, EnterStep
  <1>7. \A y \in Thread : \A x \in m_mapThread' :
           /\ HasTold(y, x)' => HasTold(y, x)
           /\ HasRead(y, x)' => HasRead(y, x)
           /\ HasLeft(y, x)' => HasLeft(y, x)
    BY <1>2 DEF HasTold, HasRead, HasLeft, Passed
  <1>8. LearnInv' /\ SnapInv' /\ LeaveInv'
    BY <1>1, <1>2, <1>4, <1>7, QuietStep
  <1> QED
    BY <1>5, <1>6, <1>8 DEF IInv

\* A thread leaves the map: the others have not been told.
LEMMA EraseStep ==
    ASSUME IInv, NEW t \in Thread, Erase(t)
    PROVE  IInv'
  <1> DEFINE M == m_mapThread \ {t}
  <1>1. /\ TypeInv /\ StageInv /\ EnterInv /\ LearnInv /\ SnapInv /\ LeaveInv
    BY Parts
  <1>2. /\ m_mapThread' = M /\ m_lock' = t /\ m_map' = m_map /\ mbox' = mbox
        /\ ub' = ub /\ order' = order /\ seen' = seen
        /\ pc[t] = "run" /\ pc' = [pc EXCEPT ![t] = "notify"]
        /\ it' = [it EXCEPT ![t] = First(M)]
        /\ told' = [told EXCEPT ![t] = M]
    BY DEF Erase, Goto
  <1>3. /\ M \in SUBSET Thread /\ First(M) \in M \cup {End}
        /\ First(M) = End => M = {}
        /\ \A x \in M : ~(x < First(M))
    BY <1>1, IteratorSteps DEF TypeInv
  <1> HIDE DEF M
  <1>4. TypeInv'
    BY <1>1, <1>2, <1>3 DEF TypeInv, Label, Entered
  <1>5. /\ pc'[t] = "notify" /\ it'[t] = First(M) /\ told'[t] = M
        /\ Others(t) /\ \A y \in Thread : y # t => told'[y] = told[y]
    BY <1>1, <1>2 DEF TypeInv, Others
  <1>6. StageInv'
    BY <1>1, <1>2, <1>5 DEF StageInv, Others, M
  <1>7. \A x \in Thread : pc[x] \in Entered => pc'[x] \in Entered
    BY <1>5 DEF Others, Entered
  <1>8. EnterInv'
    <2>1. \A x \in M : pc[x] \in Entered
      BY <1>1 DEF StageInv, TypeInv, Entered, M
    <2>2. \A i \in 1..Len(order) : pc'[order[i]] \in Entered
      BY <1>1, <1>7 DEF EnterInv, TypeInv
    <2>3. ASSUME NEW y \in Thread, NEW x \in seen[y] \cup told'[y] PROVE pc'[x] \in Entered
      <3>1. x \in M \/ x \in seen[y] \cup told[y]
        BY <1>5, <2>3
      <3>2. x \in Thread
        BY <1>1, <1>3, <3>1 DEF TypeInv
      <3> QED
        BY <1>1, <1>7, <2>1, <3>1, <3>2 DEF EnterInv
    <2> QED
      BY <1>2, <2>2, <2>3 DEF EnterInv
  <1>9. \A y \in Thread : \A x \in M :
           /\ HasTold(y, x)' => HasTold(y, x)
           /\ HasRead(y, x)' => HasRead(y, x)
           /\ HasLeft(y, x)' => HasLeft(y, x) /\ y # t
    <2> SUFFICES ASSUME NEW y \in Thread, NEW x \in M
                 PROVE  /\ HasTold(y, x)' => HasTold(y, x)
                        /\ HasRead(y, x)' => HasRead(y, x)
                        /\ HasLeft(y, x)' => HasLeft(y, x) /\ y # t
      OBVIOUS
    <2>1. CASE y = t
      BY <1>3, <1>5, <2>1 DEF HasTold, HasRead, HasLeft, Passed
    <2>2. CASE y # t
      BY <1>5, <2>2 DEF HasTold, HasRead, HasLeft, Passed, Others
    <2> QED
      BY <2>1, <2>2
  <1>10. M \subseteq m_mapThread /\ M \subseteq Thread
    BY <1>3 DEF M
  <1>11. LearnInv'
    BY <1>1, <1>2, <1>9, <1>10, SameOrder DEF LearnInv, K
  <1>12. SnapInv'
    BY <1>1, <1>2, <1>9, <1>10 DEF SnapInv, K
  <1>13. LeaveInv'
    BY <1>1, <1>2, <1>5, <1>9, <1>10 DEF LeaveInv, K
  <1> QED
    BY <1>4, <1>6, <1>8, <1>11, <1>12, <1>13 DEF IInv

\* The leaver tells the thread its iterator is at, or empties its own map.
LEMMA NotifyStep ==
    ASSUME IInv, NEW t \in Thread, Notify(t)
    PROVE  IInv'
  <1>1. /\ TypeInv /\ StageInv /\ EnterInv /\ LearnInv /\ SnapInv /\ LeaveInv
    BY Parts
  <1>2. /\ m_mapThread' = m_mapThread /\ ub' = ub
        /\ order' = order /\ seen' = seen /\ told' = told
        /\ pc[t] = "notify" /\ t \notin m_mapThread
    BY <1>1 DEF Notify, hist, StageInv
  <1>3. CASE it[t] = End
    <2>1. /\ m_lock' = Free /\ pc' = [pc EXCEPT ![t] = "left"] /\ it' = it /\ mbox' = mbox
          /\ m_map' = [m_map EXCEPT ![t] = {}]
      BY <1>3 DEF Notify, Goto
    <2>2. pc'[t] = "left" /\ Others(t) /\ TypeInv'
      BY <1>1, <1>2, <2>1 DEF TypeInv, Others, Label, Entered
    <2>3. StageInv' /\ EnterInv'
      BY <1>1, <1>2, <2>2, EnterStep DEF StageInv, Others, Entered
    <2>4. \A x, k \in Thread : x # t => (Knows(mbox'[x], m_map'[x], k) <=> K(x, k))
      BY <1>1, <2>1 DEF K, TypeInv
    <2>5. ASSUME NEW y \in Thread, NEW x \in m_mapThread
          PROVE  /\ HasTold(y, x)' => HasTold(y, x)
                 /\ HasRead(y, x)' => HasRead(y, x) /\ y # t
                 /\ HasLeft(y, x)' => HasLeft(y, x)
      BY <1>2, <1>3, <2>2 DEF HasTold, HasRead, HasLeft, Passed, Others
    <2>6. m_mapThread \subseteq Thread \ {t}
      BY <1>1, <1>2 DEF TypeInv
    <2>7. LearnInv'
      BY <1>1, <1>2, <2>4, <2>5, <2>6, SameOrder DEF LearnInv, K
    <2>8. SnapInv'
      BY <1>1, <1>2, <2>4, <2>5, <2>6 DEF SnapInv, K
    <2>9. LeaveInv'
      BY <1>1, <1>2, <2>4, <2>5, <2>6 DEF LeaveInv, K
    <2> QED
      BY <2>2, <2>3, <2>7, <2>8, <2>9 DEF IInv
  <1>4. CASE it[t] # End
    <2> DEFINE k == it[t]
    <2>1. /\ k \in Thread /\ pc' = pc /\ m_map' = m_map /\ m_lock' = m_lock
          /\ it' = [it EXCEPT ![t] = After(m_mapThread, k)]
          /\ Post(k, Message("UN_REGIST", t))
      BY <1>1, <1>4 DEF Notify, Advance, TypeInv
    <2> HIDE DEF k
    <2>2. /\ mbox' \in [Thread -> Seq(Msg)]
          /\ \A x, y \in Thread :
                Knows(mbox'[x], m_map'[x], y) <=> ~(x = k /\ y = t) /\ K(x, y)
      BY <1>1, <2>1, Messages, PostStep
    <2>3. /\ After(m_mapThread, k) \in m_mapThread \cup {End}
          /\ \A x \in m_mapThread :
                After(m_mapThread, k) = End \/ x < After(m_mapThread, k) => x < k \/ x = k
      BY <1>1, <2>1, IteratorSteps DEF TypeInv
    <2>4. it'[t] = After(m_mapThread, k) /\ Others(t) /\ TypeInv'
      BY <1>1, <1>2, <2>1, <2>2, <2>3 DEF TypeInv, Others
    <2>5. StageInv' /\ EnterInv'
      BY <1>1, <1>2, <2>1, EnterStep DEF StageInv
    <2>6. ASSUME NEW y \in Thread, NEW x \in m_mapThread
          PROVE  /\ HasTold(y, x)' => HasTold(y, x)
                 /\ HasRead(y, x)' => HasRead(y, x)
                 /\ HasLeft(y, x)' => HasLeft(y, x) \/ (x = k /\ y = t)
      <3>1. CASE y = t
        BY <1>2, <2>1, <2>3, <2>4, <3>1 DEF HasTold, HasRead, HasLeft, Passed, k
      <3>2. CASE y # t
        BY <2>1, <2>4, <3>2 DEF HasTold, HasRead, HasLeft, Passed, Others
      <3> QED
        BY <3>1, <3>2
    <2>7. m_mapThread \subseteq Thread \ {t}
      BY <1>1, <1>2 DEF TypeInv
    <2>8. LearnInv'
      BY <1>1, <1>2, <2>2, <2>6, <2>7, SameOrder DEF LearnInv, K
    <2>9. SnapInv'
      BY <1>1, <1>2, <2>2, <2>6, <2>7 DEF SnapInv, K
    <2>10. LeaveInv'
      BY <1>1, <1>2, <2>2, <2>6, <2>7 DEF LeaveInv, K
    <2> QED
      BY <2>4, <2>5, <2>8, <2>9, <2>10 DEF IInv
  <1> QED
    BY <1>3, <1>4

(***************************************************************************)
(* The theorems.                                                           *)
(***************************************************************************)
\* Every step of every thread keeps the invariant.
THEOREM Inductive == Spec => []IInv
  <1>1. ASSUME IInv, [Next]_vars PROVE IInv'
    <2>1. ASSUME NEW t \in Thread,
                 RegistThread(t) \/ Erase(t) \/ Notify(t)
          PROVE  IInv'
      BY <1>1, <2>1, StartStep, SnapshotStep, InsertStep, BeginStep, BroadcastStep,
         EraseStep, NotifyStep DEF RegistThread
    <2>2. CASE \/ \E t \in Thread : OnUvThreadMessage(t) \/ UseErasedNode(t)
               \/ \E t, dst \in Thread : SendUvMessage(t, dst)
               \/ \E dst \in Thread : SendByManager(dst)
      BY <1>1, <2>2, MessageStep
    <2>3. CASE UNCHANGED vars
      BY <1>1, <2>3 DEF vars, IInv, TypeInv, StageInv, EnterInv, LearnInv, SnapInv, LeaveInv,
                        Before, HasTold, HasRead, HasLeft, Passed, K
    <2> QED
      BY <1>1, <2>1, <2>2, <2>3 DEF Next
  <1> QED
    BY <1>1, InitInv, PTL DEF Spec

\* Every message and every map names threads, whatever registers and leaves.
THEOREM TypeCorrect == Spec => []TypeOK
  <1>1. ASSUME IInv PROVE TypeOK
    <2>1. TypeInv
      BY <1>1, Parts
    <2>2. ASSUME NEW t \in Thread, NEW i \in 1..Len(mbox[t])
          PROVE  mbox[t][i] \in [kind : Kind, key : Thread \cup {0}]
      <3>1. mbox[t] \in Seq(Msg)
        BY <2>1 DEF TypeInv
      <3>2. mbox[t][i] \in Msg
        BY <2>2, <3>1
      <3> QED
        BY <3>2 DEF Msg
    <2> QED
      BY <2>1, <2>2 DEF TypeInv, TypeOK, Label, Entered
  <1> QED
    BY <1>1, Inductive, PTL

\* What the messages that wait for t come to.
LEMMA WillKnowIs == \A t, k : WillKnow(t, k) <=> K(t, k)
  BY DEF WillKnow, About, K, Knows, Positions

\* Of two threads, the one that entered the map first learns of the other,
\* although neither loop of RegistThread holds the lock.
THEOREM LaterIsAnnounced == Spec => []EarlierLearnsLater
  <1>1. IInv => EarlierLearnsLater
    BY Parts, WillKnowIs DEF LearnInv, EarlierLearnsLater, HasTold
  <1> QED
    BY <1>1, Inductive, PTL

\* A thread learns of all that were in the map when it began to register, while
\* others come and go under its iterator.
THEOREM SnapshotCorrect == Spec => []SnapshotComplete
  <1>1. IInv => SnapshotComplete
    BY Parts, WillKnowIs DEF SnapInv, SnapshotComplete, HasRead
  <1> QED
    BY <1>1, Inductive, PTL

\* No message that comes late makes a thread known again that has left.
THEOREM LeaverIsForgotten == Spec => []LeaverForgotten
  <1>1. IInv => LeaverForgotten
    BY Parts, WillKnowIs DEF LeaveInv, LeaverForgotten, HasLeft
  <1> QED
    BY <1>1, Inductive, PTL

\* UnRegistThread holds the write lock while it walks the map: unlike those of
\* RegistThread its iterator is always at a thread of the map.
LockedWalk ==
    \A t \in Thread : pc[t] = "notify" => m_lock = t /\ it[t] \in m_mapThread \cup {End}

\* No node is erased under the iterator of a thread that leaves.
THEOREM LockedWalkSafe == Spec => []LockedWalk
  <1>1. Init => LockedWalk
    BY DEF Init, LockedWalk
  <1>2. ASSUME IInv, LockedWalk, [Next]_vars PROVE LockedWalk'
    <2>1. TypeInv /\ Free \notin Thread
      BY <1>2, Parts, ThreadAssumption DEF Free
    <2>2. ASSUME NEW t \in Thread, Erase(t) PROVE LockedWalk'
      <3> DEFINE M == m_mapThread \ {t}
      <3>1. /\ m_mapThread' = M /\ m_lock' = t /\ m_lock = Free
            /\ pc' = [pc EXCEPT ![t] = "notify"] /\ it' = [it EXCEPT ![t] = First(M)]
        BY <2>2 DEF Erase, Goto
      <3>2. First(M) \in M \cup {End}
        BY <2>1, IteratorSteps DEF TypeInv
      <3> HIDE DEF M
      <3> QED
        BY <1>2, <2>1, <3>1, <3>2 DEF LockedWalk, TypeInv
    <2>3. ASSUME NEW t \in Thread, Notify(t) PROVE LockedWalk'
      <3>1. pc[t] = "notify" /\ m_mapThread' = m_mapThread
        BY <2>3 DEF Notify
      <3>2. CASE it[t] = End
        BY <1>2, <2>1, <2>3, <3>1, <3>2 DEF Notify, Goto, LockedWalk, TypeInv
      <3>3. CASE it[t] # End
        <4>1. After(m_mapThread, it[t]) \in m_mapThread \cup {End}
          <5>1. it[t] \in Thread /\ m_mapThread \in SUBSET Thread
            BY <2>1, <3>3 DEF TypeInv
          <5> QED
            BY <5>1, IteratorSteps
        <4>2. /\ it' = [it EXCEPT ![t] = After(m_mapThread, it[t])]
              /\ pc' = pc /\ m_lock' = m_lock
          BY <2>3, <3>3 DEF Notify, Advance
        <4> QED
          BY <1>2, <2>1, <3>1, <4>1, <4>2 DEF LockedWalk, TypeInv
      <3> QED
        BY <3>2, <3>3
    <2>4. ASSUME NEW t \in Thread, Start(t) \/ Begin(t) \/ Snapshot(t) \/ Broadcast(t)
          PROVE  LockedWalk'
      <3>1. /\ m_lock' = m_lock /\ m_mapThread' = m_mapThread
            /\ pc[t] # "notify" /\ \A y \in Thread : y # t => pc'[y] = pc[y] /\ it'[y] = it[y]
            /\ pc'[t] # "notify"
        BY <2>1, <2>4 DEF Start, Begin, Snapshot, Broadcast, Goto, Advance, mng, TypeInv
      <3> QED
        BY <1>2, <3>1 DEF LockedWalk
    <2>5. ASSUME NEW t \in Thread, Insert(t) PROVE LockedWalk'
      BY <1>2, <2>1, <2>5 DEF Insert, Goto, LockedWalk, TypeInv
    <2>6. CASE \/ \E t \in Thread : OnUvThreadMessage(t) \/ UseErasedNode(t)
               \/ \E t, dst \in Thread : SendUvMessage(t, dst)
               \/ \E dst \in Thread : SendByManager(dst)
               \/ UNCHANGED vars
      BY <1>2, <2>6 DEF OnUvThreadMessage, UseErasedNode, SendUvMessage, SendByManager, mng,
                        vars, LockedWalk
    <2> QED
      BY <1>2, <2>2, <2>3, <2>4, <2>5, <2>6 DEF Next, RegistThread
  <1> QED
    BY <1>1, <1>2, Inductive, PTL DEF Spec
=============================================================================
