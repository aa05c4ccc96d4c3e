--------------------------- MODULE SequenceFacts ---------------------------
(***************************************************************************)
(* Facts about sequences without repetitions, concatenation and least and  *)
(* greatest numbers, and induction, which follows from the least number;   *)
(* the proofs of several components share them.                            *)
(***************************************************************************)
EXTENDS Integers, FiniteSetsExt, SequenceTheorems, WellFoundedInduction, TLAPS

(***************************************************************************)
(* Sequences whose elements are distinct.                                  *)
(***************************************************************************)
In(p, s) == \E i \in 1..Len(s) : s[i] = p
Distinct(s) == \A i, j \in 1..Len(s) : s[i] = s[j] => i = j

\* A new element at the end.
LEMMA AppendDistinct ==
    ASSUME NEW S, NEW s \in Seq(S), NEW p \in S
    PROVE  /\ Append(s, p) \in Seq(S) /\ Len(Append(s, p)) = Len(s) + 1
           /\ \A q : In(q, Append(s, p)) <=> In(q, s) \/ q = p
           /\ Distinct(s) /\ ~In(p, s) => Distinct(Append(s, p))
  <1> DEFINE a == Append(s, p)
             n == Len(s)
  <1>1. /\ a \in Seq(S) /\ Len(a) = n + 1 /\ n \in Nat
        /\ \A i \in 1..n : a[i] = s[i]
        /\ a[n + 1] = p
    BY AppendProperties, LenProperties
  <1> HIDE DEF a
  <1>2. \A q : In(q, a) <=> In(q, s) \/ q = p
    <2> SUFFICES ASSUME NEW q PROVE In(q, a) <=> In(q, s) \/ q = p
      OBVIOUS
    <2>1. ASSUME In(q, a) PROVE In(q, s) \/ q = p
      <3>1. PICK i \in 1..n + 1 : a[i] = q
        BY <1>1, <2>1 DEF In
      <3>2. CASE i = n + 1
        BY <1>1, <3>1, <3>2
      <3>3. CASE i \in 1..n
        BY <1>1, <3>1, <3>3 DEF In
      <3> QED
        BY <1>1, <3>2, <3>3
    <2>2. ASSUME In(q, s) PROVE In(q, a)
      <3>1. PICK i \in 1..n : s[i] = q
        BY <2>2 DEF In
      <3>2. i \in 1..Len(a) /\ a[i] = q
        BY <1>1, <3>1
      <3> QED
        BY <3>2 DEF In
    <2>3. ASSUME q = p PROVE In(q, a)
      <3>1. n + 1 \in 1..Len(a)
        BY <1>1
      <3> QED
        BY <1>1, <2>3, <3>1 DEF In
    <2> QED
      BY <2>1, <2>2, <2>3
  <1>3. ASSUME Distinct(s), ~In(p, s) PROVE Distinct(a)
    <2> SUFFICES ASSUME NEW i \in 1..n + 1, NEW j \in 1..n + 1, a[i] = a[j] PROVE i = j
      BY <1>1 DEF Distinct
    <2>1. CASE i \in 1..n /\ j \in 1..n
      BY <1>1, <1>3, <2>1 DEF Distinct
    <2>2. CASE i = n + 1 /\ j \in 1..n
      BY <1>1, <1>3, <2>2 DEF In
    <2>3. CASE j = n + 1 /\ i \in 1..n
      BY <1>1, <1>3, <2>3 DEF In
    <2> QED
      BY <1>1, <2>1, <2>2, <2>3
  <1> QED
    BY <1>1, <1>2, <1>3 DEF a

\* The first element, and the others.
LEMMA TailDistinct ==
    ASSUME NEW S, NEW s \in Seq(S), s # <<>>
    PROVE  /\ Head(s) \in S /\ Tail(s) \in Seq(S)
           /\ Len(Tail(s)) = Len(s) - 1 /\ Len(s) >= 1
           /\ \A q : In(q, s) <=> q = Head(s) \/ In(q, Tail(s))
           /\ Distinct(s) => Distinct(Tail(s)) /\ ~In(Head(s), Tail(s))
  <1> DEFINE t == Tail(s)
             n == Len(s)
  <1>1. /\ Head(s) \in S /\ t \in Seq(S) /\ Len(t) = n - 1
        /\ \A i \in 1..n - 1 : t[i] = s[i + 1]
        /\ Head(s) = s[1] /\ n \in Nat /\ n >= 1
    <2>1. /\ Head(s) \in S /\ t \in Seq(S) /\ Len(t) = n - 1
          /\ \A i \in 1..Len(t) : t[i] = s[i + 1]
          /\ n \in Nat
      BY HeadTailProperties, LenProperties
    <2>2. n # 0
      BY EmptySeq
    <2>3. Head(s) = s[1]
      BY HeadTailProperties
    <2> QED
      BY <2>1, <2>2, <2>3
  <1> HIDE DEF t, n
  <1>2. \A i \in 1..n : i = 1 \/ (i - 1 \in 1..n - 1 /\ s[i] = t[i - 1])
    <2> SUFFICES ASSUME NEW i \in 1..n, i # 1 PROVE i - 1 \in 1..n - 1 /\ s[i] = t[i - 1]
      OBVIOUS
    <2>1. i - 1 \in 1..n - 1 /\ i - 1 + 1 = i
      BY <1>1
    <2> QED
      BY <1>1, <2>1
  <1>3. \A q : In(q, s) <=> q = Head(s) \/ In(q, t)
    <2> SUFFICES ASSUME NEW q PROVE In(q, s) <=> q = Head(s) \/ In(q, t)
      OBVIOUS
    <2>1. ASSUME In(q, s) PROVE q = Head(s) \/ In(q, t)
      <3>1. PICK i \in 1..n : s[i] = q
        BY <2>1 DEF In, n
      <3> QED
        BY <1>1, <1>2, <3>1 DEF In
    <2>2. ASSUME q = Head(s) PROVE In(q, s)
      <3>1. 1 \in 1..n
        BY <1>1
      <3> QED
        BY <1>1, <2>2, <3>1 DEF In, n
    <2>3. ASSUME In(q, t) PROVE In(q, s)
      <3>1. PICK i \in 1..n - 1 : t[i] = q
        BY <1>1, <2>3 DEF In
      <3>2. i + 1 \in 1..n /\ s[i + 1] = q
        BY <1>1, <3>1
      <3> QED
        BY <3>2 DEF In, n
    <2> QED
      BY <2>1, <2>2, <2>3
  <1>4. ASSUME Distinct(s) PROVE Distinct(t) /\ ~In(Head(s), t)
    <2>1. \A i, j \in 1..n : s[i] = s[j] => i = j
      BY <1>4 DEF Distinct, n
    <2>2. ASSUME NEW i \in 1..n - 1, NEW j \in 1..n - 1, t[i] = t[j] PROVE i = j
      <3>1. i + 1 \in 1..n /\ j + 1 \in 1..n /\ s[i + 1] = s[j + 1]
        BY <1>1, <2>2
      <3>2. i + 1 = j + 1
        BY <2>1, <3>1
      <3> QED
        BY <1>1, <3>2
    <2>3. ASSUME NEW i \in 1..n - 1, t[i] = Head(s) PROVE FALSE
      <3>1. i + 1 \in 1..n /\ 1 \in 1..n /\ s[i + 1] = s[1] /\ i + 1 # 1
        BY <1>1, <2>3
      <3> QED
        BY <2>1, <3>1
    <2> QED
      BY <1>1, <2>2, <2>3 DEF Distinct, In
  <1> QED
    BY <1>1, <1>3, <1>4 DEF t, n

\* Two sequences with nothing in common, one after the other.
LEMMA ConcatDistinct ==
    ASSUME NEW S, NEW s \in Seq(S), NEW t \in Seq(S)
    PROVE  /\ s \o t \in Seq(S)
           /\ \A q : In(q, s \o t) => In(q, s) \/ In(q, t)
           /\ Distinct(s) /\ Distinct(t) /\ (\A q : ~(In(q, s) /\ In(q, t)))
                => Distinct(s \o t)
  <1> DEFINE c == s \o t
             n == Len(s)
             m == Len(t)
  <1>1. /\ c \in Seq(S) /\ Len(c) = n + m /\ n \in Nat /\ m \in Nat
        /\ \A i \in 1..n + m : c[i] = IF i <= n THEN s[i] ELSE t[i - n]
    BY ConcatProperties, LenProperties
  <1> HIDE DEF c
  <1>2. \A i \in 1..n + m : \/ i \in 1..n /\ c[i] = s[i]
                            \/ i > n /\ i - n \in 1..m /\ c[i] = t[i - n]
    BY <1>1
  <1>3. ASSUME NEW q, In(q, c) PROVE In(q, s) \/ In(q, t)
    <2>1. PICK i \in 1..n + m : c[i] = q
      BY <1>1, <1>3 DEF In
    <2> QED
      BY <1>2, <2>1 DEF In
  <1>4. ASSUME Distinct(s), Distinct(t), \A q : ~(In(q, s) /\ In(q, t)) PROVE Distinct(c)
    <2> SUFFICES ASSUME NEW i \in 1..n + m, NEW j \in 1..n + m, c[i] = c[j] PROVE i = j
      BY <1>1 DEF Distinct
    <2>1. CASE i \in 1..n /\ c[i] = s[i] /\ j \in 1..n /\ c[j] = s[j]
      BY <1>4, <2>1 DEF Distinct
    <2>2. CASE i \in 1..n /\ c[i] = s[i] /\ j > n /\ j - n \in 1..m /\ c[j] = t[j - n]
      <3>1. In(c[i], s) /\ In(c[i], t)
        BY <2>2 DEF In
      <3> QED
        BY <1>4, <3>1
    <2>3. CASE j \in 1..n /\ c[j] = s[j] /\ i > n /\ i - n \in 1..m /\ c[i] = t[i - n]
      <3>1. In(c[i], s) /\ In(c[i], t)
        BY <2>3 DEF In
      <3> QED
        BY <1>4, <3>1
    <2>4. CASE /\ i > n /\ i - n \in 1..m /\ c[i] = t[i - n]
               /\ j > n /\ j - n \in 1..m /\ c[j] = t[j - n]
      <3>1. i - n = j - n
        BY <1>4, <2>4 DEF Distinct
      <3> QED
        BY <1>1, <3>1
    <2> QED
      BY <1>2, <2>1, <2>2, <2>3, <2>4
  <1> QED
    BY <1>1, <1>3, <1>4 DEF c

\* A concatenation has the elements of both.
LEMMA ConcatIn ==
    ASSUME NEW S, NEW s \in Seq(S), NEW t \in Seq(S), NEW q, In(q, s) \/ In(q, t)
    PROVE  In(q, s \o t)
  <1> DEFINE c == s \o t
             n == Len(s)
             m == Len(t)
  <1>1. /\ n \in Nat /\ m \in Nat /\ Len(c) = n + m
        /\ \A i \in 1..n : c[i] = s[i]
        /\ \A i \in n + 1..n + m : c[i] = t[i - n]
    BY ConcatProperties, LenProperties
  <1> HIDE DEF c
  <1>2. CASE In(q, s)
    <2>1. PICK i \in 1..n : s[i] = q
      BY <1>2 DEF In
    <2>2. i \in 1..n + m /\ c[i] = q
      BY <1>1, <2>1
    <2> QED
      BY <1>1, <2>2 DEF In, c
  <1>3. CASE In(q, t)
    <2>1. PICK i \in 1..m : t[i] = q
      BY <1>3 DEF In
    <2>2. n + i \in n + 1..n + m /\ n + i \in 1..n + m /\ (n + i) - n = i
      BY <1>1, <2>1
    <2>3. c[n + i] = q
      BY <1>1, <2>1, <2>2
    <2> QED
      BY <1>1, <2>2, <2>3 DEF In, c
  <1> QED
    BY <1>2, <1>3

\* A sequence that is one longer and begins with another one is that one with an
\* element appended.
LEMMA AppendIs ==
    ASSUME NEW S, NEW s \in Seq(S), NEW t \in Seq(S), NEW p \in S,
           Len(t) = Len(s) + 1, t[Len(s) + 1] = p, \A i \in 1..Len(s) : t[i] = s[i]
    PROVE  Append(s, p) = t
  <1>1. /\ Append(s, p) \in Seq(S) /\ Len(Append(s, p)) = Len(s) + 1 /\ Len(s) \in Nat
        /\ \A i \in 1..Len(s) : Append(s, p)[i] = s[i]
        /\ Append(s, p)[Len(s) + 1] = p
    BY AppendProperties, LenProperties
  <1>2. \A i \in 1..Len(s) + 1 : Append(s, p)[i] = t[i]
    BY <1>1
  <1> QED
    BY <1>1, <1>2, SeqEqual

\* The first n elements of a sequence, and the others.
LEMMA SplitDistinct ==
    ASSUME NEW S, NEW s \in Seq(S), NEW n \in 0..Len(s)
    PROVE  /\ SubSeq(s, 1, n) \in Seq(S) /\ SubSeq(s, n + 1, Len(s)) \in Seq(S)
           /\ \A q : In(q, SubSeq(s, 1, n)) => In(q, s)
           /\ \A q : In(q, SubSeq(s, n + 1, Len(s))) => In(q, s)
           /\ Distinct(s) => /\ Distinct(SubSeq(s, 1, n))
                             /\ Distinct(SubSeq(s, n + 1, Len(s)))
                             /\ \A q : ~(In(q, SubSeq(s, 1, n))
                                         /\ In(q, SubSeq(s, n + 1, Len(s))))
  <1> DEFINE a == SubSeq(s, 1, n)
             b == SubSeq(s, n + 1, Len(s))
             m == Len(s)
  <1>1. m \in Nat /\ n \in Nat /\ n <= m
    BY LenProperties
  <1>2. \A i \in 1..m : s[i] \in S
    BY ElementOfSeq
  <1>3. a \in Seq(S) /\ Len(a) = n /\ \A i \in 1..n : a[i] = s[i]
    <2>1. \A i \in 1..n : s[i] \in S
      BY <1>1, <1>2
    <2>2. a \in Seq(S) /\ Len(a) = n /\ \A i \in 1..n : a[i] = s[1 + i - 1]
      BY <1>1, <2>1, SubSeqProperties
    <2>3. \A i \in 1..n : 1 + i - 1 = i
      BY <1>1
    <2> HIDE DEF a
    <2> QED
      BY <2>2, <2>3
  <1>4. b \in Seq(S) /\ Len(b) = m - n /\ \A i \in 1..m - n : b[i] = s[n + i]
    <2>1. \A i \in n + 1..m : s[i] \in S
      BY <1>1, <1>2
    <2>2. /\ b \in Seq(S) /\ Len(b) = m - (n + 1) + 1
          /\ \A i \in 1..m - (n + 1) + 1 : b[i] = s[n + 1 + i - 1]
      BY <1>1, <2>1, SubSeqProperties
    <2>3. m - (n + 1) + 1 = m - n /\ \A i \in 1..m - n : n + 1 + i - 1 = n + i
      BY <1>1
    <2> HIDE DEF b, m
    <2> QED
      BY <2>2, <2>3
  <1> HIDE DEF a, b
  <1>5. \A q : In(q, a) => In(q, s)
    <2>1. \A i \in 1..n : i \in 1..m
      BY <1>1
    <2> QED
      BY <1>3, <2>1 DEF In
  <1>6. \A q : In(q, b) => In(q, s)
    <2>1. \A i \in 1..m - n : n + i \in 1..m
      BY <1>1
    <2> QED
      BY <1>4, <2>1 DEF In
  <1>7. ASSUME Distinct(s)
        PROVE  Distinct(a) /\ Distinct(b) /\ \A q : ~(In(q, a) /\ In(q, b))
    <2>1. \A i, j \in 1..m : s[i] = s[j] => i = j
      BY <1>7 DEF Distinct
    <2>2. ASSUME NEW i \in 1..n, NEW j \in 1..n, a[i] = a[j] PROVE i = j
      <3>1. i \in 1..m /\ j \in 1..m /\ s[i] = s[j]
        BY <1>1, <1>3, <2>2
      <3> QED
        BY <2>1, <3>1
    <2>3. ASSUME NEW i \in 1..m - n, NEW j \in 1..m - n, b[i] = b[j] PROVE i = j
      <3>1. n + i \in 1..m /\ n + j \in 1..m /\ s[n + i] = s[n + j]
        BY <1>1, <1>4, <2>3
      <3>2. n + i = n + j
        BY <2>1, <3>1
      <3> QED
        BY <1>1, <3>2
    <2>4. ASSUME NEW i \in 1..n, NEW j \in 1..m - n, a[i] = b[j] PROVE FALSE
      <3>1. i \in 1..m /\ n + j \in 1..m /\ s[i] = s[n + j] /\ i # n + j
        BY <1>1, <1>3, <1>4, <2>4
      <3> QED
        BY <2>1, <3>1
    <2>5. Distinct(a) /\ Distinct(b)
      BY <1>3, <1>4, <2>2, <2>3 DEF Distinct
    <2>6. \A q : ~(In(q, a) /\ In(q, b))
      BY <1>3, <1>4, <2>4 DEF In
    <2> QED
      BY <2>5, <2>6
  <1> QED
    BY <1>3, <1>4, <1>5, <1>6, <1>7 DEF a, b

\* Concatenation, as an operator that the provers do not take apart.
Cat(s, t) == s \o t

\* It is associative.
LEMMA CatAssociative ==
    ASSUME NEW S, NEW s \in Seq(S), NEW t \in Seq(S), NEW u \in Seq(S)
    PROVE  Cat(Cat(s, t), u) = Cat(s, Cat(t, u))
  BY ConcatAssociative DEF Cat

\* It has a unit and gives a sequence of the same elements.
LEMMA CatType ==
    ASSUME NEW S, NEW s \in Seq(S), NEW t \in Seq(S)
    PROVE  Cat(s, t) \in Seq(S) /\ Cat(s, <<>>) = s /\ Cat(<<>>, s) = s
  BY ConcatProperties, ConcatEmptySeq DEF Cat

\* The elements of c are those of s and then those of t.
Indexed(c, s, t) ==
    /\ Len(c) = Len(s) + Len(t)
    /\ \A i \in 1..Len(s) : c[i] = s[i]
    /\ \A i \in 1..Len(t) : c[Len(s) + i] = t[i]
    /\ \A i \in 1..Len(s) + Len(t) : i \in 1..Len(s) \/ i - Len(s) \in 1..Len(t)

\* That is what concatenation gives.
LEMMA CatIndex ==
    ASSUME NEW S, NEW s \in Seq(S), NEW t \in Seq(S)
    PROVE  Indexed(Cat(s, t), s, t)
  <1> DEFINE c == Cat(s, t)
             n == Len(s)
             m == Len(t)
  <1>1. n \in Nat /\ m \in Nat
    BY LenProperties
  <1>2. /\ Len(c) = n + m
        /\ \A i \in 1..n + m : c[i] = IF i <= n THEN s[i] ELSE t[i - n]
    BY ConcatProperties DEF Cat
  <1> HIDE DEF c, n, m
  <1>3. ASSUME NEW i \in 1..n PROVE c[i] = s[i]
    <2>1. i \in 1..n + m /\ i <= n
      BY <1>1
    <2> QED
      BY <1>2, <2>1
  <1>4. ASSUME NEW i \in 1..m PROVE c[n + i] = t[i]
    <2>1. n + i \in 1..n + m /\ ~(n + i <= n) /\ (n + i) - n = i
      BY <1>1
    <2>2. c[n + i] = IF n + i <= n THEN s[n + i] ELSE t[(n + i) - n]
      BY <1>2, <2>1
    <2> QED
      BY <2>1, <2>2
  <1>5. \A i \in 1..n + m : i \in 1..n \/ i - n \in 1..m
    BY <1>1
  <1> QED
    BY <1>2, <1>3, <1>4, <1>5 DEF c, n, m, Indexed

\* Sequences of one element and of two.
LEMMA CatPair ==
    ASSUME NEW S, NEW a \in S, NEW b \in S
    PROVE  Cat(<<b>>, <<>>) = <<b>> /\ Cat(<<a>>, <<b>>) = <<a, b>>
  <1> DEFINE x == <<a>>
             y == <<b>>
             z == <<a, b>>
             c == Cat(x, y)
  <1>1. /\ x \in Seq(S) /\ Len(x) = 1 /\ x[1] = a
        /\ y \in Seq(S) /\ Len(y) = 1 /\ y[1] = b
        /\ z \in Seq(S) /\ Len(z) = 2 /\ z[1] = a /\ z[2] = b
    OBVIOUS
  <1> HIDE DEF x, y, z
  <1>2. c \in Seq(S) /\ Indexed(c, x, y) /\ Cat(y, <<>>) = y
    BY <1>1, CatType, CatIndex
  <1> HIDE DEF c
  <1>3. Len(c) = 2 /\ c[1] = a /\ c[2] = b
    <2>1. 1 \in 1..1 /\ 1 + 1 = 2
      OBVIOUS
    <2>2. Len(c) = 1 + 1 /\ c[1] = x[1] /\ c[1 + 1] = y[1]
      BY <1>1, <1>2, <2>1 DEF Indexed
    <2> QED
      BY <1>1, <2>1, <2>2
  <1>4. \A i \in 1..Len(c) : c[i] = z[i]
    <2>1. \A i \in 1..2 : i = 1 \/ i = 2
      OBVIOUS
    <2> QED
      BY <1>1, <1>3, <2>1
  <1>5. c = z
    BY <1>1, <1>2, <1>3, <1>4, SeqEqual
  <1> QED
    BY <1>2, <1>5 DEF c, x, y, z

(***************************************************************************)
(* Least and greatest elements.                                            *)
(***************************************************************************)
\* A set of natural numbers that is not empty has a least one.
LEMMA MinIsLeast ==
    ASSUME NEW S \in SUBSET Nat, S # {}
    PROVE  Min(S) \in S /\ \A y \in S : Min(S) <= y
  <1> DEFINE R == OpToRel(<, Nat)
  <1>1. R = {ss \in Nat \X Nat : ss[1] < ss[2]}
    BY Zenon DEF OpToRel
  <1>2. IsWellFoundedOn(R, Nat)
    BY NatLessThanWellFounded
  <1> HIDE DEF R
  <1>3. PICK x \in S : \A y \in S : ~(<<y, x>> \in R)
    BY <1>2, WFMin
  <1>4. \A y \in S : x <= y
    <2> SUFFICES ASSUME NEW y \in S PROVE x <= y
      OBVIOUS
    <2> DEFINE z == <<y, x>>
    <2>1. x \in Nat /\ y \in Nat /\ z \in Nat \X Nat /\ z[1] = y /\ z[2] = x
      OBVIOUS
    <2>2. z \notin R
      BY <1>3
    <2> HIDE DEF z
    <2>3. ~(z[1] < z[2])
      BY <1>1, <2>1, <2>2
    <2> QED
      BY <2>1, <2>3
  <1> QED
    BY <1>4 DEF Min

\* Nonempty positions of a sequence have a greatest one: n minus the least of
\* the distances from the end.
LEMMA MaxIsGreatest ==
    ASSUME NEW n \in Nat, NEW S \in SUBSET (1..n), S # {}
    PROVE  Max(S) \in S /\ \A y \in S : y <= Max(S)
  <1> DEFINE D == {d \in Nat : n - d \in S}
  <1>1. D \in SUBSET Nat /\ D # {}
    <2>1. PICK i : i \in S
      OBVIOUS
    <2>2. n - i \in Nat /\ n - (n - i) = i
      BY <2>1
    <2>3. n - i \in D
      BY <2>1, <2>2
    <2> QED
      BY <2>3
  <1> DEFINE d == Min(D)
             x == n - d
  <1> HIDE DEF D
  <1>2. d \in D /\ \A e \in D : d <= e
    BY <1>1, MinIsLeast
  <1> HIDE DEF d
  <1>3. x \in S /\ d \in Nat
    BY <1>2 DEF D
  <1>4. \A y \in S : x >= y
    <2> SUFFICES ASSUME NEW y \in S PROVE x >= y
      OBVIOUS
    <2>1. y \in 1..n
      OBVIOUS
    <2>2. n - y \in Nat /\ n - (n - y) = y
      BY <2>1
    <2>3. n - y \in D
      BY <2>2 DEF D
    <2>4. d <= n - y
      BY <1>2, <2>3
    <2> QED
      BY <1>3, <2>1, <2>4
  <1>5. \E z \in S : \A y \in S : z >= y
    BY <1>3, <1>4
  <1>6. Max(S) \in S /\ \A y \in S : Max(S) >= y
    BY <1>5 DEF Max
  <1> QED
    BY <1>6

(***************************************************************************)
(* Induction.                                                              *)
(***************************************************************************)
\* A set that has zero and the successor of each of its natural numbers has
\* them all: else there would be a least one that it has not.
LEMMA Induction ==
    ASSUME NEW S, 0 \in S, \A n \in Nat : n \in S => n + 1 \in S
    PROVE  \A n \in Nat : n \in S
  <1> DEFINE Others == {n \in Nat : n \notin S}
  <1>1. SUFFICES ASSUME Others # {} PROVE FALSE
    OBVIOUS
  <1> DEFINE m == Min(Others)
  <1>2. m \in Others /\ \A y \in Others : m <= y
    <2>1. Others \in SUBSET Nat
      OBVIOUS
    <2> HIDE DEF Others
    <2> QED
      BY <1>1, <2>1, MinIsLeast
  <1> HIDE DEF m
  <1>3. m \in Nat /\ m # 0 /\ m - 1 \in Nat /\ (m - 1) + 1 = m
    BY <1>2
  <1>4. m - 1 \in S
    BY <1>2, <1>3
  <1> QED
    BY <1>2, <1>3, <1>4
=============================================================================
