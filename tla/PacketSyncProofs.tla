-------------------------- MODULE PacketSyncProofs --------------------------
(***************************************************************************)
(* The parser for every stream, every cut of it, every buffer size and     *)
(* every digest: both buffers are always pieces of the stream, no copy     *)
(* leaves them, each step is one of PacketFramer, the packets delivered    *)
(* are those of what arrived, what PacketData2 makes comes back whole, and *)
(* every round leaves less to do.                                          *)
(***************************************************************************)
EXTENDS PacketSync, SequenceFacts

(***************************************************************************)
(* Pieces of a stream, from one place to another.                          *)
(***************************************************************************)
Piece(s, a, b) == SubSeq(s, a + 1, b)

\* A piece has the bytes between the two places.
LEMMA PieceFacts ==
    ASSUME NEW s \in Seq(Byte), NEW a \in Nat, NEW b \in Nat, a <= b, b <= Len(s)
    PROVE  /\ Piece(s, a, b) \in Seq(Byte)
           /\ Len(Piece(s, a, b)) = b - a
           /\ \A i \in 1..b - a : Piece(s, a, b)[i] = s[a + i]
  <1>1. \A i \in a + 1..b : s[i] \in Byte
    BY ElementOfSeq, LenProperties
  <1>2. /\ SubSeq(s, a + 1, b) \in Seq(Byte)
        /\ Len(SubSeq(s, a + 1, b)) = IF a + 1 <= b THEN b - (a + 1) + 1 ELSE 0
        /\ \A i \in 1..b - (a + 1) + 1 : SubSeq(s, a + 1, b)[i] = s[a + 1 + i - 1]
    <2>1. a + 1 \in Int /\ b \in Int
      OBVIOUS
    <2> QED
      BY <1>1, <2>1, SubSeqProperties
  <1>3. Len(SubSeq(s, a + 1, b)) = b - a
    BY <1>2
  <1>4. \A i \in 1..b - a : a + 1 + i - 1 = a + i /\ i \in 1..b - (a + 1) + 1
    OBVIOUS
  <1> QED
    BY <1>2, <1>3, <1>4 DEF Piece

\* Neighbours make one piece.
LEMMA PieceCat ==
    ASSUME NEW s \in Seq(Byte), NEW a \in Nat, NEW b \in Nat, NEW c \in Nat,
           a <= b, b <= c, c <= Len(s)
    PROVE  Piece(s, a, b) \o Piece(s, b, c) = Piece(s, a, c)
  <1>1. Len(s) \in Nat
    BY LenProperties
  <1>2. a + 1 \in 1..Len(s) + 1 /\ b \in (a + 1) - 1..Len(s) /\ c \in b..Len(s)
    BY <1>1
  <1> QED
    BY <1>2, ConcatAdjacentSubSeq DEF Piece

\* A piece of a piece.
LEMMA PieceSub ==
    ASSUME NEW s \in Seq(Byte), NEW a \in Nat, NEW b \in Nat, a <= b, b <= Len(s),
           NEW i \in Nat, NEW j \in Nat, i <= j, j <= b - a
    PROVE  Piece(Piece(s, a, b), i, j) = Piece(s, a + i, a + j)
  <1> DEFINE p == Piece(s, a, b)
             q == Piece(p, i, j)
             r == Piece(s, a + i, a + j)
  <1>1. p \in Seq(Byte) /\ Len(p) = b - a /\ \A k \in 1..b - a : p[k] = s[a + k]
    BY PieceFacts
  <1>2. Len(s) \in Nat /\ a + i \in Nat /\ a + j \in Nat /\ a + i <= a + j /\ a + j <= Len(s)
    BY LenProperties
  <1>3. r \in Seq(Byte) /\ Len(r) = j - i /\ \A k \in 1..j - i : r[k] = s[a + i + k]
    <2> DEFINE c == a + i
               d == a + j
    <2>1. c \in Nat /\ d \in Nat /\ c <= d /\ d <= Len(s)
      BY <1>2
    <2>2. d - c = j - i
      OBVIOUS
    <2> HIDE DEF c, d
    <2>3. /\ Piece(s, c, d) \in Seq(Byte) /\ Len(Piece(s, c, d)) = d - c
          /\ \A k \in 1..d - c : Piece(s, c, d)[k] = s[c + k]
      BY <2>1, PieceFacts
    <2>4. /\ Piece(s, c, d) \in Seq(Byte) /\ Len(Piece(s, c, d)) = j - i
          /\ \A k \in 1..j - i : Piece(s, c, d)[k] = s[c + k]
      BY <2>2, <2>3
    <2> QED
      BY <2>4 DEF c, d
  <1>4. q \in Seq(Byte) /\ Len(q) = j - i /\ \A k \in 1..j - i : q[k] = p[i + k]
    <2> HIDE DEF p
    <2> QED
      BY <1>1, PieceFacts
  <1>5. \A k \in 1..j - i : q[k] = r[k]
    <2> SUFFICES ASSUME NEW k \in 1..j - i PROVE q[k] = r[k]
      OBVIOUS
    <2> HIDE DEF p, q, r
    <2>1. i + k \in 1..b - a /\ a + (i + k) = a + i + k
      OBVIOUS
    <2>2. p[i + k] = s[a + (i + k)]
      BY <1>1, <2>1
    <2> QED
      BY <1>3, <1>4, <2>1, <2>2
  <1>6. q = r
    <2> HIDE DEF p, q, r
    <2> QED
      BY <1>3, <1>4, <1>5, SeqEqual
  <1> QED
    BY <1>6

\* The four fields of a header are bytes.
LEMMA HeaderType ==
    ASSUME NEW h \in Seq(Byte), Len(h) = HEADLEN
    PROVE  /\ CharToNetPacket(h) \in [header : Byte, tail : Byte, datalen : Byte, check : Byte]
           /\ CharToNetPacket(h).datalen \in Nat
  <1>1. h[1] \in Byte /\ h[2] \in Byte /\ h[3] \in Byte /\ h[4] \in Byte
    BY ElementOfSeq DEF HEADLEN
  <1>2. h[3] \in Nat
    BY <1>1, FormatAssumption DEF Byte
  <1> QED
    BY <1>1, <1>2 DEF CharToNetPacket

(***************************************************************************)
(* The inductive invariant.  place is where, in the stream, what is held   *)
(* begins; body where the data of the packet being collected does.         *)
(***************************************************************************)
place ==
    IF parsetype = "PARSE_NOTHING" \/ Whole THEN copied - truepacketlen
    ELSE copied - getdatalen - (headpos + 1 + HEADLEN)

body == place + headpos + 1 + HEADLEN

\* thread_readdata is a piece of the stream.
ReadInv ==
    /\ place \in Nat
    /\ place + truepacketlen <= copied
    /\ thread_readdata = Piece(stream, place, place + truepacketlen)

\* So is thread_packetdata, behind a legal header at the first HEAD.
CollectInv ==
    parsetype = "PARSE_HEAD" =>
        /\ Whole => getdatalen = Need
        /\ stream[place + headpos + 1] = HEAD
        /\ \A i \in 1..headpos : stream[place + i] # HEAD
        /\ theNexPacket = CharToNetPacket(Piece(stream, place + headpos + 1, body))
        /\ LegalHeader(theNexPacket)
        /\ thread_packetdata = Piece(stream, body, body + getdatalen)

IInv == ParserTypes /\ InBounds /\ ReadInv /\ CollectInv

\* Places and lengths are numbers.
LEMMA Numbers ==
    ASSUME ParserTypes
    PROVE  /\ truepacketlen \in Nat /\ getdatalen \in Nat /\ Len(stream) \in Nat
           /\ given \in Nat /\ copied \in Nat /\ given <= Len(stream) /\ copied <= given
           /\ readlen \in Nat /\ packetlen \in Nat /\ headpos \in Int
           /\ theNexPacket.datalen \in Nat
           /\ Need \in Nat /\ Need = theNexPacket.datalen + 1
           /\ HEADLEN = 4
  <1>1. truepacketlen \in Nat /\ getdatalen \in Nat /\ Len(stream) \in Nat
    BY LenProperties DEF ParserTypes, truepacketlen, getdatalen
  <1>2. given \in Nat /\ copied \in Nat /\ given <= Len(stream) /\ copied <= given
    BY <1>1 DEF ParserTypes
  <1>3. theNexPacket.datalen \in Nat
    BY FormatAssumption DEF ParserTypes, Byte
  <1>4. Need \in Nat /\ Need = theNexPacket.datalen + 1
    BY <1>3 DEF Need
  <1> QED
    BY <1>1, <1>2, <1>3, <1>4 DEF ParserTypes, HEADLEN

\* The constructor's state satisfies the invariant.
LEMMA InitInv == Init => IInv
  <1> SUFFICES ASSUME Init PROVE IInv
    OBVIOUS
  <1>1. stream \in Seq(Byte) /\ Len(stream) \in Nat
    BY SyncAssumption, LenProperties DEF Init
  <1>2. <<>> \in Seq(Byte) /\ Len(<<>>) = 0 /\ <<>> \in Seq(Seq(Byte))
    BY EmptySeq
  <1>3. 0 \in Byte
    BY FormatAssumption DEF Byte
  <1>4. BUFFER_SIZE \in Nat /\ BUFFER_SIZE <= MaxInt
    BY SyncAssumption
  <1>5. theNexPacket \in [header : Byte, tail : Byte, datalen : Byte, check : Byte]
    BY <1>3 DEF Init, NoHeader
  <1>6. ParserTypes
    <2>1. given \in 0..Len(stream) /\ copied \in 0..given /\ headpos \in Int
      BY <1>1 DEF Init
    <2>2. running \in BOOLEAN /\ parsetype \in {"PARSE_NOTHING", "PARSE_HEAD"}
      BY DEF Init
    <2>3. thread_readdata \in Seq(Byte) /\ thread_packetdata \in Seq(Byte)
      BY <1>2 DEF Init
    <2>4. delivered \in Seq(Seq(Byte))
      BY <1>2 DEF Init
    <2>5. readlen \in Nat /\ packetlen \in Nat
      BY <1>4 DEF Init
    <2> QED
      BY <1>1, <1>5, <2>1, <2>2, <2>3, <2>4, <2>5 DEF ParserTypes
  <1>7. truepacketlen = 0 /\ getdatalen = 0
    BY <1>2 DEF Init, truepacketlen, getdatalen
  <1>8. InBounds
    BY <1>4, <1>7 DEF Init, InBounds
  <1>9. place = 0
    BY <1>7 DEF Init, place
  <1>10. Piece(stream, 0, 0) = <<>>
    BY SubSeqEmpty DEF Piece
  <1>11. ReadInv
    BY <1>7, <1>9, <1>10 DEF Init, ReadInv
  <1> QED
    BY <1>6, <1>8, <1>11 DEF Init, IInv, CollectInv

\* What the buffer holds after it was filled, while a header is searched.
LEMMA FilledFacts ==
    ASSUME IInv, Searching
    PROVE  /\ place = copied - truepacketlen
           /\ Filled \in Seq(Byte) /\ Len(Filled) \in Nat
           /\ truepacketlen <= Len(Filled) /\ Len(Filled) <= readlen
           /\ copied' = place + Len(Filled) /\ copied' \in copied..given
           /\ Filled = Piece(stream, place, place + Len(Filled))
           /\ \A i \in 1..Len(Filled) : Filled[i] = stream[place + i]
  <1> DEFINE room == readlen - truepacketlen
             n == IF room >= given - copied THEN given - copied ELSE room
  <1> HIDE DEF room, n
  <1>a. /\ ParserTypes /\ InBounds /\ ReadInv
        /\ truepacketlen \in Nat /\ Len(stream) \in Nat /\ given \in Nat /\ copied \in Nat
        /\ readlen \in Nat /\ given <= Len(stream) /\ copied <= given
    BY Numbers DEF IInv
  <1>1. parsetype = "PARSE_NOTHING" /\ copied' = copied + Len(Filled) - truepacketlen
    BY DEF Searching
  <1>2. place = copied - truepacketlen /\ place \in Nat
    BY <1>1, <1>a DEF place, ReadInv
  <1>3. n \in Nat /\ n <= given - copied /\ n <= readlen - truepacketlen
    BY <1>a DEF InBounds, room, n
  <1>4. Filled = thread_readdata \o Piece(stream, copied, copied + n)
    BY DEF Filled, Piece, room, n
  <1>5. place + truepacketlen = copied
    BY <1>a, <1>2
  <1>6. thread_readdata = Piece(stream, place, copied)
    BY <1>a, <1>5 DEF ReadInv
  <1> DEFINE a == place
             e == copied + n
  <1> HIDE DEF a, e
  <1>7. /\ a \in Nat /\ e \in Nat /\ a <= copied /\ copied <= e /\ e <= given
        /\ e <= Len(stream) /\ a <= e
    BY <1>a, <1>2, <1>3 DEF a, e
  <1>8. e - a <= readlen /\ e - a >= truepacketlen
    BY <1>a, <1>2, <1>3 DEF a, e
  <1>9. stream \in Seq(Byte)
    BY <1>a DEF ParserTypes
  <1>10. Filled = Piece(stream, a, copied) \o Piece(stream, copied, e)
    BY <1>4, <1>6 DEF a, e
  <1>11. Filled = Piece(stream, a, e)
    BY <1>a, <1>7, <1>9, <1>10, PieceCat
  <1>12. /\ Piece(stream, a, e) \in Seq(Byte) /\ Len(Piece(stream, a, e)) = e - a
         /\ \A i \in 1..e - a : Piece(stream, a, e)[i] = stream[a + i]
    BY <1>7, <1>9, PieceFacts
  <1>13. /\ Filled \in Seq(Byte) /\ Len(Filled) = e - a
         /\ \A i \in 1..e - a : Filled[i] = stream[a + i]
    BY <1>11, <1>12
  <1>14. e = a + Len(Filled) /\ Len(Filled) \in Nat
    BY <1>7, <1>13
  <1>15. copied' = a + Len(Filled)
    BY <1>a, <1>1, <1>2, <1>14 DEF a
  <1>16. truepacketlen <= Len(Filled) /\ Len(Filled) <= readlen
    BY <1>8, <1>13
  <1>17. copied' \in copied..given
    BY <1>a, <1>7, <1>14, <1>15
  <1>18. Filled = Piece(stream, a, a + Len(Filled))
    BY <1>11, <1>14
  <1> QED
    BY <1>2, <1>13, <1>14, <1>15, <1>16, <1>17, <1>18 DEF a

\* A round that gives up the first k bytes of the filled buffer and has no header.
LEMMA GiveUpStep ==
    ASSUME IInv, Searching, NEW k \in 0..Len(Filled),
           thread_readdata' = From(Filled, k),
           parsetype' = "PARSE_NOTHING", headpos' \in Int,
           theNexPacket' \in [header : Byte, tail : Byte, datalen : Byte, check : Byte],
           UNCHANGED dataVars
    PROVE  IInv' /\ place' = place + k /\ copied' = place + Len(Filled)
  <1> DEFINE m == Len(Filled)
             b == place + m
  <1>1. ParserTypes /\ InBounds /\ place \in Nat
    BY DEF IInv, ReadInv
  <1>2. /\ m \in Nat /\ m <= readlen /\ copied' = b /\ copied' \in copied..given
        /\ Filled = Piece(stream, place, b)
    BY FilledFacts
  <1>3. stream \in Seq(Byte) /\ given \in Nat /\ given <= Len(stream) /\ copied \in Nat
        /\ Len(stream) \in Nat /\ readlen \in Nat
    BY <1>1, Numbers DEF ParserTypes
  <1>4. k \in Nat /\ k <= m
    BY <1>2
  <1> DEFINE a == place
             c == place + k
  <1> HIDE DEF m, a, b, c
  <1>5. a \in Nat /\ b \in Nat /\ c \in Nat /\ b = a + m /\ c = a + k /\ a <= c /\ c <= b
        /\ b <= Len(stream) /\ b <= given /\ b - c <= readlen /\ b - a = m
    BY <1>1, <1>2, <1>3, <1>4 DEF a, b, c
  <1>6. Piece(Piece(stream, a, b), k, m) = Piece(stream, a + k, a + m)
    <2>1. stream \in Seq(Byte) /\ a \in Nat /\ b \in Nat /\ a <= b /\ b <= Len(stream)
      BY <1>3, <1>5
    <2>2. k \in Nat /\ m \in Nat /\ k <= m /\ m <= b - a
      BY <1>2, <1>4, <1>5
    <2> QED
      BY <2>1, <2>2, PieceSub
  <1>7. thread_readdata' = Piece(stream, c, b)
    <2>1. thread_readdata' = Piece(Filled, k, m)
      BY DEF From, Piece, m
    <2>2. Filled = Piece(stream, a, b)
      BY <1>2 DEF a
    <2> QED
      BY <1>5, <1>6, <2>1, <2>2
  <1>8. Piece(stream, c, b) \in Seq(Byte) /\ Len(Piece(stream, c, b)) = b - c
    BY <1>3, <1>5, PieceFacts
  <1>9. thread_readdata' \in Seq(Byte) /\ truepacketlen' = b - c
    BY <1>7, <1>8 DEF truepacketlen
  <1>10. stream' = stream /\ given' = given /\ running' = running /\ readlen' = readlen
         /\ delivered' = delivered
    BY DEF Searching
  <1>11. thread_packetdata' = thread_packetdata /\ packetlen' = packetlen
    BY DEF dataVars
  <1>12. ParserTypes'
    <2>1. copied' \in 0..given
      BY <1>2, <1>5
    <2> QED
      BY <1>1, <1>9, <1>10, <1>11, <2>1 DEF ParserTypes
  <1>13. InBounds'
    <2>1. truepacketlen' <= readlen'
      BY <1>5, <1>9, <1>10
    <2>2. getdatalen' <= packetlen'
      BY <1>1, <1>11 DEF InBounds, getdatalen
    <2>3. readlen' <= MaxInt
      BY <1>1, <1>10 DEF InBounds
    <2> QED
      BY <2>1, <2>2, <2>3 DEF InBounds
  <1>14. place' = c
    <2>1. place' = copied' - truepacketlen'
      BY DEF place
    <2> QED
      BY <1>2, <1>5, <1>9, <2>1
  <1>15. ReadInv'
    <2>1. c + truepacketlen' = b
      BY <1>5, <1>9
    <2> QED
      BY <1>2, <1>5, <1>7, <1>10, <1>14, <2>1 DEF ReadInv
  <1>16. CollectInv'
    BY DEF CollectInv
  <1> QED
    BY <1>2, <1>12, <1>13, <1>14, <1>15, <1>16 DEF IInv, b, c, m

\* No HEAD in the buffer: all of it is given up.
LEMMA NoHeadStep ==
    ASSUME IInv, NoHead
    PROVE  IInv' /\ place' = place + Len(Filled) /\ copied' = place + Len(Filled)
  <1>1. Searching /\ parsetype = "PARSE_NOTHING"
    BY DEF NoHead, Searching
  <1>2. Len(Filled) \in Nat
    BY <1>1, FilledFacts
  <1>3. From(Filled, Len(Filled)) = <<>>
    BY <1>2, SubSeqEmpty DEF From
  <1>4. /\ thread_readdata' = From(Filled, Len(Filled))
        /\ parsetype' = "PARSE_NOTHING" /\ UNCHANGED dataVars
        /\ headpos' = headpos /\ theNexPacket' = theNexPacket
    BY <1>1, <1>3 DEF NoHead
  <1>5. /\ headpos' \in Int
        /\ theNexPacket' \in [header : Byte, tail : Byte, datalen : Byte, check : Byte]
    BY <1>4 DEF IInv, ParserTypes
  <1>6. Len(Filled) \in 0..Len(Filled)
    BY <1>2
  <1> HIDE DEF NoHead
  <1> QED
    BY <1>1, <1>4, <1>5, <1>6, GiveUpStep

\* A HEAD with too little behind it: the bytes before it are given up.
LEMMA HeaderIncompleteStep ==
    ASSUME IInv, HeaderIncomplete
    PROVE  \E k \in 0..Len(Filled) :
              /\ IInv' /\ place' = place + k /\ copied' = place + Len(Filled)
              /\ \A i \in 1..k : Filled[i] # HEAD
              /\ Len(Filled) - k - 1 < HEADLEN
  <1>1. Searching /\ parsetype = "PARSE_NOTHING"
    BY DEF HeaderIncomplete, Searching
  <1>2. PICK pos \in 0..Len(Filled) - 1 :
            /\ FirstHead(Filled, pos) /\ Len(Filled) - pos - 1 < HEADLEN
            /\ headpos' = pos /\ thread_readdata' = From(Filled, pos)
    BY DEF HeaderIncomplete
  <1>3. parsetype' = "PARSE_NOTHING" /\ theNexPacket' = theNexPacket /\ UNCHANGED dataVars
    BY <1>1 DEF HeaderIncomplete
  <1>4. theNexPacket' \in [header : Byte, tail : Byte, datalen : Byte, check : Byte]
    BY <1>3 DEF IInv, ParserTypes
  <1>5. Len(Filled) \in Nat
    BY <1>1, FilledFacts
  <1>6. pos \in 0..Len(Filled) /\ headpos' \in Int
    BY <1>2, <1>5
  <1>7. IInv' /\ place' = place + pos /\ copied' = place + Len(Filled)
    BY <1>1, <1>2, <1>3, <1>4, <1>6, GiveUpStep
  <1>8. \A i \in 1..pos : Filled[i] # HEAD
    BY <1>2 DEF FirstHead
  <1> QED
    BY <1>2, <1>6, <1>7, <1>8

\* The header that is read behind a HEAD, as a piece of the stream.
LEMMA ReadHeaderFacts ==
    ASSUME IInv, Searching, NEW pos \in 0..Len(Filled) - 1,
           Len(Filled) - pos - 1 >= HEADLEN
    PROVE  LET h == CharToNetPacket(Piece(stream, place + pos + 1, place + pos + 1 + HEADLEN))
           IN  /\ ReadHeader(pos) = h
               /\ h \in [header : Byte, tail : Byte, datalen : Byte, check : Byte]
               /\ h.datalen \in Nat
  <1> DEFINE a == place
             b == place + Len(Filled)
             i == pos + 1
             j == pos + 1 + HEADLEN
  <1>1. /\ place \in Nat /\ Len(Filled) \in Nat /\ HEADLEN = 4 /\ stream \in Seq(Byte)
        /\ Len(stream) \in Nat /\ given \in Nat /\ given <= Len(stream) /\ copied \in Nat
    BY FilledFacts, Numbers DEF IInv, ReadInv, ParserTypes
  <1>2. /\ Filled = Piece(stream, a, b) /\ b \in copied..given
    BY FilledFacts
  <1>3. /\ a \in Nat /\ b \in Nat /\ a <= b /\ b <= Len(stream)
        /\ i \in Nat /\ j \in Nat /\ i <= j /\ j <= b - a
        /\ a + i = place + pos + 1 /\ a + j = place + pos + 1 + HEADLEN
        /\ j - i = 4 /\ a + i \in Nat /\ a + j \in Nat /\ a + j <= Len(stream)
        /\ i + 1 = pos + 2
    BY <1>1, <1>2
  <1> HIDE DEF a, b, i, j
  <1>4. Piece(Piece(stream, a, b), i, j) = Piece(stream, a + i, a + j)
    BY <1>1, <1>3, PieceSub
  <1>5. SubSeq(Filled, pos + 2, pos + 1 + HEADLEN) = Piece(Filled, i, j)
    BY <1>3 DEF Piece, j
  <1>6. SubSeq(Filled, pos + 2, pos + 1 + HEADLEN) = Piece(stream, a + i, a + j)
    BY <1>2, <1>4, <1>5
  <1> DEFINE c == a + i
             d == a + j
             h == Piece(stream, c, d)
  <1>7. c \in Nat /\ d \in Nat /\ c <= d /\ d <= Len(stream) /\ d - c = 4
    BY <1>3
  <1>8. h \in Seq(Byte) /\ Len(h) = HEADLEN
    <2> HIDE DEF c, d
    <2> QED
      BY <1>1, <1>7, PieceFacts
  <1>9. /\ CharToNetPacket(h) \in [header : Byte, tail : Byte, datalen : Byte, check : Byte]
        /\ CharToNetPacket(h).datalen \in Nat
    <2> HIDE DEF h
    <2> QED
      BY <1>8, HeaderType
  <1>10. ReadHeader(pos) = CharToNetPacket(h)
    BY <1>6 DEF ReadHeader
  <1>11. h = Piece(stream, place + pos + 1, place + pos + 1 + HEADLEN)
    BY <1>3
  <1> QED
    BY <1>9, <1>10, <1>11

\* A header that is not legal: the bytes up to its HEAD are given up.
LEMMA HeaderIllegalStep ==
    ASSUME IInv, HeaderIllegal
    PROVE  \E pos \in 0..Len(Filled) - 1 :
              /\ IInv' /\ place' = place + (pos + 1) /\ copied' = place + Len(Filled)
              /\ FirstHead(Filled, pos)
              /\ Len(Filled) - pos - 1 >= HEADLEN
              /\ ~LegalHeader(ReadHeader(pos))
  <1>1. Searching /\ parsetype = "PARSE_NOTHING"
    BY DEF HeaderIllegal, Searching
  <1>2. PICK pos \in 0..Len(Filled) - 1 :
            /\ FirstHead(Filled, pos) /\ Len(Filled) - pos - 1 >= HEADLEN
            /\ ~LegalHeader(ReadHeader(pos))
            /\ headpos' = pos /\ theNexPacket' = ReadHeader(pos)
            /\ thread_readdata' = From(Filled, pos + 1)
    BY DEF HeaderIllegal
  <1>3. parsetype' = "PARSE_NOTHING" /\ UNCHANGED dataVars
    BY <1>1 DEF HeaderIllegal
  <1>4. theNexPacket' \in [header : Byte, tail : Byte, datalen : Byte, check : Byte]
    BY <1>1, <1>2, ReadHeaderFacts
  <1>5. Len(Filled) \in Nat
    BY <1>1, FilledFacts
  <1> DEFINE k == pos + 1
  <1>6. k \in 0..Len(Filled) /\ headpos' \in Int
    BY <1>2, <1>5
  <1>7. thread_readdata' = From(Filled, k)
    BY <1>2
  <1> HIDE DEF k
  <1>8. IInv' /\ place' = place + k /\ copied' = place + Len(Filled)
    BY <1>1, <1>3, <1>4, <1>6, <1>7, GiveUpStep
  <1> QED
    BY <1>2, <1>8 DEF k

\* The header of an overlong packet: the buffer was filled, and that is all.
LEMMA HeaderOverlongStep ==
    ASSUME IInv, HeaderOverlong
    PROVE  IInv' /\ place' = place /\ copied' = place + Len(Filled) /\ Searching
  <1>1. Searching /\ parsetype = "PARSE_NOTHING"
    BY DEF HeaderOverlong, Searching
  <1>2. PICK pos \in 0..Len(Filled) - 1 :
            /\ FirstHead(Filled, pos) /\ Len(Filled) - pos - 1 >= HEADLEN
            /\ LegalHeader(ReadHeader(pos)) /\ ~Countable(ReadHeader(pos))
            /\ headpos' = pos /\ theNexPacket' = ReadHeader(pos)
    BY DEF HeaderOverlong
  <1>3. parsetype' = "PARSE_NOTHING" /\ UNCHANGED dataVars /\ thread_readdata' = Filled
    BY <1>1 DEF HeaderOverlong
  <1>4. theNexPacket' \in [header : Byte, tail : Byte, datalen : Byte, check : Byte]
    BY <1>1, <1>2, ReadHeaderFacts
  <1>5. /\ Filled \in Seq(Byte) /\ Len(Filled) \in Nat /\ place \in Nat
        /\ Filled = Piece(stream, place, place + Len(Filled))
    BY <1>1, FilledFacts DEF IInv, ReadInv
  <1>6. 0 \in 0..Len(Filled) /\ headpos' \in Int
    BY <1>2, <1>5
  <1>7. From(Filled, 0) = Filled
    <2>1. 0 + 1 = 1
      OBVIOUS
    <2> QED
      BY <1>5, <2>1, SubSeqFull DEF From
  <1>8. thread_readdata' = From(Filled, 0)
    BY <1>3, <1>7
  <1>9. IInv' /\ place' = place + 0 /\ copied' = place + Len(Filled)
    BY <1>1, <1>3, <1>4, <1>6, <1>8, GiveUpStep
  <1> QED
    BY <1>1, <1>5, <1>9

\* Where things are while a packet is collected.
LEMMA CollectNumbers ==
    ASSUME IInv, parsetype = "PARSE_HEAD"
    PROVE  /\ place \in Nat /\ headpos \in Nat /\ body \in Nat
           /\ body = place + headpos + 5 /\ body <= place + truepacketlen
           /\ getdatalen <= Need /\ Need <= packetlen /\ body + getdatalen <= copied
           /\ Whole => /\ copied = place + truepacketlen /\ getdatalen = Need
                       /\ body + Need <= copied
           /\ ~Whole => copied = body + getdatalen
  <1>1. /\ truepacketlen \in Nat /\ getdatalen \in Nat /\ copied \in Nat
        /\ headpos \in Int /\ Need \in Nat /\ HEADLEN = 4
    BY Numbers DEF IInv
  <1>2. /\ place \in Nat /\ place + truepacketlen <= copied
        /\ 0 <= headpos /\ headpos + 1 + HEADLEN <= truepacketlen
        /\ getdatalen <= Need /\ Need <= packetlen
    BY DEF IInv, ReadInv, InBounds
  <1>3. headpos \in Nat /\ body = place + headpos + 5
    BY <1>1, <1>2 DEF body
  <1>4. body \in Nat /\ body <= place + truepacketlen
    BY <1>1, <1>2, <1>3
  <1>5. ASSUME Whole
        PROVE  /\ copied = place + truepacketlen /\ getdatalen = Need
               /\ body + Need <= copied
    <2>1. place = copied - truepacketlen
      BY <1>5 DEF place
    <2>2. getdatalen = Need
      BY <1>5 DEF IInv, CollectInv
    <2>3. truepacketlen - headpos - 1 - HEADLEN >= Need
      BY <1>5 DEF Whole
    <2> QED
      BY <1>1, <1>2, <1>3, <2>1, <2>2, <2>3
  <1>6. ASSUME ~Whole
        PROVE  copied = body + getdatalen
    <2>1. place = copied - getdatalen - (headpos + 1 + HEADLEN)
      BY <1>6 DEF place
    <2> QED
      BY <1>1, <1>2, <1>3, <2>1
  <1>7. body + getdatalen <= copied
    <2>1. CASE Whole
      BY <1>5, <2>1
    <2>2. CASE ~Whole
      BY <1>6, <2>2, <1>1, <1>4
    <2> QED
      BY <2>1, <2>2
  <1> QED
    BY <1>2, <1>3, <1>4, <1>5, <1>6, <1>7

\* A legal header: the data that the buffer has of it is copied; nothing is
\* given up.
LEMMA HeaderLegalStep ==
    ASSUME IInv, HeaderLegal
    PROVE  IInv' /\ place' = place /\ given' = given /\ copied' \in copied..given
  <1>1. Searching
    BY DEF HeaderLegal
  <1>2. PICK pos \in 0..Len(Filled) - 1 :
            LET h == ReadHeader(pos)
                need == h.datalen + 1
            IN
            /\ FirstHead(Filled, pos)
            /\ Len(Filled) - pos - 1 >= HEADLEN
            /\ LegalHeader(h) /\ Countable(h)
            /\ headpos' = pos
            /\ theNexPacket' = h
            /\ packetlen' = IF packetlen < need THEN need ELSE packetlen
            /\ thread_packetdata' = AtMost(From(Filled, pos + 1 + HEADLEN), need)
    BY DEF HeaderLegal
  <1> DEFINE need == ReadHeader(pos).datalen + 1
             m == Len(Filled)
             a == place
             e == a + m
             b == a + pos + 5
             r == m - pos - 5
             g == IF r <= need THEN r ELSE need
  <1>3. /\ stream \in Seq(Byte) /\ Len(stream) \in Nat /\ given \in Nat /\ given <= Len(stream)
        /\ copied \in Nat /\ HEADLEN = 4 /\ readlen \in Nat /\ packetlen \in Nat
        /\ ParserTypes /\ place \in Nat
    BY Numbers DEF IInv, ParserTypes, ReadInv
  <1>4. /\ m \in Nat /\ m <= readlen /\ copied' = e /\ copied' \in copied..given
        /\ Filled \in Seq(Byte) /\ Filled = Piece(stream, a, e)
        /\ \A i \in 1..m : Filled[i] = stream[a + i]
    BY <1>1, FilledFacts
  <1>5. /\ ReadHeader(pos) =
               CharToNetPacket(Piece(stream, place + pos + 1, place + pos + 1 + HEADLEN))
        /\ ReadHeader(pos) \in [header : Byte, tail : Byte, datalen : Byte, check : Byte]
        /\ ReadHeader(pos).datalen \in Nat
    BY <1>1, <1>2, ReadHeaderFacts
  <1>6. /\ stream' = stream /\ given' = given /\ running' = running /\ readlen' = readlen
        /\ delivered' = delivered
    BY <1>1 DEF Searching
  <1>7. thread_readdata' = Filled /\ parsetype' = "PARSE_HEAD"
    BY DEF HeaderLegal
  <1>8. truepacketlen' = m
    BY <1>7 DEF truepacketlen
  <1>9. /\ headpos' = pos /\ theNexPacket' = ReadHeader(pos)
        /\ packetlen' = IF packetlen < need THEN need ELSE packetlen
        /\ thread_packetdata' = AtMost(Piece(Filled, pos + 5, m), need)
        /\ Len(Filled) - pos - 1 >= HEADLEN
        /\ LegalHeader(ReadHeader(pos)) /\ Countable(ReadHeader(pos)) /\ FirstHead(Filled, pos)
    <2>1. Piece(Filled, pos + 5, m) = From(Filled, pos + 1 + HEADLEN)
      <3>1. pos + 1 + HEADLEN = pos + 5
        BY <1>3
      <3> QED
        BY <3>1 DEF From, Piece
    <2> QED
      BY <1>2, <2>1
  <1>10. pos \in Nat /\ pos + 5 <= m /\ need \in Nat /\ need >= 1
    BY <1>3, <1>4, <1>5, <1>9
  <1> HIDE DEF need, m, a
  <1>11. /\ a \in Nat /\ e \in Nat /\ e <= given /\ e <= Len(stream) /\ e - a = m
         /\ b \in Nat /\ b <= e /\ r \in Nat /\ r = e - b
         /\ g \in Nat /\ g <= need /\ g <= r /\ b + g <= e
    <2>1. a \in Nat /\ m \in Nat
      <3>1. place \in Nat
        BY <1>3
      <3>2. m \in Nat
        BY <1>4
      <3> QED
        BY <3>1, <3>2 DEF a
    <2>2. e \in Nat /\ e <= given /\ e - a = m
      BY <1>3, <1>4, <2>1
    <2>3. e <= Len(stream)
      BY <1>3, <2>2
    <2>4. b \in Nat /\ b <= e
      BY <1>10, <2>1
    <2>5. r \in Nat /\ r = e - b
      BY <1>10, <2>1
    <2> HIDE DEF e, b, r
    <2>6. g \in Nat /\ g <= need /\ g <= r
      BY <1>10, <2>5
    <2> HIDE DEF g
    <2>7. b + g <= e
      BY <2>2, <2>4, <2>5, <2>6
    <2> QED
      BY <2>1, <2>2, <2>3, <2>4, <2>5, <2>6, <2>7
  <1> HIDE DEF e, b, r, g
  <1> DEFINE q == Piece(Filled, pos + 5, m)
             z == Piece(stream, b, e)
  <1>12. q = z /\ z \in Seq(Byte) /\ Len(z) = r
    <2> DEFINE i == pos + 5
    <2>1. i \in Nat /\ i <= m /\ m <= e - a /\ a <= e /\ a + i = b /\ a + m = e
      BY <1>4, <1>10, <1>11 DEF b, e
    <2> HIDE DEF i
    <2>2. Piece(Piece(stream, a, e), i, m) = Piece(stream, a + i, a + m)
      BY <1>3, <1>4, <1>11, <2>1, PieceSub
    <2>3. Piece(Filled, i, m) = z
      BY <1>4, <2>1, <2>2
    <2>4. z \in Seq(Byte) /\ Len(z) = e - b
      BY <1>3, <1>11, PieceFacts
    <2> QED
      BY <1>11, <2>3, <2>4 DEF i
  <1>13. thread_packetdata' = Piece(stream, b, b + g)
    <2>1. CASE r <= need
      <3>1. b + g = e
        BY <1>11, <2>1 DEF g
      <3>2. AtMost(z, need) = z
        BY <1>12, <2>1 DEF AtMost
      <3> QED
        BY <1>9, <1>12, <3>1, <3>2
    <2>2. CASE ~(r <= need)
      <3>1. AtMost(z, need) = Piece(z, 0, need)
        <4>1. 0 + 1 = 1
          OBVIOUS
        <4>2. AtMost(z, need) = SubSeq(z, 1, need)
          BY <1>12, <2>2 DEF AtMost
        <4> QED
          BY <4>1, <4>2 DEF Piece
      <3>2. need <= e - b /\ b <= e /\ 0 <= need /\ g = need /\ b + 0 = b
        BY <1>10, <1>11, <2>2 DEF g
      <3>3. Piece(Piece(stream, b, e), 0, need) = Piece(stream, b + 0, b + need)
        BY <1>3, <1>10, <1>11, <3>2, PieceSub
      <3> QED
        BY <1>9, <1>12, <3>1, <3>2, <3>3
    <2> QED
      BY <2>1, <2>2
  <1>14. thread_packetdata' \in Seq(Byte) /\ getdatalen' = g
    <2> DEFINE d == b + g
    <2>1. d \in Nat /\ b <= d /\ d <= Len(stream) /\ d - b = g
      BY <1>3, <1>11
    <2> HIDE DEF d
    <2>2. Piece(stream, b, d) \in Seq(Byte) /\ Len(Piece(stream, b, d)) = d - b
      BY <1>3, <1>11, <2>1, PieceFacts
    <2> QED
      BY <1>13, <2>1, <2>2 DEF getdatalen, d
  <1>15. Need' = need
    BY <1>9 DEF Need, need
  <1>16. Whole' <=> r >= need
    <2>1. Whole' <=> truepacketlen' - headpos' - 1 - HEADLEN >= Need'
      BY DEF Whole, HEADLEN
    <2>2. truepacketlen' - headpos' - 1 - HEADLEN = r
      BY <1>3, <1>4, <1>8, <1>9, <1>10 DEF r
    <2> QED
      BY <1>15, <2>1, <2>2
  <1>17. place' = a
    <2>1. CASE Whole'
      <3>1. place' = copied' - truepacketlen'
        BY <2>1 DEF place
      <3> QED
        BY <1>4, <1>8, <1>11, <3>1 DEF e
    <2>2. CASE ~Whole'
      <3>1. place' = copied' - getdatalen' - (headpos' + 1 + HEADLEN)
        BY <1>7, <2>2 DEF place, HEADLEN
      <3>2. g = r
        BY <1>10, <1>11, <1>16, <2>2 DEF g
      <3> QED
        BY <1>3, <1>4, <1>9, <1>10, <1>11, <1>14, <3>1, <3>2 DEF e, r
    <2> QED
      BY <2>1, <2>2
  <1>18. body' = b
    BY <1>3, <1>9, <1>10, <1>11, <1>17 DEF body, b, HEADLEN
  <1>19. ParserTypes'
    <2>1. packetlen' \in Nat
      BY <1>3, <1>9, <1>10
    <2>2. copied' \in 0..given
      BY <1>4, <1>11
    <2>3. theNexPacket' \in [header : Byte, tail : Byte, datalen : Byte, check : Byte]
      BY <1>5, <1>9
    <2>4. headpos' \in Int /\ parsetype' \in {"PARSE_NOTHING", "PARSE_HEAD"}
      BY <1>7, <1>9
    <2>5. thread_readdata' \in Seq(Byte)
      BY <1>4, <1>7
    <2> QED
      BY <1>3, <1>6, <1>14, <2>1, <2>2, <2>3, <2>4, <2>5 DEF ParserTypes
  <1>20. InBounds'
    <2>1. truepacketlen' <= readlen'
      BY <1>4, <1>6, <1>8
    <2>2. need <= packetlen'
      BY <1>3, <1>9, <1>10
    <2>3. getdatalen' <= Need' /\ Need' <= packetlen' /\ getdatalen' <= packetlen'
      BY <1>3, <1>9, <1>10, <1>11, <1>14, <1>15, <2>2
    <2>4. 0 <= headpos' /\ headpos' + 1 + HEADLEN <= truepacketlen'
      BY <1>3, <1>8, <1>9, <1>10
    <2>5. readlen' <= MaxInt
      BY <1>6 DEF IInv, InBounds
    <2>6. HEADLEN + Need' <= MaxInt
      <3>1. HEADLEN + ReadHeader(pos).datalen + 1 = HEADLEN + need
        BY <1>3, <1>5 DEF need
      <3> QED
        BY <1>9, <1>15, <3>1 DEF Countable
    <2> QED
      BY <2>1, <2>3, <2>4, <2>5, <2>6 DEF InBounds, HEADLEN
  <1>21. ReadInv'
    <2>1. place' + truepacketlen' = e
      BY <1>4, <1>8, <1>11, <1>17 DEF e
    <2> QED
      BY <1>4, <1>6, <1>7, <1>11, <1>17, <2>1 DEF ReadInv
  <1>22. CollectInv'
    <2>1. Whole' => getdatalen' = Need'
      BY <1>10, <1>11, <1>14, <1>15, <1>16 DEF g
    <2>2. Filled[pos + 1] = HEAD /\ \A i \in 1..pos : Filled[i] # HEAD
      BY <1>9 DEF FirstHead
    <2>3. stream[a + pos + 1] = HEAD
      <3>1. pos + 1 \in 1..m /\ a + (pos + 1) = a + pos + 1
        BY <1>4, <1>10, <1>11
      <3> QED
        BY <1>4, <2>2, <3>1
    <2>4. \A i \in 1..pos : stream[a + i] # HEAD
      <3>1. \A i \in 1..pos : i \in 1..m
        BY <1>4, <1>10
      <3> QED
        BY <1>4, <2>2, <3>1
    <2>5. a + pos + 1 + HEADLEN = b
      BY <1>3, <1>10, <1>11 DEF b
    <2>6. theNexPacket' = CharToNetPacket(Piece(stream, a + pos + 1, b))
      BY <1>5, <1>9, <2>5 DEF a
    <2>7. LegalHeader(theNexPacket')
      BY <1>9
    <2> QED
      BY <1>6, <1>9, <1>13, <1>14, <1>17, <1>18, <2>1, <2>3, <2>4, <2>6, <2>7
      DEF CollectInv, LegalHeader, CharToNetPacket
  <1> QED
    BY <1>4, <1>6, <1>17, <1>19, <1>20, <1>21, <1>22 DEF IInv, a

\* The call ends before the tail: all that was given is copied.
LEMMA DataIncompleteStep ==
    ASSUME IInv, DataIncomplete
    PROVE  IInv' /\ place' = place /\ given' = given /\ copied' = given
  <1> DEFINE a == body
             b == copied
             c == given
  <1>1. parsetype = "PARSE_HEAD" /\ parsetype' = "PARSE_HEAD" /\ running' = FALSE
    BY DEF DataIncomplete
  <1>2. /\ ParserTypes /\ stream \in Seq(Byte) /\ Len(stream) \in Nat /\ given \in Nat
        /\ given <= Len(stream) /\ copied \in Nat /\ copied <= given /\ HEADLEN = 4
        /\ getdatalen \in Nat /\ Need \in Nat
    BY Numbers DEF IInv, ParserTypes
  <1>3. /\ place \in Nat /\ headpos \in Nat /\ body \in Nat /\ body = place + headpos + 5
        /\ Whole => getdatalen = Need
        /\ ~Whole => copied = body + getdatalen
    BY <1>1, CollectNumbers
  <1>4. getdatalen + (given - copied) < Need
    BY DEF DataIncomplete
  <1>5. ~Whole
    BY <1>2, <1>3, <1>4
  <1>6. copied = body + getdatalen
    BY <1>3, <1>5
  <1>7. thread_packetdata = Piece(stream, a, b)
    BY <1>1, <1>6 DEF IInv, CollectInv
  <1>8. thread_packetdata' = Piece(stream, a, b) \o Piece(stream, b, c)
    BY <1>7 DEF DataIncomplete, Piece
  <1>9. /\ stream' = stream /\ given' = given /\ copied' = given
        /\ thread_readdata' = thread_readdata /\ readlen' = readlen /\ headpos' = headpos
        /\ theNexPacket' = theNexPacket /\ packetlen' = packetlen /\ delivered' = delivered
    BY DEF DataIncomplete, readVars
  <1>10. a \in Nat /\ b \in Nat /\ c \in Nat /\ a <= b /\ b <= c /\ c <= Len(stream) /\ a <= c
    BY <1>2, <1>3, <1>6
  <1>11. c - a < Need
    BY <1>2, <1>3, <1>4, <1>6
  <1> HIDE DEF a, b, c
  <1>12. thread_packetdata' = Piece(stream, a, c)
    BY <1>2, <1>8, <1>10, PieceCat
  <1>13. Piece(stream, a, c) \in Seq(Byte) /\ Len(Piece(stream, a, c)) = c - a
    BY <1>2, <1>10, PieceFacts
  <1>14. thread_packetdata' \in Seq(Byte) /\ getdatalen' = c - a
    BY <1>12, <1>13 DEF getdatalen
  <1>15. truepacketlen' = truepacketlen /\ Need' = Need /\ (Whole' <=> Whole)
    BY <1>9 DEF truepacketlen, Need, Whole
  <1>16. place' = copied' - getdatalen' - (headpos' + 1 + HEADLEN)
    BY <1>1, <1>5, <1>15 DEF place, HEADLEN
  <1>17. place' = place
    BY <1>2, <1>3, <1>9, <1>10, <1>14, <1>16 DEF a, c
  <1>18. body' = body
    BY <1>9, <1>17 DEF body, HEADLEN
  <1>19. ParserTypes'
    <2>1. copied' \in 0..given
      BY <1>2, <1>9
    <2> QED
      BY <1>1, <1>2, <1>9, <1>14, <2>1 DEF ParserTypes
  <1>20. InBounds'
    <2>1. truepacketlen <= readlen /\ 0 <= headpos /\ headpos + 1 + HEADLEN <= truepacketlen
          /\ Need <= packetlen /\ readlen <= MaxInt /\ HEADLEN + Need <= MaxInt
      BY <1>1 DEF IInv, InBounds
    <2>2. getdatalen' <= Need' /\ Need' <= packetlen'
      BY <1>2, <1>9, <1>10, <1>11, <1>14, <1>15, <2>1
    <2>3. packetlen \in Nat
      BY Numbers DEF IInv
    <2>4. getdatalen' <= packetlen'
      BY <1>2, <1>9, <1>10, <1>14, <1>15, <2>2, <2>3
    <2> QED
      BY <1>9, <1>15, <2>1, <2>2, <2>4 DEF InBounds, HEADLEN
  <1>21. ReadInv'
    <2>1. place + truepacketlen <= copied /\ truepacketlen \in Nat
          /\ thread_readdata = Piece(stream, place, place + truepacketlen)
      BY Numbers DEF IInv, ReadInv
    <2>2. place' + truepacketlen' <= copied'
      BY <1>2, <1>3, <1>9, <1>15, <1>17, <2>1
    <2> QED
      BY <1>3, <1>9, <1>15, <1>17, <2>1, <2>2 DEF ReadInv
  <1>22. CollectInv'
    <2>1. CollectInv
      BY DEF IInv
    <2>2. a + getdatalen' = c
      BY <1>10, <1>14
    <2>3. thread_packetdata' = Piece(stream', body', body' + getdatalen')
      BY <1>9, <1>12, <1>18, <2>2 DEF a
    <2> QED
      BY <1>1, <1>5, <1>9, <1>15, <1>17, <1>18, <2>1, <2>3
      DEF CollectInv, LegalHeader, CharToNetPacket
  <1> QED
    BY <1>9, <1>17, <1>19, <1>20, <1>21, <1>22 DEF IInv

\* A packet that is there to its tail: what was collected, and how far it reaches.
LEMMA CollectedFacts ==
    ASSUME IInv, DataComplete
    PROVE  /\ Collected = Piece(stream, body, body + Need)
           /\ Collected \in Seq(Byte) /\ Len(Collected) = Need
           /\ body + Need <= given /\ body + Need <= Len(stream)
           /\ copied' \in copied..given
           /\ Whole => copied' = copied /\ copied = place + truepacketlen /\ body + Need <= copied
           /\ ~Whole => copied' = body + Need
  <1> DEFINE a == body
             c == body + Need
  <1>1. parsetype = "PARSE_HEAD" /\ copied' = copied + Need - getdatalen
        /\ getdatalen + (given - copied) >= Need
    BY DEF DataComplete
  <1>2. /\ stream \in Seq(Byte) /\ Len(stream) \in Nat /\ given \in Nat
        /\ given <= Len(stream) /\ copied \in Nat /\ copied <= given
        /\ getdatalen \in Nat /\ Need \in Nat /\ truepacketlen \in Nat
    BY Numbers DEF IInv, ParserTypes
  <1>3. /\ place \in Nat /\ body \in Nat /\ getdatalen <= Need
        /\ Whole => /\ copied = place + truepacketlen /\ getdatalen = Need
                    /\ body + Need <= copied
        /\ ~Whole => copied = body + getdatalen
    BY <1>1, CollectNumbers
  <1>4. thread_packetdata = Piece(stream, body, body + getdatalen)
    BY <1>1 DEF IInv, CollectInv
  <1>5. copied' \in copied..given
    BY <1>1, <1>2, <1>3
  <1>6. ASSUME Whole
        PROVE  copied' = copied /\ body + Need <= given
    BY <1>1, <1>2, <1>3, <1>6
  <1>7. ASSUME ~Whole
        PROVE  copied' = body + Need /\ body + Need <= given
    BY <1>1, <1>2, <1>3, <1>7
  <1>8. body + Need <= given
    BY <1>6, <1>7
  <1>9. a \in Nat /\ c \in Nat /\ a <= c /\ c <= Len(stream) /\ c - a = Need
    BY <1>2, <1>3, <1>8
  <1>10. Piece(stream, a, c) \in Seq(Byte) /\ Len(Piece(stream, a, c)) = Need
    <2> HIDE DEF a, c
    <2>1. Piece(stream, a, c) \in Seq(Byte) /\ Len(Piece(stream, a, c)) = c - a
      BY <1>2, <1>9, PieceFacts
    <2> QED
      BY <1>9, <2>1
  <1>11. Collected = Piece(stream, a, c)
    <2>1. CASE Whole
      <3>1. getdatalen = Need /\ thread_packetdata = Piece(stream, a, c)
        BY <1>3, <1>4, <2>1
      <3>2. copied + Need - getdatalen = copied
        BY <1>2, <3>1
      <3>3. SubSeq(stream, copied + 1, copied) = <<>>
        BY <1>2, SubSeqEmpty
      <3>4. Collected = thread_packetdata \o <<>>
        BY <3>2, <3>3 DEF Collected
      <3>5. thread_packetdata \o <<>> = thread_packetdata
        BY <1>10, <3>1, ConcatEmptySeq
      <3> QED
        BY <3>1, <3>4, <3>5
    <2>2. CASE ~Whole
      <3> DEFINE b == copied
      <3>1. b = body + getdatalen /\ b \in Nat /\ a <= b /\ b <= c
        BY <1>2, <1>3, <2>2
      <3>2. copied + Need - getdatalen = c
        BY <1>2, <1>3, <3>1
      <3>3. Collected = Piece(stream, a, b) \o Piece(stream, b, c)
        BY <1>4, <3>1, <3>2 DEF Collected, Piece
      <3> HIDE DEF a, b, c
      <3> QED
        BY <1>2, <1>9, <3>1, <3>3, PieceCat
    <2> QED
      BY <2>1, <2>2
  <1> QED
    BY <1>2, <1>3, <1>5, <1>6, <1>7, <1>8, <1>9, <1>10, <1>11

\* A round that ends a packet, and leaves of the stream what begins at p.
LEMMA CollectedStep ==
    ASSUME IInv, DataComplete, NEW p \in Nat, p <= copied',
           thread_readdata' = Piece(stream, p, copied'),
           readlen' \in Nat, copied' - p <= readlen', readlen' <= MaxInt,
           thread_packetdata' \in Seq(Byte), getdatalen' = Need,
           delivered' \in Seq(Seq(Byte))
    PROVE  IInv' /\ place' = p
  <1> DEFINE c == copied'
  <1>1. /\ ParserTypes /\ stream \in Seq(Byte) /\ Len(stream) \in Nat /\ given \in Nat
        /\ given <= Len(stream) /\ copied \in Nat
    BY Numbers DEF IInv, ParserTypes
  <1>2. c \in copied..given
    BY CollectedFacts
  <1>3. c \in Nat /\ p <= c /\ c <= given /\ c <= Len(stream)
    BY <1>1, <1>2
  <1>4. /\ parsetype = "PARSE_HEAD" /\ parsetype' = "PARSE_NOTHING"
        /\ stream' = stream /\ given' = given /\ running' = running /\ headpos' = headpos
        /\ theNexPacket' = theNexPacket /\ packetlen' = packetlen
    BY DEF DataComplete
  <1>5. thread_readdata' = Piece(stream, p, c)
    OBVIOUS
  <1> HIDE DEF c
  <1>6. Piece(stream, p, c) \in Seq(Byte) /\ Len(Piece(stream, p, c)) = c - p
    BY <1>1, <1>3, PieceFacts
  <1>7. thread_readdata' \in Seq(Byte) /\ truepacketlen' = c - p
    BY <1>5, <1>6 DEF truepacketlen
  <1>8. ParserTypes'
    <2>1. copied' \in 0..given
      BY <1>3 DEF c
    <2> QED
      BY <1>1, <1>4, <1>7, <2>1 DEF ParserTypes
  <1>9. InBounds'
    <2>1. Need <= packetlen
      BY <1>4 DEF IInv, InBounds
    <2>2. truepacketlen' <= readlen'
      BY <1>7 DEF c
    <2>3. getdatalen' <= packetlen'
      BY <1>4, <2>1
    <2> QED
      BY <1>4, <2>2, <2>3 DEF InBounds
  <1>10. place' = p
    <2>1. place' = copied' - truepacketlen'
      BY <1>4 DEF place
    <2>2. place' = c - (c - p)
      BY <1>7, <2>1 DEF c
    <2> QED
      BY <1>3, <2>2
  <1>11. ReadInv'
    <2>1. p + truepacketlen' = c
      BY <1>3, <1>7
    <2>2. p + truepacketlen' <= copied'
      BY <1>3, <2>1 DEF c
    <2>3. thread_readdata' = Piece(stream', p, p + truepacketlen')
      BY <1>4, <1>5, <2>1
    <2> QED
      BY <1>10, <2>2, <2>3 DEF ReadInv
  <1>12. CollectInv'
    BY <1>4 DEF CollectInv
  <1> QED
    BY <1>8, <1>9, <1>10, <1>11, <1>12 DEF IInv

\* The part of thread_readdata behind its first k bytes.
LEMMA RestOfRead ==
    ASSUME IInv, NEW k \in Nat, k <= truepacketlen
    PROVE  /\ From(thread_readdata, k) = Piece(stream, place + k, place + truepacketlen)
           /\ From(thread_readdata, k) \in Seq(Byte)
           /\ Len(From(thread_readdata, k)) = truepacketlen - k
           /\ \A j \in Nat : k <= j /\ j <= truepacketlen =>
                 Piece(thread_readdata, k, j) = Piece(stream, place + k, place + j)
  <1> DEFINE n == truepacketlen
             a == place
             b == place + n
  <1>1. /\ stream \in Seq(Byte) /\ Len(stream) \in Nat /\ given \in Nat /\ copied \in Nat
        /\ given <= Len(stream) /\ copied <= given /\ n \in Nat /\ a \in Nat /\ b <= copied
        /\ thread_readdata = Piece(stream, a, b) /\ thread_readdata \in Seq(Byte)
    BY Numbers DEF IInv, ParserTypes, ReadInv
  <1>2. b \in Nat /\ a <= b /\ b <= Len(stream) /\ b - a = n /\ b = a + n
    BY <1>1
  <1>3. From(thread_readdata, k) = Piece(thread_readdata, k, n)
    BY DEF From, Piece, truepacketlen
  <1>4. k <= n /\ n = Len(thread_readdata)
    BY DEF truepacketlen
  <1> HIDE DEF n, a, b
  <1>5. \A j \in Nat : k <= j /\ j <= n =>
           Piece(thread_readdata, k, j) = Piece(stream, a + k, a + j)
    <2> SUFFICES ASSUME NEW j \in Nat, k <= j, j <= n
                 PROVE  Piece(thread_readdata, k, j) = Piece(stream, a + k, a + j)
      OBVIOUS
    <2>1. j <= b - a
      BY <1>2
    <2>2. Piece(Piece(stream, a, b), k, j) = Piece(stream, a + k, a + j)
      BY <1>1, <1>2, <2>1, PieceSub
    <2> QED
      BY <1>1, <2>2
  <1>6. Piece(thread_readdata, k, n) = Piece(stream, a + k, a + n)
    BY <1>1, <1>4, <1>5
  <1>7. /\ Piece(thread_readdata, k, n) \in Seq(Byte)
        /\ Len(Piece(thread_readdata, k, n)) = n - k
    <2> DEFINE t == thread_readdata
    <2>1. t \in Seq(Byte) /\ n \in Nat /\ n <= Len(t) /\ k <= n
      BY <1>1, <1>4
    <2> HIDE DEF t
    <2>2. Piece(t, k, n) \in Seq(Byte) /\ Len(Piece(t, k, n)) = n - k
      BY <2>1, PieceFacts
    <2> QED
      BY <2>2 DEF t
  <1> QED
    BY <1>3, <1>5, <1>6, <1>7 DEF a, n

\* The check fails: the stream is left from behind the HEAD on, out of one
\* buffer or out of both.
LEMMA SearchAgainStep ==
    ASSUME IInv, SearchAgain
    PROVE  IInv' /\ place' = place + (headpos + 1)
  <1> DEFINE p == place + (headpos + 1)
             k == headpos + 1
  <1>1. DataComplete /\ ~Good /\ parsetype = "PARSE_HEAD"
    BY DEF SearchAgain, DataComplete
  <1>2. /\ place \in Nat /\ headpos \in Nat /\ body \in Nat
        /\ body = place + headpos + 5 /\ body <= place + truepacketlen
    BY <1>1, CollectNumbers
  <1>3. /\ HEADLEN = 4 /\ Need \in Nat /\ truepacketlen \in Nat /\ copied \in Nat
        /\ given \in Nat /\ Len(stream) \in Nat /\ readlen \in Nat /\ stream \in Seq(Byte)
        /\ given <= Len(stream)
    BY Numbers DEF IInv, ParserTypes
  <1>4. /\ Collected = Piece(stream, body, body + Need) /\ Collected \in Seq(Byte)
        /\ Len(Collected) = Need /\ body + Need <= Len(stream) /\ copied' \in copied..given
        /\ Whole => copied' = copied /\ copied = place + truepacketlen /\ body + Need <= copied
        /\ ~Whole => copied' = body + Need
    BY <1>1, CollectedFacts
  <1>5. truepacketlen <= readlen /\ delivered \in Seq(Seq(Byte))
    BY DEF IInv, InBounds, ParserTypes
  <1>6. /\ thread_packetdata' = Collected /\ delivered' = delivered
    BY DEF SearchAgain
  <1>7. getdatalen' = Need /\ thread_packetdata' \in Seq(Byte) /\ delivered' \in Seq(Seq(Byte))
    BY <1>4, <1>5, <1>6 DEF getdatalen
  <1>8. k \in Nat /\ k <= truepacketlen /\ p \in Nat /\ k + 4 \in Nat /\ k + 4 <= truepacketlen
        /\ k <= k + 4
    BY <1>2, <1>3
  <1>9. /\ From(thread_readdata, k) = Piece(stream, place + k, place + truepacketlen)
        /\ \A j \in Nat : k <= j /\ j <= truepacketlen =>
              Piece(thread_readdata, k, j) = Piece(stream, place + k, place + j)
    <2> HIDE DEF k
    <2> QED
      BY <1>8, RestOfRead
  <1>10. /\ p <= copied' /\ thread_readdata' = Piece(stream, p, copied')
         /\ readlen' \in Nat /\ copied' - p <= readlen'
    <2>1. CASE Whole
      <3>1. thread_readdata' = From(thread_readdata, k) /\ readlen' = readlen
        BY <2>1 DEF SearchAgain
      <3>2. copied' = place + truepacketlen
        BY <1>4, <2>1
      <3> QED
        BY <1>2, <1>3, <1>5, <1>8, <1>9, <3>1, <3>2
    <2>2. CASE ~Whole
      <3>1. /\ thread_readdata' =
                  SubSeq(thread_readdata, headpos + 2, headpos + 1 + HEADLEN) \o Collected
            /\ readlen' = IF readlen < HEADLEN + Need THEN HEADLEN + Need ELSE readlen
        BY <2>2 DEF SearchAgain
      <3>2. copied' = body + Need
        BY <1>4, <2>2
      <3>3. SubSeq(thread_readdata, headpos + 2, headpos + 1 + HEADLEN)
              = Piece(thread_readdata, k, k + 4)
        <4>1. headpos + 2 = k + 1 /\ headpos + 1 + HEADLEN = k + 4
          BY <1>2, <1>3
        <4> HIDE DEF k
        <4> QED
          BY <4>1 DEF Piece
      <3>4. Piece(thread_readdata, k, k + 4) = Piece(stream, place + k, place + (k + 4))
        BY <1>8, <1>9
      <3>5. place + (k + 4) = body
        BY <1>2
      <3>6. thread_readdata' = Piece(stream, p, body) \o Piece(stream, body, body + Need)
        BY <1>4, <3>1, <3>3, <3>4, <3>5
      <3> DEFINE c == body + Need
      <3>7. p \in Nat /\ body \in Nat /\ c \in Nat /\ p <= body /\ body <= c /\ c <= Len(stream)
        BY <1>2, <1>3, <1>4
      <3>8. c - p = 4 + Need
        BY <1>2, <1>3
      <3>9. thread_readdata' = Piece(stream, p, body) \o Piece(stream, body, c) /\ copied' = c
        BY <3>2, <3>6
      <3> HIDE DEF p, c
      <3>10. Piece(stream, p, body) \o Piece(stream, body, c) = Piece(stream, p, c)
        BY <1>3, <3>7, PieceCat
      <3>11. readlen' \in Nat /\ 4 + Need <= readlen'
        BY <1>3, <3>1
      <3> QED
        BY <3>7, <3>8, <3>9, <3>10, <3>11
    <2> QED
      BY <2>1, <2>2
  <1> HIDE DEF p
  <1>11. readlen' <= MaxInt
    <2>1. readlen <= MaxInt /\ HEADLEN + Need <= MaxInt
      BY <1>1 DEF IInv, InBounds
    <2>2. readlen' = readlen \/ readlen' = HEADLEN + Need
      BY DEF SearchAgain
    <2> QED
      BY <2>1, <2>2
  <1>12. IInv' /\ place' = p
    BY <1>1, <1>7, <1>8, <1>10, <1>11, CollectedStep
  <1> QED
    BY <1>12 DEF p

\* A packet is delivered: the stream is left from behind its tail on.
LEMMA CallBackStep ==
    ASSUME IInv, CallBack
    PROVE  /\ IInv' /\ place' = body + Need
           /\ delivered' = Append(delivered, Piece(stream, body, body + theNexPacket.datalen))
  <1> DEFINE p == body + Need
             k == headpos + 5 + Need
             n == theNexPacket.datalen
  <1>1. DataComplete /\ parsetype = "PARSE_HEAD"
    BY DEF CallBack, DataComplete
  <1>2. /\ place \in Nat /\ headpos \in Nat /\ body \in Nat
        /\ body = place + headpos + 5 /\ body <= place + truepacketlen
    BY <1>1, CollectNumbers
  <1>3. /\ HEADLEN = 4 /\ Need \in Nat /\ truepacketlen \in Nat /\ copied \in Nat
        /\ given \in Nat /\ Len(stream) \in Nat /\ readlen \in Nat /\ stream \in Seq(Byte)
        /\ given <= Len(stream) /\ n \in Nat /\ Need = n + 1
    BY Numbers DEF IInv, ParserTypes
  <1>4. /\ Collected = Piece(stream, body, p) /\ Collected \in Seq(Byte)
        /\ Len(Collected) = Need /\ p <= Len(stream) /\ copied' \in copied..given
        /\ Whole => copied' = copied /\ copied = place + truepacketlen /\ p <= copied
        /\ ~Whole => copied' = p
    BY <1>1, CollectedFacts
  <1>5. truepacketlen <= readlen /\ delivered \in Seq(Seq(Byte))
    BY DEF IInv, InBounds, ParserTypes
  <1>6. /\ thread_packetdata' = [Collected EXCEPT ![Need] = 0] /\ readlen' = readlen
        /\ delivered' = Append(delivered, SubSeq(Collected, 1, n))
        /\ thread_readdata' = IF Whole THEN From(thread_readdata, headpos + 1 + HEADLEN + Need)
                              ELSE <<>>
    BY DEF CallBack
  <1>7. thread_packetdata' \in Seq(Byte) /\ getdatalen' = Need
    <2>1. 0 \in Byte
      BY FormatAssumption DEF Byte
    <2>2. Need \in 1..Len(Collected)
      BY <1>3, <1>4
    <2>3. /\ [Collected EXCEPT ![Need] = 0] \in Seq(Byte)
          /\ Len([Collected EXCEPT ![Need] = 0]) = Len(Collected)
      BY <1>4, <2>1, <2>2, ExceptSeq
    <2> QED
      BY <1>4, <1>6, <2>3 DEF getdatalen
  <1>8. p \in Nat /\ k \in Nat /\ p = place + k /\ headpos + 1 + HEADLEN + Need = k
    <2>1. p \in Nat /\ k \in Nat
      BY <1>2, <1>3
    <2>2. p = place + headpos + 5 + Need
      BY <1>2
    <2>3. p = place + k
      <3>1. place \in Nat /\ headpos \in Nat /\ Need \in Nat
        BY <1>2, <1>3
      <3>2. place + headpos + 5 + Need = place + (headpos + 5 + Need)
        BY <3>1
      <3> QED
        BY <2>2, <3>2
    <2>4. headpos + 1 + HEADLEN + Need = k
      BY <1>2, <1>3
    <2> QED
      BY <2>1, <2>3, <2>4
  <1>9. p <= copied' /\ thread_readdata' = Piece(stream, p, copied') /\ copied' - p <= readlen'
    <2>1. CASE Whole
      <3>1. copied' = place + truepacketlen /\ p <= copied'
        BY <1>4, <2>1
      <3>2. thread_readdata' = From(thread_readdata, k)
        BY <1>6, <1>8, <2>1
      <3> HIDE DEF k, p
      <3>3. k <= truepacketlen /\ copied' - p <= readlen
        BY <1>2, <1>3, <1>5, <1>8, <3>1
      <3>4. From(thread_readdata, k) = Piece(stream, place + k, place + truepacketlen)
        BY <1>8, <3>3, RestOfRead
      <3> QED
        BY <1>6, <1>8, <3>1, <3>2, <3>3, <3>4
    <2>2. CASE ~Whole
      <3>1. copied' = p /\ thread_readdata' = <<>>
        BY <1>4, <1>6, <2>2
      <3> HIDE DEF p
      <3>2. Piece(stream, p, p) = <<>>
        BY <1>8, SubSeqEmpty DEF Piece
      <3> QED
        BY <1>3, <1>6, <1>8, <3>1, <3>2
    <2> QED
      BY <2>1, <2>2
  <1>10. SubSeq(Collected, 1, n) = Piece(stream, body, body + n)
    <2>1. SubSeq(Collected, 1, n) = Piece(Collected, 0, n)
      <3>1. 0 + 1 = 1
        OBVIOUS
      <3> QED
        BY <3>1 DEF Piece
    <2>2. body <= p /\ n <= p - body /\ 0 <= n /\ body + 0 = body /\ p \in Nat
      BY <1>2, <1>3
    <2> HIDE DEF p, n
    <2>3. Piece(Piece(stream, body, p), 0, n) = Piece(stream, body + 0, body + n)
      BY <1>2, <1>3, <1>4, <2>2, PieceSub
    <2> QED
      BY <1>4, <2>1, <2>2, <2>3
  <1>11. delivered' = Append(delivered, Piece(stream, body, body + n))
    BY <1>6, <1>10
  <1>12. delivered' \in Seq(Seq(Byte))
    <2> DEFINE e == body + n
    <2>1. e \in Nat /\ body <= e /\ e <= Len(stream)
      BY <1>2, <1>3, <1>4
    <2> HIDE DEF e
    <2>2. Piece(stream, body, e) \in Seq(Byte)
      BY <1>2, <1>3, <2>1, PieceFacts
    <2>3. delivered' = Append(delivered, Piece(stream, body, e))
      BY <1>11 DEF e
    <2> QED
      BY <1>5, <2>2, <2>3, AppendProperties
  <1> HIDE DEF p, k
  <1>13. readlen' <= MaxInt
    BY <1>6 DEF IInv, InBounds
  <1>14. IInv' /\ place' = p
    BY <1>1, <1>3, <1>6, <1>7, <1>8, <1>9, <1>12, <1>13, CollectedStep
  <1> QED
    BY <1>11, <1>14 DEF p

\* A call, a return and a stutter leave the parser alone.
LEMMA KeepStep ==
    ASSUME IInv, running' \in BOOLEAN, given' \in given..Len(stream),
           UNCHANGED <<stream, copied, parsetype, readVars, headpos, theNexPacket,
                       dataVars, delivered>>
    PROVE  IInv' /\ place' = place
  <1>1. /\ stream' = stream /\ copied' = copied /\ parsetype' = parsetype
        /\ thread_readdata' = thread_readdata /\ readlen' = readlen /\ headpos' = headpos
        /\ theNexPacket' = theNexPacket /\ thread_packetdata' = thread_packetdata
        /\ packetlen' = packetlen /\ delivered' = delivered
    BY DEF readVars, dataVars
  <1>2. /\ truepacketlen' = truepacketlen /\ getdatalen' = getdatalen
        /\ Need' = Need /\ (Whole' <=> Whole)
    BY <1>1 DEF truepacketlen, getdatalen, Need, Whole
  <1>3. place' = place
    BY <1>1, <1>2 DEF place, HEADLEN
  <1>4. body' = body
    BY <1>1, <1>3 DEF body, HEADLEN
  <1>5. ParserTypes'
    <2>1. ParserTypes /\ Len(stream) \in Nat /\ given \in Nat /\ copied \in Nat /\ copied <= given
      BY Numbers DEF IInv
    <2>2. given' \in 0..Len(stream) /\ copied \in 0..given'
      BY <2>1
    <2> QED
      BY <1>1, <2>1, <2>2 DEF ParserTypes
  <1>6. InBounds'
    <2>1. InBounds
      BY DEF IInv
    <2> QED
      BY <1>1, <1>2, <2>1 DEF InBounds, HEADLEN
  <1>7. ReadInv'
    <2>1. ReadInv
      BY DEF IInv
    <2> QED
      BY <1>1, <1>2, <1>3, <2>1 DEF ReadInv
  <1>8. CollectInv'
    <2>1. CollectInv
      BY DEF IInv
    <2> QED
      BY <1>1, <1>2, <1>3, <1>4, <2>1 DEF CollectInv, LegalHeader, CharToNetPacket
  <1> QED
    BY <1>3, <1>5, <1>6, <1>7, <1>8 DEF IInv

\* A call moves the end of what was given, and nothing else.
LEMMA recvdataStep ==
    ASSUME IInv, recvdata
    PROVE  /\ IInv' /\ place' = place /\ copied' = copied /\ delivered' = delivered
           /\ given' \in given + 1..Len(stream) /\ stream' = stream
  <1>1. Len(stream) \in Nat /\ given \in Nat /\ given <= Len(stream)
    BY Numbers DEF IInv
  <1>2. PICK len \in 1..Len(stream) - given : given' = given + len
    BY DEF recvdata
  <1>3. given' \in given + 1..Len(stream) /\ given' \in given..Len(stream)
    BY <1>1, <1>2
  <1>4. running' \in BOOLEAN
        /\ UNCHANGED <<stream, copied, parsetype, readVars, headpos, theNexPacket,
                       dataVars, delivered>>
    BY DEF recvdata
  <1>5. IInv' /\ place' = place
    BY <1>3, <1>4, KeepStep
  <1> QED
    BY <1>3, <1>4, <1>5

\* A return changes neither the buffers nor their places in the stream, nor does
\* a new connection.
LEMMA SilentStep ==
    ASSUME IInv, Return \/ NewConnection \/ UNCHANGED vars
    PROVE  /\ IInv' /\ place' = place /\ copied' = copied /\ delivered' = delivered
           /\ given' = given /\ stream' = stream
  <1>1. /\ UNCHANGED <<stream, copied, parsetype, readVars, headpos, theNexPacket,
                       dataVars, delivered>>
        /\ given' = given
    BY DEF Return, NewConnection, vars, inVars
  <1>2. running' \in BOOLEAN
    BY DEF Return, NewConnection, vars, inVars, IInv, ParserTypes
  <1>3. given' \in given..Len(stream)
    <2>1. Len(stream) \in Nat /\ given \in Nat /\ given <= Len(stream)
      BY Numbers DEF IInv
    <2> QED
      BY <1>1, <2>1
  <1>4. IInv' /\ place' = place
    BY <1>1, <1>2, <1>3, KeepStep
  <1> QED
    BY <1>1, <1>4

\* Every call and every round keeps both buffers pieces of the stream.
THEOREM Inductive == Spec => []IInv
  <1>1. ASSUME IInv, [Next]_vars PROVE IInv'
    <2>1. CASE recvdata
      BY <1>1, <2>1, recvdataStep
    <2>2. CASE NoHead
      BY <1>1, <2>2, NoHeadStep
    <2>3. CASE HeaderIncomplete
      BY <1>1, <2>3, HeaderIncompleteStep
    <2>4. CASE HeaderIllegal
      BY <1>1, <2>4, HeaderIllegalStep
    <2>5. CASE HeaderLegal
      BY <1>1, <2>5, HeaderLegalStep
    <2>6. CASE DataIncomplete
      BY <1>1, <2>6, DataIncompleteStep
    <2>7. CASE SearchAgain
      BY <1>1, <2>7, SearchAgainStep
    <2>8. CASE CallBack
      BY <1>1, <2>8, CallBackStep
    <2>9. CASE Return \/ NewConnection \/ UNCHANGED vars
      BY <1>1, <2>9, SilentStep
    <2>10. CASE HeaderOverlong
      BY <1>1, <2>10, HeaderOverlongStep
    <2> QED
      BY <1>1, <2>1, <2>2, <2>3, <2>4, <2>5, <2>6, <2>7, <2>8, <2>9, <2>10 DEF Next, Round
  <1> QED
    BY <1>1, InitInv, PTL DEF Spec

\* Types: the lengths that are tested before they are subtracted, the header
\* fields and the packets delivered stay what they are declared to be; what an
\* overlong header leaves behind is a call that does not return.
THEOREM TypeCorrect == Spec => []TypeOK
  <1>1. Init => TypeOK
    <2> SUFFICES ASSUME Init PROVE TypeOK
      OBVIOUS
    <2>1. ParserTypes
      BY InitInv DEF IInv
    <2>2. <<>> \in Seq(Seq(Byte)) /\ 0 \in 0..given
      BY EmptySeq DEF Init
    <2> QED
      BY <2>1, <2>2 DEF Init, TypeOK
  <1>2. ASSUME IInv, IInv', TypeOK, [Next]_vars PROVE TypeOK'
    <2>1. ParserTypes /\ ParserTypes' /\ delivered \in Seq(Seq(Byte))
      BY <1>2 DEF IInv, ParserTypes
    <2>2. given \in Nat
      BY <2>1, Numbers
    <2>3. CASE recvdata
      <3>1. given' \in given + 1..Len(stream)
        BY <1>2, <2>3, recvdataStep
      <3>2. given' \in Nat /\ given <= given'
        BY <2>1, <2>2, <3>1, Numbers
      <3>3. began' \in 0..given'
        BY <1>2, <2>2, <2>3, <3>2 DEF recvdata, connVars, TypeOK
      <3> QED
        BY <1>2, <2>1, <2>3, <3>3 DEF recvdata, connVars, TypeOK
    <2>4. CASE NoHead \/ HeaderIncomplete \/ HeaderIllegal \/ HeaderLegal \/ HeaderOverlong
      <3>1. Searching
        BY <2>4 DEF NoHead, HeaderIncomplete, HeaderIllegal, HeaderLegal, HeaderOverlong
      <3>2. /\ running' = TRUE /\ ~overlong /\ given' = given
            /\ began' = began /\ earlier' = earlier /\ stale' = stale
        BY <1>2, <2>1, <3>1 DEF Searching, connVars, ParserTypes
      <3>3. \/ overlong' = FALSE
            \/ overlong' = TRUE /\ parsetype' = "PARSE_NOTHING"
        <4>1. CASE NoHead
          BY <3>2, <4>1 DEF NoHead, TypeOK
        <4>2. CASE HeaderIncomplete
          BY <1>2, <3>2, <4>2 DEF HeaderIncomplete, TypeOK
        <4>3. CASE HeaderIllegal
          BY <1>2, <3>2, <4>3 DEF HeaderIllegal, TypeOK
        <4>4. CASE HeaderLegal
          BY <1>2, <3>2, <4>4 DEF HeaderLegal, TypeOK
        <4>5. CASE HeaderOverlong
          BY <3>1, <4>5 DEF HeaderOverlong, Searching
        <4> QED
          BY <2>4, <4>1, <4>2, <4>3, <4>4, <4>5
      <3> QED
        BY <1>2, <2>1, <3>2, <3>3 DEF TypeOK
    <2>5. CASE DataIncomplete \/ SearchAgain \/ CallBack
      BY <1>2, <2>1, <2>5 DEF DataIncomplete, SearchAgain, CallBack, DataComplete, connVars, TypeOK
    <2>6. CASE Return \/ UNCHANGED vars
      BY <1>2, <2>1, <2>6 DEF Return, vars, inVars, connVars, TypeOK
    <2>7. CASE NewConnection
      <3>1. given \in 0..given /\ (Held # <<>>) \in BOOLEAN
        BY <2>2
      <3> QED
        BY <1>2, <2>1, <2>7, <3>1 DEF NewConnection, inVars, TypeOK
    <2> QED
      BY <1>2, <2>3, <2>4, <2>5, <2>6, <2>7 DEF Next, Round
  <1> QED
    BY <1>1, <1>2, Inductive, PTL DEF Spec

\* No memcpy of recvdata leaves a buffer and no int overflows, for every size of
\* the buffers and every stream, however it is cut, up to the first header of a
\* packet that an int cannot count.
THEOREM BuffersInBounds == Spec => []InBounds
  <1>1. IInv => InBounds
    BY DEF IInv
  <1> QED
    BY <1>1, Inductive, PTL

\* What the two buffers hold together is one piece of the stream.
LEMMA HeldPiece ==
    ASSUME IInv
    PROVE  Held = Piece(stream, place, copied) /\ place \in Nat /\ place <= copied
  <1>1. /\ ParserTypes /\ stream \in Seq(Byte) /\ Len(stream) \in Nat /\ given \in Nat
        /\ given <= Len(stream) /\ copied \in Nat /\ copied <= given /\ HEADLEN = 4
        /\ truepacketlen \in Nat /\ getdatalen \in Nat
    BY Numbers DEF IInv, ParserTypes
  <1>2. place \in Nat /\ place + truepacketlen <= copied
        /\ thread_readdata = Piece(stream, place, place + truepacketlen)
    BY DEF IInv, ReadInv
  <1>3. place <= copied
    BY <1>1, <1>2
  <1>4. CASE parsetype = "PARSE_NOTHING" \/ Whole
    <2>1. place = copied - truepacketlen
      BY <1>4 DEF place
    <2>2. place + truepacketlen = copied
      BY <1>1, <1>2, <2>1
    <2>3. Held = thread_readdata
      BY <1>4 DEF Held
    <2> QED
      BY <1>2, <1>3, <2>2, <2>3
  <1>5. CASE parsetype = "PARSE_HEAD" /\ ~Whole
    <2> DEFINE k == headpos + 5
    <2>1. /\ headpos \in Nat /\ body \in Nat /\ body = place + headpos + 5
          /\ body <= place + truepacketlen /\ copied = body + getdatalen
      BY <1>5, CollectNumbers
    <2>2. thread_packetdata = Piece(stream, body, copied)
      BY <1>5, <2>1 DEF IInv, CollectInv
    <2>3. k \in Nat /\ k <= truepacketlen /\ 0 <= k /\ body = place + k /\ place + 0 = place
      BY <1>1, <1>2, <2>1
    <2>4. Held = SubSeq(thread_readdata, 1, headpos + 1 + HEADLEN) \o thread_packetdata
      BY <1>5 DEF Held
    <2>5. SubSeq(thread_readdata, 1, headpos + 1 + HEADLEN) = Piece(thread_readdata, 0, k)
      <3>1. headpos + 1 + HEADLEN = k /\ 0 + 1 = 1
        BY <1>1, <2>1
      <3> QED
        BY <3>1 DEF Piece
    <2> HIDE DEF k
    <2>6. Piece(thread_readdata, 0, k) = Piece(stream, place + 0, place + k)
      <3>1. 0 \in Nat /\ 0 <= truepacketlen
        BY <1>1
      <3> QED
        BY <2>3, <3>1, RestOfRead
    <2>7. Held = Piece(stream, place, body) \o Piece(stream, body, copied)
      BY <2>2, <2>3, <2>4, <2>5, <2>6
    <2>8. place <= body /\ body <= copied /\ copied <= Len(stream)
      BY <1>1, <1>2, <2>1
    <2>9. Held = Piece(stream, place, copied)
      BY <1>1, <1>2, <2>1, <2>7, <2>8, PieceCat
    <2> QED
      BY <1>2, <1>3, <2>9
  <1> QED
    BY <1>1, <1>4, <1>5 DEF ParserTypes

\* No byte of the stream is lost, repeated or moved between the two buffers.
THEOREM StreamKept == Spec => []HeldInStream
  <1>1. ASSUME IInv PROVE HeldInStream
    <2> DEFINE h == Held
               a == place
    <2>1. /\ stream \in Seq(Byte) /\ copied \in Nat /\ copied <= Len(stream) /\ Len(stream) \in Nat
          /\ a \in Nat /\ a <= copied /\ h = Piece(stream, a, copied)
      <3>1. /\ ParserTypes /\ Len(stream) \in Nat /\ given \in Nat /\ given <= Len(stream)
            /\ copied \in Nat /\ copied <= given
        BY <1>1, Numbers DEF IInv
      <3> QED
        BY <1>1, <3>1, HeldPiece DEF ParserTypes
    <2> HIDE DEF a
    <2>2. /\ Len(Piece(stream, a, copied)) = copied - a
          /\ \A i \in 1..copied - a : Piece(stream, a, copied)[i] = stream[a + i]
      BY <2>1, PieceFacts
    <2>3. Len(h) = copied - a /\ \A i \in 1..copied - a : h[i] = stream[a + i]
      BY <2>1, <2>2
    <2> HIDE DEF h
    <2>4. Len(h) <= copied /\ copied - Len(h) = a
      BY <2>1, <2>3
    <2>5. \A i \in 1..Len(h) : h[i] = stream[copied - Len(h) + i]
      BY <2>3, <2>4
    <2> QED
      BY <2>4, <2>5 DEF HeldInStream, h
  <1> QED
    BY <1>1, Inductive, PTL

(***************************************************************************)
(* Refinement: what is undecided is the piece from place on, and each      *)
(* round cuts from its front what PacketFramer allows.                     *)
(***************************************************************************)
UndecidedInStream == Undecided = Piece(stream, place, given)

\* The bytes of PacketFramer, in the buffers and still outside of them.
LEMMA UndecidedPiece == IInv => UndecidedInStream
  <1> SUFFICES ASSUME IInv PROVE UndecidedInStream
    OBVIOUS
  <1>1. /\ stream \in Seq(Byte) /\ given \in Nat /\ copied \in Nat
        /\ given <= Len(stream) /\ copied <= given
    BY Numbers DEF IInv, ParserTypes
  <1>2. Held = Piece(stream, place, copied) /\ place \in Nat /\ place <= copied
    BY HeldPiece
  <1>3. Undecided = Piece(stream, place, copied) \o Piece(stream, copied, given)
    BY <1>2 DEF Undecided, Piece
  <1> QED
    BY <1>1, <1>2, <1>3, PieceCat DEF UndecidedInStream

\* The same after a step.
LEMMA UndecidedNext == IInv' => UndecidedInStream'
  BY UndecidedPiece, PTL

\* The format is the one of the instance.
LEMMA SameFormat ==
    ASSUME NEW s, NEW i
    PROVE  /\ Framer!Hopeless(s, i) <=> Hopeless(s, i)
           /\ Framer!IsPacket(s, i) <=> IsPacket(s, i)
           /\ Framer!EndAt(s, i) = EndAt(s, i)
           /\ Framer!DataAt(s, i) = DataAt(s, i)
  <1>1. Framer!HeaderAt(s, i) = HeaderAt(s, i) /\ Framer!HEADLEN = HEADLEN
    BY DEF Framer!HeaderAt, HeaderAt, Framer!CharToNetPacket, CharToNetPacket,
           Framer!HEADLEN, HEADLEN
  <1>2. /\ Framer!EndAt(s, i) = EndAt(s, i)
        /\ Framer!DataAt(s, i) = DataAt(s, i)
    BY <1>1 DEF Framer!EndAt, EndAt, Framer!DataAt, DataAt
  <1>3. Framer!HasHeader(s, i) <=> HasHeader(s, i)
    BY <1>1 DEF Framer!HasHeader, HasHeader
  <1>4. Framer!LegalHeader(HeaderAt(s, i)) <=> LegalHeader(HeaderAt(s, i))
    BY DEF Framer!LegalHeader, LegalHeader
  <1>5. Framer!Complete(s, i) <=> Complete(s, i)
    BY <1>1, <1>2, <1>3, <1>4 DEF Framer!Complete, Complete
  <1>6. Framer!CheckOf(DataAt(s, i)) = CheckOf(DataAt(s, i))
    BY DEF Framer!CheckOf, CheckOf
  <1>7. Framer!IsPacket(s, i) <=> IsPacket(s, i)
    BY <1>1, <1>2, <1>5, <1>6 DEF Framer!IsPacket, IsPacket
  <1>8. Framer!Hopeless(s, i) <=> Hopeless(s, i)
    BY <1>1, <1>3, <1>4, <1>5, <1>7 DEF Framer!Hopeless, Hopeless
  <1> QED
    BY <1>2, <1>7, <1>8

\* Bytes and pieces of what is undecided are bytes and pieces of the stream.
LEMMA UndecidedFacts ==
    ASSUME IInv
    PROVE  LET u == Undecided
               n == given - place
           IN  /\ place \in Nat /\ n \in Nat /\ u \in Seq(Byte) /\ Len(u) = n
               /\ \A i \in 1..n : u[i] = stream[place + i]
               /\ \A i, j \in Nat : i <= j /\ j <= n =>
                     Piece(u, i, j) = Piece(stream, place + i, place + j)
  <1> DEFINE u == Undecided
             n == given - place
             a == place
             b == given
  <1>1. /\ stream \in Seq(Byte) /\ b \in Nat /\ copied \in Nat /\ Len(stream) \in Nat
        /\ b <= Len(stream) /\ copied <= b
    BY Numbers DEF IInv, ParserTypes
  <1>2. u = Piece(stream, a, b) /\ a \in Nat /\ a <= copied
    BY UndecidedPiece, HeldPiece DEF UndecidedInStream
  <1>3. a <= b /\ n \in Nat /\ n = b - a
    BY <1>1, <1>2
  <1> HIDE DEF u, n, a, b
  <1>4. /\ Piece(stream, a, b) \in Seq(Byte) /\ Len(Piece(stream, a, b)) = b - a
        /\ \A i \in 1..b - a : Piece(stream, a, b)[i] = stream[a + i]
    BY <1>1, <1>2, <1>3, PieceFacts
  <1>5. \A i, j \in Nat : i <= j /\ j <= n => Piece(u, i, j) = Piece(stream, a + i, a + j)
    BY <1>1, <1>2, <1>3, PieceSub
  <1>6. u \in Seq(Byte) /\ Len(u) = n /\ \A i \in 1..n : u[i] = stream[a + i]
    BY <1>2, <1>3, <1>4
  <1> QED
    BY <1>2, <1>3, <1>5, <1>6 DEF u, n, a, b

\* A step that moves place by k takes k bytes from the front.
LEMMA CutStep ==
    ASSUME IInv, IInv', stream' = stream, given' = given, NEW k \in Nat, place' = place + k
    PROVE  k <= Len(Undecided) /\ Undecided' = SubSeq(Undecided, k + 1, Len(Undecided))
  <1> DEFINE u == Undecided
             n == given - place
  <1>1. /\ place \in Nat /\ n \in Nat /\ u \in Seq(Byte) /\ Len(u) = n
        /\ \A i, j \in Nat : i <= j /\ j <= n =>
              Piece(u, i, j) = Piece(stream, place + i, place + j)
    BY UndecidedFacts
  <1>2. given \in Nat /\ copied' \in Nat /\ copied' <= given
    <2>1. given \in Nat
      BY Numbers DEF IInv
    <2>2. given' \in Nat /\ Len(stream') \in Nat /\ copied' \in 0..given'
      <3>1. Len(stream) \in Nat
        BY Numbers DEF IInv
      <3> QED
        BY <2>1, <3>1 DEF IInv, ParserTypes
    <2> QED
      BY <2>1, <2>2
  <1>3. place' <= copied'
    <2>1. place' + truepacketlen' <= copied' /\ place' \in Nat /\ thread_readdata' \in Seq(Byte)
      BY DEF IInv, ReadInv, ParserTypes
    <2>2. truepacketlen' \in Nat
      BY <2>1, LenProperties DEF truepacketlen
    <2> QED
      BY <1>2, <2>1, <2>2
  <1>4. k <= n /\ place + n = given
    BY <1>1, <1>2, <1>3
  <1>5. Undecided' = Piece(stream', place', given')
    BY UndecidedNext DEF UndecidedInStream
  <1>6. Piece(u, k, n) = Piece(stream, place + k, place + n)
    <2> HIDE DEF u, n
    <2>1. n \in Nat /\ k <= n
      BY <1>1, <1>4
    <2> QED
      BY <1>1, <2>1
  <1>7. Undecided' = Piece(u, k, n)
    <2>1. Piece(stream', place', given') = Piece(stream, place + k, place + n)
      BY <1>4
    <2> QED
      BY <1>5, <1>6, <2>1
  <1> HIDE DEF n
  <1> QED
    BY <1>1, <1>4, <1>7 DEF Piece

\* A round gives up the first k undecided bytes, ...
GaveUp(k) ==
    /\ stream' = stream /\ given' = given /\ delivered' = delivered
    /\ place' = place + k
    /\ \A i \in 1..k : Hopeless(Undecided, i)

\* ... or delivers the packet that begins with the n-th.
Delivered(n) ==
    /\ stream' = stream /\ given' = given
    /\ \A i \in 1..n - 1 : Hopeless(Undecided, i)
    /\ IsPacket(Undecided, n)
    /\ place' = place + EndAt(Undecided, n) /\ EndAt(Undecided, n) \in Nat
    /\ delivered' = Append(delivered, DataAt(Undecided, n))

\* The mapping of a round that delivers nothing.
LEMMA GiveUpMaps ==
    ASSUME IInv, IInv', NEW k \in Nat, GaveUp(k)
    PROVE  [Framer!FramerNext]_<<Undecided, delivered>>
  <1> DEFINE u == Undecided
  <1>1. k <= Len(u) /\ Undecided' = SubSeq(u, k + 1, Len(u))
    BY CutStep DEF GaveUp
  <1>2. u \in Seq(Byte) /\ Len(u) \in Nat
    BY UndecidedFacts, LenProperties
  <1>3. CASE k = 0
    <2>1. SubSeq(u, 1, Len(u)) = u
      BY <1>2, SubSeqFull
    <2>2. Undecided' = u
      <3>1. k + 1 = 1
        BY <1>3
      <3> QED
        BY <1>1, <2>1, <3>1
    <2> QED
      BY <2>2 DEF GaveUp
  <1>4. CASE k # 0
    <2>1. k \in 1..Len(u)
      BY <1>1, <1>2, <1>4
    <2>2. \A i \in 1..k : Framer!Hopeless(u, i)
      BY SameFormat DEF GaveUp
    <2>3. Undecided' = Framer!Rest(u, k)
      BY <1>1 DEF Framer!Rest
    <2>4. Framer!GiveUp
      BY <2>1, <2>2, <2>3 DEF Framer!GiveUp, GaveUp
    <2> QED
      BY <2>4 DEF Framer!FramerNext
  <1> QED
    BY <1>3, <1>4

\* What begins at the first HEAD while a packet is there to its tail.
LEMMA PacketAtHead ==
    ASSUME IInv, DataComplete
    PROVE  LET u == Undecided
               n == headpos + 1
           IN  /\ headpos \in Nat
               /\ \A i \in 1..headpos : Hopeless(u, i)
               /\ Complete(u, n)
               /\ IsPacket(u, n) <=> Good
               /\ DataAt(u, n) = Piece(stream, body, body + theNexPacket.datalen)
               /\ EndAt(u, n) = headpos + 5 + Need
  <1> DEFINE u == Undecided
             n == headpos + 1
             l == given - place
             d == theNexPacket.datalen
             e == headpos + 5 + Need
  <1>1. parsetype = "PARSE_HEAD"
    BY DEF DataComplete
  <1>2. /\ place \in Nat /\ headpos \in Nat /\ body \in Nat /\ body = place + headpos + 5
    BY <1>1, CollectNumbers
  <1>3. /\ HEADLEN = 4 /\ Need \in Nat /\ d \in Nat /\ Need = d + 1 /\ given \in Nat
    BY Numbers DEF IInv
  <1>4. /\ Collected = Piece(stream, body, body + Need) /\ Collected \in Seq(Byte)
        /\ Len(Collected) = Need /\ body + Need <= given /\ body + Need <= Len(stream)
    BY CollectedFacts
  <1>5. /\ l \in Nat /\ u \in Seq(Byte) /\ Len(u) = l
        /\ \A i \in 1..l : u[i] = stream[place + i]
        /\ \A i, j \in Nat : i <= j /\ j <= l =>
              Piece(u, i, j) = Piece(stream, place + i, place + j)
    BY UndecidedFacts
  <1>6. /\ stream[place + headpos + 1] = HEAD
        /\ \A i \in 1..headpos : stream[place + i] # HEAD
        /\ theNexPacket = CharToNetPacket(Piece(stream, place + headpos + 1, body))
        /\ LegalHeader(theNexPacket)
    BY <1>1 DEF IInv, CollectInv
  <1>7. /\ n \in Nat /\ n + 4 \in Nat /\ e \in Nat /\ n + 4 + d \in Nat
        /\ n + 4 <= e /\ n + 4 + d <= e /\ e = n + 4 + d + 1
    BY <1>2, <1>3
  <1>8. e <= l /\ place + e = body + Need /\ place + (n + 4) = body
        /\ place + n = place + headpos + 1 /\ place + (n + 4 + d) = body + d
    <2>1. given - place >= headpos + 5 + Need
      BY <1>2, <1>3, <1>4
    <2>2. place + (headpos + 5 + Need) = body + Need
      <3>1. place \in Nat /\ headpos \in Nat /\ Need \in Nat
        BY <1>2, <1>3
      <3>2. place + (headpos + 5 + Need) = place + headpos + 5 + Need
        BY <3>1
      <3> QED
        BY <1>2, <3>2
    <2>3. place + (n + 4) = body /\ place + n = place + headpos + 1
      BY <1>2
    <2>4. place + (n + 4 + d) = body + d
      <3> DEFINE m == n + 4
      <3>1. m \in Nat /\ place + m = body /\ place \in Nat /\ d \in Nat
        BY <1>2, <1>3, <2>3
      <3> HIDE DEF m, d
      <3>2. place + (m + d) = body + d
        BY <3>1
      <3> QED
        BY <3>2 DEF m
    <2> QED
      BY <2>1, <2>2, <2>3, <2>4
  <1> HIDE DEF u, l, n, d, e
  <1>9. \A i \in 1..headpos : Hopeless(u, i)
    <2> SUFFICES ASSUME NEW i \in 1..headpos PROVE Hopeless(u, i)
      OBVIOUS
    <2>1. i \in 1..l
      BY <1>2, <1>3, <1>5, <1>8, <1>7 DEF e
    <2>2. u[i] # HEAD
      BY <1>5, <1>6, <2>1
    <2> QED
      BY <2>2 DEF Hopeless
  <1>10. u[n] = HEAD
    <2>1. n \in 1..l
      BY <1>2, <1>5, <1>7, <1>8 DEF n
    <2> QED
      BY <1>5, <1>6, <1>8, <2>1
  <1>11. HeaderAt(u, n) = theNexPacket
    <2>1. n <= n + 4 /\ n + 4 <= l
      BY <1>5, <1>7, <1>8
    <2>2. Piece(u, n, n + 4) = Piece(stream, place + n, place + (n + 4))
      BY <1>5, <1>7, <2>1
    <2>3. Piece(u, n, n + 4) = Piece(stream, place + headpos + 1, body)
      BY <1>8, <2>2
    <2>4. HeaderAt(u, n) = CharToNetPacket(Piece(u, n, n + 4))
      BY <1>3 DEF HeaderAt, Piece
    <2> QED
      BY <1>6, <2>3, <2>4
  <1>12. EndAt(u, n) = e
    BY <1>3, <1>7, <1>11 DEF EndAt, d
  <1>13. DataAt(u, n) = Piece(stream, body, body + d)
    <2>1. n + 4 <= n + 4 + d /\ n + 4 + d <= l
      BY <1>3, <1>5, <1>7, <1>8
    <2>2. Piece(u, n + 4, n + 4 + d) = Piece(stream, place + (n + 4), place + (n + 4 + d))
      BY <1>5, <1>7, <2>1
    <2>3. DataAt(u, n) = Piece(u, n + 4, n + 4 + d)
      BY <1>3, <1>11 DEF DataAt, Piece, d
    <2> QED
      BY <1>8, <2>2, <2>3
  <1>14. Complete(u, n)
    <2>1. n + HEADLEN <= Len(u) /\ e <= Len(u)
      BY <1>3, <1>5, <1>7, <1>8
    <2> QED
      BY <1>6, <1>10, <1>11, <1>12, <2>1 DEF Complete, HasHeader
  <1>15. Collected[Need] = u[e]
    <2> DEFINE b == body + Need
    <2>1. body \in Nat /\ b \in Nat /\ body <= b /\ b <= Len(stream) /\ b - body = Need
          /\ Need \in 1..Need /\ stream \in Seq(Byte) /\ body + Need = place + e
      BY <1>2, <1>3, <1>4, <1>8 DEF IInv, ParserTypes
    <2> HIDE DEF b
    <2>2. \A i \in 1..b - body : Piece(stream, body, b)[i] = stream[body + i]
      BY <2>1, PieceFacts
    <2>3. Collected[Need] = stream[body + Need]
      BY <1>4, <2>1, <2>2 DEF b
    <2>4. e \in 1..l
      BY <1>3, <1>5, <1>7, <1>8
    <2> QED
      BY <1>5, <2>1, <2>3, <2>4
  <1>16. SubSeq(Collected, 1, d) = Piece(stream, body, body + d)
    <2> DEFINE b == body + Need
    <2>1. /\ body \in Nat /\ b \in Nat /\ body <= b /\ b <= Len(stream) /\ d <= b - body
          /\ stream \in Seq(Byte) /\ 0 <= d /\ body + 0 = body
      BY <1>2, <1>3, <1>4 DEF IInv, ParserTypes
    <2>2. SubSeq(Collected, 1, d) = Piece(Collected, 0, d)
      <3>1. 0 + 1 = 1
        OBVIOUS
      <3> QED
        BY <3>1 DEF Piece
    <2>3. Collected = Piece(stream, body, b)
      BY <1>4
    <2> HIDE DEF b
    <2>4. Piece(Piece(stream, body, b), 0, d) = Piece(stream, body + 0, body + d)
      BY <1>3, <2>1, PieceSub
    <2> QED
      BY <2>1, <2>2, <2>3, <2>4
  <1>17. IsPacket(u, n) <=> Good
    <2>1. Good <=> u[e] = TAIL /\ theNexPacket.check = CheckOf(Piece(stream, body, body + d))
      BY <1>15, <1>16 DEF Good, d
    <2> QED
      BY <1>11, <1>12, <1>13, <1>14, <2>1 DEF IsPacket
  <1> QED
    BY <1>2, <1>9, <1>12, <1>13, <1>14, <1>17 DEF u, n, d, e

\* While a header is searched, what is undecided begins with the filled buffer.
LEMMA FilledInUndecided ==
    ASSUME IInv, Searching
    PROVE  LET u == Undecided
               m == Len(Filled)
           IN  /\ m \in Nat /\ m <= Len(u) /\ Len(u) \in Nat
               /\ \A i \in 1..m : u[i] = Filled[i]
               /\ \A i, j \in Nat : i <= j /\ j <= m =>
                     Piece(u, i, j) = Piece(stream, place + i, place + j)
  <1> DEFINE u == Undecided
             m == Len(Filled)
             n == given - place
  <1>1. /\ m \in Nat /\ copied' = place + m /\ copied' \in copied..given
        /\ \A i \in 1..m : Filled[i] = stream[place + i]
    BY FilledFacts
  <1>2. /\ place \in Nat /\ n \in Nat /\ Len(u) = n
        /\ \A i \in 1..n : u[i] = stream[place + i]
        /\ \A i, j \in Nat : i <= j /\ j <= n =>
              Piece(u, i, j) = Piece(stream, place + i, place + j)
    BY UndecidedFacts
  <1>3. given \in Nat /\ copied \in Nat
    BY Numbers DEF IInv
  <1>4. m <= n
    BY <1>1, <1>2, <1>3
  <1> HIDE DEF u, m, n
  <1>5. \A i \in 1..m : u[i] = Filled[i]
    <2>1. \A i \in 1..m : i \in 1..n
      BY <1>1, <1>2, <1>4
    <2> QED
      BY <1>1, <1>2, <2>1
  <1>6. \A i, j \in Nat : i <= j /\ j <= m =>
           Piece(u, i, j) = Piece(stream, place + i, place + j)
    <2>1. \A j \in Nat : j <= m => j <= n
      BY <1>1, <1>2, <1>4
    <2> QED
      BY <1>2, <2>1
  <1> QED
    BY <1>1, <1>2, <1>4, <1>5, <1>6 DEF u, m

\* At an illegal header no packet begins, nor before it.
LEMMA HeaderIllegalGivesUp ==
    ASSUME IInv, HeaderIllegal
    PROVE  \E k \in Nat : GaveUp(k)
  <1> DEFINE u == Undecided
             m == Len(Filled)
  <1>1. Searching /\ stream' = stream /\ given' = given /\ delivered' = delivered
    BY DEF HeaderIllegal, Searching
  <1>2. PICK pos \in 0..m - 1 :
              /\ place' = place + (pos + 1)
              /\ FirstHead(Filled, pos)
              /\ Len(Filled) - pos - 1 >= HEADLEN
              /\ ~LegalHeader(ReadHeader(pos))
    BY HeaderIllegalStep
  <1>3. /\ m \in Nat /\ m <= Len(u) /\ Len(u) \in Nat
        /\ \A i \in 1..m : u[i] = Filled[i]
        /\ \A i, j \in Nat : i <= j /\ j <= m =>
              Piece(u, i, j) = Piece(stream, place + i, place + j)
    BY <1>1, FilledInUndecided
  <1>4. ReadHeader(pos) = CharToNetPacket(Piece(stream, place + pos + 1, place + pos + 1 + HEADLEN))
    BY <1>1, <1>2, ReadHeaderFacts
  <1>5. HEADLEN = 4 /\ place \in Nat
    BY DEF HEADLEN, IInv, ReadInv
  <1> DEFINE k == pos + 1
  <1>6. /\ k \in Nat /\ k + 4 \in Nat /\ k <= m /\ k + 4 <= m /\ k <= k + 4 /\ k \in 1..m
        /\ place + k = place + pos + 1 /\ place + (k + 4) = place + pos + 1 + HEADLEN
    BY <1>2, <1>3, <1>5
  <1>7. Filled[k] = HEAD /\ \A i \in 1..pos : Filled[i] # HEAD
    BY <1>2 DEF FirstHead
  <1>8. \A i \in 1..k : i = k \/ i \in 1..pos
    BY <1>2, <1>3
  <1>9. place' = place + k
    BY <1>2
  <1> HIDE DEF u, m, k
  <1>10. HeaderAt(u, k) = ReadHeader(pos)
    <2>1. Piece(u, k, k + 4) = Piece(stream, place + k, place + (k + 4))
      BY <1>3, <1>6
    <2>2. HeaderAt(u, k) = CharToNetPacket(Piece(u, k, k + 4))
      BY <1>5 DEF HeaderAt, Piece
    <2> QED
      BY <1>4, <1>6, <2>1, <2>2
  <1>11. Hopeless(u, k)
    <2>1. u[k] = HEAD
      BY <1>3, <1>6, <1>7
    <2>2. k + HEADLEN <= Len(u)
      BY <1>3, <1>5, <1>6
    <2> QED
      BY <1>2, <1>10, <2>1, <2>2 DEF Hopeless, HasHeader
  <1>12. \A i \in 1..k : Hopeless(u, i)
    <2> SUFFICES ASSUME NEW i \in 1..k PROVE Hopeless(u, i)
      OBVIOUS
    <2>1. CASE i = k
      BY <1>11, <2>1
    <2>2. CASE i \in 1..pos
      <3>1. i \in 1..m
        BY <1>3, <1>6
      <3>2. u[i] # HEAD
        BY <1>3, <1>7, <2>2, <3>1
      <3> QED
        BY <3>2 DEF Hopeless
    <2> QED
      BY <1>8, <2>1, <2>2
  <1> QED
    BY <1>1, <1>6, <1>9, <1>12 DEF GaveUp, u

\* A packet whose tail or check is wrong is no packet, nor is one before it.
LEMMA SearchAgainGivesUp ==
    ASSUME IInv, SearchAgain
    PROVE  \E k \in Nat : GaveUp(k)
  <1> DEFINE u == Undecided
             n == headpos + 1
  <1>1. /\ DataComplete /\ ~Good /\ stream' = stream /\ given' = given
        /\ delivered' = delivered
    BY DEF SearchAgain, DataComplete
  <1>2. place' = place + n
    BY SearchAgainStep
  <1>3. /\ headpos \in Nat
        /\ \A i \in 1..headpos : Hopeless(u, i)
        /\ Complete(u, n) /\ ~IsPacket(u, n)
    BY <1>1, PacketAtHead
  <1>4. n \in Nat /\ \A i \in 1..n : i = n \/ i \in 1..headpos
    BY <1>3
  <1>5. Hopeless(u, n)
    BY <1>3 DEF Hopeless
  <1> HIDE DEF u, n
  <1>6. \A i \in 1..n : Hopeless(u, i)
    BY <1>3, <1>4, <1>5
  <1> QED
    BY <1>1, <1>2, <1>4, <1>6 DEF GaveUp, u

\* A call appends what it was given.
LEMMA recvdataMaps ==
    ASSUME IInv, recvdata
    PROVE  Framer!Receive
  <1> DEFINE a == place
             b == given
             c == given'
  <1>1. IInv' /\ place' = a /\ c \in b + 1..Len(stream) /\ stream' = stream
        /\ delivered' = delivered
    BY recvdataStep
  <1>2. a \in Nat /\ b \in Nat /\ Len(stream) \in Nat /\ b - a \in Nat /\ stream \in Seq(Byte)
    BY UndecidedFacts, Numbers DEF IInv, ParserTypes
  <1>3. c \in Nat /\ c > b /\ c <= Len(stream) /\ a <= b /\ a <= c /\ b <= Len(stream)
        /\ 0 <= b - a /\ b - a <= c - a /\ a + 0 = a /\ a + (b - a) = b
    <2>1. c \in b + 1..Len(stream)
      BY <1>1
    <2>2. a \in Nat /\ b \in Nat /\ Len(stream) \in Nat /\ b - a \in Nat
      BY <1>2
    <2> DEFINE l == Len(stream)
    <2> HIDE DEF a, b, c, l
    <2>3. c \in Nat /\ c > b /\ c <= l /\ b <= l
      BY <2>1, <2>2 DEF l
    <2>4. a <= b /\ 0 <= b - a /\ a + 0 = a /\ a + (b - a) = b
      BY <2>2
    <2>5. a <= c /\ b - a <= c - a
      BY <2>2, <2>3, <2>4
    <2> QED
      BY <2>3, <2>4, <2>5 DEF l
  <1>4. Undecided = Piece(stream, a, b)
    BY UndecidedPiece DEF UndecidedInStream
  <1>5. Undecided' = Piece(stream, a, c)
    BY <1>1, UndecidedNext DEF UndecidedInStream
  <1> HIDE DEF a, b, c
  <1>6. Len(Piece(stream, a, b)) = b - a /\ Len(Piece(stream, a, c)) = c - a
    BY <1>2, <1>3, PieceFacts
  <1>7. Len(Undecided') > Len(Undecided)
    BY <1>2, <1>3, <1>4, <1>5, <1>6
  <1>8. SubSeq(Undecided', 1, Len(Undecided)) = Undecided
    <2>1. SubSeq(Piece(stream, a, c), 1, b - a) = Piece(Piece(stream, a, c), 0, b - a)
      <3>1. 0 + 1 = 1
        OBVIOUS
      <3> QED
        BY <3>1 DEF Piece
    <2>2. Piece(Piece(stream, a, c), 0, b - a) = Piece(stream, a + 0, a + (b - a))
      <3> DEFINE m == b - a
      <3>1. m \in Nat /\ 0 <= m /\ m <= c - a
        BY <1>2, <1>3
      <3> HIDE DEF m
      <3>2. Piece(Piece(stream, a, c), 0, m) = Piece(stream, a + 0, a + m)
        BY <1>2, <1>3, <3>1, PieceSub
      <3> QED
        BY <3>2 DEF m
    <2> QED
      BY <1>3, <1>4, <1>5, <1>6, <2>1, <2>2
  <1> QED
    BY <1>1, <1>7, <1>8 DEF Framer!Receive

\* A packet that is delivered is one that begins at the first HEAD.
LEMMA CallBackDelivers ==
    ASSUME IInv, CallBack
    PROVE  Delivered(headpos + 1) /\ headpos + 1 \in Nat \ {0}
  <1> DEFINE u == Undecided
             n == headpos + 1
             k == headpos + 5 + Need
             d == Piece(stream, body, body + theNexPacket.datalen)
  <1>1. DataComplete /\ Good /\ parsetype = "PARSE_HEAD" /\ stream' = stream /\ given' = given
    BY DEF CallBack, DataComplete
  <1>2. IInv' /\ place' = body + Need /\ delivered' = Append(delivered, d)
    BY CallBackStep
  <1>3. /\ headpos \in Nat
        /\ \A i \in 1..headpos : Hopeless(u, i)
        /\ IsPacket(u, n) /\ DataAt(u, n) = d /\ EndAt(u, n) = k
    BY <1>1, PacketAtHead
  <1>4. place \in Nat /\ body = place + headpos + 5 /\ Need \in Nat /\ k \in Nat
    <2>1. place \in Nat /\ body = place + headpos + 5
      BY <1>1, CollectNumbers
    <2>2. Need \in Nat
      BY Numbers DEF IInv
    <2>3. k \in Nat
      BY <1>3, <2>2
    <2> QED
      BY <2>1, <2>2, <2>3
  <1>5. place' = place + k
    <2>1. place \in Nat /\ headpos \in Nat /\ Need \in Nat
      BY <1>3, <1>4
    <2>2. place + headpos + 5 + Need = place + (headpos + 5 + Need)
      BY <2>1
    <2> QED
      BY <1>2, <1>4, <2>2
  <1>6. n \in Nat \ {0} /\ n - 1 = headpos
    BY <1>3
  <1>7. delivered' = Append(delivered, DataAt(u, n))
    BY <1>2, <1>3
  <1>8. place' = place + EndAt(u, n) /\ EndAt(u, n) \in Nat
    BY <1>3, <1>4, <1>5
  <1> HIDE DEF n, k, d
  <1> QED
    BY <1>1, <1>3, <1>6, <1>7, <1>8 DEF Delivered, u, n

\* The mapping of a round that delivers a packet.
LEMMA DeliverMaps ==
    ASSUME IInv, IInv', NEW n \in Nat \ {0}, Delivered(n)
    PROVE  Framer!Deliver
  <1> DEFINE u == Undecided
             k == EndAt(u, n)
  <1>1. k \in Nat /\ place' = place + k /\ stream' = stream /\ given' = given
    BY DEF Delivered
  <1>2. k <= Len(u) /\ Undecided' = SubSeq(u, k + 1, Len(u))
    <2> HIDE DEF k
    <2> QED
      BY <1>1, CutStep
  <1>3. n \in 1..Len(u)
    <2>1. Len(u) \in Nat /\ u \in Seq(Byte)
      BY UndecidedFacts, LenProperties
    <2>2. n + HEADLEN <= Len(u)
      BY DEF Delivered, IsPacket, Complete, HasHeader
    <2> QED
      BY <2>1, <2>2 DEF HEADLEN
  <1> HIDE DEF u, k
  <1>4. \A i \in 1..n - 1 : Framer!Hopeless(u, i)
    BY SameFormat DEF Delivered, u
  <1>5. Undecided' = Framer!Rest(u, Framer!EndAt(u, n))
    BY <1>2, SameFormat DEF Framer!Rest, k
  <1>6. Framer!IsPacket(u, n) /\ delivered' = Append(delivered, Framer!DataAt(u, n))
    BY SameFormat DEF Delivered, u
  <1> QED
    BY <1>3, <1>4, <1>5, <1>6 DEF Framer!Deliver, u

\* What a step does: it brings more bytes, gives some up or delivers a packet.
LEMMA StepKinds ==
    ASSUME IInv, [Next]_vars
    PROVE  recvdata \/ (\E k \in Nat : GaveUp(k)) \/ \E n \in Nat \ {0} : Delivered(n)
  <1> DEFINE m == Len(Filled)
  <1>1. ASSUME stream' = stream, given' = given, delivered' = delivered, place' = place
        PROVE  GaveUp(0)
    <2>1. place' = place + 0
      BY <1>1 DEF IInv, ReadInv
    <2> QED
      BY <1>1, <2>1 DEF GaveUp
  <1>2. ASSUME Searching, NEW k \in 0..m, place' = place + k,
               \A i \in 1..k : Filled[i] # HEAD
        PROVE  k \in Nat /\ GaveUp(k)
    <2>1. stream' = stream /\ given' = given /\ delivered' = delivered
      BY <1>2 DEF Searching
    <2>2. m \in Nat /\ k \in Nat
      BY <1>2, FilledFacts
    <2>3. \A i \in 1..k : Undecided[i] = Filled[i]
      BY <1>2, FilledInUndecided
    <2>4. \A i \in 1..k : Hopeless(Undecided, i)
      BY <1>2, <2>3 DEF Hopeless
    <2> QED
      BY <1>2, <2>1, <2>2, <2>4 DEF GaveUp
  <1>3. CASE NoHead
    <2>1. Searching /\ place' = place + m /\ m \in Nat
      BY <1>3, NoHeadStep, FilledFacts DEF NoHead
    <2>2. m \in 0..m /\ \A i \in 1..m : Filled[i] # HEAD
      BY <1>3, <2>1 DEF NoHead
    <2> QED
      BY <1>2, <2>1, <2>2
  <1>4. CASE HeaderIncomplete
    <2>1. Searching
      BY <1>4 DEF HeaderIncomplete
    <2>2. PICK k \in 0..m : place' = place + k /\ \A i \in 1..k : Filled[i] # HEAD
      BY <1>4, HeaderIncompleteStep
    <2> QED
      BY <1>2, <2>1, <2>2
  <1>5. CASE HeaderIllegal
    BY <1>5, HeaderIllegalGivesUp
  <1>6. CASE HeaderLegal
    <2>1. stream' = stream /\ delivered' = delivered
      BY <1>6 DEF HeaderLegal, Searching
    <2> QED
      BY <1>1, <1>6, <2>1, HeaderLegalStep
  <1>7. CASE DataIncomplete
    <2>1. stream' = stream /\ delivered' = delivered
      BY <1>7 DEF DataIncomplete
    <2> QED
      BY <1>1, <1>7, <2>1, DataIncompleteStep
  <1>8. CASE SearchAgain
    BY <1>8, SearchAgainGivesUp
  <1>9. CASE CallBack
    BY <1>9, CallBackDelivers
  <1>10. CASE Return \/ NewConnection \/ UNCHANGED vars
    BY <1>1, <1>10, SilentStep
  <1>11. CASE HeaderOverlong
    <2>1. stream' = stream /\ given' = given /\ delivered' = delivered
      BY <1>11 DEF HeaderOverlong, Searching
    <2> QED
      BY <1>1, <1>11, <2>1, HeaderOverlongStep
  <1> QED
    BY <1>3, <1>4, <1>5, <1>6, <1>7, <1>8, <1>9, <1>10, <1>11 DEF Next, Round

\* However the stream is cut, recvdata reads it once from left to right, gives
\* up only bytes at which no packet begins and delivers each packet that begins
\* where it stands: every step is a step of PacketFramer.
THEOREM FramerImplemented == Spec => ImplementsFramer
  <1>1. Init => Framer!FramerInit
    <2> SUFFICES ASSUME Init PROVE Undecided = <<>> /\ delivered = <<>>
      BY DEF Framer!FramerInit
    <2>1. IInv
      BY InitInv
    <2>2. place \in Nat /\ given = 0 /\ given - place \in Nat
      BY <2>1, UndecidedFacts DEF Init
    <2>3. place = 0
      BY <2>2
    <2>4. Piece(stream, 0, 0) = <<>>
      BY SubSeqEmpty DEF Piece
    <2> QED
      BY <2>1, <2>2, <2>3, <2>4, UndecidedPiece DEF Init, UndecidedInStream
  <1>2. ASSUME IInv, IInv', [Next]_vars
        PROVE  [Framer!FramerNext]_<<Undecided, delivered>>
    <2>1. CASE recvdata
      BY <1>2, <2>1, recvdataMaps DEF Framer!FramerNext
    <2>2. CASE \E k \in Nat : GaveUp(k)
      BY <1>2, <2>2, GiveUpMaps
    <2>3. CASE \E n \in Nat \ {0} : Delivered(n)
      BY <1>2, <2>3, DeliverMaps DEF Framer!FramerNext
    <2> QED
      BY <1>2, <2>1, <2>2, <2>3, StepKinds
  <1> QED
    BY <1>1, <1>2, Inductive, PTL DEF Spec, ImplementsFramer, Framer!FramerSpec

(***************************************************************************)
(* The packets of a string.  PacketsFrom is defined by recursion on what   *)
(* is left of it, so that what holds of it is proved by induction on that. *)
(***************************************************************************)
\* The bytes of a complete packet are there, and its data are bytes.
LEMMA CompleteFacts ==
    ASSUME NEW s \in Seq(Byte), NEW i \in 1..Len(s), Complete(s, i)
    PROVE  /\ EndAt(s, i) \in i + 5..Len(s) /\ EndAt(s, i) + 1 \in i + 1..Len(s) + 1
           /\ DataAt(s, i) \in Seq(Byte) /\ Len(DataAt(s, i)) = HeaderAt(s, i).datalen
  <1> DEFINE n == Len(s)
             d == HeaderAt(s, i).datalen
  <1>1. n \in Nat /\ HEADLEN = 4
    BY LenProperties DEF HEADLEN
  <1>2. i + 4 <= n /\ EndAt(s, i) <= n
    BY <1>1 DEF Complete, HasHeader
  <1>3. d \in Nat
    <2> DEFINE j == i + 4
    <2>1. i \in Nat /\ j \in Nat /\ j <= Len(s) /\ i <= j /\ j - i = HEADLEN
      BY <1>1, <1>2
    <2>2. HeaderAt(s, i) = CharToNetPacket(Piece(s, i, j))
      BY <1>1 DEF HeaderAt, Piece
    <2> HIDE DEF j, n
    <2>3. Piece(s, i, j) \in Seq(Byte) /\ Len(Piece(s, i, j)) = HEADLEN
      BY <2>1, PieceFacts
    <2> QED
      BY <2>2, <2>3, HeaderType
  <1>4. EndAt(s, i) = i + 4 + d + 1
    BY <1>1 DEF EndAt
  <1> DEFINE a == i + 4
             b == i + 4 + d
  <1>5. DataAt(s, i) = Piece(s, a, b)
    BY <1>1 DEF DataAt, Piece
  <1> HIDE DEF d
  <1>6. a \in Nat /\ b \in Nat /\ a <= b /\ b <= n /\ b - a = d
    BY <1>1, <1>2, <1>3, <1>4
  <1> HIDE DEF a, b, n
  <1>7. Piece(s, a, b) \in Seq(Byte) /\ Len(Piece(s, a, b)) = d
    BY <1>6, PieceFacts DEF n
  <1>8. EndAt(s, i) \in i + 5..n /\ EndAt(s, i) + 1 \in i + 1..n + 1
    BY <1>1, <1>2, <1>3, <1>4
  <1> QED
    BY <1>5, <1>7, <1>8 DEF n, d

\* The packets from place i on, when f has those from the places behind it.
FromPlace(s, f, i) ==
    IF i = Len(s) + 1 THEN <<>>
    ELSE IF Hopeless(s, i) THEN f[i + 1]
    ELSE IF Complete(s, i) THEN <<DataAt(s, i)>> \o f[EndAt(s, i) + 1]
    ELSE <<>>

\* f has the packets from each place on, the first of which is a.
Parses(s, a, f) == f = [i \in a..Len(s) + 1 |-> FromPlace(s, f, i)]

\* Only the places behind i matter.
LEMMA FromPlaceAgree ==
    ASSUME NEW s \in Seq(Byte), NEW i \in 1..Len(s) + 1, NEW f, NEW g,
           \A j \in i + 1..Len(s) + 1 : f[j] = g[j]
    PROVE  FromPlace(s, f, i) = FromPlace(s, g, i)
  <1>1. Len(s) \in Nat
    BY LenProperties
  <1>2. CASE i = Len(s) + 1
    BY <1>2 DEF FromPlace
  <1>3. CASE i \in 1..Len(s)
    <2>1. i + 1 \in i + 1..Len(s) + 1
      BY <1>1, <1>3
    <2>2. f[i + 1] = g[i + 1]
      BY <2>1
    <2>3. Complete(s, i) => f[EndAt(s, i) + 1] = g[EndAt(s, i) + 1]
      BY <1>3, CompleteFacts
    <2> QED
      BY <2>2, <2>3 DEF FromPlace
  <1> QED
    BY <1>1, <1>2, <1>3

\* There is such a function from each place on.
LEMMA PacketsExist ==
    ASSUME NEW s \in Seq(Byte)
    PROVE  \E f : Parses(s, 1, f)
  <1> DEFINE n == Len(s)
             S == {k \in Nat : k <= n => \E f : Parses(s, n + 1 - k, f)}
  <1>1. n \in Nat
    BY LenProperties
  <1>2. 0 \in S
    <2> DEFINE f == [i \in n + 1..n + 1 |-> <<>>]
    <2>1. Parses(s, n + 1, f)
      <3>1. \A i \in n + 1..n + 1 : FromPlace(s, f, i) = <<>>
        <4>1. \A i \in n + 1..n + 1 : i = n + 1
          BY <1>1
        <4> QED
          BY <4>1 DEF FromPlace
      <3>2. f = [i \in n + 1..n + 1 |-> FromPlace(s, f, i)]
        BY <3>1
      <3> HIDE DEF f
      <3> QED
        BY <3>2 DEF Parses
    <2>2. n + 1 - 0 = n + 1
      BY <1>1
    <2> HIDE DEF f, n
    <2> QED
      BY <2>1, <2>2
  <1>3. ASSUME NEW k \in Nat, k \in S PROVE k + 1 \in S
    <2>1. SUFFICES ASSUME k + 1 <= n PROVE \E g : Parses(s, n + 1 - (k + 1), g)
      OBVIOUS
    <2> DEFINE a == n + 1 - (k + 1)
    <2>2. /\ k <= n /\ a \in 1..n /\ a \in Nat /\ n + 1 - k = a + 1
          /\ \A i \in a..n + 1 : i \in 1..n + 1 /\ (i = a \/ i \in a + 1..n + 1)
          /\ \A i \in a + 1..n + 1 : i \in a..n + 1 /\ i # a
      BY <1>1, <2>1
    <2>3. PICK f : Parses(s, a + 1, f)
      BY <1>3, <2>2
    <2> HIDE DEF a, S
    <2>4. PICK g : g = [i \in a..n + 1 |-> IF i = a THEN FromPlace(s, f, a) ELSE f[i]]
      OBVIOUS
    <2>5. \A i \in a + 1..n + 1 : g[i] = f[i]
      BY <2>2, <2>4
    <2>6. \A i \in a + 1..n + 1 : f[i] = FromPlace(s, f, i)
      BY <2>3 DEF Parses, n
    <2>7. ASSUME NEW i \in a..n + 1
          PROVE  (IF i = a THEN FromPlace(s, f, a) ELSE f[i]) = FromPlace(s, g, i)
      <3>1. i \in 1..n + 1
        BY <2>2
      <3>2. \A j \in i + 1..n + 1 : j \in a + 1..n + 1
        BY <1>1, <2>2
      <3>3. \A j \in i + 1..n + 1 : f[j] = g[j]
        BY <2>5, <3>2
      <3>4. FromPlace(s, f, i) = FromPlace(s, g, i)
        BY <3>1, <3>3, FromPlaceAgree DEF n
      <3>5. CASE i = a
        BY <3>4, <3>5
      <3>6. CASE i # a
        BY <2>2, <2>6, <3>4, <3>6
      <3> QED
        BY <3>5, <3>6
    <2>8. Parses(s, a, g)
      BY <2>4, <2>7 DEF Parses, n
    <2> QED
      BY <2>8 DEF a
  <1>4. n \in S
    <2> HIDE DEF S
    <2> QED
      BY <1>1, <1>2, <1>3, Induction
  <1>5. n + 1 - n = 1
    BY <1>1
  <1> HIDE DEF n
  <1> QED
    BY <1>1, <1>4, <1>5

\* What PacketsFrom has at a place.
LEMMA PacketsFromIs ==
    ASSUME NEW s \in Seq(Byte)
    PROVE  \A i \in 1..Len(s) + 1 : PacketsFrom(s)[i] = FromPlace(s, PacketsFrom(s), i)
  <1>1. PacketsFrom(s) = (CHOOSE f : Parses(s, 1, f))
    BY DEF PacketsFrom, Parses, FromPlace
  <1>2. Parses(s, 1, PacketsFrom(s))
    BY <1>1, PacketsExist
  <1> QED
    BY <1>2 DEF Parses

\* It has strings of bytes there, one for each packet.
LEMMA PacketsFromType ==
    ASSUME NEW s \in Seq(Byte)
    PROVE  \A i \in 1..Len(s) + 1 : PacketsFrom(s)[i] \in Seq(Seq(Byte))
  <1> DEFINE n == Len(s)
             P == PacketsFrom(s)
             S == {k \in Nat : \A i \in 1..n + 1 : n + 1 - i <= k => P[i] \in Seq(Seq(Byte))}
  <1>1. n \in Nat
    BY LenProperties
  <1>2. \A i \in 1..n + 1 : P[i] = FromPlace(s, P, i)
    BY PacketsFromIs
  <1> HIDE DEF P
  <1>3. P[n + 1] \in Seq(Seq(Byte))
    <2>1. n + 1 \in 1..n + 1
      BY <1>1
    <2>2. P[n + 1] = <<>>
      BY <1>2, <2>1 DEF FromPlace
    <2> QED
      BY <2>2, EmptySeq
  <1>4. 0 \in S
    <2>1. \A i \in 1..n + 1 : n + 1 - i <= 0 => i = n + 1
      BY <1>1
    <2> QED
      BY <1>3, <2>1
  <1>5. ASSUME NEW k \in Nat, k \in S PROVE k + 1 \in S
    <2>1. SUFFICES ASSUME NEW i \in 1..n + 1, n + 1 - i <= k + 1, i # n + 1
                   PROVE  P[i] \in Seq(Seq(Byte))
      BY <1>3
    <2>2. i \in 1..n /\ i + 1 \in i + 1..n + 1
      BY <1>1, <2>1
    <2>3. ASSUME NEW j \in i + 1..n + 1 PROVE P[j] \in Seq(Seq(Byte))
      <3>1. j \in 1..n + 1 /\ n + 1 - j <= k
        BY <1>1, <2>1, <2>2
      <3> QED
        BY <1>5, <3>1
    <2>4. P[i] = FromPlace(s, P, i)
      BY <1>2
    <2> HIDE DEF S
    <2>5. CASE Hopeless(s, i)
      <3>1. P[i] = P[i + 1]
        BY <2>1, <2>4, <2>5 DEF FromPlace
      <3> QED
        BY <2>2, <2>3, <3>1
    <2>6. CASE ~Hopeless(s, i) /\ Complete(s, i)
      <3> DEFINE d == DataAt(s, i)
                 j == EndAt(s, i) + 1
      <3>1. j \in i + 1..n + 1 /\ d \in Seq(Byte)
        BY <2>2, <2>6, CompleteFacts
      <3>2. P[i] = <<d>> \o P[j]
        BY <2>1, <2>4, <2>6 DEF FromPlace
      <3> HIDE DEF d, j
      <3>3. <<d>> \in Seq(Seq(Byte)) /\ P[j] \in Seq(Seq(Byte))
        BY <2>3, <3>1
      <3> QED
        BY <3>2, <3>3, ConcatProperties
    <2>7. CASE ~Hopeless(s, i) /\ ~Complete(s, i)
      <3>1. P[i] = <<>>
        BY <2>1, <2>4, <2>7 DEF FromPlace
      <3> QED
        BY <3>1, EmptySeq
    <2> QED
      BY <2>5, <2>6, <2>7
  <1>6. \A k \in Nat : k \in S
    <2> HIDE DEF S
    <2> QED
      BY <1>4, <1>5, Induction
  <1>7. ASSUME NEW i \in 1..n + 1 PROVE P[i] \in Seq(Seq(Byte))
    <2>1. n + 1 - i \in Nat
      BY <1>1
    <2>2. n + 1 - i \in S
      <3> HIDE DEF S
      <3> QED
        BY <1>6, <2>1
    <2>3. n + 1 - i <= n + 1 - i
      BY <2>1
    <2> QED
      BY <2>2, <2>3
  <1> QED
    BY <1>7 DEF P

\* Bytes at which no packet begins are passed over.
LEMMA SkipHopeless ==
    ASSUME NEW s \in Seq(Byte), NEW p \in Nat, NEW l \in Nat, p + l <= Len(s),
           \A i \in 1..l : Hopeless(s, p + i)
    PROVE  PacketsFrom(s)[p + 1] = PacketsFrom(s)[p + l + 1]
  <1> DEFINE n == Len(s)
             P == PacketsFrom(s)
             S == {k \in Nat : k <= l => P[p + 1] = P[p + k + 1]}
  <1>1. n \in Nat
    BY LenProperties
  <1>2. \A i \in 1..n + 1 : P[i] = FromPlace(s, P, i)
    BY PacketsFromIs
  <1> HIDE DEF P
  <1>3. 0 \in S
    <2>1. p + 0 + 1 = p + 1
      OBVIOUS
    <2> QED
      BY <2>1
  <1>4. ASSUME NEW k \in Nat, k \in S PROVE k + 1 \in S
    <2>1. SUFFICES ASSUME k + 1 <= l PROVE P[p + 1] = P[p + (k + 1) + 1]
      OBVIOUS
    <2> DEFINE i == p + (k + 1)
    <2>2. /\ k + 1 \in 1..l /\ k <= l /\ i \in 1..n /\ i \in 1..n + 1 /\ i # n + 1
          /\ p + k + 1 = i
      BY <1>1, <2>1
    <2>3. Hopeless(s, i)
      BY <2>2
    <2>4. P[p + 1] = P[i]
      BY <1>4, <2>2
    <2> HIDE DEF i
    <2>5. P[i] = FromPlace(s, P, i)
      BY <1>2, <2>2
    <2>6. P[i] = P[i + 1]
      BY <2>2, <2>3, <2>5 DEF FromPlace, n
    <2> QED
      BY <2>4, <2>6 DEF i
  <1>5. l \in S
    <2> HIDE DEF S
    <2> QED
      BY <1>3, <1>4, Induction
  <1> QED
    BY <1>5 DEF P

\* Where no packet ends any more there are none.
LEMMA NoneComplete ==
    ASSUME NEW s \in Seq(Byte), NEW a \in 1..Len(s) + 1,
           \A i \in a..Len(s) : ~Complete(s, i)
    PROVE  PacketsFrom(s)[a] = <<>>
  <1> DEFINE n == Len(s)
             P == PacketsFrom(s)
             S == {k \in Nat : n + 1 - k >= a => P[n + 1 - k] = <<>>}
  <1>1. n \in Nat
    BY LenProperties
  <1>2. \A i \in 1..n + 1 : P[i] = FromPlace(s, P, i)
    BY PacketsFromIs
  <1> HIDE DEF P
  <1>3. 0 \in S
    <2>1. n + 1 \in 1..n + 1 /\ n + 1 - 0 = n + 1
      BY <1>1
    <2>2. P[n + 1] = <<>>
      BY <1>2, <2>1 DEF FromPlace
    <2> QED
      BY <2>1, <2>2
  <1>4. ASSUME NEW k \in Nat, k \in S PROVE k + 1 \in S
    <2>1. SUFFICES ASSUME n + 1 - (k + 1) >= a PROVE P[n + 1 - (k + 1)] = <<>>
      OBVIOUS
    <2> DEFINE i == n + 1 - (k + 1)
    <2>2. /\ i \in a..n /\ i \in 1..n + 1 /\ i # n + 1 /\ n + 1 - k = i + 1
          /\ n + 1 - k >= a
      BY <1>1, <2>1
    <2>3. ~Complete(s, i)
      BY <2>2
    <2>4. P[i + 1] = <<>>
      BY <1>4, <2>2
    <2> HIDE DEF i
    <2>5. P[i] = FromPlace(s, P, i)
      BY <1>2, <2>2
    <2>6. P[i] = <<>>
      BY <2>2, <2>3, <2>4, <2>5 DEF FromPlace, n
    <2> QED
      BY <2>6 DEF i
  <1>5. n + 1 - a \in Nat /\ n + 1 - (n + 1 - a) = a /\ a >= a
    BY <1>1
  <1> DEFINE k == n + 1 - a
  <1>6. k \in S
    <2> HIDE DEF S, k
    <2> QED
      BY <1>3, <1>4, <1>5, Induction DEF k
  <1> QED
    BY <1>5, <1>6 DEF P

(***************************************************************************)
(* What is found in a piece of the stream holds of the stream.             *)
(***************************************************************************)
CarriedOver(u, s, p, i) ==
    /\ Hopeless(u, i) => Hopeless(s, p + i)
    /\ Complete(u, i) => /\ Complete(s, p + i)
                         /\ EndAt(s, p + i) = p + EndAt(u, i)
                         /\ DataAt(s, p + i) = DataAt(u, i)
    /\ IsPacket(u, i) => IsPacket(s, p + i)

\* The piece may end anywhere behind p.
LEMMA CarryOver ==
    ASSUME NEW s \in Seq(Byte), NEW p \in Nat, NEW l \in Nat, p + l <= Len(s),
           NEW i \in 1..l
    PROVE  CarriedOver(Piece(s, p, p + l), s, p, i)
  <1> DEFINE u == Piece(s, p, p + l)
             n == Len(s)
             q == p + l
  <1>1. n \in Nat /\ HEADLEN = 4 /\ i \in Nat /\ q \in Nat /\ q - p = l /\ p <= q
    BY LenProperties DEF HEADLEN
  <1>2. u \in Seq(Byte) /\ Len(u) = l /\ \A j \in 1..l : u[j] = s[p + j]
    <2>1. q <= Len(s)
      OBVIOUS
    <2> HIDE DEF q
    <2>2. /\ Piece(s, p, q) \in Seq(Byte) /\ Len(Piece(s, p, q)) = l
          /\ \A j \in 1..l : Piece(s, p, q)[j] = s[p + j]
      BY <1>1, <2>1, PieceFacts
    <2> QED
      BY <2>2 DEF q
  <1>3. ASSUME NEW j \in Nat, NEW k \in Nat, j <= k, k <= l
        PROVE  Piece(u, j, k) = Piece(s, p + j, p + k)
    <2>1. q <= Len(s) /\ k <= q - p
      BY <1>1, <1>3
    <2> HIDE DEF q
    <2>2. Piece(Piece(s, p, q), j, k) = Piece(s, p + j, p + k)
      BY <1>1, <1>3, <2>1, PieceSub
    <2> QED
      BY <2>2 DEF q
  <1> HIDE DEF u, n, q
  <1>4. u[i] = s[p + i]
    BY <1>2
  <1>5. HasHeader(u, i) => HasHeader(s, p + i) /\ HeaderAt(u, i) = HeaderAt(s, p + i)
    <2> SUFFICES ASSUME HasHeader(u, i)
                 PROVE  HasHeader(s, p + i) /\ HeaderAt(u, i) = HeaderAt(s, p + i)
      OBVIOUS
    <2>1. u[i] = HEAD /\ i + 4 <= l
      BY <1>1, <1>2 DEF HasHeader
    <2>2. p + i + 4 <= n
      BY <1>1, <2>1 DEF n
    <2>3. HasHeader(s, p + i)
      BY <1>1, <1>4, <2>1, <2>2 DEF HasHeader, n
    <2> DEFINE k == i + 4
    <2>4. k \in Nat /\ i <= k /\ k <= l /\ p + k = p + i + 4
      BY <1>1, <2>1
    <2>5. HeaderAt(u, i) = CharToNetPacket(Piece(u, i, k))
      BY <1>1 DEF HeaderAt, Piece
    <2>6. HeaderAt(s, p + i) = CharToNetPacket(Piece(s, p + i, p + k))
      BY <1>1, <2>4 DEF HeaderAt, Piece
    <2> HIDE DEF k
    <2>7. Piece(u, i, k) = Piece(s, p + i, p + k)
      BY <1>1, <1>3, <2>4
    <2> QED
      BY <2>3, <2>5, <2>6, <2>7
  <1>6. ASSUME Complete(u, i)
        PROVE  /\ Complete(s, p + i) /\ EndAt(s, p + i) = p + EndAt(u, i)
               /\ DataAt(s, p + i) = DataAt(u, i)
               /\ s[EndAt(s, p + i)] = u[EndAt(u, i)]
               /\ HeaderAt(u, i) = HeaderAt(s, p + i)
    <2> DEFINE h == HeaderAt(u, i)
               d == h.datalen
               e == EndAt(u, i)
    <2>1. HasHeader(u, i) /\ LegalHeader(h) /\ e <= l
      BY <1>2, <1>6 DEF Complete
    <2>2. HasHeader(s, p + i) /\ HeaderAt(s, p + i) = h
      BY <1>5, <2>1
    <2>3. e \in i + 5..l /\ Len(DataAt(u, i)) = d
      <3>1. i \in 1..Len(u)
        BY <1>2
      <3> QED
        BY <1>2, <1>6, <3>1, CompleteFacts
    <2>4. DataAt(u, i) \in Seq(Byte)
      <3>1. i \in 1..Len(u)
        BY <1>2
      <3> QED
        BY <1>2, <1>6, <3>1, CompleteFacts
    <2>5. d \in Nat
      BY <2>3, <2>4, LenProperties
    <2> HIDE DEF d
    <2>6. e = i + 4 + d + 1 /\ EndAt(s, p + i) = p + i + 4 + d + 1
      BY <1>1, <2>2 DEF EndAt, d
    <2>7. EndAt(s, p + i) = p + e
      BY <1>1, <2>5, <2>6
    <2> DEFINE a == i + 4
               b == i + 4 + d
    <2>8. DataAt(u, i) = Piece(u, a, b)
      BY <1>1 DEF DataAt, Piece, d
    <2>9. a \in Nat /\ b \in Nat /\ a <= b /\ b <= l /\ p + a = p + i + 4 /\ p + b = p + i + 4 + d
      BY <1>1, <2>3, <2>5, <2>6
    <2>10. DataAt(s, p + i) = Piece(s, p + a, p + b)
      BY <1>1, <2>2, <2>9 DEF DataAt, Piece, d
    <2> HIDE DEF a, b, e
    <2>11. DataAt(s, p + i) = DataAt(u, i)
      BY <1>3, <2>8, <2>9, <2>10
    <2>12. EndAt(s, p + i) <= Len(s) /\ e \in 1..l
      BY <1>1, <2>3, <2>7 DEF n, q
    <2>13. s[p + e] = u[e]
      BY <1>2, <2>12
    <2>14. Complete(s, p + i)
      BY <2>1, <2>2, <2>12 DEF Complete
    <2> QED
      BY <2>2, <2>7, <2>11, <2>13, <2>14 DEF e
  <1>7. ASSUME Complete(u, i) PROVE IsPacket(u, i) <=> IsPacket(s, p + i)
    BY <1>6, <1>7 DEF IsPacket
  <1>8. IsPacket(u, i) => IsPacket(s, p + i)
    BY <1>7 DEF IsPacket
  <1>9. Hopeless(u, i) => Hopeless(s, p + i)
    <2>1. CASE u[i] # HEAD
      BY <1>4, <2>1 DEF Hopeless
    <2>2. CASE HasHeader(u, i) /\ ~LegalHeader(HeaderAt(u, i))
      BY <1>5, <2>2 DEF Hopeless
    <2>3. CASE Complete(u, i) /\ ~IsPacket(u, i)
      BY <1>6, <1>7, <2>3 DEF Hopeless
    <2> QED
      BY <2>1, <2>2, <2>3 DEF Hopeless
  <1>10. CarriedOver(u, s, p, i)
    BY <1>6, <1>8, <1>9 DEF CarriedOver
  <1> QED
    BY <1>10 DEF u

(***************************************************************************)
(* The packets delivered.  Whatever arrives later, they are followed by    *)
(* the packets from place on to make all those of the string.              *)
(***************************************************************************)
\* The bytes that have arrived when m have.
Arrived(m) == Piece(stream, 0, m)

ParsedWhen(m) ==
    PacketsFrom(Arrived(m))[1] = Cat(delivered, PacketsFrom(Arrived(m))[place + 1])

ParseInv == \A m \in given..Len(stream) : ParsedWhen(m)

\* What is undecided is a piece of what has arrived and of all that may.
LEMMA ArrivedFacts ==
    ASSUME IInv, NEW m \in given..Len(stream)
    PROVE  LET s == Arrived(m)
               u == Undecided
           IN  /\ m \in Nat /\ s \in Seq(Byte) /\ Len(s) = m
               /\ u \in Seq(Byte) /\ Len(u) \in Nat
               /\ place \in Nat /\ place + Len(u) = given /\ place + Len(u) <= Len(s)
               /\ \A i \in 1..Len(u) : CarriedOver(u, s, place, i)
  <1> DEFINE s == Arrived(m)
             u == Undecided
             l == given - place
  <1>1. /\ place \in Nat /\ l \in Nat /\ u \in Seq(Byte) /\ Len(u) = l
    BY UndecidedFacts
  <1>2. stream \in Seq(Byte) /\ given \in Nat /\ Len(stream) \in Nat /\ given <= Len(stream)
    BY Numbers DEF IInv, ParserTypes
  <1>3. m \in Nat /\ 0 <= m /\ m <= Len(stream) /\ m - 0 = m /\ given <= m
    BY <1>2
  <1>4. s \in Seq(Byte) /\ Len(s) = m
    <2>1. 0 \in Nat
      OBVIOUS
    <2>2. Piece(stream, 0, m) \in Seq(Byte) /\ Len(Piece(stream, 0, m)) = m - 0
      BY <1>2, <1>3, <2>1, PieceFacts
    <2> QED
      BY <1>3, <2>2 DEF Arrived
  <1>5. place + l = given /\ place <= given
    BY <1>1, <1>2
  <1>6. u = Piece(s, place, place + l)
    <2>1. u = Piece(stream, place, given)
      BY UndecidedPiece DEF UndecidedInStream
    <2>2. 0 + place = place /\ 0 + given = given /\ 0 \in Nat /\ given <= m - 0
      BY <1>1, <1>2, <1>3
    <2>3. Piece(Piece(stream, 0, m), place, given) = Piece(stream, 0 + place, 0 + given)
      BY <1>1, <1>2, <1>3, <1>5, <2>2, PieceSub
    <2> QED
      BY <1>5, <2>1, <2>2, <2>3 DEF Arrived
  <1> HIDE DEF s, u, l
  <1>7. \A i \in 1..l : CarriedOver(u, s, place, i)
    BY <1>1, <1>3, <1>4, <1>5, <1>6, CarryOver
  <1> QED
    BY <1>1, <1>3, <1>4, <1>5, <1>7 DEF s, u

\* Bytes are given up.
LEMMA GiveUpParses ==
    ASSUME IInv, IInv', NEW k \in Nat, GaveUp(k), NEW m \in given..Len(stream), ParsedWhen(m)
    PROVE  ParsedWhen(m)'
  <1> DEFINE s == Arrived(m)
             u == Undecided
  <1>1. /\ m \in Nat /\ s \in Seq(Byte) /\ Len(s) = m /\ Len(u) \in Nat /\ place \in Nat
        /\ place + Len(u) <= Len(s)
        /\ \A i \in 1..Len(u) : CarriedOver(u, s, place, i)
    BY ArrivedFacts
  <1>2. k <= Len(u) /\ place' = place + k
    BY CutStep DEF GaveUp
  <1>3. \A i \in 1..k : Hopeless(u, i)
    BY DEF GaveUp
  <1>4. Arrived(m)' = s /\ delivered' = delivered
    BY DEF Arrived, GaveUp
  <1> HIDE DEF s, u
  <1>5. \A i \in 1..k : Hopeless(s, place + i)
    <2>1. \A i \in 1..k : i \in 1..Len(u)
      BY <1>1, <1>2
    <2> QED
      BY <1>1, <1>3, <2>1 DEF CarriedOver
  <1>6. place + k <= Len(s)
    BY <1>1, <1>2
  <1>7. PacketsFrom(s)[place + 1] = PacketsFrom(s)[place + k + 1]
    BY <1>1, <1>5, <1>6, SkipHopeless
  <1>8. PacketsFrom(s)[place + 1] = PacketsFrom(s)[place' + 1]
    BY <1>2, <1>7
  <1>9. PacketsFrom(s)[1] = Cat(delivered, PacketsFrom(s)[place + 1])
    BY DEF ParsedWhen, s
  <1>10. PacketsFrom(s)[1] = Cat(delivered', PacketsFrom(s)[place' + 1])
    BY <1>4, <1>8, <1>9
  <1> QED
    BY <1>4, <1>10 DEF ParsedWhen

\* A packet is delivered.
LEMMA DeliverParses ==
    ASSUME IInv, IInv', NEW n \in Nat \ {0}, Delivered(n), NEW m \in given..Len(stream),
           ParsedWhen(m)
    PROVE  ParsedWhen(m)'
  <1> DEFINE s == Arrived(m)
             u == Undecided
             x == DataAt(u, n)
             e == EndAt(u, n)
             j == n - 1
             P == PacketsFrom(s)
  <1>1. /\ m \in Nat /\ s \in Seq(Byte) /\ Len(s) = m /\ u \in Seq(Byte) /\ Len(u) \in Nat
        /\ place \in Nat /\ place + Len(u) <= Len(s)
        /\ \A i \in 1..Len(u) : CarriedOver(u, s, place, i)
    BY ArrivedFacts
  <1>2. /\ \A i \in 1..j : Hopeless(u, i)
        /\ IsPacket(u, n) /\ Complete(u, n)
        /\ place' = place + e /\ delivered' = Append(delivered, x)
    BY DEF Delivered, IsPacket
  <1>3. n \in 1..Len(u)
    <2>1. n + HEADLEN <= Len(u)
      BY <1>2 DEF Complete, HasHeader
    <2> QED
      BY <1>1, <2>1 DEF HEADLEN
  <1>4. e \in n + 5..Len(u) /\ x \in Seq(Byte)
    BY <1>1, <1>2, <1>3, CompleteFacts
  <1>5. Arrived(m)' = s
    BY DEF Arrived, Delivered
  <1> HIDE DEF s, u, x, e
  <1>6. /\ j \in Nat /\ place + j <= Len(s) /\ place + j + 1 = place + n
        /\ \A i \in 1..j : i \in 1..Len(u)
        /\ place + n \in 1..Len(s) /\ place + n \in 1..Len(s) + 1 /\ place + n # Len(s) + 1
        /\ place + e + 1 \in 1..Len(s) + 1 /\ place + 1 \in 1..Len(s) + 1
    BY <1>1, <1>3, <1>4
  <1>7. CarriedOver(u, s, place, n)
    BY <1>1, <1>3
  <1>8. /\ Complete(s, place + n) /\ EndAt(s, place + n) = place + e
        /\ DataAt(s, place + n) = x /\ IsPacket(s, place + n)
    BY <1>2, <1>7 DEF CarriedOver, x, e
  <1>9. \A i \in 1..j : Hopeless(s, place + i)
    BY <1>1, <1>2, <1>6 DEF CarriedOver
  <1> HIDE DEF j, P
  <1>10. P[place + 1] = P[place + n]
    <2>1. P[place + 1] = P[place + j + 1]
      BY <1>1, <1>6, <1>9, SkipHopeless DEF P
    <2> QED
      BY <1>6, <2>1
  <1>11. ~Hopeless(s, place + n)
    BY <1>8 DEF Hopeless, IsPacket, Complete, HasHeader
  <1>12. P[place + n] = <<x>> \o P[place' + 1]
    <2>1. P[place + n] = FromPlace(s, P, place + n)
      BY <1>1, <1>6, PacketsFromIs DEF P
    <2>2. P[place + n] = <<x>> \o P[place + e + 1]
      BY <1>6, <1>8, <1>11, <2>1 DEF FromPlace
    <2> QED
      BY <1>2, <2>2
  <1>13. P[1] = Cat(delivered, Cat(<<x>>, P[place' + 1]))
    <2>1. P[1] = Cat(delivered, P[place + 1])
      BY DEF ParsedWhen, P, s
    <2>2. P[place + n] = Cat(<<x>>, P[place' + 1])
      BY <1>12 DEF Cat
    <2> QED
      BY <1>10, <2>1, <2>2
  <1>14. P[1] = Cat(delivered', P[place' + 1])
    <2>1. P[place' + 1] \in Seq(Seq(Byte))
      BY <1>1, <1>2, <1>6, PacketsFromType DEF P
    <2>2. delivered \in Seq(Seq(Byte)) /\ <<x>> \in Seq(Seq(Byte))
      BY <1>4 DEF IInv, ParserTypes
    <2>3. delivered' = Cat(delivered, <<x>>)
      BY <1>2, <1>4, <2>2, AppendIsConcat DEF Cat
    <2>4. Cat(Cat(delivered, <<x>>), P[place' + 1]) = Cat(delivered, Cat(<<x>>, P[place' + 1]))
      <3> DEFINE c == <<x>>
                 r == P[place' + 1]
                 S == Seq(Byte)
      <3>1. delivered \in Seq(S) /\ c \in Seq(S) /\ r \in Seq(S)
        BY <2>1, <2>2
      <3> HIDE DEF c, r, S
      <3>2. Cat(Cat(delivered, c), r) = Cat(delivered, Cat(c, r))
        BY <3>1, CatAssociative
      <3> QED
        BY <3>2 DEF c, r
    <2> QED
      BY <1>13, <2>3, <2>4
  <1> QED
    BY <1>5, <1>14 DEF ParsedWhen, P

\* What is delivered and what is still to be found are always all the packets.
LEMMA ParseStep ==
    ASSUME IInv, IInv', ParseInv, [Next]_vars
    PROVE  ParseInv'
  <1>1. given \in Nat /\ Len(stream) \in Nat
    BY Numbers DEF IInv
  <1>2. CASE recvdata
    <2>1. place' = place /\ given' \in given + 1..Len(stream) /\ stream' = stream
          /\ delivered' = delivered
      BY <1>2, recvdataStep
    <2>2. given'..Len(stream) \subseteq given..Len(stream)
      BY <1>1, <2>1
    <2>3. ASSUME NEW m \in given'..Len(stream') PROVE ParsedWhen(m)'
      <3>1. ParsedWhen(m)
        BY <2>1, <2>2, <2>3 DEF ParseInv
      <3> QED
        BY <2>1, <3>1 DEF ParsedWhen, Arrived
    <2> QED
      BY <2>3 DEF ParseInv
  <1>3. ASSUME NEW k \in Nat, GaveUp(k) PROVE ParseInv'
    <2>1. \A m \in given..Len(stream) : ParsedWhen(m)'
      BY <1>3, GiveUpParses DEF ParseInv
    <2>2. given' = given /\ stream' = stream
      BY <1>3 DEF GaveUp
    <2> QED
      BY <2>1, <2>2 DEF ParseInv
  <1>4. ASSUME NEW n \in Nat \ {0}, Delivered(n) PROVE ParseInv'
    <2>1. \A m \in given..Len(stream) : ParsedWhen(m)'
      BY <1>4, DeliverParses DEF ParseInv
    <2>2. given' = given /\ stream' = stream
      BY <1>4 DEF Delivered
    <2> QED
      BY <2>1, <2>2 DEF ParseInv
  <1> QED
    BY <1>2, <1>3, <1>4, StepKinds

(***************************************************************************)
(* When recvdata returns it has looked at every byte that it was given.    *)
(***************************************************************************)
\* A packet that is not whole in thread_readdata is collected up to its tail
\* or not at all.
ShortInv == parsetype = "PARSE_HEAD" /\ ~Whole => getdatalen < Need

RestInv ==
    ~running =>
        /\ copied = given
        /\ parsetype = "PARSE_NOTHING" => truepacketlen < HEADLEN + 2
        /\ parsetype = "PARSE_HEAD" => getdatalen < Need

\* Where the data of such a packet end.
ShortHeld ==
    parsetype = "PARSE_HEAD" /\ ~Whole => copied = place + headpos + 5 + getdatalen

\* It holds before a step ...
LEMMA ShortHolds == IInv => ShortHeld
  BY CollectNumbers DEF ShortHeld

\* ... and after it.
LEMMA ShortHoldsNext == IInv' => ShortHeld'
  BY ShortHolds, PTL

\* A legal header whose packet the buffer has not got leaves data to collect.
LEMMA HeaderLegalShort ==
    ASSUME IInv, HeaderLegal
    PROVE  ShortInv'
  <1> SUFFICES ASSUME parsetype' = "PARSE_HEAD", ~Whole' PROVE getdatalen' < Need'
    BY DEF ShortInv
  <1>1. IInv' /\ place' = place
    BY HeaderLegalStep
  <1>2. copied' = place' + headpos' + 5 + getdatalen'
    BY <1>1, ShortHoldsNext DEF ShortHeld
  <1>3. Searching /\ thread_readdata' = Filled
    BY DEF HeaderLegal
  <1>4. copied' = place' + truepacketlen' /\ truepacketlen' \in Nat
    BY <1>1, <1>3, FilledFacts DEF truepacketlen
  <1>5. ~(truepacketlen' - headpos' - 1 - HEADLEN >= Need')
    BY DEF Whole, HEADLEN
  <1>6. place' \in Nat /\ headpos' \in Int
    BY <1>1 DEF IInv, ReadInv, ParserTypes
  <1>7. getdatalen' \in Nat /\ Need' \in Nat
    <2>1. /\ thread_packetdata' \in Seq(Byte)
          /\ theNexPacket' \in [header : Byte, tail : Byte, datalen : Byte, check : Byte]
      BY <1>1 DEF IInv, ParserTypes
    <2>2. theNexPacket'.datalen \in Nat
      BY <2>1, FormatAssumption DEF Byte
    <2> QED
      BY <2>1, <2>2, LenProperties DEF getdatalen, Need
  <1> DEFINE r == truepacketlen'
             g == getdatalen'
             h == headpos'
             p == place'
             n == Need'
  <1>8. p + h + 5 + g = p + r /\ ~(r - h - 1 - 4 >= n)
    BY <1>2, <1>4, <1>5 DEF HEADLEN
  <1>9. p \in Nat /\ h \in Int /\ g \in Nat /\ r \in Nat /\ n \in Nat
    BY <1>4, <1>6, <1>7
  <1> HIDE DEF r, g, h, p, n
  <1>10. g < n
    BY <1>8, <1>9
  <1> QED
    BY <1>10 DEF g, n

\* A call that returns for want of data has copied all it was given.
LEMMA DataIncompleteRest ==
    ASSUME IInv, DataIncomplete
    PROVE  ShortInv' /\ RestInv'
  <1>1. /\ ParserTypes /\ stream \in Seq(Byte) /\ copied \in Nat /\ given \in Nat
        /\ copied <= given /\ given <= Len(stream) /\ getdatalen \in Nat
    BY Numbers DEF IInv, ParserTypes
  <1>2. /\ parsetype' = "PARSE_HEAD" /\ copied' = given /\ given' = given
        /\ thread_packetdata' = thread_packetdata \o Piece(stream, copied, given)
        /\ getdatalen + (given - copied) < Need
        /\ theNexPacket' = theNexPacket
    BY DEF DataIncomplete, Piece
  <1>3. Need' = Need
    BY <1>2 DEF Need
  <1>4. getdatalen' = getdatalen + (given - copied)
    <2>1. /\ Piece(stream, copied, given) \in Seq(Byte)
          /\ Len(Piece(stream, copied, given)) = given - copied
      BY <1>1, PieceFacts
    <2>2. thread_packetdata \in Seq(Byte)
      BY <1>1 DEF ParserTypes
    <2> QED
      BY <1>2, <2>1, <2>2, ConcatProperties DEF getdatalen
  <1>5. getdatalen' < Need'
    BY <1>2, <1>3, <1>4
  <1> QED
    BY <1>2, <1>5 DEF ShortInv, RestInv

\* What is left when recvdata has returned is not a packet yet.
LEMMA RestStep ==
    ASSUME IInv, IInv', ShortInv, RestInv, [Next]_vars
    PROVE  ShortInv' /\ RestInv'
  <1>1. CASE recvdata \/ Return \/ NewConnection \/ UNCHANGED vars
    <2>1. UNCHANGED <<copied, parsetype, readVars, headpos, theNexPacket, dataVars>>
      BY <1>1 DEF recvdata, Return, NewConnection, vars, inVars
    <2>2. /\ copied' = copied /\ parsetype' = parsetype /\ headpos' = headpos
          /\ thread_readdata' = thread_readdata /\ theNexPacket' = theNexPacket
          /\ thread_packetdata' = thread_packetdata
      BY <2>1 DEF readVars, dataVars
    <2>3. /\ truepacketlen' = truepacketlen /\ getdatalen' = getdatalen
          /\ Need' = Need /\ (Whole' <=> Whole)
      BY <2>2 DEF truepacketlen, getdatalen, Need, Whole
    <2>4. ShortInv'
      BY <2>2, <2>3 DEF ShortInv
    <2>5. CASE recvdata
      BY <2>4, <2>5 DEF recvdata, RestInv
    <2>6. CASE Return
      <3>1. ~(copied < given) /\ ~(truepacketlen >= HEADLEN + 2) /\ given' = given
        BY <2>6 DEF Return, GoesOn
      <3>2. /\ copied \in Nat /\ given \in Nat /\ copied <= given /\ truepacketlen \in Nat
            /\ HEADLEN = 4 /\ getdatalen \in Nat /\ Need \in Nat /\ headpos \in Int
        BY Numbers DEF IInv
      <3>3. copied' = given' /\ truepacketlen' < HEADLEN + 2
        BY <2>2, <2>3, <3>1, <3>2
      <3>4. ASSUME parsetype = "PARSE_HEAD" PROVE getdatalen < Need
        <4>1. 0 <= headpos /\ Need >= 1
          BY <3>4, Numbers DEF IInv, InBounds
        <4>2. ~Whole
          BY <3>1, <3>2, <4>1 DEF Whole
        <4> QED
          BY <3>4, <4>2 DEF ShortInv
      <3>5. parsetype' = "PARSE_HEAD" => getdatalen' < Need'
        BY <2>2, <2>3, <3>4
      <3> QED
        BY <2>4, <3>3, <3>5 DEF RestInv, HEADLEN
    <2>7. CASE NewConnection \/ UNCHANGED vars
      <3>1. running' = running /\ given' = given
        BY <2>7 DEF NewConnection, vars, inVars
      <3> QED
        BY <2>2, <2>3, <2>4, <3>1 DEF RestInv, HEADLEN
    <2> QED
      BY <1>1, <2>5, <2>6, <2>7
  <1>2. CASE NoHead \/ HeaderIncomplete \/ HeaderIllegal \/ HeaderOverlong
    <2>1. running' = TRUE /\ parsetype' = "PARSE_NOTHING"
      BY <1>2
      DEF NoHead, HeaderIncomplete, HeaderIllegal, HeaderOverlong, Searching, IInv, ParserTypes
    <2> QED
      BY <2>1 DEF ShortInv, RestInv
  <1>3. CASE HeaderLegal
    <2>1. running' = TRUE
      BY <1>3 DEF HeaderLegal, Searching, IInv, ParserTypes
    <2> QED
      BY <1>3, <2>1, HeaderLegalShort DEF RestInv
  <1>4. CASE DataIncomplete
    BY <1>4, DataIncompleteRest
  <1>5. CASE SearchAgain \/ CallBack
    <2>1. running' = TRUE /\ parsetype' = "PARSE_NOTHING"
      BY <1>5 DEF SearchAgain, CallBack, DataComplete, IInv, ParserTypes
    <2> QED
      BY <2>1 DEF ShortInv, RestInv
  <1> QED
    BY <1>1, <1>2, <1>3, <1>4, <1>5 DEF Next, Round

\* At rest no packet begins in what is undecided and ends there.
LEMMA NothingLeft ==
    ASSUME IInv, RestInv, ~running
    PROVE  PacketsFrom(Arrived(given))[place + 1] = <<>>
  <1> DEFINE s == Arrived(given)
  <1>1. /\ ParserTypes /\ stream \in Seq(Byte) /\ given \in Nat /\ given <= Len(stream)
        /\ Len(stream) \in Nat /\ truepacketlen \in Nat /\ getdatalen \in Nat
        /\ Need \in Nat /\ Need = theNexPacket.datalen + 1
        /\ theNexPacket.datalen \in Nat /\ HEADLEN = 4 /\ copied = given
    BY Numbers DEF IInv, ParserTypes, RestInv
  <1>2. place \in Nat /\ place + truepacketlen <= given
    BY <1>1 DEF IInv, ReadInv
  <1>3. s \in Seq(Byte) /\ Len(s) = given /\ \A i \in 1..given : s[i] = stream[i]
    <2>1. 0 \in Nat /\ 0 <= given /\ given - 0 = given
      BY <1>1
    <2>2. /\ Piece(stream, 0, given) \in Seq(Byte) /\ Len(Piece(stream, 0, given)) = given - 0
          /\ \A i \in 1..given - 0 : Piece(stream, 0, given)[i] = stream[0 + i]
      BY <1>1, <2>1, PieceFacts
    <2>3. \A i \in 1..given : 0 + i = i
      BY <1>1
    <2> QED
      BY <2>1, <2>2, <2>3 DEF Arrived
  <1> HIDE DEF s
  <1>4. CASE parsetype = "PARSE_NOTHING"
    <2>1. place = given - truepacketlen /\ truepacketlen < 6
      BY <1>1, <1>4 DEF place, RestInv
    <2>2. ASSUME NEW i \in place + 1..Len(s), Complete(s, i) PROVE FALSE
      <3>1. i \in 1..Len(s) /\ i + 5 > Len(s)
        BY <1>1, <1>2, <1>3, <2>1
      <3>2. EndAt(s, i) \in i + 5..Len(s)
        BY <1>3, <2>2, <3>1, CompleteFacts
      <3> QED
        BY <1>1, <1>3, <3>1, <3>2
    <2>3. place + 1 \in 1..Len(s) + 1
      BY <1>1, <1>2, <1>3
    <2> QED
      BY <1>3, <2>2, <2>3, NoneComplete DEF s
  <1>5. CASE parsetype = "PARSE_HEAD"
    <2> DEFINE n == place + headpos + 1
    <2>1. /\ getdatalen < Need /\ headpos \in Nat /\ body = place + headpos + 5
          /\ body + getdatalen <= given /\ body \in Nat
      BY <1>1, <1>5, CollectNumbers DEF RestInv
    <2>2. ~Whole
      BY <1>1, <1>5, <2>1, CollectNumbers
    <2>3. given = body + getdatalen
      BY <1>1, <1>5, <2>2, CollectNumbers
    <2>4. /\ stream[n] = HEAD
          /\ \A i \in 1..headpos : stream[place + i] # HEAD
          /\ theNexPacket = CharToNetPacket(Piece(stream, n, body))
          /\ LegalHeader(theNexPacket)
      BY <1>5 DEF IInv, CollectInv
    <2>5. /\ n \in Nat /\ n \in 1..given /\ n + 4 = body /\ n <= body /\ body <= given
          /\ place + headpos <= Len(s)
          /\ \A i \in 1..headpos : place + i \in 1..given
      BY <1>1, <1>2, <1>3, <2>1, <2>3
    <2> HIDE DEF n
    <2>6. \A i \in 1..headpos : Hopeless(s, place + i)
      BY <1>3, <2>4, <2>5 DEF Hopeless
    <2>7. PacketsFrom(s)[place + 1] = PacketsFrom(s)[n]
      BY <1>2, <1>3, <2>1, <2>5, <2>6, SkipHopeless DEF n
    <2>8. HeaderAt(s, n) = theNexPacket
      <3>1. HeaderAt(s, n) = CharToNetPacket(Piece(s, n, body))
        BY <1>1, <2>5 DEF HeaderAt, Piece
      <3>2. 0 \in Nat /\ 0 <= given /\ body <= given - 0 /\ 0 + n = n /\ 0 + body = body
        BY <1>1, <2>1, <2>5
      <3>3. Piece(Piece(stream, 0, given), n, body) = Piece(stream, 0 + n, 0 + body)
        BY <1>1, <2>1, <2>5, <3>2, PieceSub
      <3> QED
        BY <2>4, <3>1, <3>2, <3>3 DEF s, Arrived
    <2>9. EndAt(s, n) > Len(s)
      <3>1. EndAt(s, n) = n + 4 + theNexPacket.datalen + 1
        BY <1>1, <2>8 DEF EndAt
      <3> QED
        BY <1>1, <1>3, <2>1, <2>3, <2>5, <3>1
    <2>10. ~Complete(s, n)
      <3>1. EndAt(s, n) \in Nat
        BY <1>1, <2>5, <2>8 DEF EndAt
      <3> QED
        BY <1>1, <1>3, <2>9, <3>1 DEF Complete
    <2>11. ~Hopeless(s, n)
      <3>1. s[n] = HEAD
        BY <1>3, <2>4, <2>5
      <3> QED
        BY <2>4, <2>8, <2>10, <3>1 DEF Hopeless
    <2>12. PacketsFrom(s)[n] = <<>>
      <3>1. n \in 1..Len(s) + 1
        BY <1>1, <1>3, <2>5
      <3>2. PacketsFrom(s)[n] = FromPlace(s, PacketsFrom(s), n)
        BY <1>3, <3>1, PacketsFromIs
      <3> QED
        BY <2>10, <2>11, <3>2 DEF FromPlace
    <2> QED
      BY <2>7, <2>12 DEF s
  <1> QED
    BY <1>1, <1>4, <1>5 DEF ParserTypes

\* The packets that were delivered, while recvdata runs and when it has returned.
DeliverInv == ParseInv /\ ShortInv /\ RestInv

\* Nothing has arrived and nothing is delivered.
LEMMA DeliverInit == Init => DeliverInv
  <1> SUFFICES ASSUME Init PROVE DeliverInv
    OBVIOUS
  <1>1. IInv
    BY InitInv
  <1>2. /\ parsetype = "PARSE_NOTHING" /\ copied = 0 /\ given = 0 /\ delivered = <<>>
        /\ truepacketlen = 0
    BY EmptySeq DEF Init, truepacketlen
  <1>3. place = 0
    BY <1>2 DEF place
  <1>4. ASSUME NEW m \in given..Len(stream) PROVE ParsedWhen(m)
    <2> DEFINE p == PacketsFrom(Arrived(m))[1]
    <2>1. /\ m \in Nat /\ Arrived(m) \in Seq(Byte) /\ Len(Arrived(m)) = m
      BY <1>1, ArrivedFacts
    <2>2. p \in Seq(Seq(Byte))
      <3>1. 1 \in 1..Len(Arrived(m)) + 1
        BY <2>1
      <3> QED
        BY <2>1, <3>1, PacketsFromType
    <2>3. place + 1 = 1
      BY <1>3
    <2>4. PacketsFrom(Arrived(m))[place + 1] = p
      BY <2>3
    <2> HIDE DEF p
    <2>5. Cat(<<>>, p) = p
      BY <2>2, ConcatEmptySeq DEF Cat
    <2>6. Cat(delivered, PacketsFrom(Arrived(m))[place + 1]) = p
      BY <1>2, <2>4, <2>5
    <2> QED
      BY <2>6 DEF ParsedWhen, p
  <1>5. ParseInv
    BY <1>4 DEF ParseInv
  <1> QED
    BY <1>2, <1>5 DEF DeliverInv, ShortInv, RestInv, HEADLEN

\* Whenever recvdata returns it has called back with exactly the packets of all
\* the bytes that this parser was ever given.
DeliversStream == ~running => delivered = Packets(SubSeq(stream, 1, given))

LEMMA StreamDelivered == Spec => []DeliversStream
  <1>1. ASSUME IInv, DeliverInv PROVE DeliversStream
    <2> SUFFICES ASSUME ~running PROVE delivered = Packets(SubSeq(stream, 1, given))
      BY DEF DeliversStream
    <2> DEFINE s == Arrived(given)
    <2>1. s = SubSeq(stream, 1, given)
      <3>1. 0 + 1 = 1
        OBVIOUS
      <3> QED
        BY <3>1 DEF Arrived, Piece
    <2>2. given \in given..Len(stream)
      BY <1>1, Numbers DEF IInv
    <2>3. PacketsFrom(s)[1] = Cat(delivered, PacketsFrom(s)[place + 1])
      BY <1>1, <2>2 DEF DeliverInv, ParseInv, ParsedWhen
    <2>4. PacketsFrom(s)[place + 1] = <<>>
      BY <1>1, NothingLeft DEF DeliverInv
    <2>5. Cat(delivered, <<>>) = delivered
      <3>1. delivered \in Seq(Seq(Byte))
        BY <1>1 DEF IInv, ParserTypes
      <3> QED
        BY <3>1, ConcatEmptySeq DEF Cat
    <2>6. PacketsFrom(s)[1] = delivered
      BY <2>3, <2>4, <2>5
    <2> QED
      BY <2>1, <2>6 DEF Packets
  <1>2. IInv /\ DeliverInv /\ IInv' /\ [Next]_vars => DeliverInv'
    BY ParseStep, RestStep DEF DeliverInv
  <1> QED
    BY <1>1, <1>2, DeliverInit, Inductive, PTL DEF Spec

\* A connection that began with empty buffers: all packets are those delivered
\* before it and those from its first byte on.
SinceInv ==
    ~stale =>
       \A m \in given..Len(stream) :
          PacketsFrom(Arrived(m))[1] = Cat(earlier, PacketsFrom(Arrived(m))[began + 1])

\* At the start it is the first connection of the parser.
LEMMA SinceInit == Init => SinceInv
  <1> SUFFICES ASSUME Init PROVE SinceInv
    OBVIOUS
  <1>1. ParseInv /\ IInv
    BY DeliverInit, InitInv DEF DeliverInv
  <1>2. place = 0 /\ began = 0 /\ earlier = <<>> /\ delivered = <<>>
    <2>1. place \in Nat /\ place <= copied /\ copied = 0
      BY <1>1, HeldPiece DEF Init
    <2> QED
      BY <2>1 DEF Init
  <1> QED
    BY <1>1, <1>2 DEF ParseInv, ParsedWhen, SinceInv

\* A new connection begins where the parser stands if that holds no bytes; no
\* other step touches where the connection began.
LEMMA SinceStep ==
    ASSUME IInv, IInv', DeliverInv, SinceInv, [Next]_vars
    PROVE  SinceInv'
  <1>1. given \in Nat /\ Len(stream) \in Nat
    BY Numbers DEF IInv
  <1>2. CASE NewConnection
    <2> SUFFICES ASSUME ~stale', NEW m \in given'..Len(stream')
                 PROVE  PacketsFrom(Arrived(m)')[1]
                          = Cat(earlier', PacketsFrom(Arrived(m)')[began' + 1])
      BY DEF SinceInv
    <2>1. /\ stream' = stream /\ given' = given /\ began' = given /\ earlier' = delivered
          /\ Held = <<>> /\ ~running
      BY <1>2 DEF NewConnection, inVars
    <2>2. place = given
      <3>1. /\ Piece(stream, place, copied) = <<>> /\ place \in Nat /\ place <= copied
            /\ copied = given
        BY <2>1, HeldPiece DEF DeliverInv, RestInv
      <3>2. Len(Piece(stream, place, copied)) = copied - place
        <4>1. stream \in Seq(Byte) /\ copied \in Nat /\ copied <= Len(stream)
          BY <3>1, Numbers DEF IInv, ParserTypes
        <4> QED
          BY <3>1, <4>1, PieceFacts
      <3>3. copied - place = 0
        BY <3>1, <3>2, EmptySeq
      <3> QED
        BY <1>1, <3>1, <3>3
    <2>3. ParsedWhen(m)
      BY <2>1 DEF DeliverInv, ParseInv
    <2> QED
      BY <2>1, <2>2, <2>3 DEF ParsedWhen, Arrived
  <1>3. ASSUME ~NewConnection PROVE SinceInv'
    <2>1. began' = began /\ earlier' = earlier /\ stale' = stale /\ stream' = stream
      <3>1. CASE NoHead \/ HeaderIncomplete \/ HeaderIllegal \/ HeaderLegal \/ HeaderOverlong
        <4>1. Searching
          BY <3>1 DEF NoHead, HeaderIncomplete, HeaderIllegal, HeaderLegal, HeaderOverlong
        <4> QED
          BY <4>1 DEF Searching, connVars
      <3>2. CASE DataIncomplete \/ SearchAgain \/ CallBack
        BY <3>2 DEF DataIncomplete, SearchAgain, CallBack, DataComplete, connVars
      <3>3. CASE recvdata \/ Return \/ UNCHANGED vars
        BY <3>3 DEF recvdata, Return, vars, inVars, connVars
      <3> QED
        BY <1>3, <3>1, <3>2, <3>3 DEF Next, Round
    <2>2. given' \in given..Len(stream)
      <3>1. CASE recvdata
        BY <1>1, <3>1, recvdataStep
      <3>2. CASE ~recvdata
        <4>1. given' = given
          BY <3>2, StepKinds DEF GaveUp, Delivered
        <4>2. given <= Len(stream)
          BY Numbers DEF IInv
        <4> QED
          BY <1>1, <4>1, <4>2
      <3> QED
        BY <3>1, <3>2
    <2>3. given'..Len(stream') \subseteq given..Len(stream)
      BY <1>1, <2>1, <2>2
    <2> QED
      BY <2>1, <2>3 DEF SinceInv, Arrived
  <1> QED
    BY <1>2, <1>3

\* However the bytes of a connection were cut, at whatever bytes and in however
\* many calls, recvdata has called back with exactly its packets when it returns,
\* and in their order: none is lost, invented or left in a buffer until more
\* arrives, also in a context that served others before.  The one hypothesis is
\* that they left nothing in the buffers.
THEOREM DeliversWhole == Spec => []DeliversAll
  <1>1. ASSUME IInv, DeliversStream, SinceInv PROVE DeliversAll
    <2> SUFFICES ASSUME ~running, ~stale
                 PROVE  delivered = earlier \o PacketsFrom(SubSeq(stream, 1, given))[began + 1]
      BY DEF DeliversAll
    <2> DEFINE s == Arrived(given)
    <2>1. s = SubSeq(stream, 1, given)
      <3>1. 0 + 1 = 1
        OBVIOUS
      <3> QED
        BY <3>1 DEF Arrived, Piece
    <2>2. given \in given..Len(stream)
      BY <1>1, Numbers DEF IInv
    <2>3. PacketsFrom(s)[1] = Cat(earlier, PacketsFrom(s)[began + 1])
      BY <1>1, <2>2 DEF SinceInv
    <2>4. delivered = PacketsFrom(s)[1]
      BY <1>1, <2>1 DEF DeliversStream, Packets
    <2> QED
      BY <2>1, <2>3, <2>4 DEF Cat
  <1>2. IInv /\ DeliverInv /\ IInv' /\ [Next]_vars => DeliverInv'
    BY ParseStep, RestStep DEF DeliverInv
  <1>3. IInv /\ IInv' /\ DeliverInv /\ SinceInv /\ [Next]_vars => SinceInv'
    BY SinceStep
  <1> QED
    BY <1>1, <1>2, <1>3, DeliverInit, SinceInit, StreamDelivered, Inductive, PTL DEF Spec

(***************************************************************************)
(* What PacketData2 makes, recvdata gives back.                            *)
(***************************************************************************)
\* s has, behind its first p bytes, those that PacketData2 makes of a.
PacketAt(s, p, a) ==
    /\ p + Len(a) + 6 <= Len(s)
    /\ s[p + 1] = HEAD /\ s[p + 2] = HEAD /\ s[p + 3] = TAIL
    /\ s[p + 4] = Len(a) /\ s[p + 5] = CheckOf(a)
    /\ \A j \in 1..Len(a) : s[p + 5 + j] = a[j]
    /\ s[p + Len(a) + 6] = TAIL

\* PacketData2 makes them; they need not be bytes.
LEMMA PacketBytes ==
    ASSUME NEW S, NEW a \in Seq(S), {HEAD, TAIL, Len(a), CheckOf(a)} \subseteq S
    PROVE  /\ PacketData2(a) \in Seq(S) /\ Len(PacketData2(a)) = Len(a) + 6
           /\ PacketAt(PacketData2(a), 0, a)
  <1> DEFINE h == <<HEAD, HEAD, TAIL, Len(a), CheckOf(a)>>
             t == <<TAIL>>
             n == Len(a)
             c == Cat(h, a)
             w == Cat(c, t)
  <1>1. /\ h \in Seq(S) /\ Len(h) = 5
        /\ h[1] = HEAD /\ h[2] = HEAD /\ h[3] = TAIL /\ h[4] = n /\ h[5] = CheckOf(a)
    OBVIOUS
  <1>2. t \in Seq(S) /\ Len(t) = 1 /\ t[1] = TAIL
    OBVIOUS
  <1>3. PacketData2(a) = w
    BY DEF PacketData2, Cat
  <1>4. n \in Nat
    BY LenProperties
  <1> HIDE DEF h, t
  <1>5. c \in Seq(S) /\ Indexed(c, h, a)
    BY <1>1, CatType, CatIndex
  <1> HIDE DEF c
  <1>6. w \in Seq(S) /\ Indexed(w, c, t)
    BY <1>2, <1>5, CatType, CatIndex
  <1> HIDE DEF w, n
  <1>7. /\ Len(c) = 5 + n /\ c[1] = HEAD /\ c[2] = HEAD /\ c[3] = TAIL /\ c[4] = n
        /\ c[5] = CheckOf(a) /\ \A j \in 1..n : c[5 + j] = a[j]
    <2>1. /\ Len(c) = 5 + n /\ \A i \in 1..5 : c[i] = h[i]
          /\ \A j \in 1..n : c[5 + j] = a[j]
      BY <1>1, <1>5 DEF Indexed, n
    <2> QED
      BY <1>1, <2>1
  <1>8. Len(w) = n + 6 /\ (\A i \in 1..5 + n : w[i] = c[i]) /\ w[n + 6] = TAIL
    <2>1. /\ Len(w) = 5 + n + 1 /\ (\A i \in 1..5 + n : w[i] = c[i])
          /\ \A i \in 1..1 : w[5 + n + i] = t[i]
      BY <1>2, <1>6, <1>7 DEF Indexed
    <2>2. 5 + n + 1 = n + 6 /\ 1 \in 1..1
      BY <1>4
    <2>3. w[5 + n + 1] = t[1]
      BY <2>1, <2>2
    <2> QED
      BY <1>2, <2>1, <2>2, <2>3
  <1>9. /\ w[1] = HEAD /\ w[2] = HEAD /\ w[3] = TAIL /\ w[4] = n /\ w[5] = CheckOf(a)
        /\ \A j \in 1..n : w[5 + j] = a[j]
    <2>1. /\ 1 \in 1..5 + n /\ 2 \in 1..5 + n /\ 3 \in 1..5 + n /\ 4 \in 1..5 + n
          /\ 5 \in 1..5 + n /\ \A j \in 1..n : 5 + j \in 1..5 + n
      BY <1>4
    <2> QED
      BY <1>7, <1>8, <2>1
  <1>10. /\ 0 + n + 6 = n + 6 /\ 0 + 1 = 1 /\ 0 + 2 = 2 /\ 0 + 3 = 3 /\ 0 + 4 = 4 /\ 0 + 5 = 5
         /\ n + 6 <= n + 6
    BY <1>4
  <1>11. PacketAt(w, 0, a)
    BY <1>8, <1>9, <1>10 DEF PacketAt, n
  <1> QED
    BY <1>3, <1>6, <1>8, <1>11 DEF n

\* They are a packet, with these data, and the next begins behind it.
LEMMA PacketAtFirst ==
    ASSUME NEW s \in Seq(Byte), NEW p \in Nat, NEW a \in Seq(Byte), PacketAt(s, p, a)
    PROVE  PacketsFrom(s)[p + 1] = Cat(<<a>>, PacketsFrom(s)[p + Len(a) + 7])
  <1> DEFINE n == Len(a)
             i == p + 1
             j == p + 5
             k == p + 5 + n
  <1>1. n \in Nat /\ Len(s) \in Nat /\ HEADLEN = 4
    BY LenProperties DEF HEADLEN
  <1>2. p + n + 6 <= Len(s)
    BY DEF PacketAt
  <1>3. /\ i \in Nat /\ j \in Nat /\ k \in Nat /\ i <= j /\ j <= k /\ j <= Len(s) /\ k <= Len(s)
        /\ j = i + 4 /\ k = i + 4 + n /\ k - j = n /\ j - i = 4
        /\ i \in 1..Len(s) + 1 /\ i # Len(s) + 1 /\ i + 4 + n + 1 = p + n + 6
        /\ p + n + 6 + 1 = p + n + 7
    BY <1>1, <1>2
  <1>4. HeaderAt(s, i) = [header |-> HEAD, tail |-> TAIL, datalen |-> n, check |-> CheckOf(a)]
    <2>1. HeaderAt(s, i) = CharToNetPacket(Piece(s, i, j))
      BY <1>1, <1>3 DEF HeaderAt, Piece
    <2>2. /\ i + 1 = p + 2 /\ i + 2 = p + 3 /\ i + 3 = p + 4 /\ i + 4 = p + 5
          /\ 1 \in 1..4 /\ 2 \in 1..4 /\ 3 \in 1..4 /\ 4 \in 1..4
      OBVIOUS
    <2>3. s[p + 2] = HEAD /\ s[p + 3] = TAIL /\ s[p + 4] = n /\ s[p + 5] = CheckOf(a)
      BY DEF PacketAt
    <2>a. i \in Nat /\ j \in Nat /\ i <= j /\ j <= Len(s)
      BY <1>3
    <2> HIDE DEF i, j, n
    <2>4. \A l \in 1..j - i : Piece(s, i, j)[l] = s[i + l]
      BY <2>a, PieceFacts
    <2> DEFINE q == Piece(s, i, j)
    <2>5. \A l \in 1..4 : q[l] = s[i + l]
      BY <1>3, <2>4
    <2> HIDE DEF q
    <2>6. q[1] = HEAD /\ q[2] = TAIL /\ q[3] = n /\ q[4] = CheckOf(a)
      BY <2>2, <2>3, <2>5
    <2>7. HeaderAt(s, i) = CharToNetPacket(q)
      BY <2>1 DEF q
    <2> QED
      BY <2>6, <2>7 DEF CharToNetPacket
  <1>5. /\ HeaderAt(s, i).datalen = n /\ HeaderAt(s, i).check = CheckOf(a)
        /\ LegalHeader(HeaderAt(s, i))
    BY <1>4 DEF LegalHeader
  <1>6. EndAt(s, i) = p + n + 6
    BY <1>1, <1>3, <1>5 DEF EndAt
  <1>7. DataAt(s, i) = a
    <2>1. DataAt(s, i) = Piece(s, j, k)
      BY <1>1, <1>3, <1>5 DEF DataAt, Piece
    <2>2. \A l \in 1..n : s[j + l] = a[l]
      BY DEF PacketAt
    <2>a. j \in Nat /\ k \in Nat /\ j <= k /\ k <= Len(s)
      BY <1>3
    <2> HIDE DEF j, k, i, n
    <2>3. /\ Piece(s, j, k) \in Seq(Byte) /\ Len(Piece(s, j, k)) = k - j
          /\ \A l \in 1..k - j : Piece(s, j, k)[l] = s[j + l]
      BY <2>a, PieceFacts
    <2> DEFINE q == Piece(s, j, k)
    <2> HIDE DEF q
    <2>4. q \in Seq(Byte) /\ Len(q) = n /\ \A l \in 1..n : q[l] = s[j + l]
      BY <1>3, <2>3 DEF q
    <2>5. \A l \in 1..n : q[l] = a[l]
      BY <2>2, <2>4
    <2>6. q = a
      BY <2>4, <2>5, SeqEqual DEF n
    <2> QED
      BY <2>1, <2>6 DEF q
  <1>8. s[i] = HEAD /\ s[p + n + 6] = TAIL
    BY DEF PacketAt
  <1>9. Complete(s, i) /\ IsPacket(s, i)
    <2>1. HasHeader(s, i)
      BY <1>1, <1>3, <1>8 DEF HasHeader
    <2>2. Complete(s, i)
      BY <1>2, <1>5, <1>6, <2>1 DEF Complete
    <2> QED
      BY <1>5, <1>6, <1>7, <1>8, <2>2 DEF IsPacket
  <1> HIDE DEF i, n
  <1>10. ~Hopeless(s, i)
    BY <1>9 DEF Hopeless, IsPacket, Complete, HasHeader
  <1>11. PacketsFrom(s)[i] = FromPlace(s, PacketsFrom(s), i)
    BY <1>3, PacketsFromIs
  <1>12. PacketsFrom(s)[i] = <<a>> \o PacketsFrom(s)[p + n + 7]
    BY <1>3, <1>6, <1>7, <1>9, <1>10, <1>11 DEF FromPlace
  <1> QED
    BY <1>12 DEF Cat, i, n

\* Two of them behind each other are the two packets, and nothing else.
LEMMA TwoPackets ==
    ASSUME NEW a \in Seq(Byte), NEW b \in Seq(Byte),
           PacketData2(a) \o PacketData2(b) \in Seq(Byte)
    PROVE  Packets(PacketData2(a) \o PacketData2(b)) = <<a, b>>
  <1> DEFINE S == Byte \cup {HEAD, TAIL, Len(a), CheckOf(a), Len(b), CheckOf(b)}
             v == PacketData2(a)
             w == PacketData2(b)
             s == Cat(v, w)
             n == Len(a)
             m == Len(b)
  <1>1. a \in Seq(S) /\ b \in Seq(S)
    <2>1. Byte \subseteq S
      OBVIOUS
    <2> HIDE DEF S
    <2> QED
      BY <2>1, SeqMonotonic
  <1>2. /\ {HEAD, TAIL, Len(a), CheckOf(a)} \subseteq S
        /\ {HEAD, TAIL, Len(b), CheckOf(b)} \subseteq S
    OBVIOUS
  <1> HIDE DEF S
  <1>3. /\ v \in Seq(S) /\ Len(v) = n + 6 /\ PacketAt(v, 0, a)
        /\ w \in Seq(S) /\ Len(w) = m + 6 /\ PacketAt(w, 0, b)
    BY <1>1, <1>2, PacketBytes
  <1>4. s \in Seq(Byte)
    BY DEF Cat
  <1>5. s = v \o w
    BY DEF Cat
  <1> HIDE DEF v, w
  <1>6. Indexed(s, v, w)
    BY <1>3, CatIndex
  <1> HIDE DEF s
  <1>7. n \in Nat /\ m \in Nat
    BY LenProperties
  <1>8. /\ Len(s) = n + 6 + (m + 6)
        /\ \A i \in 1..n + 6 : s[i] = v[i]
        /\ \A i \in 1..m + 6 : s[n + 6 + i] = w[i]
    BY <1>3, <1>6 DEF Indexed
  <1>9. PacketAt(s, 0, a)
    <2>1. /\ 1 \in 1..n + 6 /\ 2 \in 1..n + 6 /\ 3 \in 1..n + 6 /\ 4 \in 1..n + 6 /\ 5 \in 1..n + 6
          /\ n + 6 \in 1..n + 6 /\ \A j \in 1..n : 5 + j \in 1..n + 6
          /\ 0 + n + 6 = n + 6 /\ 0 + 1 = 1 /\ 0 + 2 = 2 /\ 0 + 3 = 3 /\ 0 + 4 = 4 /\ 0 + 5 = 5
          /\ n + 6 <= n + 6 + (m + 6)
      BY <1>7
    <2> QED
      BY <1>3, <1>8, <2>1 DEF PacketAt
  <1>10. PacketAt(s, n + 6, b)
    <2> DEFINE p == n + 6
    <2>1. /\ 1 \in 1..m + 6 /\ 2 \in 1..m + 6 /\ 3 \in 1..m + 6 /\ 4 \in 1..m + 6 /\ 5 \in 1..m + 6
          /\ m + 6 \in 1..m + 6 /\ \A j \in 1..m : 5 + j \in 1..m + 6
          /\ 0 + m + 6 = m + 6 /\ 0 + 1 = 1 /\ 0 + 2 = 2 /\ 0 + 3 = 3 /\ 0 + 4 = 4 /\ 0 + 5 = 5
      BY <1>7
    <2>2. /\ w[1] = HEAD /\ w[2] = HEAD /\ w[3] = TAIL /\ w[4] = m /\ w[5] = CheckOf(b)
          /\ (\A j \in 1..m : w[5 + j] = b[j]) /\ w[m + 6] = TAIL
      BY <1>3, <2>1 DEF PacketAt
    <2>3. /\ p + m + 6 = p + (m + 6) /\ p + m + 6 <= Len(s)
          /\ \A j \in 1..m : p + 5 + j = p + (5 + j)
      BY <1>7, <1>8
    <2> HIDE DEF p
    <2>4. \A i \in 1..m + 6 : s[p + i] = w[i]
      BY <1>8 DEF p
    <2>5. \A j \in 1..m : s[p + 5 + j] = b[j]
      BY <2>1, <2>2, <2>3, <2>4
    <2>6. s[p + m + 6] = TAIL
      BY <2>1, <2>2, <2>3, <2>4
    <2>7. PacketAt(s, p, b)
      BY <2>1, <2>2, <2>3, <2>4, <2>5, <2>6 DEF PacketAt
    <2> QED
      BY <2>7 DEF p
  <1>11. PacketsFrom(s)[1] = Cat(<<a>>, PacketsFrom(s)[n + 7])
    <2>1. 0 \in Nat /\ 0 + 1 = 1 /\ 0 + n + 7 = n + 7
      BY <1>7
    <2>2. PacketsFrom(s)[0 + 1] = Cat(<<a>>, PacketsFrom(s)[0 + n + 7])
      BY <1>4, <1>9, <2>1, PacketAtFirst
    <2> QED
      BY <2>1, <2>2
  <1>12. PacketsFrom(s)[n + 7] = Cat(<<b>>, PacketsFrom(s)[Len(s) + 1])
    <2> DEFINE p == n + 6
    <2>1. p \in Nat /\ p + 1 = n + 7 /\ p + m + 7 = Len(s) + 1
      BY <1>7, <1>8
    <2>2. PacketAt(s, p, b)
      BY <1>10
    <2> HIDE DEF p
    <2>3. PacketsFrom(s)[p + 1] = Cat(<<b>>, PacketsFrom(s)[p + m + 7])
      BY <1>4, <2>1, <2>2, PacketAtFirst
    <2> QED
      BY <2>1, <2>3
  <1>13. PacketsFrom(s)[Len(s) + 1] = <<>>
    <2>1. Len(s) + 1 \in 1..Len(s) + 1
      BY <1>7, <1>8
    <2> QED
      BY <1>4, <2>1, PacketsFromIs DEF FromPlace
  <1>14. PacketsFrom(s)[1] = <<a, b>>
    <2>1. a \in Seq(Byte) /\ b \in Seq(Byte)
      OBVIOUS
    <2>2. Cat(<<b>>, <<>>) = <<b>> /\ Cat(<<a>>, <<b>>) = <<a, b>>
      BY <2>1, CatPair
    <2> QED
      BY <1>11, <1>12, <1>13, <2>2
  <1> QED
    BY <1>5, <1>14 DEF Packets, v, w

\* Two strings of a user that a peer frames with PacketData2 come back as these
\* two strings, in whatever pieces they arrive, also when they are empty or full
\* of HEADs and TAILs, and whatever the digest is.
THEOREM RoundTripHolds == Spec => []RoundTrip
  <1>1. ASSUME IInv, DeliversStream PROVE RoundTrip
    <2> SUFFICES ASSUME ~running, given = Len(stream), NEW a \in Payload, NEW b \in Payload,
                        stream = PacketData2(a) \o PacketData2(b)
                 PROVE  delivered = <<a, b>>
      BY DEF RoundTrip
    <2>1. stream \in Seq(Byte)
      BY <1>1 DEF IInv, ParserTypes
    <2>2. a \in Seq(Byte) /\ b \in Seq(Byte)
      BY SyncAssumption
    <2>3. SubSeq(stream, 1, given) = stream
      BY <2>1, SubSeqFull
    <2>4. delivered = Packets(stream)
      BY <1>1, <2>3 DEF DeliversStream
    <2>5. Packets(stream) = <<a, b>>
      BY <2>1, <2>2, TwoPackets
    <2> QED
      BY <2>4, <2>5
  <1> QED
    BY <1>1, StreamDelivered, Inductive, PTL

(***************************************************************************)
(* The loop of recvdata ends: what Returns needs beside fairness.          *)
(***************************************************************************)
\* What a call has still to do: bytes to decide about, bytes to copy, a header
\* to find, a return.
Left(g, p, c, t, r) ==
    2 * (g - p) + (g - c) + (IF t = "PARSE_NOTHING" THEN 1 ELSE 0) + (IF r THEN 1 ELSE 0)

ToDo == Left(given, place, copied, parsetype, running)

RoundsEnd == [][Round \/ Return => ToDo' < ToDo]_vars

\* There is room for a header whenever a byte is looked for.
RoomInv == readlen >= HEADLEN + 2

\* Each of the ways in which it gets less.
LEMMA LeftLess ==
    ASSUME NEW g \in Nat, NEW p \in Nat, NEW q \in Nat, NEW c \in Nat, NEW d \in Nat,
           NEW t, NEW u, NEW r, p <= q, c <= d,
           \/ q > p
           \/ d > c /\ t = u
           \/ t = "PARSE_NOTHING" /\ u = "PARSE_HEAD"
    PROVE  Left(g, q, d, u, r) < Left(g, p, c, t, r)
  <1> DEFINE w == IF r THEN 1 ELSE 0
             x == IF t = "PARSE_NOTHING" THEN 1 ELSE 0
             y == IF u = "PARSE_NOTHING" THEN 1 ELSE 0
  <1>1. w \in 0..1 /\ x \in 0..1 /\ y \in 0..1
    OBVIOUS
  <1>2. q > p \/ (d > c /\ x = y) \/ (x = 1 /\ y = 0)
    OBVIOUS
  <1> HIDE DEF w, x, y
  <1>3. 2 * (g - q) + (g - d) + y + w < 2 * (g - p) + (g - c) + x + w
    BY <1>1, <1>2
  <1> QED
    BY <1>3 DEF Left, w, x, y

\* A return is one thing less.
LEMMA LeftReturn ==
    ASSUME NEW g \in Nat, NEW p \in Nat, NEW c \in Nat, NEW d \in Nat, NEW t, c <= d
    PROVE  Left(g, p, d, t, FALSE) < Left(g, p, c, t, TRUE)
  <1> DEFINE x == IF t = "PARSE_NOTHING" THEN 1 ELSE 0
  <1>1. x \in 0..1
    OBVIOUS
  <1> HIDE DEF x
  <1>2. 2 * (g - p) + (g - d) + x + 0 < 2 * (g - p) + (g - c) + x + 1
    BY <1>1
  <1> QED
    BY <1>2 DEF Left, x

\* It is a number.
LEMMA ToDoType == IInv => ToDo \in Nat
  <1> SUFFICES ASSUME IInv PROVE ToDo \in Nat
    OBVIOUS
  <1>1. /\ place \in Nat /\ place <= copied /\ copied \in Nat /\ given \in Nat
        /\ copied <= given
    BY HeldPiece, Numbers DEF IInv
  <1> DEFINE x == IF parsetype = "PARSE_NOTHING" THEN 1 ELSE 0
             y == IF running THEN 1 ELSE 0
             p == place
  <1>2. x \in 0..1 /\ y \in 0..1
    OBVIOUS
  <1> HIDE DEF x, y, p
  <1>3. 2 * (given - p) + (given - copied) + x + y \in Nat
    BY <1>1, <1>2 DEF p
  <1> QED
    BY <1>3 DEF ToDo, Left, x, y, p

\* A search has either six bytes to look at or gets more.
LEMMA SearchGets ==
    ASSUME IInv, RoomInv, Searching
    PROVE  /\ Len(Filled) >= 1
           /\ Len(Filled) <= HEADLEN => copied' > copied
  <1> DEFINE room == readlen - truepacketlen
             n == IF room >= given - copied THEN given - copied ELSE room
             more == Piece(stream, copied, copied + n)
  <1>1. /\ truepacketlen \in Nat /\ given \in Nat /\ copied \in Nat /\ copied <= given
        /\ Len(stream) \in Nat /\ given <= Len(stream) /\ readlen \in Nat /\ HEADLEN = 4
        /\ truepacketlen <= readlen /\ stream \in Seq(Byte) /\ thread_readdata \in Seq(Byte)
        /\ readlen >= 6
    BY Numbers DEF IInv, ParserTypes, InBounds, RoomInv
  <1>2. copied < given \/ truepacketlen >= 6
    BY <1>1 DEF Searching, GoesOn
  <1>3. copied' = copied + Len(Filled) - truepacketlen
    BY DEF Searching
  <1>4. n \in Nat /\ copied + n <= Len(stream) /\ (truepacketlen < 6 => n >= 1)
    BY <1>1, <1>2
  <1>5. Filled = thread_readdata \o more
    BY DEF Filled, Piece
  <1>6. more \in Seq(Byte) /\ Len(more) = n
    <2> DEFINE k == copied + n
    <2>1. k \in Nat /\ copied <= k /\ k <= Len(stream) /\ k - copied = n
      BY <1>1, <1>4
    <2> HIDE DEF k, n
    <2>2. Piece(stream, copied, k) \in Seq(Byte) /\ Len(Piece(stream, copied, k)) = k - copied
      BY <1>1, <2>1, PieceFacts
    <2> QED
      BY <2>1, <2>2 DEF k
  <1> HIDE DEF more, n
  <1>7. Len(Filled) = truepacketlen + n
    BY <1>1, <1>5, <1>6, ConcatProperties DEF truepacketlen
  <1> DEFINE m == Len(Filled)
             l == truepacketlen
  <1>8. m = l + n /\ copied' = copied + m - l /\ l \in Nat
    BY <1>1, <1>3, <1>7
  <1>9. (copied < given \/ l >= 6) /\ (l < 6 => n >= 1)
    BY <1>2, <1>4
  <1> HIDE DEF m, l
  <1>10. m >= 1 /\ (m <= 4 => copied' > copied)
    BY <1>1, <1>4, <1>8, <1>9
  <1> QED
    BY <1>1, <1>10 DEF m

\* Each round gives up or delivers bytes, or copies some, or finds a header, or
\* returns.
LEMMA RoundStep ==
    ASSUME IInv, RoomInv, Round \/ Return
    PROVE  RoomInv' /\ ToDo' < ToDo
  <1>1. /\ readlen \in Nat /\ HEADLEN = 4 /\ given \in Nat /\ copied \in Nat /\ place \in Nat
        /\ Need \in Nat /\ getdatalen \in Nat
    BY HeldPiece, Numbers DEF IInv
  <1>2. ASSUME running' = running, given' = given, copied' \in Nat, place' \in Nat,
               place' >= place, copied' >= copied,
               \/ place' > place
               \/ copied' > copied /\ parsetype' = parsetype
               \/ parsetype = "PARSE_NOTHING" /\ parsetype' = "PARSE_HEAD"
        PROVE  ToDo' < ToDo
    <2> DEFINE p == place
               q == place'
               c == copied
               d == copied'
               t == parsetype
               u == parsetype'
    <2>1. /\ q > p \/ (d > c /\ t = u) \/ (t = "PARSE_NOTHING" /\ u = "PARSE_HEAD")
          /\ p \in Nat /\ q \in Nat /\ c \in Nat /\ d \in Nat /\ p <= q /\ c <= d
      BY <1>1, <1>2
    <2> HIDE DEF p, q, c, d, t, u
    <2>2. Left(given, q, d, u, running) < Left(given, p, c, t, running)
      BY <1>1, <2>1, LeftLess
    <2> QED
      BY <1>2, <2>2 DEF ToDo, p, q, c, d, t, u
  <1>3. CASE NoHead \/ HeaderIncomplete \/ HeaderIllegal \/ HeaderLegal
    <2>1. Searching /\ running' = running /\ given' = given /\ readlen' = readlen
      BY <1>3 DEF NoHead, HeaderIncomplete, HeaderIllegal, HeaderLegal, Searching
    <2> DEFINE m == Len(Filled)
    <2>2. /\ m \in Nat /\ m >= 1 /\ (m <= 4 => copied' > copied)
          /\ copied' \in copied..given
      BY <1>1, <2>1, FilledFacts, SearchGets
    <2>3. copied' \in Nat /\ copied' >= copied
      BY <1>1, <2>2
    <2> HIDE DEF m
    <2>4. RoomInv'
      BY <2>1 DEF RoomInv, HEADLEN
    <2>5. CASE NoHead
      <3>1. place' = place + m
        BY <2>5, NoHeadStep DEF m
      <3> QED
        BY <1>1, <1>2, <2>1, <2>2, <2>3, <2>4, <3>1
    <2>6. CASE HeaderIncomplete
      <3>1. PICK k \in 0..m : place' = place + k /\ m - k - 1 < 4
        BY <1>1, <2>6, HeaderIncompleteStep DEF m
      <3>2. parsetype' = parsetype
        BY <2>6 DEF HeaderIncomplete
      <3>3. k = 0 => copied' > copied
        BY <2>2, <3>1
      <3>4. place' \in Nat /\ place' >= place /\ (k # 0 => place' > place)
        BY <1>1, <2>2, <3>1
      <3> QED
        BY <1>2, <2>1, <2>3, <2>4, <3>2, <3>3, <3>4
    <2>7. CASE HeaderIllegal
      <3>1. PICK pos \in 0..m - 1 : place' = place + (pos + 1)
        BY <2>7, HeaderIllegalStep DEF m
      <3>2. place' \in Nat /\ place' > place
        BY <1>1, <2>2, <3>1
      <3> QED
        BY <1>1, <1>2, <2>1, <2>3, <2>4, <3>2
    <2>8. CASE HeaderLegal
      <3>1. place' = place /\ parsetype = "PARSE_NOTHING" /\ parsetype' = "PARSE_HEAD"
        BY <2>1, <2>8, HeaderLegalStep DEF HeaderLegal, Searching
      <3> QED
        BY <1>1, <1>2, <2>1, <2>3, <2>4, <3>1
    <2> QED
      BY <1>3, <2>5, <2>6, <2>7, <2>8
  <1>4. CASE SearchAgain \/ CallBack
    <2>1. /\ DataComplete /\ parsetype = "PARSE_HEAD" /\ running' = running /\ given' = given
          /\ copied' = copied + Need - getdatalen
      BY <1>4 DEF SearchAgain, CallBack, DataComplete
    <2>2. /\ headpos \in Nat /\ body = place + headpos + 5 /\ getdatalen <= Need
      BY <2>1, CollectNumbers
    <2>3. copied' \in Nat /\ copied' >= copied
      BY <1>1, <2>1, <2>2
    <2>4. place' \in Nat /\ place' > place
      <3>1. CASE SearchAgain
        <4>1. place' = place + (headpos + 1)
          BY <3>1, SearchAgainStep
        <4> QED
          BY <1>1, <2>2, <4>1
      <3>2. CASE CallBack
        <4>1. place' = body + Need
          BY <3>2, CallBackStep
        <4> QED
          BY <1>1, <2>2, <4>1
      <3> QED
        BY <1>4, <3>1, <3>2
    <2>5. RoomInv'
      <3>1. readlen' = readlen \/ (readlen' = HEADLEN + Need /\ readlen < HEADLEN + Need)
        BY <1>4 DEF SearchAgain, CallBack
      <3> QED
        BY <1>1, <3>1 DEF RoomInv, HEADLEN
    <2> QED
      BY <1>1, <1>2, <2>1, <2>3, <2>4, <2>5
  <1>5. CASE DataIncomplete \/ Return
    <2>1. /\ running = TRUE /\ running' = FALSE /\ parsetype' = parsetype /\ given' = given
          /\ readlen' = readlen
      BY <1>5 DEF DataIncomplete, Return, readVars, IInv, ParserTypes
    <2>2. place' = place /\ copied' \in Nat /\ copied' >= copied
      <3>1. CASE DataIncomplete
        <4>1. place' = place /\ copied' = given /\ copied <= given
          BY <3>1, DataIncompleteStep, Numbers DEF IInv
        <4> QED
          BY <1>1, <4>1
      <3>2. CASE Return
        <4>1. place' = place /\ copied' = copied
          BY <3>2, SilentStep
        <4> QED
          BY <1>1, <4>1
      <3> QED
        BY <1>5, <3>1, <3>2
    <2>3. RoomInv'
      BY <2>1 DEF RoomInv, HEADLEN
    <2> DEFINE p == place
               d == copied'
    <2>4. p \in Nat /\ d \in Nat /\ copied <= d
      BY <1>1, <2>2
    <2> HIDE DEF p, d
    <2>5. Left(given, p, d, parsetype, FALSE) < Left(given, p, copied, parsetype, TRUE)
      BY <1>1, <2>4, LeftReturn
    <2> QED
      BY <2>1, <2>2, <2>3, <2>5 DEF ToDo, p, d
  <1> QED
    BY <1>3, <1>4, <1>5 DEF Round

\* A call of recvdata cannot go round for ever, on any bytes, although it goes
\* back in the stream behind every false head: each round leaves less to do, and
\* no more rounds are made than there was to do when the call began.
THEOREM NoEndlessLoop == Spec => [](ToDo \in Nat) /\ RoundsEnd
  <1>1. Init => RoomInv
    BY SyncAssumption DEF Init, RoomInv
  <1>2. IInv /\ RoomInv /\ [Next]_vars => RoomInv'
    <2> SUFFICES ASSUME IInv, RoomInv, [Next]_vars PROVE RoomInv'
      OBVIOUS
    <2>1. CASE Round \/ Return
      BY <2>1, RoundStep
    <2>2. CASE recvdata \/ HeaderOverlong \/ NewConnection \/ UNCHANGED vars
      <3>1. readlen' = readlen
        BY <2>2 DEF recvdata, HeaderOverlong, Searching, NewConnection, vars, readVars
      <3> QED
        BY <3>1 DEF RoomInv, HEADLEN
    <2> QED
      BY <2>1, <2>2 DEF Next
  <1>3. IInv /\ RoomInv => [Round \/ Return => ToDo' < ToDo]_vars
    BY RoundStep
  <1> QED
    BY <1>1, <1>2, <1>3, ToDoType, Inductive, PTL DEF Spec, RoundsEnd
=============================================================================
