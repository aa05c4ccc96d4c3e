----------------------------- MODULE PacketSync -----------------------------
(***************************************************************************)
(* CPacketSync: recvdata takes the bytes of a stream in the portions in    *)
(* which they happen to arrive and calls the user back with every packet.  *)
(* It searches for a header in thread_readdata, collects the data of the   *)
(* packet in thread_packetdata, and puts both together again to search on  *)
(* when the tail or the check is wrong.                                    *)
(*                                                                         *)
(* The stream is fixed at the start.  How far recvdata has been given it   *)
(* and how far it has copied it are two places in the stream, which stand  *)
(* for its arguments data and len and its local variable iret.  A parser   *)
(* outlives the connection whose bytes it reads: the stream is what it     *)
(* gets from one connection after the other (NewConnection).               *)
(*                                                                         *)
(* Lengths are size_t in the code, but headpos is an int, and getdatalen   *)
(* is computed with ints.  A header of a packet that an int cannot count   *)
(* is the end of a behaviour (HeaderOverlong).  Memory is always there.    *)
(***************************************************************************)
EXTENDS PacketFormat, Integers

CONSTANTS Streams,      \* what may arrive, from the connections of a context
          BUFFER_SIZE,  \* the first size of both buffers
          MaxInt,       \* the largest int
          Payload       \* the data of the packets a peer makes with PacketData2

ASSUME SyncAssumption ==
    /\ Streams \subseteq Seq(Byte)
    /\ BUFFER_SIZE \in Nat /\ BUFFER_SIZE >= HEADLEN + 2
    /\ MaxInt \in Nat /\ BUFFER_SIZE <= MaxInt
    /\ Payload \subseteq Seq(Byte)

VARIABLES
    stream,             \* the bytes that arrive
    given,              \* those that recvdata has been called with
    copied,             \* those that it has copied
    running,            \* recvdata is running
    parsetype,
    thread_readdata,    \* the first truepacketlen bytes of the buffer
    readlen,            \* thread_readdata.len
    headpos,
    theNexPacket,
    thread_packetdata,  \* the first getdatalen bytes of the buffer
    packetlen,          \* thread_packetdata.len
    overlong,           \* recvdata has read the header of an overlong packet
    delivered,          \* history: the data given to packet_cb_
    began,              \* history: where the connection's bytes begin
    earlier,            \* history: what was delivered before them
    stale               \* history: the connection found bytes in the buffers

inVars == <<stream, given, copied, running>>
readVars == <<thread_readdata, readlen>>
dataVars == <<thread_packetdata, packetlen>>
connVars == <<began, earlier, stale>>
vars == <<inVars, parsetype, readVars, headpos, theNexPacket, dataVars, overlong,
          delivered, connVars>>

truepacketlen == Len(thread_readdata)
getdatalen == Len(thread_packetdata)
NoHeader == [header |-> 0, tail |-> 0, datalen |-> 0, check |-> 0]

Init ==
    /\ stream \in Streams
    /\ given = 0
    /\ copied = 0
    /\ running = FALSE
    /\ parsetype = "PARSE_NOTHING"
    /\ thread_readdata = <<>>
    /\ readlen = BUFFER_SIZE
    /\ headpos = -1
    /\ theNexPacket = NoHeader
    /\ thread_packetdata = <<>>
    /\ packetlen = BUFFER_SIZE
    /\ overlong = FALSE
    /\ delivered = <<>>
    /\ began = 0
    /\ earlier = <<>>
    /\ stale = FALSE

\* A call, with the next len bytes.
recvdata ==
    /\ ~running
    /\ \E len \in 1..Len(stream) - given : given' = given + len
    /\ running' = TRUE
    /\ UNCHANGED <<stream, copied, parsetype, readVars, headpos, theNexPacket,
                   dataVars, overlong, delivered, connVars>>

\* A fault: the HEAD and the tail are not counted.
GoesOnAtHeader == copied < given \/ truepacketlen >= HEADLEN

\* The condition of the loop.
GoesOn == copied < given \/ truepacketlen >= HEADLEN + 2

Return ==
    /\ running /\ ~overlong /\ ~GoesOn
    /\ running' = FALSE
    /\ UNCHANGED <<stream, given, copied, parsetype, readVars, headpos, theNexPacket,
                   dataVars, overlong, delivered, connVars>>

(***************************************************************************)
(* A round of the loop that has no header yet.  It fills thread_readdata   *)
(* and looks for HEAD.  Places in it count from 0, as in the code.         *)
(***************************************************************************)
\* A fault: the room is counted from the start of the buffer.
FilledFromStart ==
    LET n == IF readlen >= given - copied THEN given - copied ELSE readlen
    IN thread_readdata \o SubSeq(stream, copied + 1, copied + n)

\* thread_readdata after memcpy of as much as it has room for.
Filled ==
    LET room == readlen - truepacketlen
        n == IF room >= given - copied THEN given - copied ELSE room
    IN thread_readdata \o SubSeq(stream, copied + 1, copied + n)

Searching ==
    /\ running /\ ~overlong /\ GoesOn
    /\ parsetype = "PARSE_NOTHING"
    /\ copied' = copied + Len(Filled) - truepacketlen
    /\ UNCHANGED <<stream, given, running, readlen, delivered, connVars>>

\* HEAD is at pos and nowhere before.
FirstHead(s, pos) == s[pos + 1] = HEAD /\ \A i \in 1..pos : s[i] # HEAD

NoHead ==
    /\ Searching
    /\ \A i \in 1..Len(Filled) : Filled[i] # HEAD
    /\ thread_readdata' = <<>>
    /\ UNCHANGED <<parsetype, headpos, theNexPacket, dataVars, overlong>>

From(s, pos) == SubSeq(s, pos + 1, Len(s))

HeaderIncomplete ==
    /\ Searching
    /\ \E pos \in 0..Len(Filled) - 1 :
          /\ FirstHead(Filled, pos)
          /\ Len(Filled) - pos - 1 < HEADLEN
          /\ headpos' = pos
          /\ thread_readdata' = From(Filled, pos)
    /\ UNCHANGED <<parsetype, theNexPacket, dataVars, overlong>>

ReadHeader(pos) == CharToNetPacket(SubSeq(Filled, pos + 2, pos + 1 + HEADLEN))

\* A fault: the whole header is skipped, and not only the HEAD before it.
HeaderIllegalSkipped ==
    /\ Searching
    /\ \E pos \in 0..Len(Filled) - 1 :
          /\ FirstHead(Filled, pos)
          /\ Len(Filled) - pos - 1 >= HEADLEN
          /\ ~LegalHeader(ReadHeader(pos))
          /\ headpos' = pos
          /\ theNexPacket' = ReadHeader(pos)
          /\ thread_readdata' = From(Filled, pos + 1 + HEADLEN)
    /\ UNCHANGED <<parsetype, dataVars, overlong>>

HeaderIllegal ==
    /\ Searching
    /\ \E pos \in 0..Len(Filled) - 1 :
          /\ FirstHead(Filled, pos)
          /\ Len(Filled) - pos - 1 >= HEADLEN
          /\ ~LegalHeader(ReadHeader(pos))
          /\ headpos' = pos
          /\ theNexPacket' = ReadHeader(pos)
          /\ thread_readdata' = From(Filled, pos + 1)
    /\ UNCHANGED <<parsetype, dataVars, overlong>>

AtMost(s, n) == IF Len(s) <= n THEN s ELSE SubSeq(s, 1, n)

\* No difference and no place in the buffers of such a packet exceeds an int.
Countable(h) == HEADLEN + h.datalen + 1 <= MaxInt

HeaderLegal ==
    /\ Searching
    /\ \E pos \in 0..Len(Filled) - 1 :
          LET h == ReadHeader(pos)
              need == h.datalen + 1
          IN
          /\ FirstHead(Filled, pos)
          /\ Len(Filled) - pos - 1 >= HEADLEN
          /\ LegalHeader(h) /\ Countable(h)
          /\ headpos' = pos
          /\ theNexPacket' = h
          /\ packetlen' = IF packetlen < need THEN need ELSE packetlen
          /\ thread_packetdata' = AtMost(From(Filled, pos + 1 + HEADLEN), need)
    /\ thread_readdata' = Filled
    /\ parsetype' = "PARSE_HEAD"
    /\ UNCHANGED overlong

\* The round up to the test of the header, of which the length may be any.  A
\* buffer is allocated next; but datalen + 1 as an int is negative, or 0 for the
\* largest length, getdatalen becomes that, and the copies leave the buffers or
\* take the wrong bytes.  What they do is undefined, and the behaviour ends.
HeaderOverlong ==
    /\ Searching
    /\ \E pos \in 0..Len(Filled) - 1 :
          /\ FirstHead(Filled, pos)
          /\ Len(Filled) - pos - 1 >= HEADLEN
          /\ LegalHeader(ReadHeader(pos)) /\ ~Countable(ReadHeader(pos))
          /\ headpos' = pos
          /\ theNexPacket' = ReadHeader(pos)
    /\ thread_readdata' = Filled
    /\ overlong' = TRUE
    /\ UNCHANGED <<parsetype, dataVars>>

(***************************************************************************)
(* The rest of a round: thread_packetdata gets the data and the tail.      *)
(***************************************************************************)
Need == theNexPacket.datalen + 1

\* The early return: recvdata waits for the next call.
DataIncomplete ==
    /\ running
    /\ parsetype = "PARSE_HEAD"
    /\ getdatalen + (given - copied) < Need
    /\ thread_packetdata' = thread_packetdata \o SubSeq(stream, copied + 1, given)
    /\ copied' = given
    /\ running' = FALSE
    /\ UNCHANGED <<stream, given, parsetype, readVars, headpos, theNexPacket,
                   packetlen, overlong, delivered, connVars>>

Collected ==
    thread_packetdata \o SubSeq(stream, copied + 1, copied + Need - getdatalen)

\* thread_readdata holds the whole packet, and perhaps more.
Whole == truepacketlen - headpos - 1 - HEADLEN >= Need

\* A fault: the tail is not waited for.
DataCompleteEarly ==
    /\ running
    /\ parsetype = "PARSE_HEAD"
    /\ getdatalen + (given - copied) >= theNexPacket.datalen
    /\ copied' = copied + Need - getdatalen
    /\ parsetype' = "PARSE_NOTHING"
    /\ UNCHANGED <<stream, given, running, headpos, theNexPacket, packetlen, overlong,
                   connVars>>

DataComplete ==
    /\ running
    /\ parsetype = "PARSE_HEAD"
    /\ getdatalen + (given - copied) >= Need
    /\ copied' = copied + Need - getdatalen
    /\ parsetype' = "PARSE_NOTHING"
    /\ UNCHANGED <<stream, given, running, headpos, theNexPacket, packetlen, overlong,
                   connVars>>

Good ==
    /\ Collected[Need] = TAIL
    /\ theNexPacket.check = CheckOf(SubSeq(Collected, 1, theNexPacket.datalen))

\* A fault: the part of the data that the buffer has is put back twice.
SearchAgainTwice ==
    /\ DataComplete /\ ~Good
    /\ thread_packetdata' = Collected
    /\ thread_readdata' = IF Whole THEN From(thread_readdata, headpos + 1)
                          ELSE SubSeq(thread_readdata, headpos + 2, truepacketlen) \o Collected
    /\ readlen' = IF readlen < HEADLEN + Need THEN HEADLEN + Need ELSE readlen
    /\ UNCHANGED delivered

\* The tail or the check is wrong: only the HEAD is given up.
SearchAgain ==
    /\ DataComplete /\ ~Good
    /\ thread_packetdata' = Collected
    /\ \/ /\ Whole
          /\ thread_readdata' = From(thread_readdata, headpos + 1)
          /\ UNCHANGED readlen
       \/ /\ ~Whole
          /\ thread_readdata' =
                SubSeq(thread_readdata, headpos + 2, headpos + 1 + HEADLEN) \o Collected
          /\ readlen' = IF readlen < HEADLEN + Need THEN HEADLEN + Need ELSE readlen
    /\ UNCHANGED delivered

\* A fault: what follows the packet in the buffer is thrown away.
CallBackAndClear ==
    /\ DataComplete /\ Good
    /\ thread_readdata' = <<>>
    /\ delivered' = Append(delivered, SubSeq(Collected, 1, theNexPacket.datalen))
    /\ thread_packetdata' = [Collected EXCEPT ![Need] = 0]
    /\ UNCHANGED readlen

\* packet_cb_ gets the data, with a zero in the place of the tail.
CallBack ==
    /\ DataComplete /\ Good
    /\ thread_readdata' = IF Whole THEN From(thread_readdata, headpos + 1 + HEADLEN + Need)
                          ELSE <<>>
    /\ delivered' = Append(delivered, SubSeq(Collected, 1, theNexPacket.datalen))
    /\ thread_packetdata' = [Collected EXCEPT ![Need] = 0]
    /\ UNCHANGED readlen

Round ==
    \/ NoHead \/ HeaderIncomplete \/ HeaderIllegal \/ HeaderLegal
    \/ DataIncomplete \/ SearchAgain \/ CallBack

\* The bytes that recvdata has taken and neither delivered nor given up: the
\* packet that is being collected may begin in one buffer and end in the other.
Held ==
    IF parsetype = "PARSE_NOTHING" \/ Whole
    THEN thread_readdata
    ELSE SubSeq(thread_readdata, 1, headpos + 1 + HEADLEN) \o thread_packetdata

\* The context is given to the next client that connects, or the client connects
\* again.  Start sets HEAD and TAIL to what they are and nothing else.
NewConnection ==
    /\ ~running
    /\ began' = given
    /\ earlier' = delivered
    /\ stale' = (Held # <<>>)
    /\ UNCHANGED <<inVars, parsetype, readVars, headpos, theNexPacket, dataVars, overlong,
                   delivered>>

Next == recvdata \/ Round \/ HeaderOverlong \/ Return \/ NewConnection

Spec == Init /\ [][Next]_vars

\* A thread that is in recvdata runs on; nobody has to call it.
FairSpec == Spec /\ WF_vars(Round \/ HeaderOverlong \/ Return)

(***************************************************************************)
(* Properties.                                                             *)
(***************************************************************************)
ParserTypes ==
    /\ stream \in Seq(Byte)
    /\ given \in 0..Len(stream) /\ copied \in 0..given
    /\ running \in BOOLEAN
    /\ parsetype \in {"PARSE_NOTHING", "PARSE_HEAD"}
    /\ thread_readdata \in Seq(Byte) /\ thread_packetdata \in Seq(Byte)
    /\ readlen \in Nat /\ packetlen \in Nat
    /\ headpos \in Int
    /\ theNexPacket \in [header : Byte, tail : Byte, datalen : Byte, check : Byte]
    /\ delivered \in Seq(Seq(Byte))

TypeOK ==
    /\ ParserTypes
    /\ overlong \in BOOLEAN /\ stale \in BOOLEAN
    /\ overlong => running /\ parsetype = "PARSE_NOTHING"
    /\ began \in 0..given /\ earlier \in Seq(Seq(Byte))

\* Up to the header of an overlong packet, no memcpy goes beyond a buffer or
\* reads in front of one: both buffers are as long as what they hold, and while
\* a packet is collected its header is in thread_readdata, so that none of the
\* unsigned differences wraps around.  An int counts everything: headpos is less
\* than readlen, and both sides of std::min are at most readlen or Need.
InBounds ==
    /\ truepacketlen <= readlen /\ readlen <= MaxInt
    /\ getdatalen <= packetlen
    /\ parsetype = "PARSE_HEAD" =>
          /\ 0 <= headpos /\ headpos + 1 + HEADLEN <= truepacketlen
          /\ getdatalen <= Need /\ Need <= packetlen
          /\ HEADLEN + Need <= MaxInt

Undecided == Held \o SubSeq(stream, copied + 1, given)

\* The two buffers together are a piece of the stream, up to the place to which
\* it was copied: no byte is lost, repeated or moved when they are put together.
HeldInStream ==
    /\ Len(Held) <= copied
    /\ \A i \in 1..Len(Held) : Held[i] = stream[copied - Len(Held) + i]

\* The packets of s from each place on, and from the first one.
PacketsFrom(s) ==
    LET P[i \in 1..Len(s) + 1] ==
          IF i = Len(s) + 1 THEN <<>>
          ELSE IF Hopeless(s, i) THEN P[i + 1]
          ELSE IF Complete(s, i) THEN <<DataAt(s, i)>> \o P[EndAt(s, i) + 1]
          ELSE <<>>
    IN P

Packets(s) == PacketsFrom(s)[1]

\* However the stream was cut, when recvdata returns it has delivered exactly
\* the packets of the connection's bytes: none is lost, none invented, none left
\* in a buffer until more arrives.  That is, of a connection that begins with
\* empty buffers, whatever the parser got before it.
DeliversAll ==
    ~running /\ ~stale =>
       delivered = earlier \o PacketsFrom(SubSeq(stream, 1, given))[began + 1]

\* README.md:13: for every message from a client to the server there is a function
\* that handles it.  Whatever an earlier connection has left in the parser, the
\* packets of a connection have been delivered when recvdata returns.
ServesEveryClient ==
    ~running =>
       Len(delivered) - Len(earlier)
          >= Len(PacketsFrom(SubSeq(stream, 1, given))[began + 1])

\* What PacketData2 makes of two strings is given back by recvdata as these two
\* strings, also when they are empty or full of HEADs and TAILs.
RoundTrip ==
    ~running /\ given = Len(stream) =>
       \A a, b \in Payload :
          stream = PacketData2(a) \o PacketData2(b) => delivered = <<a, b>>

Framer == INSTANCE PacketFramer WITH undecided <- Undecided

\* Every step gives up only bytes at which no packet can begin, in all that the
\* parser gets, be it from one connection or several.
ImplementsFramer == Framer!FramerSpec

\* A call of recvdata returns, unless it reads the header of an overlong packet.
Returns == running ~> ~running \/ overlong
=============================================================================
