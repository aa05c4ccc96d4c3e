---------------------------- MODULE MCPacketSync ----------------------------
EXTENDS PacketSync

\* Sensitive to every byte and its place.
MCDigest(data) ==
    LET D[i \in 0..Len(data)] == IF i = 0 THEN 3 ELSE (3 * D[i - 1] + data[i]) % Base
    IN D[Len(data)]

\* What a peer sends, whole, broken or cut off.
MCPayload == {<<>>, <<7>>, <<HEAD, TAIL>>}
Empty == PacketData2(<<>>)
Short == PacketData2(<<7>>)
BadTail == <<HEAD, HEAD, TAIL, 1, MCDigest(<<5>>), 5, 4>>
BadCheck == <<HEAD, HEAD, TAIL, 1, 9, 5, TAIL>>
Nested == <<HEAD, HEAD, TAIL, 7, 9, 6>> \o Empty \o <<TAIL>>
WrongTail == <<HEAD, HEAD, HEAD, TAIL, 0, TAIL>>
Piece == {PacketData2(d) : d \in MCPayload} \cup {BadTail, BadCheck, Nested, WrongTail,
          <<HEAD>>, <<6>>, <<HEAD, HEAD, TAIL, 4, 3, HEAD>>, <<HEAD, HEAD, TAIL, Base - 1, 0>>}

MCStreams == {a \o b : a \in Piece, b \in Piece} \cup {a \o b \o Short : a \in Piece, b \in Piece}
=============================================================================
