---------------------------- MODULE PacketFormat ----------------------------
(***************************************************************************)
(* A packet on the wire: the head byte, the NetPacket header, datalen      *)
(* bytes of data and the tail byte.  Of the header only the four fields    *)
(* that the receiver looks at are kept, each a byte of the model; version, *)
(* type and reserve travel with them and are never tested.                 *)
(***************************************************************************)
EXTENDS Naturals, Sequences

CONSTANTS HEAD, TAIL,   \* the bytes given to CPacketSync::Start
          Base,         \* bound: a byte is one of 0 .. Base - 1
          Digest(_)     \* MD5 of a string that is not empty, one byte here

Byte == 0..Base - 1

ASSUME FormatAssumption ==
    /\ Base \in Nat \ {0}
    /\ HEAD \in Byte /\ TAIL \in Byte
    /\ 2 * TAIL < Base   \* it is compared with a signed char

\* NET_PACKAGE_HEADLEN.
HEADLEN == 4

\* CharToNetPacket; h is a string of HEADLEN bytes.  datalen is unsigned, 32 bits
\* on the wire: up to twice the largest int and one.
CharToNetPacket(h) ==
    [header |-> h[1], tail |-> h[2], datalen |-> h[3], check |-> h[4]]

\* The data is checked by its MD5, and by zero when there is none.
CheckOf(data) == IF data = <<>> THEN 0 ELSE Digest(data)

\* A fault: the MD5 of the empty string is sent too.
PacketData2Always(data) ==
    <<HEAD, HEAD, TAIL, Len(data), Digest(data)>> \o data \o <<TAIL>>

PacketData2(data) ==
    <<HEAD, HEAD, TAIL, Len(data), CheckOf(data)>> \o data \o <<TAIL>>

(***************************************************************************)
(* What a string s holds at a place i, seen at once and not in parts.      *)
(***************************************************************************)
HeaderAt(s, i) == CharToNetPacket(SubSeq(s, i + 1, i + HEADLEN))
DataAt(s, i) == SubSeq(s, i + HEADLEN + 1, i + HEADLEN + HeaderAt(s, i).datalen)
EndAt(s, i) == i + HEADLEN + HeaderAt(s, i).datalen + 1

HasHeader(s, i) == s[i] = HEAD /\ i + HEADLEN <= Len(s)

\* The third test of the code, datalen < 0, is never true of a size_t.
LegalHeader(h) == h.header = HEAD /\ h.tail = TAIL
Complete(s, i) ==
    HasHeader(s, i) /\ LegalHeader(HeaderAt(s, i)) /\ EndAt(s, i) <= Len(s)

IsPacket(s, i) ==
    /\ Complete(s, i)
    /\ s[EndAt(s, i)] = TAIL
    /\ HeaderAt(s, i).check = CheckOf(DataAt(s, i))

\* No packet begins at i, whatever follows s.
Hopeless(s, i) ==
    \/ s[i] # HEAD
    \/ HasHeader(s, i) /\ ~LegalHeader(HeaderAt(s, i))
    \/ Complete(s, i) /\ ~IsPacket(s, i)
=============================================================================
