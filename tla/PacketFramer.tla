---------------------------- MODULE PacketFramer ----------------------------
(***************************************************************************)
(* What the parser of a byte stream promises: it reads the stream once     *)
(* from left to right, gives up a byte only when no packet can begin       *)
(* there, and delivers every packet that begins where it stands.           *)
(***************************************************************************)
EXTENDS PacketFormat

VARIABLES undecided,   \* the bytes received and not yet delivered or given up
          delivered    \* the data of the packets, in order

FramerInit == undecided = <<>> /\ delivered = <<>>

Receive ==
    /\ Len(undecided') > Len(undecided)
    /\ SubSeq(undecided', 1, Len(undecided)) = undecided
    /\ UNCHANGED delivered

Rest(s, n) == SubSeq(s, n + 1, Len(s))

GiveUp ==
    /\ \E n \in 1..Len(undecided) :
          /\ \A i \in 1..n : Hopeless(undecided, i)
          /\ undecided' = Rest(undecided, n)
    /\ UNCHANGED delivered

\* Bytes before the packet may be given up in the same step.
Deliver ==
    \E n \in 1..Len(undecided) :
       /\ \A i \in 1..n - 1 : Hopeless(undecided, i)
       /\ IsPacket(undecided, n)
       /\ undecided' = Rest(undecided, EndAt(undecided, n))
       /\ delivered' = Append(delivered, DataAt(undecided, n))

FramerNext == Receive \/ GiveUp \/ Deliver

FramerSpec == FramerInit /\ [][FramerNext]_<<undecided, delivered>>
=============================================================================
