-------------------------------- MODULE Wire --------------------------------
(***************************************************************************)
(* The UDP connection hw.conn between the client and one IPbus device: the *)
(* datagrams under way in each direction.  A datagram is the header fields *)
(* the client looks at (packet type and packet id) and the user packet it  *)
(* carries or answers; the words of the payload are left out.              *)
(***************************************************************************)
EXTENDS Integers, Sequences, FiniteSets

CONSTANTS
  MaxID,      \* the largest packet id: 65535 for the code's uint16
  NPackets    \* how many packets the users hand over (bound)

ASSUME WireAssumption ==
  /\ MaxID \in Nat \ {0}
  /\ NPackets \in Nat \ {0}

VARIABLES
  requests,   \* datagrams on their way to the device, oldest first
  responses   \* datagrams on their way to the client, oldest first

wireVars == <<requests, responses>>

\* Packets are named by the order in which the users hand them over.
Packets  == 1 .. NPackets
NoPacket == 0
UInt16   == 0 .. MaxID

\* The three packet types of the protocol.
control == "control"
status  == "status"
resend  == "resend"

Request == [ptype : {control, status, resend}, id : UInt16,
            pkt : Packets \cup {NoPacket}]

controlPacket(id, p) == [ptype |-> control, id |-> id, pkt |-> p]
newStatusPacket      == [ptype |-> status, id |-> 0, pkt |-> NoPacket]
newResendPacket(id)  == [ptype |-> resend, id |-> id, pkt |-> NoPacket]

\* What a status reply tells the client: the id the device expects next and
\* the ids of the last control packets it received and of the last replies it
\* sent.  Control replies carry an empty one.
targetstatus == [nextid : UInt16, received : SUBSET UInt16, sent : SUBSET UInt16]
NoStatus     == [nextid |-> 0, received |-> {}, sent |-> {}]

Response == [id : UInt16, pkt : Packets \cup {NoPacket}, st : targetstatus]

controlReply(id, p) == [id |-> id, pkt |-> p, st |-> NoStatus]
statusReply(st)     == [id |-> 0, pkt |-> NoPacket, st |-> st]

\* s without its i-th element.
Without(s, i) == SubSeq(s, 1, i - 1) \o SubSeq(s, i + 1, Len(s))

WireTypeOK ==
  /\ requests \in Seq(Request)
  /\ responses \in Seq(Response)

WireInit ==
  /\ requests = <<>>
  /\ responses = <<>>
=============================================================================
