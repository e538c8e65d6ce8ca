------------------------------- MODULE Device -------------------------------
(***************************************************************************)
(* The IPbus device, which is not part of the repository: what hw.go and   *)
(* hw_stuff.go rely on.  It executes the control packet whose id is the    *)
(* one it expects and drops any other, keeps the headers of the last       *)
(* History packets it received and of the last History replies it sent,    *)
(* reports both in a status reply, and sends one of the last History       *)
(* replies again when asked to.  A status request is answered even while   *)
(* a control packet is being executed: handlelost tells "received" from    *)
(* "sent" because of that.                                                 *)
(***************************************************************************)
EXTENDS Wire

CONSTANTS
  StartID,    \* the id the device expects when the client connects
  History,    \* headers and replies kept: 4, as in parseStatus
  Reorder     \* whether the network may deliver datagrams out of order

ASSUME DeviceAssumption ==
  /\ StartID \in UInt16 \ {0}
  /\ History \in Nat \ {0}
  /\ Reorder \in BOOLEAN

VARIABLES
  expects,    \* the id of the next control packet to accept
  accepted,   \* control packets accepted so far, in order
  answered    \* how many of them have been answered

devVars == <<expects, accepted, answered>>

\* The datagram of s that is delivered next.
Deliverable(s) == IF Reorder THEN 1 .. Len(s) ELSE (1 .. Len(s)) \cap {1}

\* The id that follows id: 0 is kept for status packets.
succ(id) == IF id = MaxID THEN 1 ELSE id + 1

\* Positions (in accepted) of the last History of the first n packets.
Recent(n) == {i \in 1 .. n : i + History > n}

DeviceInit ==
  /\ expects = StartID
  /\ accepted = <<>>
  /\ answered = 0

DeviceTypeOK ==
  /\ expects \in UInt16
  /\ accepted \in Seq(Request)
  /\ answered \in 0 .. Len(accepted)

\* A control packet arrives: executed if its id is the expected one.
DeviceControl ==
  \E i \in Deliverable(requests) :
    /\ requests[i].ptype = control
    /\ answered = Len(accepted)
    /\ requests' = Without(requests, i)
    /\ IF requests[i].id = expects
       THEN /\ accepted' = Append(accepted, requests[i])
            /\ expects' = succ(expects)
       ELSE UNCHANGED <<accepted, expects>>
    /\ UNCHANGED <<answered, responses>>

\* The packet being executed is done and its reply leaves.
DeviceReply ==
  /\ answered < Len(accepted)
  /\ answered' = answered + 1
  /\ responses' = Append(responses, controlReply(accepted[answered + 1].id,
                                                 accepted[answered + 1].pkt))
  /\ UNCHANGED <<expects, accepted, requests>>

DeviceStatus ==
  \E i \in Deliverable(requests) :
    /\ requests[i].ptype = status
    /\ requests' = Without(requests, i)
    /\ responses' = Append(responses, statusReply(
         [nextid   |-> expects,
          received |-> {accepted[k].id : k \in Recent(Len(accepted))},
          sent     |-> {accepted[k].id : k \in Recent(answered)}]))
    /\ UNCHANGED devVars

\* A resend request is served from the replies still kept, else ignored.
DeviceResend ==
  \E i \in Deliverable(requests) :
    /\ requests[i].ptype = resend
    /\ requests' = Without(requests, i)
    /\ \/ \E k \in Recent(answered) :
            /\ accepted[k].id = requests[i].id
            /\ responses' = Append(responses,
                                   controlReply(accepted[k].id, accepted[k].pkt))
       \/ /\ \A k \in Recent(answered) : accepted[k].id # requests[i].id
          /\ UNCHANGED responses
    /\ UNCHANGED devVars

DeviceNext == DeviceControl \/ DeviceReply \/ DeviceStatus \/ DeviceResend
=============================================================================
