---------------------------- MODULE ReliableLink ----------------------------
(***************************************************************************)
(* What hw.go promises its users, with neither ids nor datagrams nor       *)
(* timeouts: the packets handed over are executed once each, in the order  *)
(* in which they were handed over, and are handed back in that order, each *)
(* after it was executed and with the reply to it and to no other.         *)
(***************************************************************************)
EXTENDS Integers, Sequences

CONSTANT NPackets

VARIABLES
  handed,     \* how many packets the users have handed over
  executed,   \* the packets the device has executed, in order
  delivered   \* <<packet, the packet its reply is about>>, as handed back

linkVars == <<handed, executed, delivered>>

LinkInit ==
  /\ handed = 0
  /\ executed = <<>>
  /\ delivered = <<>>

Hand ==
  /\ handed < NPackets
  /\ handed' = handed + 1
  /\ UNCHANGED <<executed, delivered>>

Execute ==
  /\ Len(executed) < handed
  /\ executed' = Append(executed, Len(executed) + 1)
  /\ UNCHANGED <<handed, delivered>>

\* Replies that had to wait for an older one are handed back together with it.
Return ==
  /\ \E n \in Len(delivered) + 1 .. Len(executed) :
       delivered' = [i \in 1 .. n |-> IF i <= Len(delivered) THEN delivered[i]
                                      ELSE <<i, i>>]
  /\ UNCHANGED <<handed, executed>>

LinkNext == Hand \/ Execute \/ Return
LinkSpec == LinkInit /\ [][LinkNext]_linkVars
=============================================================================
