------------------------------ MODULE HWSystem ------------------------------
(***************************************************************************)
(* The client's hw, the device and the UDP network between them, with the  *)
(* passing of time: what hw.go is for, delivering every packet once and in *)
(* order and handing its reply back, in spite of lost datagrams.           *)
(***************************************************************************)
EXTENDS HW

CONSTANTS
  MaxLoss,     \* datagrams the network may lose (bound)
  Spaced,      \* whether a further loss only comes after a packet has come back
  MaxDup,      \* datagrams the network may deliver twice (bound)
  LoseStatus,  \* whether status requests and status replies may be lost
  MaxEarly,    \* timeouts that may strike while an answer is under way (bound)
  NetCap       \* datagrams under way beyond which time stands still (bound)

ASSUME NetworkAssumption ==
  /\ {MaxLoss, MaxDup, MaxEarly, NetCap} \subseteq Nat
  /\ {Spaced, LoseStatus} \subseteq BOOLEAN

VARIABLES
  losses,      \* datagrams lost so far
  lostat,      \* packets that had come back at the last loss (-1: no loss)
  dups,        \* datagrams duplicated so far
  early        \* early timeouts so far

netVars == <<losses, lostat, dups, early>>

vars == <<wireVars, devVars, hwVars, netVars>>

-----------------------------------------------------------------------------
(* The network.                                                            *)

MayLose == losses < MaxLoss /\ (Spaced => lostat < Len(returned))

LoseRequest ==
  /\ MayLose
  /\ losses' = losses + 1
  /\ lostat' = Len(returned)
  /\ \E i \in 1 .. Len(requests) :
       /\ LoseStatus \/ requests[i].ptype # status
       /\ requests' = Without(requests, i)
  /\ UNCHANGED <<responses, devVars, hwVars, dups, early>>

LoseResponse ==
  /\ MayLose
  /\ losses' = losses + 1
  /\ lostat' = Len(returned)
  /\ \E i \in 1 .. Len(responses) :
       /\ LoseStatus \/ responses[i].id # 0
       /\ responses' = Without(responses, i)
  /\ UNCHANGED <<requests, devVars, hwVars, dups, early>>

DuplicateRequest ==
  /\ dups < MaxDup
  /\ dups' = dups + 1
  /\ \E i \in 1 .. Len(requests) : requests' = Append(requests, requests[i])
  /\ UNCHANGED <<responses, devVars, hwVars, losses, lostat, early>>

DuplicateResponse ==
  /\ dups < MaxDup
  /\ dups' = dups + 1
  /\ \E i \in 1 .. Len(responses) : responses' = Append(responses, responses[i])
  /\ UNCHANGED <<requests, devVars, hwVars, losses, lostat, early>>

Network == LoseRequest \/ LoseResponse \/ DuplicateRequest \/ DuplicateResponse

-----------------------------------------------------------------------------
(* Time.                                                                   *)

\* Nothing is under way and no goroutine can do anything: waittime (3 s) is
\* longer than what it takes to get here, apart from MaxEarly exceptions.
Quiet ==
  /\ requests = <<>> /\ responses = <<>>
  /\ replies = <<>> /\ incoming = <<>>
  /\ answered = Len(accepted)
  /\ config # "request"
  /\ statuses = <<>>
  /\ \A g \in Handlers : lost[g].pc \in {"idle", "await"}
  /\ ~Watching.tick

\* Ticker t ticks; a full channel drops the tick.  The 10000 s of the first
\* ticker only pass, before the first packet is sent, as an early timeout.
Ticks(t) ==
  /\ ~t.tick
  /\ Len(requests) + Len(responses) < NetCap
  /\ \/ /\ t.run = "due" \/ (t.run = "on" /\ Quiet)
        /\ UNCHANGED early
     \/ /\ t.run = "long" \/ (t.run = "on" /\ ~Quiet)
        /\ early < MaxEarly
        /\ early' = early + 1
  /\ UNCHANGED <<wireVars, devVars, losses, lostat, dups>>

\* The packets in flight for waittime by the time ticker t ticks: if that is its
\* period, the one it was started for and those that were it before; a packet
\* written after the ticker was started may be younger.
Aged(t, timed) ==
  {old \in SUBSET Logged(h.flying) :
     IF t.run = "on" THEN (h.aged \cup timed) \cap Logged(h.flying) \subseteq old
                     ELSE old = h.aged \cap Logged(h.flying)}

Tick ==
  /\ Ticks(h.timedout)
  /\ \E old \in Aged(h.timedout, {h.timeoutid}) :
       h' = [h EXCEPT !.timedout.tick = TRUE, !.aged = old]
  /\ UNCHANGED <<watched, incoming, replies, statuses, config, lost, handed,
                 answer, returned>>

\* The ticker Run still waits on after handlelost has replaced it.
TickWatched ==
  /\ Ticks(watched)
  /\ watched' = [watched EXCEPT !.tick = TRUE]
  /\ \E old \in Aged(watched, {}) : h' = [h EXCEPT !.aged = old]
  /\ UNCHANGED <<incoming, replies, statuses, config, lost, handed, answer,
                 returned>>

-----------------------------------------------------------------------------
Init ==
  /\ WireInit /\ DeviceInit /\ HWInit
  /\ losses = 0
  /\ lostat = -1
  /\ dups = 0
  /\ early = 0

\* After a panic the process is gone and the behaviour ends.
Next ==
  /\ ~h.panicked
  /\ \/ HWNext /\ UNCHANGED netVars
     \/ DeviceNext /\ UNCHANGED <<hwVars, netVars>>
     \/ Network
     \/ Tick
     \/ TickWatched

\* Go runs every goroutine that can run and select serves every ready case;
\* the network delivers what it does not lose; the users send all they have.
Alive(A) == ~h.panicked /\ A /\ UNCHANGED netVars

Fairness ==
  /\ WF_vars(Alive(Send))
  /\ WF_vars(Alive(receive))
  /\ WF_vars(Alive(ConfigRequest \/ ConfigStatus))
  /\ WF_vars(Alive(RunIncoming))
  /\ WF_vars(Alive(RunStatus \/ RunReply \/ RunUnmatched))
  /\ WF_vars(Alive(\E g \in Handlers : RunTimeout(g)))
  /\ WF_vars(Alive(RunReport))
  /\ \A g \in Handlers : WF_vars(Alive(handlelost(g)))
  /\ WF_vars(Alive(DeviceNext /\ UNCHANGED hwVars))
  /\ WF_vars(Alive(Tick))
  /\ WF_vars(Alive(TickWatched))

Spec     == Init /\ [][Next]_vars
FairSpec == Spec /\ Fairness

-----------------------------------------------------------------------------
(* Properties.                                                             *)

\* The type invariant of the whole system.
TypeOK ==
  /\ WireTypeOK /\ DeviceTypeOK /\ HWTypeOK
  /\ losses \in 0 .. MaxLoss
  /\ lostat \in Int
  /\ dups \in 0 .. MaxDup
  /\ early \in 0 .. MaxEarly

\* The device executes every packet at most once, in the order in which the
\* users handed them over, whatever handlelost writes to the network again.
ExecutedOnce == \A i \in 1 .. Len(accepted) : accepted[i].pkt = i

\* returnreply hands the packets back in the order in which they came.
InOrder == \A i \in 1 .. Len(returned) : returned[i] = i

\* Run never parses the reply to one packet into another, and a packet that is
\* handed back has its reply.
OwnReply ==
  /\ \A p \in Packets : answer[p] \in {p, NoPacket}
  /\ \A i \in 1 .. Len(returned) : answer[returned[i]] # NoPacket

\* A packet handed over is never forgotten: until it is handed back Run finds
\* it in the channel or in one of the three packet logs.
NoneForgotten ==
  \A p \in 1 .. handed :
    \/ \E i \in 1 .. Len(incoming) : incoming[i] = p
    \/ \E id \in UInt16 : p \in {h.tosend[id], h.flying[id], h.replied[id]}
    \/ \E i \in 1 .. Len(returned) : returned[i] = p
    \/ h.panicked

\* How many packets are out, that is, sent and not replied to.
Out == Cardinality({i \in 1 .. Len(h.flyingids) : h.replied[h.flyingids[i]] = NoPacket})

\* No flight slot is ever lost: however Run and handlelost get into each other's
\* way, and whatever comes late or twice, inflight is at most the number of
\* packets that are out.  If it were more sendnext would stop for good.
NoSlotLost == h.inflight <= Out

\* Every status reply, under way or in the channel, has a goroutine waiting for
\* it: none is left to mislead a later handlelost or to fill h.statuses.
EveryStatusAwaited ==
  LET asked   == {i \in 1 .. Len(requests) : requests[i].ptype = status}
      told    == {i \in 1 .. Len(responses) : responses[i].id = 0}
      read    == {i \in 1 .. Len(replies) : replies[i].id = 0}
      waiting == {g \in Handlers : lost[g].pc = "await"}
  IN  Cardinality(asked) + Cardinality(told) + Cardinality(read) + Len(statuses)
        <= Cardinality(waiting) + IF config = "await" THEN 1 ELSE 0

\* No goroutine of the client panics.
NoPanic == ~h.panicked

\* As long as the network, which keeps the order, has lost nothing the client
\* finds nothing lost: updatetimeout never lets a ticker run or strike for a
\* packet that is back, so that Run starts no handlelost, and nothing panics.
NoFalseAlarm == losses = 0 => ~h.panicked /\ \A g \in Handlers : lost[g].pc = "idle"

\* Every packet the users hand over comes back.
AllReturned == <>(Len(returned) = NPackets)

\* The client never hangs: every packet comes back, or the process dies.
ReturnedOrDead == <>(Len(returned) = NPackets \/ h.panicked)

-----------------------------------------------------------------------------
(* The system implements the abstract specification.                       *)

Link == INSTANCE ReliableLink WITH
  executed  <- [i \in 1 .. Len(accepted) |-> accepted[i].pkt],
  delivered <- [i \in 1 .. Len(returned) |-> <<returned[i], answer[returned[i]]>>]

\* Every step of hw, the device and the network is a step of the link or leaves
\* it alone: no packet is executed before it is handed over, or handed back
\* before it is executed, and a reply that was handed back stays what it was.
Reliable == Link!LinkSpec
=============================================================================
