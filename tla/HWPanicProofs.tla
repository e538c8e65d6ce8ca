--------------------------- MODULE HWPanicProofs ---------------------------
(***************************************************************************)
(* When the client cannot die.  Run panics on a reply it knows no packet   *)
(* for, on a full queue and on an id without a packet, handlelost on a     *)
(* packet that the device has received and not answered.  With a window    *)
(* of several packets one loss is enough for the last of these.  With one  *)
(* packet out at a time none of them happens, whatever is lost and however *)
(* often.                                                                  *)
(*                                                                         *)
(* The argument: there is never more than one thing under way, a datagram, *)
(* a status or the packet being executed, and it is about the packet that  *)
(* is out.  So a reply finds its packet in flying, the timeout strikes     *)
(* only when that thing is lost, the status handlelost asks for is told    *)
(* by a device that has nothing left to answer, and what handlelost puts   *)
(* back into flying behind Run's back does no harm: it is the packet that  *)
(* is out or the last one that came back.                                  *)
(*                                                                         *)
(* With any window there is no panic before the first loss: packets go out *)
(* and come back as one line, in which the reply Run reads is always to    *)
(* the oldest packet in flight.                                            *)
(***************************************************************************)
EXTENDS HWLinkProofs

-----------------------------------------------------------------------------
(* One packet at a time: nothing but loss.                                 *)

\* Only one packet is out at a time, because the window or the users allow no
\* more, the queue has room for what the users hand over, and the network loses
\* and reorders datagrams but neither copies nor delays one beyond a timeout.
StopAndWait ==
  /\ MaxFlight = 1 \/ MaxOutstanding = 1
  /\ MaxOutstanding <= QueuedMax
  /\ MaxDup = 0 /\ MaxEarly = 0

\* What is under way: datagrams, statuses and the packet being executed.
Under ==
  Len(requests) + Len(responses) + Len(replies) + Len(statuses)
    + (Len(accepted) - answered)

\* A packet, a reply to one, or a request to send one again is under way.
ControlUnder ==
  \/ \E i \in 1 .. Len(requests) : requests[i].ptype # status
  \/ \E i \in 1 .. Len(responses) : responses[i].id # 0
  \/ \E i \in 1 .. Len(replies) : replies[i].id # 0
  \/ answered < Len(accepted)

\* A status request or a status is under way.
StatusUnder ==
  \/ \E i \in 1 .. Len(requests) : requests[i].ptype = status
  \/ \E i \in 1 .. Len(responses) : responses[i].id = 0
  \/ \E i \in 1 .. Len(replies) : replies[i].id = 0
  \/ Len(statuses) > 0

\* What is under way is about packet n, and no status tells of a packet that
\* has been received and not answered.
About1(q, n) ==
  \A i \in 1 .. Len(q) : /\ q[i].id # 0 => q[i].id = Id(n)
                         /\ q[i].st.received \subseteq q[i].st.sent

Contents(n) ==
  /\ \A i \in 1 .. Len(requests) : requests[i].ptype # status => requests[i].id = Id(n)
  /\ About1(responses, n)
  /\ About1(replies, n)
  /\ \A i \in 1 .. Len(statuses) : statuses[i].received \subseteq statuses[i].sent
  /\ answered < Len(accepted) => Len(accepted) = n

\* A handlelost goroutine that has nothing to write or to ask for.
Rewritten(l) == l.pc \in {"idle", "readd", "finish"} \/ (l.pc = "rewrite" /\ l.resentpack)

\* At most one thing is under way: a packet or its reply, with its slot taken
\* and no timeout to come, or a status that someone waits for.
Alone ==
  /\ Under <= 1
  /\ ControlUnder => /\ h.inflight = 1 /\ ~h.timedout.tick
                     /\ \A g \in Handlers : Rewritten(lost[g])
  /\ StatusUnder => config = "await" \/ \E g \in Handlers : lost[g].pc = "await"
  /\ config = "request" => Under = 0

\* At most one packet is out; it is the next to come back, and it is the one
\* the timeout is for.  What else is in flying came back before.
Slot(s, r) ==
  /\ s.inflight \in {0, 1} /\ Len(s.flyingids) = s.inflight
  /\ \A id \in UInt16 : s.replied[id] = NoPacket
  /\ \A id \in UInt16 : s.flying[id] # NoPacket => s.flying[id] <= r + s.inflight
  /\ s.inflight = 1 => s.flying[Id(r + 1)] # NoPacket /\ s.timeoutid = Id(r + 1)

\* The timeout strikes when a packet is out, nothing is under way and nobody
\* handles a loss.  No ticker that was replaced is left to tick.
Timer ==
  /\ h.timedout.run # "due" /\ (h.timedout.run = "on" => h.inflight = 1)
  /\ h.timedout.tick => /\ h.inflight = 1 /\ Under = 0
                        /\ \A g \in Handlers : lost[g].pc = "idle"
  /\ watched # Current => watched.run = "off" /\ ~watched.tick

\* One handlelost goroutine at most is at work; sendnext waits for it.
Handling ==
  /\ \A g, k \in Handlers : lost[g].pc # "idle" /\ lost[k].pc # "idle" => g = k
  /\ h.handlinglost <=> \E g \in Handlers : lost[g].pc \notin {"idle", "stop", "request"}

\* While it has still to write or to ask nothing is under way.  What it has
\* written it may put back into flying after the reply, but that is then the
\* packet that came back last.  A status that says the packet was received says
\* that its reply was sent.
Work(l) ==
  /\ l.pc \notin {"idle", "stop"} => h.timedout.run = "off"
  /\ ~Rewritten(l) => h.inflight = 1
  /\ ~Rewritten(l) /\ l.pc # "await" => Under = 0
  /\ l.pc = "sent" /\ l.packetreceived => Id(Len(returned) + 1) \in l.sent
  /\ l.pc = "readd" => /\ l.id = Id(Len(returned) + h.inflight)
                       /\ l.pack = Len(returned) + h.inflight
  /\ l.pc = "rewrite" /\ l.resentpack => l.id = Id(Len(returned) + h.inflight + 1)

OneOut ==
  /\ ~h.panicked
  /\ Alone /\ Contents(Len(returned) + 1) /\ Slot(h, Len(returned)) /\ Timer
  /\ Handling /\ \A g \in Handlers : Work(lost[g])

-----------------------------------------------------------------------------
\* How many things are under way is a natural number, and if there are none
\* there is neither a packet nor a status.
Counted ==
  /\ Under \in Nat
  /\ Under = 0 <=> ~ControlUnder /\ ~StatusUnder
  /\ Under = 0 <=> /\ Len(requests) = 0 /\ Len(responses) = 0 /\ Len(replies) = 0
                   /\ Len(statuses) = 0 /\ answered = Len(accepted)

LEMMA UnderType == TypeOK => Counted
<1> SUFFICES ASSUME TypeOK PROVE Counted
  OBVIOUS
<1>1. /\ Len(requests) \in Nat /\ Len(responses) \in Nat /\ Len(replies) \in Nat
      /\ Len(statuses) \in Nat /\ Len(accepted) \in Nat /\ answered \in 0 .. Len(accepted)
  BY Types
<1>2. Under \in Nat
  BY <1>1 DEF Under
<1>3. Under = 0 <=> /\ Len(requests) = 0 /\ Len(responses) = 0 /\ Len(replies) = 0
                    /\ Len(statuses) = 0 /\ answered = Len(accepted)
  BY <1>1 DEF Under
<1>4. ASSUME Under = 0 PROVE ~ControlUnder /\ ~StatusUnder
  BY <1>1, <1>3, <1>4 DEF ControlUnder, StatusUnder
<1>5. ASSUME ~ControlUnder, ~StatusUnder PROVE Under = 0
  <2>1. Len(requests) = 0
    <3>1. ~(1 \in 1 .. Len(requests))
      BY <1>5 DEF ControlUnder, StatusUnder
    <3> QED BY <1>1, <3>1
  <2>2. Len(responses) = 0
    <3>1. ~(1 \in 1 .. Len(responses))
      BY <1>5 DEF ControlUnder, StatusUnder
    <3> QED BY <1>1, <3>1
  <2>3. Len(replies) = 0
    <3>1. ~(1 \in 1 .. Len(replies))
      BY <1>5 DEF ControlUnder, StatusUnder
    <3> QED BY <1>1, <3>1
  <2>4. Len(statuses) = 0 /\ answered = Len(accepted)
    BY <1>1, <1>5 DEF ControlUnder, StatusUnder
  <2> QED BY <1>3, <2>1, <2>2, <2>3, <2>4
<1> QED BY <1>2, <1>3, <1>4, <1>5 DEF Counted

\* The same of the next state.
LEMMA UnderTypeNext == TypeOK' => Counted'
BY UnderType, PTL

\* A datagram that moves, or is lost, leaves everything in place: nothing new is
\* under way and what there is has the same contents.
LEMMA Moves ==
  ASSUME TypeOK, TypeOK', OneOut, UNCHANGED <<h, config, lost, returned>>,
         watched' \in {watched, Current}, Under' <= Under,
         ControlUnder' => ControlUnder, StatusUnder' => StatusUnder,
         Contents(Len(returned) + 1)'
  PROVE  OneOut'
<1>1. Under \in Nat /\ Under' \in Nat
  BY UnderType, UnderTypeNext DEF Counted
<1> HIDE DEF Under, ControlUnder, StatusUnder
<1>2. ~h'.panicked /\ Slot(h, Len(returned))'
  BY DEF OneOut, Slot
<1>3. Alone'
  BY <1>1 DEF OneOut, Alone, Rewritten
<1>4. Timer'
  BY <1>1 DEF OneOut, Timer
<1>5. Handling'
  BY DEF OneOut, Handling
<1>6. ASSUME NEW g \in Handlers PROVE Work(lost[g])'
  BY <1>1 DEF OneOut, Work, Rewritten
<1> QED BY <1>2, <1>3, <1>4, <1>5, <1>6 DEF OneOut
\* A request leaves the wire.
LEMMA RequestGone ==
  ASSUME TypeOK, NEW i \in 1 .. Len(requests), requests' = Without(requests, i)
  PROVE  /\ requests[i] \in Request
         /\ Len(requests') = Len(requests) - 1
         /\ \A k \in 1 .. Len(requests') : \E j \in 1 .. Len(requests) : requests'[k] = requests[j]
<1>1. requests \in Seq(Request)
  BY Types
<1>2. Len(Without(requests, i)) = Len(requests) - 1
  BY <1>1, WithoutAt
<1>3. \A k \in 1 .. Len(Without(requests, i)) :
        \E j \in 1 .. Len(requests) : Without(requests, i)[k] = requests[j]
  BY <1>1, WithoutElems
<1> QED BY <1>1, <1>2, <1>3

\* A reply joins or leaves the wire or the channel.
LEMMA ResponseMoved ==
  ASSUME NEW q \in Seq(Response)
  PROVE  /\ \A e \in Response :
              /\ Len(Append(q, e)) = Len(q) + 1
              /\ \A k \in 1 .. Len(Append(q, e)) :
                   Append(q, e)[k] = e \/ \E j \in 1 .. Len(q) : Append(q, e)[k] = q[j]
              /\ \E k \in 1 .. Len(Append(q, e)) : Append(q, e)[k] = e
         /\ \A i \in 1 .. Len(q) :
              /\ q[i] \in Response
              /\ Len(Without(q, i)) = Len(q) - 1
              /\ \A k \in 1 .. Len(Without(q, i)) : \E j \in 1 .. Len(q) : Without(q, i)[k] = q[j]
<1>1. ASSUME NEW e \in Response
      PROVE  /\ Len(Append(q, e)) = Len(q) + 1
             /\ \A k \in 1 .. Len(Append(q, e)) :
                  Append(q, e)[k] = e \/ \E j \in 1 .. Len(q) : Append(q, e)[k] = q[j]
             /\ \E k \in 1 .. Len(Append(q, e)) : Append(q, e)[k] = e
  <2>1. Len(q) + 1 \in 1 .. Len(q) + 1
    OBVIOUS
  <2> QED BY <2>1, AppendElems
<1>2. ASSUME NEW i \in 1 .. Len(q)
      PROVE  /\ q[i] \in Response
             /\ Len(Without(q, i)) = Len(q) - 1
             /\ \A k \in 1 .. Len(Without(q, i)) : \E j \in 1 .. Len(q) : Without(q, i)[k] = q[j]
  BY WithoutAt, WithoutElems
<1> QED BY <1>1, <1>2

\* Losing a datagram.
LEMMA LosesOne ==
  ASSUME TypeOK, TypeOK', OneOut, LoseRequest \/ LoseResponse
  PROVE  OneOut'
<1>0. /\ requests \in Seq(Request) /\ responses \in Seq(Response) /\ replies \in Seq(Response)
      /\ Len(requests) \in Nat /\ Len(responses) \in Nat /\ Len(replies) \in Nat
      /\ Len(statuses) \in Nat /\ Len(accepted) \in Nat /\ answered \in 0 .. Len(accepted)
  BY Types
<1>1. UNCHANGED <<h, watched, replies, statuses, config, lost, returned, accepted, answered>>
  BY DEF LoseRequest, LoseResponse, hwVars, devVars
<1>2. Contents(Len(returned) + 1)
  BY DEF OneOut
<1>3. CASE LoseRequest
  <2>1. PICK i \in 1 .. Len(requests) : requests' = Without(requests, i)
    BY <1>3 DEF LoseRequest
  <2>2. responses' = responses
    BY <1>3 DEF LoseRequest
  <2>3. /\ Len(requests') = Len(requests) - 1
        /\ \A k \in 1 .. Len(requests') : \E j \in 1 .. Len(requests) : requests'[k] = requests[j]
    BY <2>1, RequestGone
  <2>4. Under' <= Under
    BY <1>0, <1>1, <2>2, <2>3 DEF Under
  <2>5. (ControlUnder' => ControlUnder) /\ (StatusUnder' => StatusUnder)
    BY <1>1, <2>2, <2>3 DEF ControlUnder, StatusUnder
  <2>6. Contents(Len(returned) + 1)'
    BY <1>1, <1>2, <2>2, <2>3 DEF Contents, About1
  <2> QED BY <1>1, <2>4, <2>5, <2>6, Moves
<1>4. CASE LoseResponse
  <2>1. PICK i \in 1 .. Len(responses) : responses' = Without(responses, i)
    BY <1>4 DEF LoseResponse
  <2>2. requests' = requests
    BY <1>4 DEF LoseResponse
  <2>3. /\ Len(responses') = Len(responses) - 1
        /\ \A k \in 1 .. Len(responses') : \E j \in 1 .. Len(responses) : responses'[k] = responses[j]
    BY <1>0, <2>1, ResponseMoved
  <2>4. Under' <= Under
    BY <1>0, <1>1, <2>2, <2>3 DEF Under
  <2>5. (ControlUnder' => ControlUnder) /\ (StatusUnder' => StatusUnder)
    BY <1>1, <2>2, <2>3 DEF ControlUnder, StatusUnder
  <2>6. Contents(Len(returned) + 1)'
    BY <1>1, <1>2, <2>2, <2>3 DEF Contents, About1
  <2> QED BY <1>1, <2>4, <2>5, <2>6, Moves
<1> QED BY <1>3, <1>4

\* receive and RunStatus pass a reply on.
LEMMA PassesOn ==
  ASSUME TypeOK, TypeOK', OneOut, receive \/ RunStatus
  PROVE  OneOut'
<1>0. /\ requests \in Seq(Request) /\ responses \in Seq(Response) /\ replies \in Seq(Response)
      /\ statuses \in Seq(targetstatus)
      /\ Len(requests) \in Nat /\ Len(responses) \in Nat /\ Len(replies) \in Nat
      /\ Len(statuses) \in Nat /\ Len(accepted) \in Nat /\ answered \in 0 .. Len(accepted)
  BY Types
<1>1. /\ UNCHANGED <<h, config, lost, returned, accepted, answered, requests>>
      /\ watched' \in {watched, Current}
  BY DEF receive, RunStatus, wireVars, devVars
<1>2. /\ Contents(Len(returned) + 1)
      /\ About1(responses, Len(returned) + 1) /\ About1(replies, Len(returned) + 1)
  BY DEF OneOut, Contents
<1>3. CASE receive
  <2>1. PICK i \in Deliverable(responses) : /\ replies' = Append(replies, responses[i])
                                            /\ responses' = Without(responses, i)
    BY <1>3 DEF receive
  <2>2. i \in 1 .. Len(responses) /\ statuses' = statuses
    BY <1>3, <2>1 DEF receive, Deliverable
  <2> DEFINE e == responses[i]
  <2>3. /\ e \in Response
        /\ Len(responses') = Len(responses) - 1
        /\ \A k \in 1 .. Len(responses') : \E j \in 1 .. Len(responses) : responses'[k] = responses[j]
    BY <1>0, <2>1, <2>2, ResponseMoved
  <2>4. /\ Len(replies') = Len(replies) + 1
        /\ \A k \in 1 .. Len(replies') :
             replies'[k] = e \/ \E j \in 1 .. Len(replies) : replies'[k] = replies[j]
    BY <1>0, <2>1, <2>3, ResponseMoved
  <2>5. Under' <= Under
    BY <1>0, <1>1, <2>2, <2>3, <2>4 DEF Under
  <2>6. (ControlUnder' => ControlUnder) /\ (StatusUnder' => StatusUnder)
    BY <1>1, <2>2, <2>3, <2>4 DEF ControlUnder, StatusUnder
  <2>7. Contents(Len(returned) + 1)'
    <3>1. About1(responses', Len(returned) + 1) /\ About1(replies', Len(returned) + 1)
      BY <1>2, <2>2, <2>3, <2>4 DEF About1
    <3> QED BY <1>1, <1>2, <2>2, <3>1 DEF Contents
  <2> QED BY <1>1, <2>5, <2>6, <2>7, Moves
<1>4. CASE RunStatus
  <2>1. /\ replies # <<>> /\ Head(replies).id = 0 /\ replies' = Tail(replies)
        /\ statuses' = Append(statuses, Head(replies).st)
        /\ UNCHANGED responses
    BY <1>4 DEF RunStatus, wireVars
  <2>2. /\ Head(replies) = replies[1] /\ 1 \in 1 .. Len(replies)
        /\ Len(replies') = Len(replies) - 1
        /\ \A k \in 1 .. Len(replies') : replies'[k] = replies[k + 1] /\ k + 1 \in 1 .. Len(replies)
    BY <1>0, <2>1, TailElems
  <2>3. Head(replies).st \in targetstatus
    <3>1. replies[1] \in Response
      BY <1>0, <2>2
    <3> QED BY <2>2, <3>1 DEF Response
  <2>4. /\ Len(statuses') = Len(statuses) + 1
        /\ \A k \in 1 .. Len(statuses') :
             \/ statuses'[k] = replies[1].st
             \/ \E j \in 1 .. Len(statuses) : statuses'[k] = statuses[j]
    BY <1>0, <2>1, <2>2, <2>3, AppendElems
  <2>5. Under' <= Under
    BY <1>0, <1>1, <2>1, <2>2, <2>4 DEF Under
  <2>6. ControlUnder' => ControlUnder
    BY <1>1, <2>1, <2>2 DEF ControlUnder
  <2>7. StatusUnder
    BY <2>1, <2>2 DEF StatusUnder
  <2>8. Contents(Len(returned) + 1)'
    <3>1. About1(replies', Len(returned) + 1)
      BY <1>2, <2>2 DEF About1
    <3>2. \A i \in 1 .. Len(statuses') : statuses'[i].received \subseteq statuses'[i].sent
      BY <1>2, <2>2, <2>4 DEF Contents, About1
    <3> QED BY <1>1, <1>2, <2>1, <3>1, <3>2 DEF Contents
  <2> QED BY <1>1, <2>5, <2>6, <2>7, <2>8, Moves
<1> QED BY <1>3, <1>4

\* No more packets have come back, or are out, than have been handed over.
LEMMA ReturnedFew ==
  ASSUME TypeOK, Live
  PROVE  /\ Len(returned) + Len(h.flyingids) \in 0 .. handed
         /\ Len(returned) + 1 \in 1 .. NPackets + 1
<1> DEFINE r == Len(returned)
           f == Len(h.flyingids)
           q == Len(h.queuedids)
           k == Len(incoming)
<1>1. r \in Nat /\ f \in Nat /\ q \in Nat /\ k \in Nat /\ handed \in 0 .. NPackets
  BY Types, Fields
<1>2. r + f + q = handed - k
  BY DEF Live, Queued, Queues
<1> HIDE DEF r, f, q, k
<1>3. r + f \in 0 .. handed /\ r + 1 \in 1 .. NPackets + 1
  BY <1>1, <1>2, Constants
<1> QED BY <1>3 DEF r, f

\* The device executes, answers, tells its status or sends again.
LEMMA DeviceOne ==
  ASSUME Regime, TypeOK, TypeOK', Live, OneOut, DeviceNext, UNCHANGED hwVars
  PROVE  OneOut'
<1> DEFINE r == Len(returned)
<1>0. /\ requests \in Seq(Request) /\ responses \in Seq(Response) /\ replies \in Seq(Response)
      /\ Len(requests) \in Nat /\ Len(responses) \in Nat /\ Len(replies) \in Nat
      /\ Len(statuses) \in Nat /\ Len(accepted) \in Nat /\ answered \in 0 .. Len(accepted)
      /\ accepted \in Seq(Request) /\ r \in Nat
  BY Types
<1>1. UNCHANGED <<h, watched, replies, statuses, config, lost, returned>>
  BY DEF hwVars
<1>2. /\ Contents(r + 1) /\ About1(responses, r + 1) /\ About1(replies, r + 1)
      /\ Under <= 1
  BY DEF OneOut, Contents, Alone
<1>3. /\ expects = Id(Len(accepted) + 1) /\ Len(accepted) <= handed /\ handed \in 0 .. NPackets
      /\ \A i \in 1 .. Len(accepted) : accepted[i].pkt = i /\ accepted[i].id = Id(i)
  BY Types DEF Live, Executed
<1>4. r + 1 \in 1 .. NPackets + 1
  BY ReturnedFew
<1> HIDE DEF r
<1>5. CASE DeviceControl
  <2>1. PICK i \in Deliverable(requests) : DeviceControl!(i)
    BY <1>5 DEF DeviceControl
  <2>2. i \in 1 .. Len(requests)
    BY <2>1 DEF Deliverable
  <2>3. /\ Len(requests') = Len(requests) - 1 /\ requests[i].ptype = control
        /\ \A k \in 1 .. Len(requests') : \E j \in 1 .. Len(requests) : requests'[k] = requests[j]
        /\ requests[i] \in Request
        /\ responses' = responses /\ answered' = answered /\ answered = Len(accepted)
    BY <2>1, <2>2, RequestGone
  <2>4. ControlUnder /\ requests[i].id = Id(r + 1)
    BY <1>2, <2>2, <2>3 DEF ControlUnder, Contents, control, status
  <2>5. StatusUnder' => StatusUnder
    BY <1>1, <2>3 DEF StatusUnder
  <2>6. CASE requests[i].id = expects
    <3>1. accepted' = Append(accepted, requests[i])
      BY <2>1, <2>6
    <3>2. Len(accepted') = Len(accepted) + 1
      BY <1>0, <2>3, <3>1, AppendElems
    <3>3. Len(accepted) = r
      <4>1. Len(accepted) + 1 \in 1 .. NPackets + 1
        BY <1>0, <1>3, Constants
      <4>2. Len(accepted) + 1 = r + 1
        BY <1>3, <1>4, <2>4, <2>6, <4>1, IdInjective
      <4> QED BY <1>0, <4>2
    <3>4. Under' <= Under
      BY <1>0, <1>1, <2>3, <3>2 DEF Under
    <3>5. Contents(r + 1)'
      <4>1. Contents(r + 1)!1'
        BY <1>1, <1>2, <2>3 DEF Contents, r
      <4> QED BY <1>1, <1>2, <2>3, <3>2, <3>3, <4>1 DEF Contents, r
    <3> QED BY <1>1, <2>4, <2>5, <3>4, <3>5, Moves DEF r
  <2>7. CASE requests[i].id # expects
    <3>1. accepted' = accepted
      BY <2>1, <2>7
    <3>2. Under' <= Under
      BY <1>0, <1>1, <2>3, <3>1 DEF Under
    <3>3. Contents(r + 1)'
      BY <1>1, <1>2, <2>3, <3>1 DEF Contents, r
    <3> QED BY <1>1, <2>4, <2>5, <3>2, <3>3, Moves DEF r
  <2> QED BY <2>6, <2>7
<1>6. CASE DeviceReply
  <2> DEFINE e == controlReply(accepted[answered + 1].id, accepted[answered + 1].pkt)
  <2>1. /\ answered < Len(accepted) /\ answered' = answered + 1
        /\ responses' = Append(responses, e)
        /\ UNCHANGED <<accepted, requests>>
    BY <1>6 DEF DeviceReply
  <2>2. Len(accepted) = r + 1 /\ answered + 1 = r + 1 /\ answered + 1 \in 1 .. Len(accepted)
    BY <1>0, <1>2, <2>1 DEF Contents, Under
  <2>3. e \in Response /\ e.id = Id(r + 1) /\ e.st.received \subseteq e.st.sent
    <3>1. e \in Response /\ e.id = accepted[answered + 1].id
      BY <2>2, ReplyCarries DEF Live, controlReply
    <3>2. e.st = NoStatus
      BY DEF controlReply
    <3>3. NoStatus.received = {}
      BY DEF NoStatus
    <3> HIDE DEF e
    <3> QED BY <1>3, <2>2, <3>1, <3>2, <3>3
  <2>4. ControlUnder
    BY <2>1 DEF ControlUnder
  <2> HIDE DEF e
  <2>5. /\ Len(responses') = Len(responses) + 1
        /\ \A k \in 1 .. Len(responses') :
             responses'[k] = e \/ \E j \in 1 .. Len(responses) : responses'[k] = responses[j]
    BY <1>0, <2>1, <2>3, ResponseMoved
  <2>6. Under' <= Under
    BY <1>0, <1>1, <2>1, <2>5 DEF Under
  <2>7. StatusUnder' => StatusUnder
    <3>1. e.id # 0
      BY <1>4, <2>3, IdType
    <3> QED BY <1>1, <2>1, <2>5, <3>1 DEF StatusUnder
  <2>8. Contents(r + 1)'
    <3>1. About1(responses', r + 1)
      BY <1>2, <2>3, <2>5 DEF About1
    <3>2. answered' < Len(accepted') => Len(accepted') = r + 1
      BY <2>1, <2>2
    <3> QED BY <1>1, <1>2, <2>1, <3>1, <3>2 DEF Contents, r
  <2> QED BY <1>1, <2>4, <2>6, <2>7, <2>8, Moves DEF r
<1>7. CASE DeviceStatus
  <2> DEFINE st == [nextid   |-> expects,
                    received |-> {accepted[k].id : k \in Recent(Len(accepted))},
                    sent     |-> {accepted[k].id : k \in Recent(answered)}]
  <2>1. PICK i \in Deliverable(requests) :
          /\ requests[i].ptype = status /\ requests' = Without(requests, i)
          /\ responses' = Append(responses, statusReply(st))
    BY <1>7 DEF DeviceStatus
  <2>2. i \in 1 .. Len(requests) /\ UNCHANGED <<accepted, answered>>
    BY <1>7, <2>1 DEF Deliverable, DeviceStatus, devVars
  <2>3. /\ Len(requests') = Len(requests) - 1
        /\ \A k \in 1 .. Len(requests') : \E j \in 1 .. Len(requests) : requests'[k] = requests[j]
    BY <2>1, <2>2, RequestGone
  <2>4. answered = Len(accepted)
    BY <1>0, <1>2, <2>2 DEF Under
  <2>5. PICK e \in Response : /\ e.id = 0 /\ e.st.received \subseteq e.st.sent
                              /\ responses' = Append(responses, e)
    <3>1. st \in targetstatus
      <4>1. \A n \in 0 .. Len(accepted) : \A k \in Recent(n) : accepted[k].id \in UInt16
        <5> SUFFICES ASSUME NEW n \in 0 .. Len(accepted), NEW k \in Recent(n)
                     PROVE  accepted[k].id \in UInt16
          OBVIOUS
        <5>1. k \in 1 .. Len(accepted)
          BY <1>0 DEF Recent
        <5>2. accepted[k] \in Request
          BY <1>0, <5>1
        <5> QED BY <5>2 DEF Request
      <4>2. expects \in UInt16 /\ Len(accepted) \in 0 .. Len(accepted)
        BY <1>0, Types
      <4> QED BY <1>0, <4>1, <4>2 DEF targetstatus
    <3>2. st.received = st.sent
      BY <2>4
    <3> HIDE DEF st
    <3>3. /\ statusReply(st) \in Response /\ statusReply(st).id = 0
          /\ statusReply(st).st = st
      BY <3>1, Constants DEF statusReply, Response
    <3> QED BY <2>1, <3>2, <3>3
  <2>6. StatusUnder
    BY <2>1, <2>2 DEF StatusUnder
  <2> HIDE DEF st
  <2>7. /\ Len(responses') = Len(responses) + 1
        /\ \A k \in 1 .. Len(responses') :
             responses'[k] = e \/ \E j \in 1 .. Len(responses) : responses'[k] = responses[j]
    <3>1. responses' = Append(responses, e) /\ responses \in Seq(Response)
      BY <1>0, <2>5
    <3> QED BY <3>1, ResponseMoved
  <2>8. Under' <= Under
    BY <1>0, <1>1, <2>2, <2>3, <2>7 DEF Under
  <2>9. ControlUnder' => ControlUnder
    <3>1. e.id = 0
      BY <2>5
    <3> QED BY <1>1, <2>2, <2>3, <2>7, <3>1 DEF ControlUnder
  <2>10. Contents(r + 1)'
    <3>1. About1(responses', r + 1)
      BY <1>2, <2>5, <2>7 DEF About1
    <3> QED BY <1>1, <1>2, <2>2, <2>3, <3>1 DEF Contents, r
  <2> QED BY <1>1, <2>6, <2>8, <2>9, <2>10, Moves DEF r
<1>8. CASE DeviceResend
  <2>1. PICK i \in Deliverable(requests) : DeviceResend!(i)
    BY <1>8 DEF DeviceResend
  <2>2. /\ i \in 1 .. Len(requests) /\ requests' = Without(requests, i)
        /\ UNCHANGED <<accepted, answered>> /\ requests[i].ptype = resend
    BY <2>1 DEF Deliverable, devVars
  <2>3. /\ Len(requests') = Len(requests) - 1
        /\ \A k \in 1 .. Len(requests') : \E j \in 1 .. Len(requests) : requests'[k] = requests[j]
    BY <2>2, RequestGone
  <2>4. ControlUnder /\ requests[i].id = Id(r + 1)
    BY <1>2, <2>2 DEF ControlUnder, Contents, resend, status
  <2>5. CASE responses' = responses
    <3>1. Under' <= Under
      BY <1>0, <1>1, <2>2, <2>3, <2>5 DEF Under
    <3>2. StatusUnder' => StatusUnder
      BY <1>1, <2>3, <2>5 DEF StatusUnder
    <3>3. Contents(r + 1)'
      BY <1>1, <1>2, <2>2, <2>3, <2>5 DEF Contents, r
    <3> QED BY <1>1, <2>4, <3>1, <3>2, <3>3, Moves DEF r
  <2>6. CASE responses' # responses
    <3>1. PICK k \in Recent(answered) :
            /\ accepted[k].id = requests[i].id
            /\ responses' = Append(responses, controlReply(accepted[k].id, accepted[k].pkt))
      BY <2>1, <2>6
    <3> DEFINE e == controlReply(accepted[k].id, accepted[k].pkt)
    <3>2. k \in 1 .. Len(accepted)
      BY <1>0 DEF Recent
    <3>3. e \in Response /\ e.id = Id(r + 1) /\ e.st.received \subseteq e.st.sent
      <4>1. e \in Response /\ e.id = accepted[k].id
        BY <3>2, ReplyCarries DEF Live, controlReply
      <4>2. e.st = NoStatus
        BY DEF controlReply
      <4>3. NoStatus.received = {}
        BY DEF NoStatus
      <4> HIDE DEF e
      <4> QED BY <2>4, <3>1, <4>1, <4>2, <4>3
    <3>4. responses' = Append(responses, e)
      BY <3>1
    <3> HIDE DEF e
    <3>5. /\ Len(responses') = Len(responses) + 1
          /\ \A j \in 1 .. Len(responses') :
               responses'[j] = e \/ \E l \in 1 .. Len(responses) : responses'[j] = responses[l]
      BY <1>0, <3>3, <3>4, ResponseMoved
    <3>6. Under' <= Under
      BY <1>0, <1>1, <2>2, <2>3, <3>5 DEF Under
    <3>7. StatusUnder' => StatusUnder
      <4>1. e.id # 0
        BY <1>4, <3>3, IdType
      <4> QED BY <1>1, <2>3, <3>5, <4>1 DEF StatusUnder
    <3>8. Contents(r + 1)'
      <4>1. About1(responses', r + 1)
        BY <1>2, <3>3, <3>5 DEF About1
      <4> QED BY <1>1, <1>2, <2>2, <2>3, <4>1 DEF Contents, r
    <3> QED BY <1>1, <2>4, <3>6, <3>7, <3>8, Moves DEF r
  <2> QED BY <2>5, <2>6
<1> QED BY <1>5, <1>6, <1>7, <1>8 DEF DeviceNext

-----------------------------------------------------------------------------
(* The methods of hw, one packet at a time.                                *)

\* What sendnext does to the timeout.
LEMMA SendnextTimes ==
  ASSUME NEW s \in HWRecord
  PROVE  LET n   == Burst(s)
             b   == SubSeq(s.queuedids, 1, n)
             out == {b[i] : i \in 1 .. n}
             u   == sendnext(s)
         IN  /\ u.handlinglost = s.handlinglost
             /\ u.timedout = IF Arms(s) THEN NewTicker("on") ELSE s.timedout
             /\ u.timeoutid = IF Arms(s) THEN b[1 - s.inflight] ELSE s.timeoutid
             /\ u.aged = s.aged \ out
<1> DEFINE n     == Burst(s)
           batch == SubSeq(s.queuedids, 1, n)
           out   == {batch[i] : i \in 1 .. n}
           queue == SubSeq(s.queuedids, n + 1, Len(s.queuedids))
           tos   == [id \in UInt16 |-> IF id \in out THEN NoPacket ELSE s.tosend[id]]
           fly   == [id \in UInt16 |-> IF id \in out THEN s.tosend[id] ELSE s.flying[id]]
           ids   == SubSeq(s.flyingids \o batch, 1, Least(FlyingMax, Len(s.flyingids) + n))
           tick  == IF Arms(s) THEN NewTicker("on") ELSE s.timedout
           tid   == IF Arms(s) THEN batch[1 - s.inflight] ELSE s.timeoutid
           pan   == s.panicked \/ \E i \in 1 .. n :
                      \/ s.tosend[batch[i]] = NoPacket
                      \/ \E j \in 1 .. i - 1 : batch[j] = batch[i]
           infl  == s.inflight + n
           aged  == s.aged \ out
<1>1. sendnext(s) = [s EXCEPT !.queuedids = queue, !.tosend = tos, !.flying = fly,
                        !.flyingids = ids, !.inflight = infl,
                        !.aged = aged, !.timedout = tick,
                        !.timeoutid = tid, !.panicked = pan]
  BY Zenon DEF sendnext
<1> HIDE DEF n, batch, out, queue, tos, fly, ids, tick, tid, pan, infl, aged
<1>2. /\ sendnext(s).handlinglost = s.handlinglost
      /\ sendnext(s).timedout = tick /\ sendnext(s).timeoutid = tid
      /\ sendnext(s).aged = aged
  BY <1>1 DEF HWRecord
<1> QED BY <1>2, Zenon DEF n, batch, out, tick, tid, aged

\* What land does to the timeout of the packet that is alone in flight.
LEMMA LandTimes ==
  ASSUME NEW s \in HWRecord, NEW id \in UInt16, s.inflight = 1, s.flyingids # <<>>,
         s.flyingids[1] = id
  PROVE  LET u == land(s, id)
         IN  /\ u.timedout = Stop(s.timedout) /\ u.timeoutid = s.timeoutid
             /\ u.handlinglost = s.handlinglost
<1> DEFINE freed == [s EXCEPT !.inflight = @ - 1]
           stopped == [freed EXCEPT !.timedout = Stop(@)]
           timed == updatetimeout(stopped)
           fly   == [timed.flying EXCEPT ![id] = NoPacket]
           Timed(u) == /\ u.timedout = Stop(s.timedout) /\ u.timeoutid = s.timeoutid
                       /\ u.handlinglost = s.handlinglost
<1>1. /\ freed \in HWRecord /\ freed.inflight = 0
      /\ freed.timedout = s.timedout /\ freed.timeoutid = s.timeoutid
      /\ freed.handlinglost = s.handlinglost
  <2>1. freed = [s EXCEPT !.inflight = s.inflight - 1] /\ s.inflight - 1 = 0
    OBVIOUS
  <2>2. s.inflight - 1 \in Int
    BY <2>1
  <2> HIDE DEF freed
  <2>3. /\ freed \in HWRecord /\ freed.inflight = s.inflight - 1
        /\ freed.timedout = s.timedout /\ freed.timeoutid = s.timeoutid
        /\ freed.handlinglost = s.handlinglost
    BY <2>1, <2>2 DEF HWRecord
  <2> QED BY <2>1, <2>3
<1>2. stopped \in HWRecord /\ stopped.inflight = 0 /\ Timed(stopped)
  <2> HIDE DEF freed
  <2>1. Stop(freed.timedout) \in Ticker
    BY <1>1, Fields, TickerType
  <2> QED BY <1>1, <2>1 DEF HWRecord
<1>3. timed \in HWRecord /\ Timed(timed)
  <2> HIDE DEF stopped
  <2>1. timed = [stopped EXCEPT !.timedout = Stop(@)]
    BY <1>2 DEF updatetimeout, Retimes
  <2>2. Stop(stopped.timedout) = stopped.timedout
    BY <1>2, Fields DEF Stop, Ticker
  <2>3. timed = stopped
    BY <1>2, <2>1, <2>2 DEF HWRecord
  <2> HIDE DEF timed
  <2> QED BY <1>2, <2>3
<1>4. land(s, id) = [timed EXCEPT !.flying = fly]
  BY DEF land
<1> HIDE DEF timed
<1> QED BY <1>3, <1>4 DEF HWRecord

\* A burst is one packet, and then none was in flight, or nothing.
LEMMA BurstOne ==
  ASSUME Regime, StopAndWait, NEW s, NEW r, NEW t, Sendable(s, r, t),
         s.inflight \in {0, 1}, Len(s.flyingids) \in {0, 1},
         s.inflight <= Len(s.flyingids)
  PROVE  /\ Burst(s) \in {0, 1} /\ (Arms(s) <=> Burst(s) = 1)
         /\ Burst(s) = 1 => s.inflight = 0 /\ ~s.handlinglost /\ t > 0
<1> DEFINE n == Burst(s)
           f == Len(s.flyingids)
           q == Len(s.queuedids)
           i == s.inflight
<1>1. /\ s \in HWRecord /\ r \in Nat /\ t \in 0 .. NPackets /\ t - r <= MaxOutstanding
      /\ r + f + q = t
  BY DEF Sendable, Queues
<1>2. q \in Nat /\ f \in Nat /\ n \in 0 .. q /\ i \in {0, 1} /\ i <= f
  BY <1>1, Fields, BurstType
<1>3. n # 0 => ~s.handlinglost /\ i < MaxFlight /\ n <= MaxFlight - i
  BY <1>1, <1>2, Constants DEF Burst, Least
<1>4. (MaxFlight = 1 \/ MaxOutstanding = 1) /\ MaxFlight \in Nat /\ MaxOutstanding \in Nat
      /\ NPackets \in Nat
  BY Constants DEF StopAndWait
<1>5. Arms(s) <=> 1 - i \in 1 .. n
  BY DEF Arms
<1> HIDE DEF n, f, q, i
<1>6. n # 0 => n = 1 /\ i = 0 /\ t > 0
  BY <1>1, <1>2, <1>3, <1>4
<1>7. n \in {0, 1} /\ (Arms(s) <=> n = 1)
  BY <1>2, <1>5, <1>6
<1> QED BY <1>3, <1>6, <1>7 DEF n, i

\* What sendnext does then.
LEMMA SendnextOne ==
  ASSUME Regime, StopAndWait, NEW s, NEW r, NEW t, Sendable(s, r, t),
         s.inflight \in {0, 1}, Len(s.flyingids) \in {0, 1},
         s.inflight <= Len(s.flyingids)
  PROVE  LET n == Burst(s)
             p == r + Len(s.flyingids) + 1
             u == sendnext(s)
         IN  /\ n \in {0, 1} /\ u \in HWRecord
             /\ u.inflight = s.inflight + n /\ Len(u.flyingids) = Len(s.flyingids) + n
             /\ u.handlinglost = s.handlinglost /\ u.replied = s.replied
             /\ ~s.panicked => ~u.panicked
             /\ \A id \in UInt16 : u.flying[id] \in {s.flying[id], p}
             /\ n = 0 => /\ u.timedout = s.timedout /\ u.timeoutid = s.timeoutid
                         /\ \A id \in UInt16 : u.flying[id] = s.flying[id]
                         /\ Len(Outgoing(s)) = 0
             /\ n = 1 => /\ s.inflight = 0 /\ ~s.handlinglost /\ t > 0
                         /\ u.timedout = NewTicker("on") /\ u.timeoutid = Id(p)
                         /\ u.flying[Id(p)] # NoPacket
                         /\ Len(Outgoing(s)) = 1
                         /\ Outgoing(s)[1].ptype = control /\ Outgoing(s)[1].id = Id(p)
<1> DEFINE n   == Burst(s)
           f   == Len(s.flyingids)
           b   == SubSeq(s.queuedids, 1, n)
           out == {b[i] : i \in 1 .. n}
           u   == sendnext(s)
           p   == r + f + 1
<1>1. /\ s \in HWRecord /\ r \in Nat /\ t \in 0 .. NPackets /\ Queues(s, r, t)
      /\ handed \in t .. NPackets /\ t - r <= MaxOutstanding /\ Named(s.flying, handed)
      /\ f \in {0, 1}
  BY DEF Sendable
<1>2. /\ n \in {0, 1} /\ (Arms(s) <=> n = 1)
      /\ n = 1 => s.inflight = 0 /\ ~s.handlinglost /\ t > 0
  BY BurstOne
<1>3. /\ u \in HWRecord /\ u.inflight = s.inflight + n /\ Len(u.flyingids) = f + n
      /\ u.replied = s.replied
  BY SendnextLists
<1>4. \A i \in 1 .. n : /\ b[i] = s.queuedids[i] /\ b[i] = Id(r + f + i)
                        /\ b[i] \in UInt16 /\ s.tosend[b[i]] = r + f + i
  <2>1. /\ n \in 0 .. Len(s.queuedids) /\ b \in Seq(UInt16) /\ Len(b) = n
        /\ \A i \in 1 .. n : /\ b[i] = s.queuedids[i] /\ b[i] = Id(r + f + i)
                             /\ b[i] \in UInt16
                             /\ s.tosend[b[i]] = r + f + i
                             /\ r + f + i \in 1 .. t
    <3>1. s \in HWRecord /\ r \in Nat /\ t \in 0 .. NPackets /\ Queues(s, r, t)
      BY <1>1
    <3> QED BY <3>1, BatchFacts, Zenon
  <2> QED BY <2>1, Zenon
<1>5. ~s.panicked => ~u.panicked
  BY <1>1, SendnextKeeps
<1>6. u.flying = [id \in UInt16 |-> IF id \in out THEN s.tosend[id] ELSE s.flying[id]]
  BY <1>1, SendnextFields, Zenon
<1>7. /\ u.handlinglost = s.handlinglost
      /\ u.timedout = IF Arms(s) THEN NewTicker("on") ELSE s.timedout
      /\ u.timeoutid = IF Arms(s) THEN b[1 - s.inflight] ELSE s.timeoutid
  BY <1>1, SendnextTimes, Zenon
<1>8. Outgoing(s) = [i \in 1 .. n |-> controlPacket(s.queuedids[i], s.tosend[s.queuedids[i]])]
  BY DEF Outgoing
<1> HIDE DEF n, b, u, f
<1>9. CASE n = 0
  <2>1. out = {}
    BY <1>9
  <2>2. \A id \in UInt16 : u.flying[id] = s.flying[id]
    BY <1>6, <2>1
  <2>3. Len(Outgoing(s)) = 0
    BY <1>8, <1>9
  <2> QED BY <1>2, <1>3, <1>5, <1>7, <1>9, <2>2, <2>3 DEF n, u, f
<1>10. CASE n = 1
  <2>1. 1 \in 1 .. n /\ p = r + f + 1 /\ \A i \in 1 .. n : i = 1
    BY <1>10
  <2> HIDE DEF p
  <2>2. b[1] = Id(p) /\ s.queuedids[1] = Id(p) /\ Id(p) \in UInt16 /\ s.tosend[Id(p)] = p
    BY <1>4, <2>1
  <2>3. out = {Id(p)}
    BY <2>1, <2>2
  <2> HIDE DEF out
  <2>4. \A id \in UInt16 : u.flying[id] = IF id = Id(p) THEN p ELSE s.flying[id]
    BY <1>6, <2>2, <2>3
  <2>5. p # NoPacket
    BY <1>1, <2>1 DEF NoPacket
  <2>6. Len(Outgoing(s)) = 1 /\ Outgoing(s)[1] = controlPacket(Id(p), p)
    BY <1>8, <1>10, <2>1, <2>2
  <2>7. controlPacket(Id(p), p).ptype = control /\ controlPacket(Id(p), p).id = Id(p)
    BY DEF controlPacket
  <2>8. u.timedout = NewTicker("on") /\ u.timeoutid = Id(p)
    BY <1>2, <1>7, <1>10, <2>2
  <2>9. /\ s.inflight = 0 /\ ~s.handlinglost /\ t > 0
        /\ u.handlinglost = s.handlinglost
    BY <1>2, <1>7, <1>10
  <2>10. /\ \A id \in UInt16 : u.flying[id] \in {s.flying[id], p}
         /\ u.flying[Id(p)] # NoPacket
    BY <2>2, <2>4, <2>5
  <2>11. /\ Len(Outgoing(s)) = 1
         /\ Outgoing(s)[1].ptype = control /\ Outgoing(s)[1].id = Id(p)
    BY <2>6, <2>7
  <2>12. n # 0 /\ n \in {0, 1}
    BY <1>10
  <2> QED BY <1>3, <1>5, <2>8, <2>9, <2>10, <2>11, <2>12, Zenon DEF n, u, f, p
<1> QED BY <1>2, <1>9, <1>10

\* Giving a packet its id does not touch the timeout, and it fails only for want
\* of an id or of room in the queue.
LEMMA EnqueueTimes ==
  ASSUME NEW s \in HWRecord, NEW p \in Packets
  PROVE  LET u == enqueue(s, p)
         IN  /\ u.timedout = s.timedout /\ u.timeoutid = s.timeoutid
             /\ u.handlinglost = s.handlinglost /\ u.aged = s.aged
             /\ s.nextID # 0 /\ Len(s.queuedids) # QueuedMax => u.panicked = s.panicked
<1> DEFINE t   == nextid(s)
           tos == [t.tosend EXCEPT ![s.nextID] = p]
           ids == Append(t.queuedids, s.nextID)
           Kept(u) == /\ u.timedout = s.timedout /\ u.timeoutid = s.timeoutid
                      /\ u.handlinglost = s.handlinglost /\ u.aged = s.aged
<1>1. t \in HWRecord /\ Kept(t) /\ t.panicked = s.panicked
  <2>1. succ(s.nextID) \in UInt16
    BY SuccType, Fields
  <2> QED BY <2>1 DEF nextid, HWRecord
<1>2. CASE s.nextID = 0 \/ Len(s.queuedids) = QueuedMax
  <2>1. enqueue(s, p) = [t EXCEPT !.panicked = TRUE]
    BY <1>2 DEF enqueue
  <2> HIDE DEF t
  <2> QED BY <1>1, <1>2, <2>1 DEF HWRecord
<1>3. CASE ~(s.nextID = 0 \/ Len(s.queuedids) = QueuedMax)
  <2>1. enqueue(s, p) = [t EXCEPT !.tosend = tos, !.queuedids = ids]
    BY <1>3 DEF enqueue
  <2> HIDE DEF t, tos, ids
  <2> QED BY <1>1, <2>1 DEF HWRecord
<1> QED BY <1>2, <1>3

\* With no packet out, nothing is under way once the device is configured.
LEMMA NothingOut ==
  ASSUME TypeOK, Live, OneOut, h.inflight = 0, handed > 0
  PROVE  Under = 0 /\ config = "done"
<1>1. config = "done"
  <2>1. h.configured
    BY Types DEF Live, Configured
  <2> QED BY <2>1 DEF Live, Configured
<1>2. ~ControlUnder
  BY DEF OneOut, Alone
<1>3. \A g \in Handlers : lost[g].pc # "await"
  BY DEF OneOut, Work, Rewritten
<1>4. ~StatusUnder
  BY <1>1, <1>3 DEF OneOut, Alone
<1> QED BY <1>1, <1>2, <1>4, UnderType DEF Counted

\* A step that calls sendnext: nothing is sent, or a packet when none is out.
LEMMA SendsOne ==
  ASSUME Regime, StopAndWait, TypeOK, TypeOK', Live, OneOut, NEW s, NEW t,
         Sendable(s, Len(returned), t), Same(s, h),
         s.timedout = h.timedout, s.timeoutid = h.timeoutid, ~s.panicked,
         h' = sendnext(s), requests' = requests \o Outgoing(s),
         UNCHANGED <<responses, replies, statuses, config, returned, accepted, answered>>
  PROVE  /\ ~h'.panicked /\ Slot(h, Len(returned))' /\ Contents(Len(returned) + 1)'
         /\ h'.handlinglost = s.handlinglost
         /\ \/ /\ ~Arms(s) /\ h'.timedout = h.timedout /\ h'.inflight = h.inflight
               /\ Under' = Under
               /\ ControlUnder' => ControlUnder
               /\ StatusUnder' => StatusUnder
            \/ /\ Arms(s) /\ h'.timedout = NewTicker("on")
               /\ h.inflight = 0 /\ h'.inflight = 1 /\ ~s.handlinglost
               /\ Under = 0 /\ Under' = 1 /\ ~StatusUnder' /\ config = "done"
<1> DEFINE r == Len(returned)
           n == Burst(s)
           p == r + Len(s.flyingids) + 1
           out == Outgoing(s)
<1>0. /\ requests \in Seq(Request) /\ out \in Seq(Request)
      /\ Len(requests) \in Nat /\ Len(responses) \in Nat /\ Len(replies) \in Nat
      /\ Len(statuses) \in Nat /\ Len(accepted) \in Nat /\ answered \in 0 .. Len(accepted)
      /\ r \in Nat /\ t \in 0 .. NPackets /\ handed \in t .. NPackets
  <2>1. s \in HWRecord /\ t \in 0 .. NPackets /\ handed \in t .. NPackets
    BY DEF Sendable
  <2> QED BY <2>1, Types, OutgoingType
<1>1. /\ Slot(h, r) /\ Contents(r + 1)
      /\ s.inflight = h.inflight /\ s.flyingids = h.flyingids
      /\ s.flying = h.flying /\ s.replied = h.replied
  BY DEF OneOut, Same
<1>2. /\ s.inflight \in {0, 1} /\ Len(s.flyingids) \in {0, 1} /\ s.inflight = Len(s.flyingids)
  BY <1>1 DEF Slot
<1>3. /\ n \in {0, 1}
      /\ h'.inflight = s.inflight + n /\ Len(h'.flyingids) = Len(s.flyingids) + n
      /\ h'.handlinglost = s.handlinglost /\ h'.replied = s.replied /\ ~h'.panicked
      /\ \A id \in UInt16 : h'.flying[id] \in {s.flying[id], p}
      /\ n = 0 => /\ h'.timedout = s.timedout /\ h'.timeoutid = s.timeoutid
                  /\ \A id \in UInt16 : h'.flying[id] = s.flying[id]
                  /\ Len(out) = 0
      /\ n = 1 => /\ s.inflight = 0 /\ ~s.handlinglost /\ t > 0
                  /\ h'.timedout = NewTicker("on") /\ h'.timeoutid = Id(p)
                  /\ h'.flying[Id(p)] # NoPacket
                  /\ Len(out) = 1 /\ out[1].ptype = control /\ out[1].id = Id(p)
  <2>1. s.inflight <= Len(s.flyingids)
    BY <1>2
  <2> QED BY <1>2, <2>1, SendnextOne, Zenon
<1>4. Arms(s) <=> n = 1
  <2>1. s.inflight <= Len(s.flyingids)
    BY <1>2
  <2> QED BY <1>2, <2>1, BurstOne, Zenon
<1>5. /\ Len(requests') = Len(requests) + Len(out)
      /\ \A k \in 1 .. Len(requests') : \/ \E j \in 1 .. Len(requests) : requests'[k] = requests[j]
                                       \/ \E j \in 1 .. Len(out) : requests'[k] = out[j]
  BY <1>0, Joined, ConcatElems
<1>6. UNCHANGED <<responses, replies, statuses, config, returned, accepted, answered>>
  OBVIOUS
<1> HIDE DEF n, out, p, r
<1>7. CASE n = 0
  <2>1. \A k \in 1 .. Len(requests') : \E j \in 1 .. Len(requests) : requests'[k] = requests[j]
    BY <1>3, <1>5, <1>7
  <2>2. Under' = Under
    BY <1>0, <1>3, <1>5, <1>6, <1>7 DEF Under
  <2>3. (ControlUnder' => ControlUnder) /\ (StatusUnder' => StatusUnder)
    BY <1>6, <2>1 DEF ControlUnder, StatusUnder
  <2>4. Contents(Len(returned) + 1)'
    BY <1>1, <1>6, <2>1 DEF Contents, r
  <2>5. Slot(h', r)
    <3>1. h'.inflight = h.inflight /\ Len(h'.flyingids) = Len(h.flyingids)
      <4>1. h.inflight + 0 = h.inflight /\ Len(h.flyingids) + 0 = Len(h.flyingids)
        BY <1>1, <1>2
      <4> QED BY <1>1, <1>3, <1>7, <4>1
    <3>2. /\ h'.timeoutid = h.timeoutid /\ h'.replied = h.replied
          /\ \A id \in UInt16 : h'.flying[id] = h.flying[id]
      <4>1. s.timeoutid = h.timeoutid
        OBVIOUS
      <4> QED BY <1>1, <1>3, <1>7, <4>1
    <3>3. Id(r + 1) \in UInt16
      BY ReturnedFew, IdType DEF r
    <3> QED BY <1>1, <3>1, <3>2, <3>3 DEF Slot
  <2> QED BY <1>1, <1>2, <1>3, <1>4, <1>6, <1>7, <2>2, <2>3, <2>4, <2>5 DEF r
<1>8. CASE n = 1
  <2>1. s.inflight = 0 /\ h.inflight = 0 /\ Len(s.flyingids) = 0 /\ p = r + 1
    BY <1>0, <1>1, <1>2, <1>3, <1>8 DEF p
  <2>2. handed > 0
    BY <1>0, <1>3, <1>8, Constants
  <2>3. Under = 0 /\ config = "done"
    BY <2>1, <2>2, NothingOut
  <2>4. /\ Len(requests) = 0 /\ Len(responses) = 0 /\ Len(replies) = 0
        /\ Len(statuses) = 0 /\ answered = Len(accepted)
    BY <2>3, UnderType DEF Counted
  <2>5. Under' = 1
    BY <1>0, <1>3, <1>5, <1>6, <1>8, <2>4 DEF Under
  <2>6. \A k \in 1 .. Len(requests') : requests'[k].ptype = control /\ requests'[k].id = Id(r + 1)
    <3>1. \A j \in 1 .. Len(out) : out[j].ptype = control /\ out[j].id = Id(r + 1)
      BY <1>3, <1>8, <2>1
    <3> QED BY <1>5, <2>4, <3>1
  <2>7. ~StatusUnder'
    BY <1>6, <2>4, <2>6 DEF StatusUnder, control, status
  <2>8. Contents(Len(returned) + 1)'
    <3>1. Contents(r + 1)'
      BY <1>1, <1>6, <2>4, <2>6 DEF Contents, About1, r
    <3> QED BY <3>1 DEF r
  <2>9. Slot(h', r)
    <3>1. \A id \in UInt16 : h'.flying[id] # NoPacket => h'.flying[id] <= r + 1
      <4> SUFFICES ASSUME NEW id \in UInt16, h'.flying[id] # NoPacket
                   PROVE  h'.flying[id] <= r + 1
        OBVIOUS
      <4>1. h'.flying[id] = h.flying[id] \/ h'.flying[id] = r + 1
        BY <1>1, <1>3, <2>1
      <4>2. h.flying[id] # NoPacket => h.flying[id] <= r
        BY <1>0, <1>1, <2>1 DEF Slot
      <4>3. h.flying[id] \in Nat
        <5>1. h.flying[id] \in Packets \cup {NoPacket}
          BY Types, Fields
        <5> QED BY <5>1, Constants DEF Packets, NoPacket
      <4>4. r \in Nat
        BY <1>0
      <4> QED BY <4>1, <4>2, <4>3, <4>4
    <3>2. \A id \in UInt16 : h'.replied[id] = NoPacket
      BY <1>1, <1>3 DEF Slot
    <3>3. h'.inflight = 1 /\ Len(h'.flyingids) = 1
      BY <1>3, <1>8, <2>1
    <3>4. h'.flying[Id(r + 1)] # NoPacket /\ h'.timeoutid = Id(r + 1)
      BY <1>3, <1>8, <2>1
    <3> QED BY <3>1, <3>2, <3>3, <3>4 DEF Slot
  <2>10. h'.inflight = 1 /\ h'.timedout = NewTicker("on") /\ ~s.handlinglost
    BY <1>3, <1>8, <2>1
  <2> QED BY <1>3, <1>4, <1>6, <1>8, <2>1, <2>3, <2>5, <2>7, <2>8, <2>9, <2>10 DEF r
<1> QED BY <1>3, <1>7, <1>8

\* The packet Run takes from the channel finds an id and room in the queue.
LEMMA EnqueueFits ==
  ASSUME Regime, MaxOutstanding <= QueuedMax, TypeOK, Live, ~h.panicked, incoming # <<>>
  PROVE  LET s == enqueue(h, Head(incoming))
         IN  /\ ~s.panicked /\ Same(s, h)
             /\ Sendable(s, Len(returned), handed - Len(incoming) + 1)
             /\ s.timedout = h.timedout /\ s.timeoutid = h.timeoutid
             /\ s.handlinglost = h.handlinglost /\ s.aged = h.aged
             /\ h.configured /\ s.configured = h.configured
<1> DEFINE t == handed - Len(incoming)
           r == Len(returned)
           f == Len(h.flyingids)
           q == Len(h.queuedids)
           k == Len(incoming)
           s == enqueue(h, Head(incoming))
<1>0. Configured /\ Waiting /\ Queued /\ InFlight
  BY DEF Live
<1>1. t \in 0 .. NPackets - 1 /\ t + 1 \in 1 .. handed /\ Head(incoming) = t + 1
  BY HeadWaiting
<1>2. handed \in 0 .. NPackets /\ r \in Nat /\ h \in HWRecord /\ k \in Nat
  BY Types
<1>3. h.configured /\ h.nextID = Id(t + 1)
  <2>1. handed # 0
    BY <1>1, <1>2
  <2> QED BY <1>0, <2>1 DEF Configured
<1>4. Queues(h, r, t) /\ handed - r <= MaxOutstanding /\ Named(h.flying, handed)
  BY <1>0 DEF Queued, InFlight
<1>5. f \in Nat /\ q \in Nat /\ r + f + q = t /\ t = handed - k
  <2>1. f \in Nat /\ q \in Nat
    BY <1>2, Fields
  <2>2. r + f + q = t
    BY <1>4 DEF Queues
  <2>3. t = handed - k
    OBVIOUS
  <2> QED BY <2>1, <2>2, <2>3, Zenon
<1> HIDE DEF t, r, f, q, k
<1>6. t + 1 \in Packets /\ t + 1 \in 1 .. NPackets + 1
  BY <1>1, <1>2, Constants DEF Packets
<1>7. q # QueuedMax
  BY <1>1, <1>2, <1>4, <1>5, Constants
<1>8. h.nextID # 0
  BY <1>3, <1>6, IdType
<1>9. s = enqueue(h, t + 1)
  BY <1>1
<1> HIDE DEF s
<1>10. /\ s.timedout = h.timedout /\ s.timeoutid = h.timeoutid
       /\ s.handlinglost = h.handlinglost /\ s.aged = h.aged
       /\ s.panicked = h.panicked
  BY <1>2, <1>6, <1>7, <1>8, <1>9, EnqueueTimes DEF q
<1>11. Same(s, h) /\ s \in HWRecord
  BY <1>2, <1>6, <1>9, EnqueueSame, EnqueueType
<1>12. ~s.panicked
  BY <1>10
<1>13. Queues(s, r, t + 1) /\ s.configured = h.configured
  BY <1>1, <1>2, <1>3, <1>4, <1>9, <1>12, EnqueueKeeps
<1>14. t + 1 \in 0 .. NPackets /\ handed \in t + 1 .. NPackets /\ (t + 1) - r <= MaxOutstanding
  BY <1>1, <1>2, <1>4, Constants
<1>15. Named(s.flying, handed)
  BY <1>4, <1>11 DEF Same
<1>16. Sendable(s, r, t + 1)
  BY <1>2, <1>11, <1>13, <1>14, <1>15 DEF Sendable
<1> QED BY <1>3, <1>10, <1>11, <1>12, <1>13, <1>16, Zenon DEF s, r, t

\* Nobody handles a loss.
LEMMA NoneAtWork ==
  ASSUME \A g \in Handlers : lost'[g].pc = "idle", h'.handlinglost = FALSE
  PROVE  /\ Handling' /\ \A g \in Handlers : Work(lost[g])'
         /\ \A g \in Handlers : Rewritten(lost[g])'
<1>1. Handling'
  BY DEF Handling
<1>2. ASSUME NEW g \in Handlers PROVE Work(lost[g])' /\ Rewritten(lost[g])'
  BY DEF Work, Rewritten
<1> QED BY <1>1, <1>2

\* A packet from the users joins the queue and may be sent.
LEMMA IncomingOne ==
  ASSUME Regime, StopAndWait, TypeOK, TypeOK', Live, OneOut, RunIncoming
  PROVE  OneOut'
<1> DEFINE s == enqueue(h, Head(incoming))
           t == handed - Len(incoming) + 1
<1>0. ~h.panicked /\ Alone /\ Timer /\ Handling /\ \A g \in Handlers : Work(lost[g])
  BY DEF OneOut
<1>1. /\ incoming # <<>> /\ watched' = Current
      /\ UNCHANGED <<replies, statuses, config, lost, returned>>
      /\ UNCHANGED <<responses, accepted, answered>>
  BY DEF RunIncoming, devVars
<1>2. /\ ~s.panicked /\ Same(s, h) /\ Sendable(s, Len(returned), t)
      /\ s.timedout = h.timedout /\ s.timeoutid = h.timeoutid
      /\ s.handlinglost = h.handlinglost
  BY <1>0, <1>1, EnqueueFits DEF StopAndWait
<1>3. h' = sendnext(s) /\ requests' = requests \o Outgoing(s)
  BY <1>2, IncomingSends, Zenon
<1> HIDE DEF s, t
<1>4. /\ ~h'.panicked /\ Slot(h, Len(returned))' /\ Contents(Len(returned) + 1)'
      /\ h'.handlinglost = h.handlinglost
      /\ \/ /\ h'.timedout = h.timedout /\ h'.inflight = h.inflight
            /\ Under' = Under
            /\ ControlUnder' => ControlUnder
            /\ StatusUnder' => StatusUnder
         \/ /\ h'.timedout = NewTicker("on")
            /\ h.inflight = 0 /\ h'.inflight = 1 /\ ~h.handlinglost
            /\ Under = 0 /\ Under' = 1 /\ ~StatusUnder' /\ config = "done"
  BY <1>1, <1>2, <1>3, SendsOne
<1>5. CASE /\ h'.timedout = h.timedout /\ h'.inflight = h.inflight /\ Under' = Under
           /\ ControlUnder' => ControlUnder
           /\ StatusUnder' => StatusUnder
  <2>1. Alone'
    BY <1>0, <1>1, <1>5 DEF Alone, Rewritten
  <2>2. Timer'
    BY <1>0, <1>1, <1>5 DEF Timer
  <2>3. Handling'
    BY <1>0, <1>1, <1>4 DEF Handling
  <2>4. ASSUME NEW g \in Handlers PROVE Work(lost[g])'
    BY <1>0, <1>1, <1>5 DEF Work, Rewritten
  <2> QED BY <1>4, <2>1, <2>2, <2>3, <2>4 DEF OneOut
<1>6. CASE /\ h'.timedout = NewTicker("on")
           /\ h.inflight = 0 /\ h'.inflight = 1 /\ ~h.handlinglost
           /\ Under = 0 /\ Under' = 1 /\ ~StatusUnder' /\ config = "done"
  <2>1. \A g \in Handlers : lost[g].pc = "idle"
    <3>1. \A g \in Handlers : lost[g].pc \in {"idle", "stop", "request"}
      BY <1>0, <1>6 DEF Handling
    <3> QED BY <1>0, <1>6, <3>1 DEF Work, Rewritten
  <2>2. \A g \in Handlers : lost'[g].pc = "idle"
    BY <1>1, <2>1
  <2>3. h'.handlinglost = FALSE
    BY <1>4, <1>6
  <2>4. /\ Handling' /\ \A g \in Handlers : Work(lost[g])'
        /\ \A g \in Handlers : Rewritten(lost[g])'
    BY <2>2, <2>3, NoneAtWork
  <2>5. h'.timedout.run = "on" /\ h'.timedout.tick = FALSE
    BY <1>6 DEF NewTicker
  <2>6. Alone'
    BY <1>1, <1>6, <2>4, <2>5 DEF Alone
  <2>7. Timer'
    BY <1>1, <1>6, <2>5 DEF Timer
  <2> QED BY <1>4, <2>4, <2>6, <2>7 DEF OneOut
<1> QED BY <1>4, <1>5, <1>6

\* handlelost is done and calls sendnext itself.
LEMMA FinishOne ==
  ASSUME Regime, StopAndWait, TypeOK, TypeOK', Live, OneOut, NEW g \in Handlers, LostFinish(g)
  PROVE  OneOut'
<1> DEFINE s == [h EXCEPT !.handlinglost = FALSE]
           t == handed - Len(incoming)
           r == Len(returned)
<1>0. ~h.panicked /\ Alone /\ Timer /\ Handling /\ \A k \in Handlers : Work(lost[k])
  BY DEF OneOut
<1>1. /\ lost[g].pc = "finish" /\ h' = sendnext(s) /\ requests' = requests \o Outgoing(s)
      /\ lost' = [lost EXCEPT ![g] = idle]
      /\ watched' = IF Arms(s) /\ watched = Current THEN h.timedout ELSE watched
      /\ UNCHANGED <<replies, statuses, config, returned>>
      /\ UNCHANGED <<responses, accepted, answered>>
  <2>1. Store(sendnext(s), Arms(s)) /\ requests' = requests \o Outgoing(s)
    BY FinishSends, Zenon
  <2>2. /\ lost[g].pc = "finish" /\ lost' = [lost EXCEPT ![g] = idle]
        /\ UNCHANGED <<replies, statuses, config, returned>>
        /\ UNCHANGED <<responses, accepted, answered>>
    BY DEF LostFinish, devVars
  <2> HIDE DEF s
  <2> QED BY <2>1, <2>2 DEF Store
<1>2. /\ s \in HWRecord /\ Same(s, h) /\ s.panicked = h.panicked
      /\ s.timedout = h.timedout /\ s.timeoutid = h.timeoutid /\ s.handlinglost = FALSE
      /\ s.queuedids = h.queuedids /\ s.tosend = h.tosend
  BY Types DEF HWRecord, Same
<1> HIDE DEF s
<1>3. Sendable(s, r, t)
  <2>1. Len(incoming) <= handed /\ Queues(h, r, t) /\ handed - r <= MaxOutstanding
    BY DEF Live, Waiting, Queued
  <2>2. Queues(s, r, t)
    BY <1>2, <2>1 DEF Queues, Same
  <2>3. Named(s.flying, handed)
    BY <1>2 DEF Live, InFlight, Same
  <2>4. r \in Nat /\ Len(incoming) \in Nat /\ handed \in 0 .. NPackets
    BY Types
  <2> DEFINE k == Len(incoming)
  <2>5. k \in Nat /\ k <= handed /\ t = handed - k
    BY <2>1, <2>4
  <2> HIDE DEF k, t, r
  <2>6. t \in 0 .. NPackets /\ handed \in t .. NPackets /\ t - r <= MaxOutstanding
    BY <2>1, <2>4, <2>5, Constants
  <2> QED BY <1>2, <2>2, <2>3, <2>4, <2>6 DEF Sendable
<1> HIDE DEF t
<1>4. /\ ~h'.panicked /\ Slot(h, Len(returned))' /\ Contents(Len(returned) + 1)'
      /\ h'.handlinglost = s.handlinglost
      /\ \/ /\ ~Arms(s) /\ h'.timedout = h.timedout /\ h'.inflight = h.inflight
            /\ Under' = Under
            /\ ControlUnder' => ControlUnder
            /\ StatusUnder' => StatusUnder
         \/ /\ Arms(s) /\ h'.timedout = NewTicker("on")
            /\ h.inflight = 0 /\ h'.inflight = 1 /\ ~s.handlinglost
            /\ Under = 0 /\ Under' = 1 /\ ~StatusUnder' /\ config = "done"
  BY <1>0, <1>1, <1>2, <1>3, SendsOne
<1>5. \A k \in Handlers : k # g => lost[k].pc = "idle"
  BY <1>0, <1>1 DEF Handling
<1>6. \A k \in Handlers : lost'[k].pc = "idle"
  <2>1. DOMAIN lost = Handlers
    BY DEF TypeOK, HWTypeOK
  <2>2. idle.pc = "idle"
    BY DEF idle
  <2> QED BY <1>1, <1>5, <2>1, <2>2
<1>7. h'.handlinglost = FALSE
  BY <1>2, <1>4
<1>8. /\ Handling' /\ \A k \in Handlers : Work(lost[k])'
      /\ \A k \in Handlers : Rewritten(lost[k])'
  BY <1>6, <1>7, NoneAtWork
<1>9. h.timedout.run = "off" /\ ~h.timedout.tick
  <2>1. h.timedout.run = "off"
    BY <1>0, <1>1 DEF Work
  <2> QED BY <1>0, <1>1, <2>1 DEF Timer
<1>10. \A k \in Handlers : lost[k].pc # "await"
  BY <1>1, <1>5
<1>11. CASE /\ ~Arms(s) /\ h'.timedout = h.timedout /\ h'.inflight = h.inflight
            /\ Under' = Under
            /\ ControlUnder' => ControlUnder
            /\ StatusUnder' => StatusUnder
  <2>1. Alone'
    BY <1>0, <1>1, <1>8, <1>9, <1>10, <1>11 DEF Alone
  <2>2. Timer'
    BY <1>0, <1>1, <1>9, <1>11 DEF Timer
  <2> QED BY <1>4, <1>8, <2>1, <2>2 DEF OneOut
<1>12. CASE /\ Arms(s) /\ h'.timedout = NewTicker("on")
            /\ h.inflight = 0 /\ h'.inflight = 1
            /\ Under = 0 /\ Under' = 1 /\ ~StatusUnder' /\ config = "done"
  <2>1. h'.timedout.run = "on" /\ h'.timedout.tick = FALSE
    BY <1>12 DEF NewTicker
  <2>2. Alone'
    BY <1>1, <1>8, <1>12, <2>1 DEF Alone
  <2>3. Timer'
    BY <1>0, <1>1, <1>9, <1>12, <2>1 DEF Timer
  <2> QED BY <1>4, <1>8, <2>2, <2>3 DEF OneOut
<1> QED BY <1>4, <1>11, <1>12

\* Handing packets back does not touch the timeout.
LEMMA ReturnreplyTimes ==
  ASSUME NEW s \in HWRecord, NEW n
  PROVE  LET u == returnreply(s, n)
         IN  /\ u.timedout = s.timedout /\ u.timeoutid = s.timeoutid
             /\ u.handlinglost = s.handlinglost /\ u.aged = s.aged
             /\ u.inflight = s.inflight /\ u.panicked = s.panicked
             /\ u.flying = s.flying /\ u.configured = s.configured
<1> DEFINE ids  == SubSeq(s.flyingids, n + 1, Len(s.flyingids))
           gone == {s.flyingids[i] : i \in 1 .. n}
           rep  == [id \in UInt16 |-> IF id \in gone THEN NoPacket ELSE s.replied[id]]
<1>1. returnreply(s, n) = [s EXCEPT !.flyingids = ids, !.replied = rep]
  BY DEF returnreply
<1> HIDE DEF ids, rep
<1> QED BY <1>1 DEF HWRecord

\* A packet whose reply has come is in replied; nothing else changes.
LEMMA StoreReply ==
  ASSUME NEW s \in HWRecord, NEW id \in UInt16, NEW p \in Packets
  PROVE  LET t == [s EXCEPT !.replied[id] = p]
         IN  /\ t \in HWRecord /\ t.replied = [s.replied EXCEPT ![id] = p]
             /\ t.timedout = s.timedout /\ t.timeoutid = s.timeoutid
             /\ t.handlinglost = s.handlinglost /\ t.aged = s.aged
             /\ t.inflight = s.inflight /\ t.panicked = s.panicked
             /\ t.flying = s.flying /\ t.flyingids = s.flyingids
             /\ t.tosend = s.tosend /\ t.queuedids = s.queuedids
             /\ t.configured = s.configured
<1> DEFINE rp == [s.replied EXCEPT ![id] = p]
           t  == [s EXCEPT !.replied[id] = p]
<1>1. rp \in [UInt16 -> Packets \cup {NoPacket}]
  BY Fields
<1>2. t = [s EXCEPT !.replied = rp]
  OBVIOUS
<1> HIDE DEF rp, t
<1>3. /\ t \in HWRecord /\ t.replied = rp
      /\ t.timedout = s.timedout /\ t.timeoutid = s.timeoutid
      /\ t.handlinglost = s.handlinglost /\ t.aged = s.aged
      /\ t.inflight = s.inflight /\ t.panicked = s.panicked
      /\ t.flying = s.flying /\ t.flyingids = s.flyingids
      /\ t.tosend = s.tosend /\ t.queuedids = s.queuedids
      /\ t.configured = s.configured
  BY <1>1, <1>2 DEF HWRecord
<1> QED BY <1>3, Zenon DEF rp, t

\* What land leaves can be sent from.
LEMMA LandSendable ==
  ASSUME Regime, TypeOK, Live, NEW id \in UInt16
  PROVE  /\ Sendable(land(h, id), Len(returned), handed - Len(incoming))
         /\ land(h, id).flyingids = h.flyingids /\ land(h, id).replied = h.replied
         /\ land(h, id).inflight = h.inflight - 1
         /\ land(h, id).panicked = h.panicked
         /\ land(h, id).configured = h.configured
         /\ \A k \in UInt16 : land(h, id).flying[k] = IF k = id THEN NoPacket ELSE h.flying[k]
<1> DEFINE s == land(h, id)
           t == handed - Len(incoming)
           r == Len(returned)
           k == Len(incoming)
<1>1. h \in HWRecord /\ r \in Nat /\ k \in Nat /\ handed \in 0 .. NPackets
  BY Types
<1>2. /\ s \in HWRecord /\ s.inflight = h.inflight - 1
      /\ s.tosend = h.tosend /\ s.flying = [h.flying EXCEPT ![id] = NoPacket]
      /\ s.replied = h.replied /\ s.configured = h.configured
      /\ s.queuedids = h.queuedids /\ s.flyingids = h.flyingids
      /\ s.panicked = h.panicked
  BY <1>1, LandType, LandKeeps, LandCounts
<1>3. k <= handed /\ Queues(h, r, t) /\ handed - r <= MaxOutstanding /\ Named(h.flying, handed)
  BY DEF Live, Waiting, Queued, InFlight
<1>4. t = handed - k
  OBVIOUS
<1> HIDE DEF s, t, r, k
<1>5. t \in 0 .. NPackets /\ handed \in t .. NPackets /\ t - r <= MaxOutstanding
  BY <1>1, <1>3, <1>4, Constants
<1>6. Queues(s, r, t)
  BY <1>2, <1>3 DEF Queues
<1>7. \A j \in UInt16 : s.flying[j] = IF j = id THEN NoPacket ELSE h.flying[j]
  BY <1>1, <1>2, Fields
<1>8. Named(s.flying, handed)
  BY <1>3, <1>7 DEF Named
<1>9. Sendable(s, r, t)
  BY <1>1, <1>2, <1>5, <1>6, <1>8 DEF Sendable
<1> QED BY <1>2, <1>7, <1>9 DEF s, r, t

\* A reply that comes while packets are out, and what land makes of it.
LEMMA ReplyLanded ==
  ASSUME Regime, TypeOK, Live, RunReply, h.flyingids # <<>>
  PROVE  LET id == Head(replies).id
             s  == land(h, id)
             t  == [sendnext(s) EXCEPT !.replied[id] = h.flying[id]]
         IN  /\ requests' = requests \o Outgoing(s)
             /\ \E n \in 0 .. Len(t.flyingids) :
                  /\ Returns(t, n)
                  /\ h' = returnreply(t, n)
                  /\ returned' = returned \o Handback(t, n)
<1> DEFINE id == Head(replies).id
           After(u, o) ==
             LET t == [u EXCEPT !.replied[id] = h.flying[id]]
             IN  /\ requests' = requests \o o
                 /\ \E n \in 0 .. Len(t.flyingids) :
                      /\ Returns(t, n)
                      /\ h' = returnreply(t, n)
                      /\ returned' = returned \o Handback(t, n)
<1>1. PICK s \in Landings(h, id) : After(sendnext(s), Outgoing(s))
  BY ReplySends, Zenon
<1>2. id \in UInt16 /\ h \in HWRecord
  <2>1. replies # <<>>
    BY DEF RunReply
  <2>2. Head(replies) \in Response
    BY <2>1, ReplyTaken
  <2> QED BY <2>2, Types DEF Response
<1> HIDE DEF After, id
<1>3. s = land(h, id)
  BY <1>2, LandingsKeeps, Zenon
<1>4. After(sendnext(land(h, id)), Outgoing(land(h, id)))
  BY <1>1, <1>3, Zenon
<1> QED BY <1>4, Zenon DEF After, id

\* The reply to the packet that is out frees its slot, and the next packet may
\* be sent; then it goes back.
LEMMA ReplyLands ==
  ASSUME Regime, StopAndWait, TypeOK, Live, OneOut, RunReply,
         h.inflight = 1, Head(replies).id = Id(Len(returned) + 1)
  PROVE  LET r   == Len(returned)
             s   == land(h, Head(replies).id)
             n   == Burst(s)
         IN  /\ Len(returned') = r + 1 /\ requests' = requests \o Outgoing(s) /\ s \in HWRecord
             /\ n \in {0, 1} /\ h'.inflight = n /\ Len(h'.flyingids) = n
             /\ \A id \in UInt16 : h'.replied[id] = NoPacket
             /\ \A id \in UInt16 : h'.flying[id] # NoPacket => h'.flying[id] <= r + 1 + n
             /\ ~h'.panicked /\ h'.handlinglost = h.handlinglost
             /\ n = 0 => h'.timedout = Stop(h.timedout) /\ Len(Outgoing(s)) = 0
             /\ n = 1 => /\ h'.flying[Id(r + 2)] # NoPacket /\ h'.timeoutid = Id(r + 2)
                         /\ h'.timedout = NewTicker("on") /\ ~h.handlinglost
                         /\ Len(Outgoing(s)) = 1 /\ Outgoing(s)[1].ptype = control
                         /\ Outgoing(s)[1].id = Id(r + 2)
<1> DEFINE r   == Len(returned)
           m   == handed - Len(incoming)
           id1 == Head(replies).id
           req == h.flying[id1]
           s   == land(h, id1)
           u   == sendnext(s)
           t   == [u EXCEPT !.replied[id1] = req]
           k   == Burst(s)
           out == Outgoing(s)
<1>0. /\ h \in HWRecord /\ r \in Nat /\ ~h.panicked /\ Slot(h, r) /\ returned \in Seq(Packets)
      /\ r + 1 \in 1 .. NPackets + 1 /\ id1 = Id(r + 1)
  BY Types, ReturnedFew DEF OneOut
<1>1. id1 \in UInt16
  BY <1>0, IdType
<1>f. h.flyingids # <<>>
  <2>1. Len(h.flyingids) = 1
    BY <1>0 DEF Slot
  <2>2. Len(<<>>) = 0 /\ 0 # 1
    OBVIOUS
  <2> QED BY <2>1, <2>2, Zenon
<1>2. PICK n \in 0 .. Len(t.flyingids) :
        Returns(t, n) /\ h' = returnreply(t, n) /\ returned' = returned \o Handback(t, n)
  BY <1>f, ReplyLanded, Zenon
<1>3. req # NoPacket /\ requests' = requests \o out
  <2>1. requests' = requests \o out
    BY <1>f, ReplyLanded, Zenon
  <2>2. req # NoPacket
    BY DEF RunReply
  <2> QED BY <2>1, <2>2
<1>4. req \in Packets
  BY <1>0, <1>1, <1>3, Fields
<1>5. /\ Sendable(s, r, m) /\ s.flyingids = h.flyingids /\ s.replied = h.replied
      /\ s.inflight = h.inflight - 1 /\ s.panicked = h.panicked
      /\ \A j \in UInt16 : s.flying[j] = IF j = id1 THEN NoPacket ELSE h.flying[j]
  BY <1>1, LandSendable
<1>6. Len(h.flyingids) = 1 /\ h.flyingids[1] = id1 /\ h.flyingids # <<>>
  <2>1. Len(h.flyingids) = 1
    BY <1>0 DEF Slot
  <2>2. \A i \in 1 .. Len(h.flyingids) : h.flyingids[i] = Id(r + i)
    BY DEF Live, Queued, Queues
  <2>3. h.flyingids # <<>>
    <3> SUFFICES ASSUME h.flyingids = <<>> PROVE FALSE
      OBVIOUS
    <3>1. Len(<<>>) = 0 /\ 1 # 0
      OBVIOUS
    <3>2. Len(h.flyingids) = Len(<<>>)
      BY Zenon
    <3> QED BY <2>1, <3>1, <3>2, Zenon
  <2> QED BY <1>0, <2>1, <2>2, <2>3
<1>7. /\ s.timedout = Stop(h.timedout) /\ s.timeoutid = h.timeoutid
      /\ s.handlinglost = h.handlinglost
  BY <1>0, <1>1, <1>6, LandTimes
<1> HIDE DEF s, id1, req
<1>8. s \in HWRecord /\ m \in 0 .. NPackets /\ handed \in m .. NPackets /\ m - r <= MaxOutstanding
      /\ Queues(s, r, m) /\ Named(s.flying, handed)
  BY <1>5 DEF Sendable
<1>9. s.inflight = 0 /\ Len(s.flyingids) = 1
  BY <1>5, <1>6
<1>10. /\ k \in {0, 1} /\ u \in HWRecord
       /\ u.inflight = s.inflight + k /\ Len(u.flyingids) = Len(s.flyingids) + k
       /\ u.handlinglost = s.handlinglost /\ u.replied = s.replied
       /\ ~s.panicked => ~u.panicked
       /\ \A id \in UInt16 : u.flying[id] \in {s.flying[id], r + Len(s.flyingids) + 1}
       /\ k = 0 => /\ u.timedout = s.timedout /\ u.timeoutid = s.timeoutid
                   /\ \A id \in UInt16 : u.flying[id] = s.flying[id]
                   /\ Len(out) = 0
       /\ k = 1 => /\ s.inflight = 0 /\ ~s.handlinglost /\ m > 0
                   /\ u.timedout = NewTicker("on")
                   /\ u.timeoutid = Id(r + Len(s.flyingids) + 1)
                   /\ u.flying[Id(r + Len(s.flyingids) + 1)] # NoPacket
                   /\ Len(out) = 1
                   /\ out[1].ptype = control /\ out[1].id = Id(r + Len(s.flyingids) + 1)
  <2>1. s.inflight \in {0, 1} /\ Len(s.flyingids) \in {0, 1} /\ s.inflight <= Len(s.flyingids)
    BY <1>9
  <2> QED BY <1>5, <2>1, SendnextOne, Zenon
<1>11. Queues(u, r, m)
  BY <1>0, <1>8, SendnextKeeps
<1> HIDE DEF u, k, out, m
<1>12. /\ t \in HWRecord /\ t.replied = [u.replied EXCEPT ![id1] = req]
       /\ t.timedout = u.timedout /\ t.timeoutid = u.timeoutid
       /\ t.handlinglost = u.handlinglost
       /\ t.inflight = u.inflight /\ t.panicked = u.panicked
       /\ t.flying = u.flying /\ t.flyingids = u.flyingids
       /\ t.tosend = u.tosend /\ t.queuedids = u.queuedids
  BY <1>1, <1>4, <1>10, StoreReply
<1> HIDE DEF t
<1>13. /\ h'.timedout = t.timedout /\ h'.timeoutid = t.timeoutid
       /\ h'.handlinglost = t.handlinglost
       /\ h'.inflight = t.inflight /\ h'.panicked = t.panicked /\ h'.flying = t.flying
  BY <1>2, <1>12, ReturnreplyTimes
<1>14. Queues(t, r, m)
  BY <1>11, <1>12 DEF Queues
<1>15. r + Len(s.flyingids) + 1 = r + 2 /\ s.inflight + k = k /\ Len(s.flyingids) + k = 1 + k
       /\ k \in Nat
  BY <1>0, <1>9, <1>10
<1>16. \A id \in UInt16 : t.replied[id] = IF id = id1 THEN req ELSE NoPacket
  <2>1. \A id \in UInt16 : h.replied[id] = NoPacket
    BY <1>0 DEF Slot
  <2>2. u.replied \in [UInt16 -> Packets \cup {NoPacket}]
    BY <1>10, Fields
  <2> QED BY <1>1, <1>5, <1>10, <1>12, <2>1, <2>2
<1>17. /\ Len(t.flyingids) = 1 + k
       /\ t.flyingids[1] = id1 /\ id1 \in UInt16
       /\ k = 1 => t.flyingids[2] = Id(r + 2) /\ Id(r + 2) # id1 /\ Id(r + 2) \in UInt16
  <2>1. Len(t.flyingids) = 1 + k
    BY <1>10, <1>12, <1>15
  <2>2. \A i \in 1 .. Len(t.flyingids) : t.flyingids[i] = Id(r + i)
    BY <1>14 DEF Queues
  <2>3. t.flyingids[1] = id1
    BY <1>0, <1>15, <2>1, <2>2
  <2>4. ASSUME k = 1 PROVE t.flyingids[2] = Id(r + 2) /\ Id(r + 2) # id1 /\ Id(r + 2) \in UInt16
    <3>1. t.flyingids[2] = Id(r + 2)
      BY <2>1, <2>2, <2>4
    <3>2. r + 2 \in 1 .. NPackets + 1
      <4> DEFINE a == Len(t.flyingids)
                 b == Len(t.queuedids)
      <4>1. b \in Nat
        BY <1>12, Fields
      <4>2. r + a + b = m
        BY <1>14 DEF Queues
      <4>3. a = 2
        BY <2>1, <2>4
      <4> HIDE DEF a, b
      <4> QED BY <1>0, <1>8, <4>1, <4>2, <4>3, Constants
    <3>3. Id(r + 2) # Id(r + 1)
      BY <1>0, <3>2, IdInjective
    <3> QED BY <1>0, <3>1, <3>2, <3>3, IdType
  <2> QED BY <1>1, <2>1, <2>3, <2>4
<1>18. n = 1
  <2>1. n \in 0 .. 1 + k
    BY <1>2, <1>17
  <2>2. t.replied[t.flyingids[1]] # NoPacket
    BY <1>3, <1>16, <1>17
  <2>3. n # 0
    <3>1. n < Len(t.flyingids) =>
            ~(/\ t.replied[t.flyingids[n + 1]] # NoPacket
              /\ \A j \in 1 .. (n + 1) - 1 : t.flyingids[j] # t.flyingids[n + 1])
      BY <1>2 DEF Returns
    <3>2. SUFFICES ASSUME n = 0 PROVE FALSE
      OBVIOUS
    <3>3. n < Len(t.flyingids) /\ n + 1 = 1 /\ (n + 1) - 1 = 0
      BY <1>15, <1>17, <3>2
    <3>4. \A j \in 1 .. (n + 1) - 1 : t.flyingids[j] # t.flyingids[n + 1]
      BY <3>3
    <3> QED BY <2>2, <3>1, <3>3, <3>4
  <2>4. n # 2
    <3> SUFFICES ASSUME n = 2 PROVE FALSE
      OBVIOUS
    <3>1. k = 1
      BY <1>10, <2>1
    <3>2. t.replied[t.flyingids[2]] # NoPacket
      BY <1>2 DEF Returns
    <3> QED BY <1>16, <1>17, <3>1, <3>2
  <2> QED BY <1>10, <2>1, <2>3, <2>4
<1>19. /\ Len(h'.flyingids) = Len(t.flyingids) - n
       /\ \A i \in 1 .. n : h'.replied[t.flyingids[i]] = NoPacket
       /\ \A id \in UInt16 : h'.replied[id] \in {t.replied[id], NoPacket}
  BY <1>0, <1>2, <1>8, <1>12, <1>14, ReturnreplyLists
<1>20. Len(h'.flyingids) = k
  BY <1>15, <1>17, <1>18, <1>19
<1>21. \A id \in UInt16 : h'.replied[id] = NoPacket
  BY <1>16, <1>17, <1>18, <1>19
<1>22. Len(returned') = r + 1
  <2> DEFINE hb == Handback(t, n)
  <2>1. hb \in Seq(Packets) /\ Len(hb) = 1
    <3>1. t.replied[t.flyingids[1]] \in Packets
      BY <1>4, <1>16, <1>17
    <3>2. hb = [i \in 1 .. 1 |-> t.replied[t.flyingids[i]]]
      BY <1>18 DEF Handback
    <3>3. \A i \in 1 .. 1 : t.replied[t.flyingids[i]] \in Packets
      BY <3>1
    <3> HIDE DEF hb
    <3> QED BY <3>2, <3>3
  <2> HIDE DEF hb
  <2>2. Len(returned \o hb) = Len(returned) + Len(hb)
    <3>1. returned \in Seq(Packets) /\ hb \in Seq(Packets)
      BY <1>0, <2>1
    <3> QED BY <3>1, Joined
  <2>3. returned' = returned \o hb
    BY <1>2 DEF hb
  <2> QED BY <2>1, <2>2, <2>3
<1>23. \A id \in UInt16 : h'.flying[id] # NoPacket => h'.flying[id] <= r + 1 + k
  <2> SUFFICES ASSUME NEW id \in UInt16, h'.flying[id] # NoPacket
               PROVE  h'.flying[id] <= r + 1 + k
    OBVIOUS
  <2>1. \/ h'.flying[id] = h.flying[id]
        \/ k = 1 /\ h'.flying[id] = r + 2
    BY <1>5, <1>10, <1>12, <1>13, <1>15
  <2>2. h.flying[id] # NoPacket => h.flying[id] <= r + 1
    BY <1>0 DEF Slot
  <2>3. h.flying[id] \in Nat
    <3>1. h.flying[id] \in Packets \cup {NoPacket}
      BY <1>0, Fields
    <3> QED BY <3>1, Constants DEF Packets, NoPacket
  <2>4. r \in Nat
    BY <1>0
  <2> QED BY <1>15, <2>1, <2>2, <2>3, <2>4
<1>24. ~h'.panicked /\ h'.handlinglost = h.handlinglost /\ h'.inflight = k /\ k \in {0, 1}
  BY <1>0, <1>5, <1>7, <1>10, <1>12, <1>13, <1>15
<1>25. k = 0 => h'.timedout = Stop(h.timedout) /\ Len(out) = 0
  BY <1>7, <1>10, <1>12, <1>13
<1>26. k = 1 => /\ h'.flying[Id(r + 2)] # NoPacket /\ h'.timeoutid = Id(r + 2)
                /\ h'.timedout = NewTicker("on") /\ ~h.handlinglost
                /\ Len(out) = 1 /\ out[1].ptype = control
                /\ out[1].id = Id(r + 2)
  BY <1>7, <1>10, <1>12, <1>13, <1>15
<1> QED BY <1>3, <1>8, <1>20, <1>21, <1>22, <1>23, <1>24, <1>25, <1>26, Zenon DEF r, s, k, out, id1

\* The reply that is under way is to the packet that is out.
LEMMA HeadReply ==
  ASSUME TypeOK, OneOut, replies # <<>>, Head(replies).id # 0
  PROVE  /\ Head(replies).id = Id(Len(returned) + 1) /\ ControlUnder
         /\ h.inflight = 1 /\ ~h.timedout.tick /\ \A g \in Handlers : Rewritten(lost[g])
         /\ Len(replies) = 1 /\ Len(Tail(replies)) = 0
         /\ Len(requests) = 0 /\ Len(responses) = 0 /\ Len(statuses) = 0
         /\ answered = Len(accepted)
<1>1. /\ Len(requests) \in Nat /\ Len(responses) \in Nat /\ replies \in Seq(Response)
      /\ Len(statuses) \in Nat /\ Len(accepted) \in Nat /\ answered \in 0 .. Len(accepted)
  BY Types
<1>2. /\ Head(replies) = replies[1] /\ 1 \in 1 .. Len(replies)
      /\ Len(replies) \in Nat /\ Len(replies) > 0 /\ Len(Tail(replies)) = Len(replies) - 1
  BY <1>1, TailElems
<1>3. ControlUnder
  BY <1>2 DEF ControlUnder
<1>4. Head(replies).id = Id(Len(returned) + 1)
  BY <1>2 DEF OneOut, Contents, About1
<1>5. h.inflight = 1 /\ ~h.timedout.tick /\ \A g \in Handlers : Rewritten(lost[g])
  BY <1>3 DEF OneOut, Alone
<1>6. Under <= 1
  BY DEF OneOut, Alone
<1> DEFINE a == Len(requests)
           b == Len(responses)
           c == Len(replies)
           d == Len(statuses)
           e == Len(accepted) - answered
<1>7. a + b + c + d + e <= 1
  BY <1>6 DEF Under
<1>8. a \in Nat /\ b \in Nat /\ c \in Nat /\ d \in Nat /\ e \in Nat /\ c > 0
  BY <1>1, <1>2
<1> HIDE DEF a, b, c, d, e
<1>9. a = 0 /\ b = 0 /\ c = 1 /\ d = 0 /\ e = 0
  BY <1>7, <1>8
<1> QED BY <1>1, <1>2, <1>3, <1>4, <1>5, <1>9 DEF a, b, c, d, e

\* A reply comes back, and the next packet may be sent.
LEMMA ReplyOne ==
  ASSUME Regime, StopAndWait, TypeOK, TypeOK', Live, OneOut, RunReply
  PROVE  OneOut'
<1> DEFINE r   == Len(returned)
           s   == land(h, Head(replies).id)
           n   == Burst(s)
           out == Outgoing(s)
<1>0. Timer /\ Handling /\ \A g \in Handlers : Work(lost[g])
  BY DEF OneOut
<1>1. /\ replies # <<>> /\ Head(replies).id # 0 /\ replies' = Tail(replies) /\ watched' = Current
      /\ UNCHANGED <<statuses, config, lost, responses, accepted, answered>>
  BY DEF RunReply, devVars
<1>2. /\ Head(replies).id = Id(r + 1)
      /\ h.inflight = 1 /\ ~h.timedout.tick /\ \A g \in Handlers : Rewritten(lost[g])
      /\ Len(Tail(replies)) = 0
      /\ Len(requests) = 0 /\ Len(responses) = 0 /\ Len(statuses) = 0
      /\ answered = Len(accepted)
  BY <1>1, HeadReply
<1>3. /\ Len(returned') = r + 1 /\ requests' = requests \o out /\ s \in HWRecord
      /\ n \in {0, 1} /\ h'.inflight = n /\ Len(h'.flyingids) = n
      /\ \A id \in UInt16 : h'.replied[id] = NoPacket
      /\ \A id \in UInt16 : h'.flying[id] # NoPacket => h'.flying[id] <= r + 1 + n
      /\ ~h'.panicked /\ h'.handlinglost = h.handlinglost
      /\ n = 0 => h'.timedout = Stop(h.timedout) /\ Len(out) = 0
      /\ n = 1 => /\ h'.flying[Id(r + 2)] # NoPacket /\ h'.timeoutid = Id(r + 2)
                  /\ h'.timedout = NewTicker("on") /\ ~h.handlinglost
                  /\ Len(out) = 1 /\ out[1].ptype = control
                  /\ out[1].id = Id(r + 2)
  BY <1>2, ReplyLands, Zenon
<1>4. /\ r \in Nat /\ requests \in Seq(Request) /\ out \in Seq(Request) /\ Len(accepted) \in Nat
      /\ h.timedout \in Ticker
  BY <1>3, Types, Fields, OutgoingType
<1> HIDE DEF s, n, out
<1>5. /\ Len(requests') = Len(out)
      /\ \A k \in 1 .. Len(requests') : \/ \E j \in 1 .. Len(requests) : requests'[k] = requests[j]
                                       \/ \E j \in 1 .. Len(out) : requests'[k] = out[j]
  <2>1. /\ Len(requests \o out) = Len(requests) + Len(out)
        /\ \A k \in 1 .. Len(requests \o out) :
             \/ \E j \in 1 .. Len(requests) : (requests \o out)[k] = requests[j]
             \/ \E j \in 1 .. Len(out) : (requests \o out)[k] = out[j]
    BY <1>4, Joined, ConcatElems
  <2>2. Len(out) \in Nat
    BY <1>4
  <2> QED BY <1>2, <1>3, <2>1, <2>2
<1>6. \A k \in 1 .. Len(requests') : requests'[k].ptype = control /\ requests'[k].id = Id(r + 2)
  <2>1. \A j \in 1 .. Len(out) : out[j].ptype = control /\ out[j].id = Id(r + 2)
    BY <1>3
  <2> QED BY <1>2, <1>5, <2>1
<1>7. /\ Len(responses') = 0 /\ Len(replies') = 0 /\ Len(statuses') = 0
      /\ answered' = Len(accepted') /\ Len(requests') = n
  <2>1. Len(replies') = 0
    BY <1>1, <1>2
  <2>2. Len(responses') = 0 /\ Len(statuses') = 0 /\ answered' = Len(accepted')
    BY <1>1, <1>2
  <2>3. Len(out) = n
    BY <1>3
  <2> QED BY <1>5, <2>1, <2>2, <2>3, Zenon
<1>8. Under' = n
  <2>1. Len(accepted') - answered' = 0
    BY <1>1, <1>4, <1>7
  <2> QED BY <1>3, <1>7, <2>1 DEF Under
<1>9. ~StatusUnder' /\ (ControlUnder' => n = 1)
  <2>1. ~StatusUnder'
    BY <1>6, <1>7 DEF StatusUnder, control, status
  <2>2. ControlUnder' => n # 0
    BY <1>7 DEF ControlUnder
  <2> QED BY <1>3, <2>1, <2>2
<1>10. Len(returned') + 1 = r + 2 /\ r + 1 + n = Len(returned') + n
  BY <1>3, <1>4
<1>11. Contents(Len(returned) + 1)'
  BY <1>6, <1>7, <1>10 DEF Contents, About1
<1>12. Slot(h', Len(returned'))
  BY <1>3, <1>10 DEF Slot
<1>13. /\ n = 0 => h'.timedout.run = "off" /\ ~h'.timedout.tick
       /\ n = 1 => h'.timedout.run = "on" /\ ~h'.timedout.tick
  BY <1>2, <1>3, <1>4 DEF Stop, NewTicker, Ticker
<1>14. ~h'.timedout.tick
  BY <1>3, <1>13
<1>15. Timer'
  BY <1>1, <1>3, <1>13, <1>14 DEF Timer
<1>16. \A g \in Handlers : Rewritten(lost'[g])
  BY <1>1, <1>2
<1>17. Alone'
  <2>1. config' # "request"
    <3>1. h.configured
      <4>1. handed > 0
        <5> DEFINE f == Len(h.flyingids)
        <5>1. r + f \in 0 .. handed
          BY ReturnedFew
        <5>2. f = 1
          BY <1>2 DEF OneOut, Slot
        <5>3. handed \in 0 .. NPackets
          BY Types
        <5> HIDE DEF f, r
        <5> QED BY <1>4, <5>1, <5>2, <5>3, Constants
      <4> QED BY <4>1, Types DEF Live, Configured
    <3> QED BY <1>1, <3>1 DEF Live, Configured
  <2>2. Under' <= 1
    BY <1>3, <1>8
  <2> QED BY <1>3, <1>9, <1>14, <1>16, <2>1, <2>2 DEF Alone
<1>18. Handling'
  BY <1>0, <1>1, <1>3 DEF Handling
<1>19. ASSUME NEW g \in Handlers PROVE Work(lost[g])'
  <2>1. CASE n = 0
    <3>1. /\ h'.timedout.run = "off" /\ lost'[g] = lost[g]
          /\ Len(returned') + h'.inflight = r + h.inflight
          /\ Len(returned') + h'.inflight + 1 = r + h.inflight + 1
      BY <1>1, <1>2, <1>3, <1>4, <1>13, <2>1
    <3>2. Rewritten(lost'[g]) /\ lost'[g].pc # "sent" /\ lost'[g].pc # "await"
      BY <1>16 DEF Rewritten
    <3>3. Work(lost[g])
      BY <1>0
    <3> QED BY <3>1, <3>2, <3>3 DEF Work
  <2>2. CASE n = 1
    <3>1. lost[g].pc \in {"idle", "stop", "request"}
      BY <1>0, <1>3, <2>2 DEF Handling
    <3>2. lost'[g].pc = "idle"
      BY <1>1, <1>2, <3>1 DEF Rewritten
    <3> QED BY <1>16, <3>2 DEF Work
  <2> QED BY <1>3, <2>1, <2>2
<1> QED BY <1>3, <1>11, <1>12, <1>15, <1>17, <1>18, <1>19 DEF OneOut

-----------------------------------------------------------------------------
(* The other steps.                                                        *)

\* A packet that is out has been handed over, so the device is configured.
LEMMA OutConfigured ==
  ASSUME TypeOK, Live, OneOut, h.inflight = 1
  PROVE  config = "done" /\ handed > 0
<1> DEFINE r == Len(returned)
           f == Len(h.flyingids)
<1>1. r + f \in 0 .. handed
  BY ReturnedFew
<1>2. f = 1
  BY DEF OneOut, Slot
<1>3. handed \in 0 .. NPackets /\ r \in Nat
  BY Types
<1> HIDE DEF f, r
<1>4. handed > 0
  BY <1>1, <1>2, <1>3, Constants
<1>5. h.configured
  BY <1>3, <1>4, Constants DEF Live, Configured
<1> QED BY <1>4, <1>5 DEF Live, Configured

\* The only request under way has just been written.
LEMMA RequestOut ==
  ASSUME TypeOK, Contents(Len(returned) + 1), Under = 0, NEW q \in Request,
         requests' = Append(requests, q),
         q.ptype # status => q.id = Id(Len(returned) + 1),
         UNCHANGED <<responses, replies, statuses, accepted, answered, returned>>
  PROVE  /\ Under' = 1 /\ Contents(Len(returned) + 1)'
         /\ StatusUnder' => q.ptype = status
         /\ ControlUnder' => q.ptype # status
<1>1. /\ Len(requests) = 0 /\ Len(responses) = 0 /\ Len(replies) = 0
      /\ Len(statuses) = 0 /\ answered = Len(accepted)
  BY UnderType DEF Counted
<1>2. Len(accepted) \in Nat /\ requests \in Seq(Request)
  BY Types
<1>3. Len(requests') = 1 /\ \A k \in 1 .. Len(requests') : requests'[k] = q
  BY <1>1, <1>2, AppendElems
<1>4. Under' = 1
  <2>1. Len(accepted) - answered = 0
    BY <1>1, <1>2
  <2> QED BY <1>1, <1>3, <2>1 DEF Under
<1>5. (StatusUnder' => q.ptype = status) /\ (ControlUnder' => q.ptype # status)
  BY <1>1, <1>2, <1>3 DEF StatusUnder, ControlUnder
<1>6. Contents(Len(returned) + 1)'
  BY <1>1, <1>2, <1>3 DEF Contents
<1> QED BY <1>4, <1>5, <1>6

\* The status under way has been taken by whoever waits for it.
LEMMA StatusTaken ==
  ASSUME TypeOK, OneOut, statuses # <<>>, statuses' = Tail(statuses),
         UNCHANGED <<requests, responses, replies, accepted, answered, returned>>
  PROVE  /\ Under = 1 /\ Under' = 0 /\ ~ControlUnder' /\ ~StatusUnder'
         /\ Contents(Len(returned) + 1)'
         /\ Head(statuses).received \subseteq Head(statuses).sent
         /\ ~h.timedout.tick
<1>1. /\ Len(requests) \in Nat /\ Len(responses) \in Nat /\ Len(replies) \in Nat
      /\ statuses \in Seq(targetstatus) /\ Len(accepted) \in Nat
      /\ answered \in 0 .. Len(accepted)
  BY Types
<1>2. /\ Head(statuses) = statuses[1] /\ 1 \in 1 .. Len(statuses)
      /\ Len(statuses) \in Nat /\ Len(statuses) > 0 /\ Len(Tail(statuses)) = Len(statuses) - 1
  BY <1>1, TailElems
<1>3. Head(statuses).received \subseteq Head(statuses).sent
  BY <1>2 DEF OneOut, Contents
<1>4. Under <= 1
  BY DEF OneOut, Alone
<1> DEFINE a == Len(requests)
           b == Len(responses)
           c == Len(replies)
           d == Len(statuses)
           e == Len(accepted) - answered
<1>5. a + b + c + d + e <= 1 /\ Under = a + b + c + d + e
  BY <1>4 DEF Under
<1>6. a \in Nat /\ b \in Nat /\ c \in Nat /\ d \in Nat /\ e \in Nat /\ d > 0
  BY <1>1, <1>2
<1> HIDE DEF a, b, c, d, e
<1>7. a = 0 /\ b = 0 /\ c = 0 /\ d = 1 /\ e = 0 /\ Under = 1
  BY <1>5, <1>6
<1>8. /\ Len(requests') = 0 /\ Len(responses') = 0 /\ Len(replies') = 0
      /\ Len(statuses') = 0 /\ Len(accepted') - answered' = 0
  BY <1>2, <1>7 DEF a, b, c, d, e
<1>9. Under' = 0
  BY <1>8 DEF Under
<1>10. Len(accepted') = answered'
  BY <1>1, <1>8
<1>11. ~ControlUnder' /\ ~StatusUnder'
  BY <1>1, <1>8, <1>10 DEF ControlUnder, StatusUnder
<1>12. Contents(Len(returned) + 1)'
  BY <1>1, <1>8, <1>10 DEF Contents, About1
<1>13. ~h.timedout.tick
  BY <1>7 DEF OneOut, Timer
<1> QED BY <1>3, <1>7, <1>9, <1>11, <1>12, <1>13

\* The goroutine g that handles a loss is the only one.
LEMMA OnlyOne ==
  ASSUME TypeOK, OneOut, NEW g \in Handlers, lost[g].pc # "idle"
  PROVE  /\ \A k \in Handlers : k # g => lost[k].pc = "idle"
         /\ ~h.timedout.tick
         /\ h.handlinglost <=> lost[g].pc \notin {"idle", "stop", "request"}
<1>1. \A k \in Handlers : k # g => lost[k].pc = "idle"
  BY DEF OneOut, Handling
<1>2. h.handlinglost <=> lost[g].pc \notin {"idle", "stop", "request"}
  BY <1>1 DEF OneOut, Handling
<1> QED BY <1>1, <1>2 DEF OneOut, Timer

\* It moves on.
LEMMA HandlerMoves ==
  ASSUME NEW g \in Handlers, \A k \in Handlers : k # g => lost'[k].pc = "idle",
         h'.handlinglost <=> lost'[g].pc \notin {"idle", "stop", "request"},
         Work(lost[g])'
  PROVE  /\ Handling' /\ \A k \in Handlers : Work(lost[k])'
         /\ Rewritten(lost[g])' => \A k \in Handlers : Rewritten(lost[k])'
<1>1. Handling'
  BY DEF Handling
<1>2. ASSUME NEW k \in Handlers, k # g PROVE Work(lost[k])' /\ Rewritten(lost[k])'
  BY <1>2 DEF Work, Rewritten
<1> QED BY <1>1, <1>2

\* The goroutine g moves on, and only it.
LEMMA PcSet ==
  ASSUME TypeOK, NEW g \in Handlers, NEW c, lost' = [lost EXCEPT ![g].pc = c]
  PROVE  /\ lost'[g].pc = c
         /\ lost'[g].resentpack = lost[g].resentpack /\ lost'[g].id = lost[g].id
         /\ \A k \in Handlers : k # g => lost'[k] = lost[k]
<1>1. lost \in [Handlers -> LostRecord]
  BY DEF TypeOK, HWTypeOK, LostRecord
<1> DEFINE v == [lost[g] EXCEPT !.pc = c]
<1>2. lost'[g] = v /\ \A k \in Handlers : k # g => lost'[k] = lost[k]
  BY <1>1
<1>3. v.pc = c /\ v.resentpack = lost[g].resentpack /\ v.id = lost[g].id
  BY <1>1 DEF LostRecord
<1> HIDE DEF v
<1> QED BY <1>2, <1>3

\* The goroutine g gets new local variables.
LEMMA LostSet ==
  ASSUME TypeOK, NEW g \in Handlers, NEW v, lost' = [lost EXCEPT ![g] = v]
  PROVE  lost'[g] = v /\ \A k \in Handlers : k # g => lost'[k] = lost[k]
<1>1. DOMAIN lost = Handlers
  BY DEF TypeOK, HWTypeOK
<1> QED BY <1>1

\* ConfigDevice asks for the status, and takes it.
LEMMA ConfigOne ==
  ASSUME Regime, TypeOK, TypeOK', Live, OneOut, ConfigRequest \/ ConfigStatus
  PROVE  OneOut'
<1> HIDE DEF Under, ControlUnder, StatusUnder
<1>0. /\ ~h.panicked /\ Alone /\ Timer /\ Handling /\ \A g \in Handlers : Work(lost[g])
      /\ Contents(Len(returned) + 1) /\ Slot(h, Len(returned))
  BY DEF OneOut
<1>1. CASE ConfigRequest
  <2>1. /\ config = "request" /\ config' = "await"
        /\ requests' = Append(requests, newStatusPacket)
        /\ UNCHANGED <<h, watched, replies, statuses, lost, returned>>
        /\ UNCHANGED <<responses, accepted, answered>>
    BY <1>1 DEF ConfigRequest, devVars
  <2>2. h.inflight = 0
    <3>1. h.inflight # 1
      BY <2>1, OutConfigured
    <3> QED BY <1>0, <3>1 DEF Slot
  <2>3. Under = 0
    BY <1>0, <2>1 DEF Alone
  <2>4. newStatusPacket \in Request /\ newStatusPacket.ptype = status
    BY Constants DEF newStatusPacket, Request
  <2>5. /\ Under' = 1 /\ Contents(Len(returned) + 1)' /\ ~ControlUnder'
    BY <1>0, <2>1, <2>3, <2>4, RequestOut
  <2>6. Alone'
    BY <2>1, <2>5 DEF Alone
  <2>7. Timer'
    BY <1>0, <2>1, <2>2 DEF Timer
  <2>8. Handling' /\ Slot(h, Len(returned))' /\ ~h'.panicked
    BY <1>0, <2>1 DEF Handling, Slot
  <2>9. ASSUME NEW g \in Handlers PROVE Work(lost[g])'
    BY <1>0, <2>1, <2>2 DEF Work, Rewritten
  <2> QED BY <2>5, <2>6, <2>7, <2>8, <2>9 DEF OneOut
<1>2. CASE ConfigStatus
  <2>1. /\ statuses # <<>> /\ statuses' = Tail(statuses) /\ config' = "done"
        /\ h' = [h EXCEPT !.nextID = Head(statuses).nextid, !.configured = TRUE]
        /\ UNCHANGED <<watched, replies, lost, returned>>
        /\ UNCHANGED <<requests, responses, accepted, answered>>
    BY <1>2 DEF ConfigStatus, wireVars, devVars
  <2>2. /\ Under = 1 /\ Under' = 0 /\ ~ControlUnder' /\ ~StatusUnder'
        /\ Contents(Len(returned) + 1)' /\ ~h.timedout.tick
    BY <2>1, StatusTaken
  <2>3. /\ h'.timedout = h.timedout /\ h'.inflight = h.inflight /\ h'.panicked = h.panicked
        /\ h'.flying = h.flying /\ h'.flyingids = h.flyingids /\ h'.replied = h.replied
        /\ h'.timeoutid = h.timeoutid /\ h'.handlinglost = h.handlinglost
    <3>1. h \in HWRecord
      BY Types
    <3> QED BY <2>1, <3>1 DEF HWRecord
  <2>4. Alone'
    BY <2>1, <2>2 DEF Alone
  <2>5. Timer'
    BY <1>0, <2>1, <2>2, <2>3 DEF Timer
  <2>6. Handling' /\ ~h'.panicked
    BY <1>0, <2>1, <2>3 DEF Handling
  <2>7. Slot(h, Len(returned))'
    BY <1>0, <2>1, <2>3 DEF Slot
  <2>8. ASSUME NEW g \in Handlers PROVE Work(lost[g])'
    BY <1>0, <2>1, <2>2, <2>3 DEF Work, Rewritten
  <2> QED BY <2>2, <2>4, <2>5, <2>6, <2>7, <2>8 DEF OneOut
<1> QED BY <1>1, <1>2

\* The timeout strikes when nothing can happen any more.
LEMMA TickOne ==
  ASSUME StopAndWait, TypeOK, TypeOK', OneOut, Tick
  PROVE  OneOut'
<1> HIDE DEF Under, ControlUnder, StatusUnder
<1>0. /\ ~h.panicked /\ Alone /\ Timer /\ Handling /\ \A g \in Handlers : Work(lost[g])
      /\ Contents(Len(returned) + 1) /\ Slot(h, Len(returned))
  BY DEF OneOut
<1>1. /\ UNCHANGED <<requests, responses, replies, statuses, accepted, answered>>
      /\ UNCHANGED <<watched, config, lost, returned>>
  BY DEF Tick, Ticks, wireVars, devVars
<1>2. h.timedout.run = "on" /\ Quiet
  <2>1. ~(early < MaxEarly)
    <3>1. early \in 0 .. MaxEarly
      BY DEF TypeOK
    <3> QED BY <3>1 DEF StopAndWait
  <2>2. h.timedout.run # "due"
    BY <1>0 DEF Timer
  <2> QED BY <2>1, <2>2 DEF Tick, Ticks
<1>3. Under = 0
  <2>1. Len(<<>>) = 0
    OBVIOUS
  <2>2. /\ requests = <<>> /\ responses = <<>> /\ replies = <<>> /\ statuses = <<>>
        /\ answered = Len(accepted)
    BY <1>2 DEF Quiet
  <2>3. /\ Len(requests) = 0 /\ Len(responses) = 0 /\ Len(replies) = 0 /\ Len(statuses) = 0
    BY <2>1, <2>2, Zenon
  <2> QED BY <2>2, <2>3, UnderType DEF Counted
<1>4. \A g \in Handlers : lost[g].pc = "idle"
  <2>1. \A g \in Handlers : lost[g].pc \in {"idle", "await"}
    BY <1>2 DEF Quiet
  <2> QED BY <1>0, <1>2, <2>1 DEF Work
<1>5. Under' = Under /\ (ControlUnder' <=> ControlUnder) /\ (StatusUnder' <=> StatusUnder)
  BY <1>1 DEF Under, ControlUnder, StatusUnder
<1>6. ~ControlUnder /\ ~StatusUnder
  BY <1>3, UnderType DEF Counted
<1>7. /\ h'.timedout.run = "on" /\ h'.timedout.tick /\ h'.inflight = h.inflight
      /\ h'.panicked = h.panicked /\ h'.flying = h.flying /\ h'.flyingids = h.flyingids
      /\ h'.replied = h.replied /\ h'.timeoutid = h.timeoutid
      /\ h'.handlinglost = h.handlinglost
  <2> DEFINE tk == [h.timedout EXCEPT !.tick = TRUE]
  <2>1. h \in HWRecord /\ h.timedout \in Ticker
    BY Types, Fields
  <2>2. tk.run = "on" /\ tk.tick = TRUE
    BY <1>2, <2>1 DEF Ticker
  <2>3. PICK ag \in Aged(h.timedout, {h.timeoutid}) :
          h' = [h EXCEPT !.timedout = tk, !.aged = ag]
    BY DEF Tick
  <2> HIDE DEF tk
  <2>4. h'.timedout = tk
    BY <2>1, <2>3 DEF HWRecord
  <2>5. /\ h'.inflight = h.inflight
        /\ h'.panicked = h.panicked /\ h'.flying = h.flying /\ h'.flyingids = h.flyingids
        /\ h'.replied = h.replied /\ h'.timeoutid = h.timeoutid
        /\ h'.handlinglost = h.handlinglost
    BY <2>1, <2>3 DEF HWRecord
  <2> QED BY <2>2, <2>4, <2>5
<1>8. Alone'
  BY <1>3, <1>5, <1>6 DEF Alone
<1>9. Timer'
  BY <1>0, <1>1, <1>2, <1>3, <1>4, <1>5, <1>7 DEF Timer
<1>10. Handling' /\ ~h'.panicked
  BY <1>0, <1>1, <1>7 DEF Handling
<1>11. Slot(h, Len(returned))'
  BY <1>0, <1>1, <1>7 DEF Slot
<1>12. Contents(Len(returned) + 1)'
  BY <1>0, <1>1 DEF Contents
<1>13. ASSUME NEW g \in Handlers PROVE Work(lost[g])'
  BY <1>1, <1>4 DEF Work, Rewritten
<1> QED BY <1>8, <1>9, <1>10, <1>11, <1>12, <1>13 DEF OneOut

\* What the network, stale tickers and Run cannot do.
LEMMA NeverHappens ==
  ASSUME StopAndWait, TypeOK, OneOut
  PROVE  ~DuplicateRequest /\ ~DuplicateResponse /\ ~TickWatched /\ ~RunUnmatched
<1>1. ~DuplicateRequest /\ ~DuplicateResponse
  <2>1. dups \in 0 .. MaxDup
    BY DEF TypeOK
  <2>2. ~(dups < MaxDup)
    BY <2>1 DEF StopAndWait
  <2> QED BY <2>2 DEF DuplicateRequest, DuplicateResponse
<1>2. ~TickWatched
  <2>1. watched.run \in {"off", "current"}
    BY DEF OneOut, Timer, Current
  <2> QED BY <2>1 DEF TickWatched, Ticks
<1>3. ASSUME RunUnmatched PROVE FALSE
  <2>1. replies # <<>> /\ Head(replies).id # 0 /\ h.flying[Head(replies).id] = NoPacket
    BY <1>3 DEF RunUnmatched
  <2>2. Head(replies).id = Id(Len(returned) + 1) /\ h.inflight = 1
    BY <2>1, HeadReply
  <2>3. h.flying[Id(Len(returned) + 1)] # NoPacket
    BY <2>2 DEF OneOut, Slot
  <2> QED BY <2>1, <2>2, <2>3
<1> QED BY <1>1, <1>2, <1>3

\* A step of nobody, of a user, or of the report ticker.
LEMMA Unmoved ==
  ASSUME TypeOK, TypeOK', OneOut, watched' \in {watched, Current},
         UNCHANGED <<requests, responses, replies, statuses, accepted, answered,
                     h, config, lost, returned>>
  PROVE  OneOut'
<1>1. /\ Under' = Under /\ (ControlUnder' <=> ControlUnder) /\ (StatusUnder' <=> StatusUnder)
  BY DEF Under, ControlUnder, StatusUnder
<1>2. Contents(Len(returned) + 1)'
  BY DEF OneOut, Contents
<1>3. Under' <= Under
  BY <1>1, UnderType DEF Counted
<1> QED BY <1>1, <1>2, <1>3, Moves

\* Run starts handlelost when a packet is out and nothing is under way.
LEMMA TimeoutOne ==
  ASSUME TypeOK, TypeOK', OneOut, NEW g \in Handlers, RunTimeout(g)
  PROVE  OneOut'
<1> HIDE DEF Under, ControlUnder, StatusUnder
<1>0. /\ ~h.panicked /\ Alone /\ Timer /\ Handling /\ \A k \in Handlers : Work(lost[k])
      /\ Contents(Len(returned) + 1) /\ Slot(h, Len(returned))
  BY DEF OneOut
<1>1. /\ UNCHANGED <<requests, responses, replies, statuses, accepted, answered>>
      /\ UNCHANGED <<config, returned>> /\ watched' = Current
      /\ lost' = [lost EXCEPT ![g].pc = "stop"] /\ Watching.tick
  BY DEF RunTimeout, wireVars, devVars
<1>2. watched = Current /\ h.timedout.tick
  BY <1>0, <1>1 DEF Watching, Timer
<1>3. h.inflight = 1 /\ Under = 0 /\ \A k \in Handlers : lost[k].pc = "idle"
  BY <1>0, <1>2 DEF Timer
<1>4. /\ h'.timedout.run = h.timedout.run /\ ~h'.timedout.tick
      /\ h'.inflight = h.inflight
      /\ h'.panicked = h.panicked /\ h'.flying = h.flying /\ h'.flyingids = h.flyingids
      /\ h'.replied = h.replied /\ h'.timeoutid = h.timeoutid
      /\ h'.handlinglost = h.handlinglost
  <2> DEFINE tk == [h.timedout EXCEPT !.tick = FALSE]
  <2>1. h \in HWRecord /\ h.timedout \in Ticker
    BY Types, Fields
  <2>2. tk.run = h.timedout.run /\ tk.tick = FALSE
    BY <2>1 DEF Ticker
  <2>3. h' = [h EXCEPT !.timedout = tk]
    BY <1>2 DEF RunTimeout
  <2> HIDE DEF tk
  <2>4. h'.timedout = tk
    BY <2>1, <2>3 DEF HWRecord
  <2>5. /\ h'.inflight = h.inflight
        /\ h'.panicked = h.panicked /\ h'.flying = h.flying /\ h'.flyingids = h.flyingids
        /\ h'.replied = h.replied /\ h'.timeoutid = h.timeoutid
        /\ h'.handlinglost = h.handlinglost
    BY <2>1, <2>3 DEF HWRecord
  <2> QED BY <2>2, <2>4, <2>5
<1>5. Under' = Under /\ (ControlUnder' <=> ControlUnder) /\ (StatusUnder' <=> StatusUnder)
  BY <1>1 DEF Under, ControlUnder, StatusUnder
<1>6. ~ControlUnder /\ ~StatusUnder
  BY <1>3, UnderType DEF Counted
<1>7. lost'[g].pc = "stop" /\ \A k \in Handlers : k # g => lost'[k].pc = "idle"
  <2>1. lost' = [lost EXCEPT ![g].pc = "stop"]
    BY <1>1
  <2>2. lost'[g].pc = "stop" /\ \A k \in Handlers : k # g => lost'[k] = lost[k]
    BY <2>1, PcSet
  <2> QED BY <1>3, <2>2
<1>8. ~h'.handlinglost
  BY <1>0, <1>3, <1>4 DEF Handling
<1>9. Work(lost[g])'
  BY <1>3, <1>4, <1>5, <1>7 DEF Work
<1>10. Handling' /\ \A k \in Handlers : Work(lost[k])'
  BY <1>7, <1>8, <1>9, HandlerMoves
<1>11. Alone'
  BY <1>3, <1>5, <1>6 DEF Alone
<1>12. Timer'
  BY <1>0, <1>1, <1>3, <1>4 DEF Timer
<1>13. Slot(h, Len(returned))' /\ ~h'.panicked
  BY <1>0, <1>1, <1>4 DEF Slot
<1>14. Contents(Len(returned) + 1)'
  BY <1>0, <1>1 DEF Contents
<1> QED BY <1>10, <1>11, <1>12, <1>13, <1>14 DEF OneOut

\* handlelost stops the ticker.
LEMMA StopOne ==
  ASSUME TypeOK, TypeOK', OneOut, NEW g \in Handlers, LostStop(g)
  PROVE  OneOut'
<1> HIDE DEF Under, ControlUnder, StatusUnder
<1>0. /\ ~h.panicked /\ Alone /\ Timer /\ Handling /\ \A k \in Handlers : Work(lost[k])
      /\ Contents(Len(returned) + 1) /\ Slot(h, Len(returned))
  BY DEF OneOut
<1>1. /\ UNCHANGED <<requests, responses, replies, statuses, accepted, answered>>
      /\ UNCHANGED <<watched, config, returned>>
      /\ lost' = [lost EXCEPT ![g].pc = "request"]
      /\ h' = [h EXCEPT !.timedout = Stop(@)] /\ lost[g].pc = "stop"
  BY DEF LostStop, wireVars, devVars
<1>2. /\ \A k \in Handlers : k # g => lost[k].pc = "idle"
      /\ ~h.timedout.tick /\ ~h.handlinglost
  BY <1>1, OnlyOne
<1>3. h.inflight = 1 /\ Under = 0
  BY <1>0, <1>1 DEF Work, Rewritten
<1>4. /\ h'.timedout.run = "off" /\ ~h'.timedout.tick
      /\ h'.inflight = h.inflight
      /\ h'.panicked = h.panicked /\ h'.flying = h.flying /\ h'.flyingids = h.flyingids
      /\ h'.replied = h.replied /\ h'.timeoutid = h.timeoutid
      /\ h'.handlinglost = h.handlinglost
  <2> DEFINE tk == Stop(h.timedout)
  <2>1. h \in HWRecord /\ h.timedout \in Ticker
    BY Types, Fields
  <2>2. tk.run = "off" /\ ~tk.tick
    BY <1>2, <2>1 DEF Ticker, Stop
  <2>3. h' = [h EXCEPT !.timedout = tk]
    BY <1>1
  <2> HIDE DEF tk
  <2>4. h'.timedout = tk
    BY <2>1, <2>3 DEF HWRecord
  <2>5. /\ h'.inflight = h.inflight
        /\ h'.panicked = h.panicked /\ h'.flying = h.flying /\ h'.flyingids = h.flyingids
        /\ h'.replied = h.replied /\ h'.timeoutid = h.timeoutid
        /\ h'.handlinglost = h.handlinglost
    BY <2>1, <2>3 DEF HWRecord
  <2> QED BY <2>2, <2>4, <2>5
<1>5. Under' = Under /\ (ControlUnder' <=> ControlUnder) /\ (StatusUnder' <=> StatusUnder)
  BY <1>1 DEF Under, ControlUnder, StatusUnder
<1>6. ~ControlUnder /\ ~StatusUnder
  BY <1>3, UnderType DEF Counted
<1>7. lost'[g].pc = "request" /\ \A k \in Handlers : k # g => lost'[k].pc = "idle"
  <2>1. lost' = [lost EXCEPT ![g].pc = "request"]
    BY <1>1
  <2>2. lost'[g].pc = "request" /\ \A k \in Handlers : k # g => lost'[k] = lost[k]
    BY <2>1, PcSet
  <2> QED BY <1>2, <2>2
<1>8. ~h'.handlinglost
  BY <1>2, <1>4
<1>9. Work(lost[g])'
  BY <1>3, <1>4, <1>5, <1>7 DEF Work
<1>10. Handling' /\ \A k \in Handlers : Work(lost[k])'
  BY <1>7, <1>8, <1>9, HandlerMoves
<1>11. Alone'
  BY <1>3, <1>5, <1>6 DEF Alone
<1>12. Timer'
  BY <1>0, <1>1, <1>3, <1>4 DEF Timer
<1>13. Slot(h, Len(returned))' /\ ~h'.panicked
  BY <1>0, <1>1, <1>4 DEF Slot
<1>14. Contents(Len(returned) + 1)'
  BY <1>0, <1>1 DEF Contents
<1> QED BY <1>10, <1>11, <1>12, <1>13, <1>14 DEF OneOut

\* It asks for the status.
LEMMA RequestOne ==
  ASSUME Regime, TypeOK, TypeOK', Live, OneOut, NEW g \in Handlers, LostRequest(g)
  PROVE  OneOut'
<1> HIDE DEF Under, ControlUnder, StatusUnder
<1>0. /\ ~h.panicked /\ Alone /\ Timer /\ Handling /\ \A k \in Handlers : Work(lost[k])
      /\ Contents(Len(returned) + 1) /\ Slot(h, Len(returned))
  BY DEF OneOut
<1>1. /\ UNCHANGED <<responses, replies, statuses, accepted, answered>>
      /\ UNCHANGED <<watched, config, returned>>
      /\ requests' = Append(requests, newStatusPacket)
      /\ lost' = [lost EXCEPT ![g].pc = "await"]
      /\ h' = [h EXCEPT !.handlinglost = TRUE] /\ lost[g].pc = "request"
  BY DEF LostRequest, devVars
<1>2. /\ \A k \in Handlers : k # g => lost[k].pc = "idle"
      /\ ~h.timedout.tick
  BY <1>1, OnlyOne
<1>3. h.inflight = 1 /\ Under = 0 /\ h.timedout.run = "off"
  BY <1>0, <1>1 DEF Work, Rewritten
<1>4. /\ h'.timedout = h.timedout /\ h'.inflight = h.inflight
      /\ h'.panicked = h.panicked /\ h'.flying = h.flying /\ h'.flyingids = h.flyingids
      /\ h'.replied = h.replied /\ h'.timeoutid = h.timeoutid
      /\ h'.handlinglost = TRUE
  <2>1. h \in HWRecord
    BY Types
  <2> QED BY <1>1, <2>1 DEF HWRecord
<1>5. newStatusPacket \in Request /\ newStatusPacket.ptype = status
  BY Constants DEF newStatusPacket, Request
<1>6. /\ Under' = 1 /\ Contents(Len(returned) + 1)' /\ ~ControlUnder'
  BY <1>0, <1>1, <1>3, <1>5, RequestOut
<1>7. lost'[g].pc = "await" /\ \A k \in Handlers : k # g => lost'[k].pc = "idle"
  <2>1. lost' = [lost EXCEPT ![g].pc = "await"]
    BY <1>1
  <2>2. lost'[g].pc = "await" /\ \A k \in Handlers : k # g => lost'[k] = lost[k]
    BY <2>1, PcSet
  <2> QED BY <1>2, <2>2
<1>8. Work(lost[g])'
  BY <1>3, <1>4, <1>7 DEF Work
<1>9. Handling' /\ \A k \in Handlers : Work(lost[k])'
  BY <1>4, <1>7, <1>8, HandlerMoves
<1>10. config' # "request"
  BY <1>1, <1>3, OutConfigured
<1>11. Alone'
  BY <1>6, <1>7, <1>10 DEF Alone
<1>12. Timer'
  BY <1>0, <1>1, <1>2, <1>3, <1>4 DEF Timer
<1>13. Slot(h, Len(returned))' /\ ~h'.panicked
  BY <1>0, <1>1, <1>4 DEF Slot
<1> QED BY <1>6, <1>9, <1>11, <1>12, <1>13 DEF OneOut

\* It gets the status, which tells of no packet that was received and not
\* answered.
LEMMA StatusOne ==
  ASSUME Regime, TypeOK, TypeOK', Live, OneOut, NEW g \in Handlers, LostStatus(g)
  PROVE  OneOut'
<1> HIDE DEF Under, ControlUnder, StatusUnder
<1> DEFINE rec == h.timeoutid \in Head(statuses).received
           v   == [idle EXCEPT !.pc = "sent", !.sent = Head(statuses).sent,
                               !.packetreceived = rec]
<1>0. /\ ~h.panicked /\ Alone /\ Timer /\ Handling /\ \A k \in Handlers : Work(lost[k])
      /\ Contents(Len(returned) + 1) /\ Slot(h, Len(returned))
  BY DEF OneOut
<1>1. /\ UNCHANGED <<requests, responses, replies, accepted, answered>>
      /\ UNCHANGED <<h, watched, config, returned>> /\ lost' = [lost EXCEPT ![g] = v]
      /\ statuses # <<>> /\ statuses' = Tail(statuses) /\ lost[g].pc = "await"
  BY DEF LostStatus, wireVars, devVars
<1>2. /\ \A k \in Handlers : k # g => lost[k].pc = "idle"
      /\ ~h.timedout.tick /\ h.handlinglost
  BY <1>1, OnlyOne
<1>3. h.inflight = 1 /\ h.timedout.run = "off"
  BY <1>0, <1>1 DEF Work, Rewritten
<1>4. h.timeoutid = Id(Len(returned) + 1)
  BY <1>0, <1>3 DEF Slot
<1>5. /\ Under' = 0 /\ ~ControlUnder' /\ ~StatusUnder' /\ Contents(Len(returned) + 1)'
      /\ Head(statuses).received \subseteq Head(statuses).sent
  BY <1>1, StatusTaken
<1>6. v.pc = "sent" /\ v.packetreceived = rec /\ v.sent = Head(statuses).sent
  BY DEF idle
<1>7. v.packetreceived => Id(Len(returned) + 1) \in v.sent
  BY <1>4, <1>5, <1>6
<1> HIDE DEF v
<1>8. lost'[g] = v /\ \A k \in Handlers : k # g => lost'[k].pc = "idle"
  <2>1. lost'[g] = v /\ \A k \in Handlers : k # g => lost'[k] = lost[k]
    BY <1>1, LostSet
  <2> QED BY <1>2, <2>1
<1>9. Work(lost[g])'
  BY <1>1, <1>3, <1>5, <1>6, <1>7, <1>8 DEF Work
<1>10. h'.handlinglost
  BY <1>1, <1>2
<1>11. Handling' /\ \A k \in Handlers : Work(lost[k])'
  <2>1. lost'[g].pc \notin {"idle", "stop", "request"}
    BY <1>6, <1>8
  <2> QED BY <1>8, <1>9, <1>10, <2>1, HandlerMoves
<1>12. Alone'
  BY <1>5 DEF Alone
<1>13. Timer'
  BY <1>0, <1>1, <1>2, <1>3 DEF Timer
<1>14. Slot(h, Len(returned))' /\ ~h'.panicked
  BY <1>0, <1>1 DEF Slot
<1> QED BY <1>5, <1>11, <1>12, <1>13, <1>14 DEF OneOut

\* It does not panic, and knows what to do about the packet.
LEMMA SentOne ==
  ASSUME Regime, TypeOK, TypeOK', Live, OneOut, NEW g \in Handlers, LostSent(g)
  PROVE  OneOut'
<1> HIDE DEF Under, ControlUnder, StatusUnder
<1> DEFINE packetsent == h.timeoutid \in lost[g].sent
           rec        == lost[g].packetreceived
           pc         == IF packetsent THEN "resend" ELSE "rewrite"
           v          == [idle EXCEPT !.pc = pc]
<1>0. /\ ~h.panicked /\ Alone /\ Timer /\ Handling /\ \A k \in Handlers : Work(lost[k])
      /\ Contents(Len(returned) + 1) /\ Slot(h, Len(returned))
  BY DEF OneOut
<1>1. /\ UNCHANGED <<requests, responses, replies, statuses, accepted, answered>>
      /\ UNCHANGED <<watched, config, returned>> /\ lost[g].pc = "sent"
  BY DEF LostSent, wireVars, devVars
<1>2. /\ h' = [h EXCEPT !.panicked = rec /\ ~packetsent]
      /\ lost' = [lost EXCEPT ![g] = v]
  BY DEF LostSent
<1>3. /\ \A k \in Handlers : k # g => lost[k].pc = "idle"
      /\ ~h.timedout.tick /\ h.handlinglost
  BY <1>1, OnlyOne
<1>4. h.inflight = 1 /\ h.timedout.run = "off" /\ Under = 0
  BY <1>0, <1>1 DEF Work, Rewritten
<1>5. (rec /\ ~packetsent) = FALSE
  <2>1. h.timeoutid = Id(Len(returned) + 1)
    BY <1>0, <1>4 DEF Slot
  <2>2. rec => Id(Len(returned) + 1) \in lost[g].sent
    BY <1>0, <1>1 DEF Work
  <2> QED BY <2>1, <2>2
<1>6. v.pc \in {"resend", "rewrite"} /\ v.resentpack = FALSE
  BY DEF idle
<1> HIDE DEF packetsent, rec, pc, v
<1>7. /\ h'.timedout = h.timedout /\ h'.inflight = h.inflight
      /\ h'.panicked = FALSE /\ h'.flying = h.flying /\ h'.flyingids = h.flyingids
      /\ h'.replied = h.replied /\ h'.timeoutid = h.timeoutid
      /\ h'.handlinglost = h.handlinglost
  <2>1. h \in HWRecord
    BY Types
  <2>2. h' = [h EXCEPT !.panicked = FALSE]
    BY <1>2, <1>5
  <2> QED BY <2>1, <2>2 DEF HWRecord
<1>8. /\ lost'[g].pc \in {"resend", "rewrite"} /\ lost'[g].resentpack = FALSE
      /\ \A k \in Handlers : k # g => lost'[k].pc = "idle"
  <2>1. lost'[g] = v /\ \A k \in Handlers : k # g => lost'[k] = lost[k]
    BY <1>2, LostSet
  <2> QED BY <1>3, <1>6, <2>1
<1>9. Under' = Under /\ (ControlUnder' <=> ControlUnder) /\ (StatusUnder' <=> StatusUnder)
  BY <1>1 DEF Under, ControlUnder, StatusUnder
<1>10. ~ControlUnder /\ ~StatusUnder
  BY <1>4, UnderType DEF Counted
<1>11. Work(lost[g])'
  BY <1>4, <1>7, <1>8, <1>9 DEF Work
<1>12. h'.handlinglost
  BY <1>3, <1>7
<1>13. Handling' /\ \A k \in Handlers : Work(lost[k])'
  BY <1>8, <1>11, <1>12, HandlerMoves
<1>14. Alone'
  BY <1>4, <1>9, <1>10 DEF Alone
<1>15. Timer'
  BY <1>0, <1>1, <1>3, <1>4, <1>7 DEF Timer
<1>16. Slot(h, Len(returned))' /\ ~h'.panicked
  BY <1>0, <1>1, <1>7 DEF Slot
<1>17. Contents(Len(returned) + 1)'
  BY <1>0, <1>1 DEF Contents
<1> QED BY <1>13, <1>14, <1>15, <1>16, <1>17 DEF OneOut

\* With one packet out at most, updatetimeout has no other packet to time.
LEMMA NotRetimed ==
  ASSUME NEW s \in HWRecord, s.inflight = 1, Len(s.flyingids) = 1
  PROVE  ~Retimes(s) /\ updatetimeout(s) = s
<1>1. ~Retimes(s)
  BY DEF Retimes
<1> QED BY <1>1 DEF updatetimeout

\* The device has sent the reply: handlelost asks for it again.
LEMMA ResendOne ==
  ASSUME Regime, TypeOK, TypeOK', Live, OneOut, NEW g \in Handlers, LostResend(g)
  PROVE  OneOut'
<1> HIDE DEF Under, ControlUnder, StatusUnder
<1> DEFINE s == [h EXCEPT !.resent = h.timeoutid]
           q == newResendPacket(h.timeoutid)
<1>0. /\ ~h.panicked /\ Alone /\ Timer /\ Handling /\ \A k \in Handlers : Work(lost[k])
      /\ Contents(Len(returned) + 1) /\ Slot(h, Len(returned))
  BY DEF OneOut
<1>1. /\ UNCHANGED <<responses, replies, statuses, accepted, answered>>
      /\ UNCHANGED <<config, returned>>
      /\ requests' = Append(requests, q)
      /\ lost' = [lost EXCEPT ![g].pc = "finish"]
      /\ Store(updatetimeout(s), Retimes(h)) /\ lost[g].pc = "resend"
  BY DEF LostResend, devVars
<1>2. /\ \A k \in Handlers : k # g => lost[k].pc = "idle"
      /\ ~h.timedout.tick /\ h.handlinglost
  BY <1>1, OnlyOne
<1>3. h.inflight = 1 /\ Under = 0 /\ h.timedout.run = "off"
  BY <1>0, <1>1 DEF Work, Rewritten
<1>4. Len(h.flyingids) = 1 /\ h.timeoutid = Id(Len(returned) + 1)
  BY <1>0, <1>3 DEF Slot
<1>5. h \in HWRecord /\ h.timeoutid \in UInt16
  BY Types, Fields
<1>6. /\ s \in HWRecord /\ s.timedout = h.timedout /\ s.inflight = h.inflight
      /\ s.panicked = h.panicked /\ s.flying = h.flying /\ s.flyingids = h.flyingids
      /\ s.replied = h.replied /\ s.timeoutid = h.timeoutid
      /\ s.handlinglost = h.handlinglost
  BY <1>5 DEF HWRecord
<1>7. q \in Request /\ q.ptype = resend /\ q.id = Id(Len(returned) + 1)
  BY <1>4, <1>5 DEF newResendPacket, Request
<1> HIDE DEF s, q
<1>8. h' = s /\ watched' = watched
  <2>1. updatetimeout(s) = s
    BY <1>3, <1>4, <1>6, NotRetimed
  <2>2. ~Retimes(h)
    BY <1>3, <1>4, <1>5, NotRetimed
  <2> QED BY <1>1, <2>1, <2>2 DEF Store
<1>9. /\ Under' = 1 /\ Contents(Len(returned) + 1)' /\ ~StatusUnder'
  <2>1. q.ptype # status
    BY <1>7 DEF resend, status
  <2> QED BY <1>0, <1>1, <1>3, <1>7, <2>1, RequestOut
<1>10. lost'[g].pc = "finish" /\ \A k \in Handlers : k # g => lost'[k].pc = "idle"
  <2>1. lost' = [lost EXCEPT ![g].pc = "finish"]
    BY <1>1
  <2>2. lost'[g].pc = "finish" /\ \A k \in Handlers : k # g => lost'[k] = lost[k]
    BY <2>1, PcSet
  <2> QED BY <1>2, <2>2
<1>11. Work(lost[g])' /\ Rewritten(lost[g])'
  BY <1>3, <1>6, <1>8, <1>10 DEF Work, Rewritten
<1>12. h'.handlinglost /\ ~h'.panicked
  BY <1>0, <1>2, <1>6, <1>8
<1>13. /\ Handling' /\ \A k \in Handlers : Work(lost[k])'
       /\ \A k \in Handlers : Rewritten(lost[k])'
  BY <1>10, <1>11, <1>12, HandlerMoves
<1>14. config' # "request"
  BY <1>1, <1>3, OutConfigured
<1>15. Alone'
  BY <1>2, <1>3, <1>6, <1>8, <1>9, <1>13, <1>14 DEF Alone
<1>16. Timer'
  BY <1>0, <1>2, <1>3, <1>6, <1>8 DEF Timer
<1>17. Slot(h, Len(returned))'
  BY <1>0, <1>1, <1>6, <1>8 DEF Slot
<1> QED BY <1>9, <1>12, <1>13, <1>15, <1>16, <1>17 DEF OneOut

\* No packet is flying under the id after the one that is out.
LEMMA NoneBehind ==
  ASSUME Regime, TypeOK, Live, OneOut
  PROVE  h.flying[Id(Len(returned) + h.inflight + 1)] = NoPacket
<1> DEFINE r == Len(returned)
           i == h.inflight
           id == Id(r + i + 1)
<1>1. r \in Nat /\ handed \in 0 .. NPackets /\ h \in HWRecord
  BY Types
<1>2. i \in {0, 1} /\ Len(h.flyingids) = i
  BY DEF OneOut, Slot
<1>3. r + i \in 0 .. handed
  BY <1>2, ReturnedFew
<1>4. \A k \in UInt16 : h.flying[k] # NoPacket => h.flying[k] <= r + i
  BY DEF OneOut, Slot
<1> HIDE DEF r, i
<1>5. r + i + 1 \in 1 .. NPackets + 1
  BY <1>1, <1>2, <1>3, Constants
<1>6. id \in UInt16
  BY <1>5, IdType
<1>7. SUFFICES ASSUME h.flying[id] # NoPacket PROVE FALSE
  BY DEF r, i
<1> DEFINE p == h.flying[id]
<1>8. p \in 1 .. handed /\ id = Id(p)
  BY <1>6, <1>7 DEF Live, InFlight, Named, Carries
<1>9. p <= r + i
  BY <1>4, <1>6, <1>7
<1> HIDE DEF p
<1>10. p \in 1 .. NPackets + 1
  BY <1>1, <1>8, Constants
<1>11. p = r + i + 1
  BY <1>5, <1>8, <1>10, IdInjective
<1> QED BY <1>1, <1>2, <1>9, <1>11

\* The packet that is out is where it belongs.
LEMMA OutNamed ==
  ASSUME Regime, TypeOK, Live, OneOut, h.inflight = 1
  PROVE  /\ h.timeoutid = Id(Len(returned) + 1)
         /\ h.flying[h.timeoutid] = Len(returned) + 1
         /\ Len(returned) + 1 \in Packets
<1> DEFINE r == Len(returned)
           p == h.flying[h.timeoutid]
<1>1. r \in Nat /\ handed \in 0 .. NPackets /\ r + 1 \in 1 .. NPackets + 1
  BY Types, ReturnedFew
<1>2. h.timeoutid = Id(r + 1) /\ h.flying[Id(r + 1)] # NoPacket
  BY DEF OneOut, Slot
<1>3. h.timeoutid \in UInt16
  BY Types, Fields
<1>4. p \in 1 .. handed /\ h.timeoutid = Id(p)
  BY <1>2, <1>3 DEF Live, InFlight, Named, Carries
<1> HIDE DEF r, p
<1>5. p \in 1 .. NPackets + 1 /\ p \in Packets
  BY <1>1, <1>4, Constants DEF Packets
<1>6. p = r + 1
  BY <1>1, <1>2, <1>4, <1>5, IdInjective
<1> QED BY <1>2, <1>5, <1>6 DEF r, p

\* handlelost writes the packet that is out again, or finds that it has written
\* all there was.
LEMMA RewriteOne ==
  ASSUME Regime, TypeOK, TypeOK', Live, OneOut, NEW g \in Handlers, LostRewrite(g)
  PROVE  OneOut'
<1> HIDE DEF Under, ControlUnder, StatusUnder
<1> DEFINE r == Len(returned)
<1>0. /\ ~h.panicked /\ Alone /\ Timer /\ Handling /\ \A k \in Handlers : Work(lost[k])
      /\ Contents(r + 1) /\ Slot(h, r)
  BY DEF OneOut
<1>1. /\ UNCHANGED <<responses, replies, statuses, accepted, answered>>
      /\ UNCHANGED <<config, returned>> /\ lost[g].pc = "rewrite"
  BY DEF LostRewrite, devVars
<1>2. /\ \A k \in Handlers : k # g => lost[k].pc = "idle"
      /\ ~h.timedout.tick /\ h.handlinglost
  BY <1>1, OnlyOne
<1>3. h.timedout.run = "off"
  BY <1>0, <1>1 DEF Work
<1>4. CASE ~lost[g].resentpack
  <2> DEFINE id == h.timeoutid
             q == controlPacket(id, h.flying[id])
             v == [idle EXCEPT !.pc = "readd", !.id = id, !.pack = h.flying[id]]
  <2>1. h.inflight = 1 /\ Under = 0
    BY <1>0, <1>1, <1>4 DEF Work, Rewritten
  <2>2. id = Id(r + 1) /\ h.flying[id] = r + 1 /\ r + 1 \in Packets
    BY <2>1, OutNamed
  <2>3. h.flying[id] # NoPacket
    BY <2>2, Constants
  <2>4. /\ requests' = Append(requests, q) /\ lost' = [lost EXCEPT ![g] = v]
        /\ UNCHANGED <<h, watched>>
    BY <1>4, <2>3 DEF LostRewrite, resendid
  <2>5. id \in UInt16
    BY Types, Fields
  <2>6. q \in Request /\ q.ptype = control /\ q.id = Id(r + 1)
    BY <2>2, <2>5 DEF controlPacket, Request
  <2>7. v.pc = "readd" /\ v.id = Id(r + 1) /\ v.pack = r + 1
    BY <2>2 DEF idle
  <2> HIDE DEF q, v
  <2>8. Under' = 1 /\ Contents(Len(returned) + 1)' /\ ~StatusUnder'
    <3>1. q.ptype # status
      BY <2>6 DEF control, status
    <3> QED BY <1>0, <1>1, <2>1, <2>4, <2>6, <3>1, RequestOut
  <2>9. lost'[g] = v /\ \A k \in Handlers : k # g => lost'[k].pc = "idle"
    <3>1. lost'[g] = v /\ \A k \in Handlers : k # g => lost'[k] = lost[k]
      BY <2>4, LostSet
    <3> QED BY <1>2, <3>1
  <2>10. Work(lost[g])' /\ Rewritten(lost[g])'
    BY <1>1, <1>3, <2>1, <2>4, <2>7, <2>9 DEF Work, Rewritten
  <2>11. /\ Handling' /\ \A k \in Handlers : Work(lost[k])'
         /\ \A k \in Handlers : Rewritten(lost[k])'
    <3>1. h'.handlinglost <=> lost'[g].pc \notin {"idle", "stop", "request"}
      BY <1>2, <2>4, <2>7, <2>9
    <3> QED BY <2>9, <2>10, <3>1, HandlerMoves
  <2>12. config' # "request"
    BY <1>1, <2>1, OutConfigured
  <2>13. Alone'
    BY <1>2, <2>1, <2>4, <2>8, <2>11, <2>12 DEF Alone
  <2>14. Timer'
    BY <1>0, <1>2, <1>3, <2>4 DEF Timer
  <2>15. Slot(h, Len(returned))' /\ ~h'.panicked
    BY <1>0, <1>1, <2>4 DEF Slot
  <2> QED BY <2>8, <2>11, <2>13, <2>14, <2>15 DEF OneOut
<1>5. CASE lost[g].resentpack
  <2> DEFINE id == lost[g].id
  <2>1. id = Id(r + h.inflight + 1)
    BY <1>0, <1>1, <1>5 DEF Work
  <2>2. h.flying[id] = NoPacket
    BY <2>1, NoneBehind
  <2>3. /\ Store(updatetimeout(h), Retimes(h)) /\ UNCHANGED requests
        /\ lost' = [lost EXCEPT ![g].pc = "finish"]
    BY <1>5, <2>2 DEF LostRewrite, resendid
  <2>4. h.inflight \in {0, 1} /\ Len(h.flyingids) = h.inflight /\ h \in HWRecord
    BY <1>0, Types DEF Slot
  <2>5. h' = h /\ watched' = watched
    <3>1. CASE h.inflight = 1
      <4>1. ~Retimes(h) /\ updatetimeout(h) = h
        BY <2>4, <3>1, NotRetimed
      <4> QED BY <2>3, <4>1 DEF Store
    <3>2. CASE h.inflight = 0
      <4>1. ~Retimes(h) /\ updatetimeout(h) = [h EXCEPT !.timedout = Stop(@)]
        BY <3>2 DEF updatetimeout, Retimes
      <4>2. Stop(h.timedout) = h.timedout
        BY <1>3, <2>4, Fields DEF Stop, Ticker
      <4>3. updatetimeout(h) = h
        BY <2>4, <4>1, <4>2 DEF HWRecord
      <4> QED BY <2>3, <4>1, <4>3 DEF Store
    <3> QED BY <2>4, <3>1, <3>2
  <2>6. lost'[g].pc = "finish" /\ \A k \in Handlers : k # g => lost'[k].pc = "idle"
    <3>1. lost'[g].pc = "finish" /\ \A k \in Handlers : k # g => lost'[k] = lost[k]
      BY <2>3, PcSet
    <3> QED BY <1>2, <3>1
  <2>7. /\ Under' = Under /\ (ControlUnder' <=> ControlUnder) /\ (StatusUnder' <=> StatusUnder)
    BY <1>1, <2>3 DEF Under, ControlUnder, StatusUnder
  <2>8. Work(lost[g])' /\ Rewritten(lost[g])'
    BY <1>3, <2>5, <2>6 DEF Work, Rewritten
  <2>9. /\ Handling' /\ \A k \in Handlers : Work(lost[k])'
        /\ \A k \in Handlers : Rewritten(lost[k])'
    <3>1. h'.handlinglost <=> lost'[g].pc \notin {"idle", "stop", "request"}
      BY <1>2, <2>5, <2>6
    <3> QED BY <2>6, <2>8, <3>1, HandlerMoves
  <2>10. \A k \in Handlers : lost[k].pc # "await"
    BY <1>1, <1>2
  <2>11. Alone'
    BY <1>0, <1>1, <2>5, <2>7, <2>9, <2>10 DEF Alone
  <2>12. Timer'
    BY <1>0, <1>2, <1>3, <2>5 DEF Timer
  <2>13. Slot(h, Len(returned))' /\ ~h'.panicked /\ Contents(Len(returned) + 1)'
    BY <1>0, <1>1, <2>3, <2>5 DEF Slot, Contents
  <2> QED BY <2>9, <2>11, <2>12, <2>13 DEF OneOut
<1> QED BY <1>4, <1>5

\* It puts the packet back into flying, whether the reply has come or not.
LEMMA ReaddOne ==
  ASSUME Regime, TypeOK, TypeOK', Live, OneOut, NEW g \in Handlers, LostReadd(g)
  PROVE  OneOut'
<1> HIDE DEF Under, ControlUnder, StatusUnder
<1> DEFINE r  == Len(returned)
           i  == h.inflight
           p  == lost[g].pack
           id == lost[g].id
           fl == [h.flying EXCEPT ![id] = p]
           v  == [idle EXCEPT !.pc = "rewrite", !.id = succ(id), !.resentpack = TRUE]
<1>0. /\ ~h.panicked /\ Alone /\ Timer /\ Handling /\ \A k \in Handlers : Work(lost[k])
      /\ Contents(r + 1) /\ Slot(h, r)
  BY DEF OneOut
<1>1. /\ UNCHANGED <<requests, responses, replies, statuses, accepted, answered>>
      /\ UNCHANGED <<watched, config, returned>> /\ lost[g].pc = "readd"
      /\ h' = [h EXCEPT !.flying = fl, !.aged = h.aged \ {id}]
      /\ lost' = [lost EXCEPT ![g] = v]
  BY DEF LostReadd, wireVars, devVars
<1>2. /\ \A k \in Handlers : k # g => lost[k].pc = "idle"
      /\ ~h.timedout.tick /\ h.handlinglost
  BY <1>1, OnlyOne
<1>3. h.timedout.run = "off" /\ id = Id(r + i) /\ p = r + i
  BY <1>0, <1>1 DEF Work
<1>4. p \in 1 .. handed
  BY <1>1 DEF Live, Rewriting, Carries
<1>5. r \in Nat /\ handed \in 0 .. NPackets /\ h \in HWRecord
  BY Types
<1>6. v.pc = "rewrite" /\ v.id = succ(id) /\ v.resentpack = TRUE
  BY DEF idle
<1> HIDE DEF v
<1>7. p \in 1 .. NPackets + 1 /\ p # NoPacket /\ p \in Nat
  BY <1>4, <1>5, Constants DEF NoPacket
<1>8. id \in UInt16 /\ succ(id) = Id(r + i + 1)
  BY <1>3, <1>7, IdType, IdSucc
<1>9. \A k \in UInt16 : fl[k] = IF k = id THEN p ELSE h.flying[k]
  BY <1>5, Fields
<1> HIDE DEF fl
<1>10. /\ h'.timedout = h.timedout /\ h'.inflight = h.inflight
       /\ h'.panicked = h.panicked /\ h'.flying = fl /\ h'.flyingids = h.flyingids
       /\ h'.replied = h.replied /\ h'.timeoutid = h.timeoutid
       /\ h'.handlinglost = h.handlinglost
  <2>1. h \in HWRecord /\ h' = [h EXCEPT !.flying = fl, !.aged = h.aged \ {id}]
    BY <1>1, <1>5
  <2> QED BY <2>1 DEF HWRecord
<1>11. Slot(h', r)
  <2>1. /\ i \in {0, 1} /\ Len(h.flyingids) = i
        /\ \A k \in UInt16 : h.replied[k] = NoPacket
        /\ \A k \in UInt16 : h.flying[k] # NoPacket => h.flying[k] <= r + i
        /\ i = 1 => h.flying[Id(r + 1)] # NoPacket /\ h.timeoutid = Id(r + 1)
    BY <1>0 DEF Slot
  <2>2. \A k \in UInt16 : fl[k] # NoPacket => fl[k] <= r + i
    <3>1. p <= r + i
      BY <1>3, <1>7
    <3> QED BY <1>9, <2>1, <3>1
  <2>3. i = 1 => fl[Id(r + 1)] # NoPacket
    <3>1. Id(r + 1) \in UInt16
      BY ReturnedFew, IdType
    <3> QED BY <1>7, <1>9, <2>1, <3>1
  <2> QED BY <1>10, <2>1, <2>2, <2>3 DEF Slot
<1>12. lost'[g] = v /\ \A k \in Handlers : k # g => lost'[k].pc = "idle"
  <2>1. lost'[g] = v /\ \A k \in Handlers : k # g => lost'[k] = lost[k]
    BY <1>1, LostSet
  <2> QED BY <1>2, <2>1
<1>13. /\ Under' = Under /\ (ControlUnder' <=> ControlUnder) /\ (StatusUnder' <=> StatusUnder)
  BY <1>1 DEF Under, ControlUnder, StatusUnder
<1>14. Work(lost[g])' /\ Rewritten(lost[g])'
  <2>1. lost'[g].pc = "rewrite" /\ lost'[g].resentpack /\ h'.timedout.run = "off"
    BY <1>3, <1>6, <1>10, <1>12
  <2>2. lost'[g].id = Id(Len(returned') + h'.inflight + 1)
    BY <1>1, <1>6, <1>8, <1>10, <1>12
  <2> QED BY <2>1, <2>2 DEF Work, Rewritten
<1>15. /\ Handling' /\ \A k \in Handlers : Work(lost[k])'
       /\ \A k \in Handlers : Rewritten(lost[k])'
  <2>1. h'.handlinglost <=> lost'[g].pc \notin {"idle", "stop", "request"}
    BY <1>2, <1>6, <1>10, <1>12
  <2> QED BY <1>12, <1>14, <2>1, HandlerMoves
<1>16. \A k \in Handlers : lost[k].pc # "await"
  BY <1>1, <1>2
<1>17. Alone'
  BY <1>0, <1>1, <1>10, <1>13, <1>15, <1>16 DEF Alone
<1>18. Timer'
  BY <1>0, <1>1, <1>2, <1>3, <1>10 DEF Timer
<1>19. ~h'.panicked /\ Contents(Len(returned) + 1)'
  BY <1>0, <1>1, <1>10 DEF Contents
<1> QED BY <1>1, <1>11, <1>15, <1>17, <1>18, <1>19 DEF OneOut

-----------------------------------------------------------------------------
\* Every step keeps the invariant.
LEMMA OneOutStep ==
  ASSUME Regime, StopAndWait
  PROVE  IInv /\ OneOut /\ [Next]_vars => OneOut'
<1> SUFFICES ASSUME IInv, OneOut, [Next]_vars PROVE OneOut'
  OBVIOUS
<1>1. TypeOK /\ TypeOK' /\ Live
  BY TypeStep DEF IInv, OneOut
<1>2. CASE Next
  <2>1. CASE HWNext
    <3>1. CASE Send \/ RunReport
      <4>1. /\ watched' \in {watched, Current}
            /\ UNCHANGED <<requests, responses, replies, statuses, accepted, answered,
                           h, config, lost, returned>>
        BY <3>1 DEF Send, RunReport, wireVars, devVars
      <4> QED BY <1>1, <4>1, Unmoved
    <3>2. CASE receive \/ RunStatus
      BY <1>1, <3>2, PassesOn
    <3>3. CASE ConfigRequest \/ ConfigStatus
      BY <1>1, <3>3, ConfigOne
    <3>4. CASE RunIncoming
      BY <1>1, <3>4, IncomingOne
    <3>5. CASE RunReply
      BY <1>1, <3>5, ReplyOne
    <3>6. CASE RunUnmatched
      BY <1>1, <3>6, NeverHappens
    <3>7. ASSUME NEW g \in Handlers, RunTimeout(g) PROVE OneOut'
      BY <1>1, <3>7, TimeoutOne
    <3>8. ASSUME NEW g \in Handlers, handlelost(g) PROVE OneOut'
      <4>1. CASE LostStop(g)
        BY <1>1, <4>1, StopOne
      <4>2. CASE LostRequest(g)
        BY <1>1, <4>2, RequestOne
      <4>3. CASE LostStatus(g)
        BY <1>1, <4>3, StatusOne
      <4>4. CASE LostSent(g)
        BY <1>1, <4>4, SentOne
      <4>5. CASE LostResend(g)
        BY <1>1, <4>5, ResendOne
      <4>6. CASE LostRewrite(g)
        BY <1>1, <4>6, RewriteOne
      <4>7. CASE LostReadd(g)
        BY <1>1, <4>7, ReaddOne
      <4>8. CASE LostFinish(g)
        BY <1>1, <4>8, FinishOne
      <4> QED BY <3>8, <4>1, <4>2, <4>3, <4>4, <4>5, <4>6, <4>7, <4>8 DEF handlelost
    <3> QED BY <2>1, <3>1, <3>2, <3>3, <3>4, <3>5, <3>6, <3>7, <3>8, NoWritePanics
            DEF HWNext, Run
  <2>2. CASE DeviceNext /\ UNCHANGED <<hwVars, netVars>>
    BY <1>1, <2>2, DeviceOne
  <2>3. CASE Network
    BY <1>1, <2>3, LosesOne, NeverHappens DEF Network
  <2>4. CASE Tick
    BY <1>1, <2>4, TickOne
  <2>5. CASE TickWatched
    BY <1>1, <2>5, NeverHappens
  <2> QED BY <1>2, <2>1, <2>2, <2>3, <2>4, <2>5 DEF Next
<1>3. CASE UNCHANGED vars
  <2>1. UNCHANGED <<requests, responses, replies, statuses, accepted, answered,
                    h, config, lost, returned>> /\ watched' = watched
    BY <1>3 DEF vars, wireVars, devVars, hwVars
  <2> QED BY <1>1, <2>1, Unmoved
<1> QED BY <1>2, <1>3

\* At the start nothing is under way and no packet is out.
LEMMA OneOutInit == Init => OneOut
<1> SUFFICES ASSUME Init PROVE OneOut
  OBVIOUS
<1>1. /\ requests = <<>> /\ responses = <<>> /\ replies = <<>> /\ statuses = <<>>
      /\ accepted = <<>> /\ answered = 0 /\ returned = <<>> /\ watched = Current
      /\ h = newhw /\ lost = [g \in Handlers |-> idle]
  BY DEF Init, WireInit, DeviceInit, HWInit
<1>2. Len(<<>>) = 0
  OBVIOUS
<1>3. /\ Len(requests) = 0 /\ Len(responses) = 0 /\ Len(replies) = 0 /\ Len(statuses) = 0
      /\ Len(accepted) = 0 /\ Len(returned) = 0
  BY <1>1, <1>2, Zenon
<1>4. Under = 0
  BY <1>1, <1>3 DEF Under
<1>5. ~ControlUnder /\ ~StatusUnder
  BY <1>1, <1>3 DEF ControlUnder, StatusUnder
<1>6. Contents(Len(returned) + 1)
  BY <1>1, <1>3 DEF Contents, About1
<1>7. /\ h.inflight = 0 /\ h.flyingids = <<>> /\ h.replied = EmptyLog /\ h.flying = EmptyLog
      /\ h.handlinglost = FALSE /\ h.panicked = FALSE
      /\ h.timedout.run = "long" /\ h.timedout.tick = FALSE
  BY <1>1 DEF newhw, NewTicker
<1>8. Slot(h, Len(returned))
  <2>1. Len(h.flyingids) = 0
    BY <1>2, <1>7, Zenon
  <2>2. \A id \in UInt16 : h.replied[id] = NoPacket /\ h.flying[id] = NoPacket
    BY <1>7 DEF EmptyLog
  <2> QED BY <1>7, <2>1, <2>2 DEF Slot
<1>9. \A g \in Handlers : lost[g].pc = "idle"
  BY <1>1 DEF idle
<1>10. Handling
  BY <1>7, <1>9 DEF Handling
<1>11. ASSUME NEW g \in Handlers PROVE Work(lost[g])
  BY <1>9 DEF Work, Rewritten
<1>12. Alone
  BY <1>4, <1>5 DEF Alone
<1>13. Timer
  BY <1>1, <1>7 DEF Timer
<1> QED BY <1>6, <1>7, <1>8, <1>10, <1>11, <1>12, <1>13 DEF OneOut

\* One packet out at a time: whatever the network loses and however it orders
\* what it delivers, neither Run nor handlelost ever panics.  Run always knows
\* the packet a reply is to, the status handlelost gets never tells of a packet
\* that was received and not answered, and the queue always has room.
THEOREM StopAndWaitNeverPanics ==
  ASSUME Regime, StopAndWait PROVE Spec => []NoPanic
<1>1. IInv /\ OneOut /\ [Next]_vars => IInv' /\ OneOut'
  BY InvStep, OneOutStep
<1>2. Init => IInv /\ OneOut
  BY InitInv, OneOutInit
<1>3. OneOut => NoPanic
  BY DEF OneOut, NoPanic
<1> QED BY <1>1, <1>2, <1>3, PTL DEF Spec

-----------------------------------------------------------------------------
(* Nothing lost: no false alarm, whatever the window.                      *)

\* The network keeps the order and neither copies nor delays a datagram beyond a
\* timeout, and the queue has room for what the users hand over.
Orderly ==
  /\ ~Reorder /\ MaxDup = 0 /\ MaxEarly = 0
  /\ MaxOutstanding <= QueuedMax

\* The datagrams of q are those of the packets after number n, in order.
Numbered(q, n) == \A i \in 1 .. Len(q) : q[i].id = Id(n + i)

\* A ticker of waittime runs only while a packet is out, and has not ticked.
Clock(s) ==
  /\ ~s.timedout.tick /\ s.timedout.run # "due"
  /\ s.timedout.run = "on" => s.inflight > 0

\* The client while nothing is lost: every reply was the next one to come back,
\* so that none is kept and each id of flyingids takes a slot.
Still(s) ==
  /\ ~s.panicked /\ ~s.handlinglost /\ s.aged = {} /\ Clock(s)
  /\ \A id \in UInt16 : s.replied[id] = NoPacket
  /\ s.inflight = Len(s.flyingids)

\* Packets go out, are executed and come back in one line: the replies read and
\* under way are those of the packets answered and not handed back, and the
\* requests under way those of the packets in flight and not yet executed.
Stream(f) ==
  /\ Len(returned) + Len(replies) + Len(responses) = answered
  /\ Len(accepted) + Len(requests) = Len(returned) + f
  /\ Numbered(replies, Len(returned))
  /\ Numbered(responses, Len(returned) + Len(replies))
  /\ Numbered(requests, Len(accepted))
  /\ \A i \in 1 .. Len(requests) : requests[i].ptype = control

Calm ==
  /\ Still(h) /\ watched = Current
  /\ \A g \in Handlers : lost[g].pc = "idle"
  /\ \A i \in 1 .. Len(requests) : requests[i].ptype # resend
  /\ h.configured => Stream(h.inflight)

\* Calm together with what it rests on.
CalmInv == IInv /\ Tracked(h) /\ Balance /\ (losses = 0 => Calm)

-----------------------------------------------------------------------------
\* A numbered line grows at its end.
LEMMA NumberedAppend ==
  ASSUME NEW S, NEW q \in Seq(S), NEW e \in S, NEW n \in Nat, Numbered(q, n),
         e.id = Id(n + Len(q) + 1)
  PROVE  Len(Append(q, e)) = Len(q) + 1 /\ Numbered(Append(q, e), n)
<1> DEFINE a == Append(q, e)
           m == Len(q)
<1>1. m \in Nat
  OBVIOUS
<1>2. Len(a) = m + 1 /\ (\A k \in 1 .. m : a[k] = q[k]) /\ a[m + 1] = e
  BY AppendElems
<1>3. (\A k \in 1 .. m : q[k].id = Id(n + k)) /\ e.id = Id(n + m + 1)
  BY DEF Numbered
<1> HIDE DEF a, m
<1>4. ASSUME NEW k \in 1 .. m + 1 PROVE a[k].id = Id(n + k)
  <2>1. CASE k \in 1 .. m
    BY <1>2, <1>3, <2>1
  <2>2. CASE k = m + 1
    <3>1. n + k = n + m + 1
      BY <1>1, <2>2
    <3> QED BY <1>2, <1>3, <2>2, <3>1
  <2> QED BY <1>1, <2>1, <2>2
<1>5. Numbered(a, n)
  BY <1>2, <1>4 DEF Numbered
<1> QED BY <1>2, <1>5 DEF a, m

\* A numbered line is taken from its front.
LEMMA NumberedRest ==
  ASSUME NEW S, NEW q \in Seq(S), NEW w, NEW n \in Nat, Numbered(q, n), Len(q) > 0,
         Len(w) = Len(q) - 1, \A k \in 1 .. Len(w) : w[k] = q[k + 1]
  PROVE  q[1].id = Id(n + 1) /\ Numbered(w, n + 1)
<1> DEFINE m == Len(q)
<1>1. m \in Nat /\ m > 0 /\ Len(w) = m - 1
  OBVIOUS
<1>2. \A k \in 1 .. m : q[k].id = Id(n + k)
  BY DEF Numbered
<1> HIDE DEF m
<1>3. q[1].id = Id(n + 1)
  BY <1>1, <1>2
<1>4. ASSUME NEW k \in 1 .. Len(w) PROVE w[k].id = Id(n + 1 + k)
  <2>1. k + 1 \in 1 .. m /\ n + (k + 1) = n + 1 + k
    BY <1>1
  <2>2. w[k] = q[k + 1]
    OBVIOUS
  <2>3. q[k + 1].id = Id(n + (k + 1))
    BY <1>2, <2>1
  <2> QED BY <2>1, <2>2, <2>3
<1> QED BY <1>3, <1>4 DEF Numbered

LEMMA NumberedTail ==
  ASSUME NEW S, NEW q \in Seq(S), NEW n \in Nat, Numbered(q, n), q # <<>>
  PROVE  /\ Head(q).id = Id(n + 1) /\ Numbered(Tail(q), n + 1)
         /\ Len(q) > 0 /\ Len(Tail(q)) = Len(q) - 1
<1>1. /\ Len(q) > 0 /\ Head(q) = q[1] /\ Len(Tail(q)) = Len(q) - 1
      /\ \A k \in 1 .. Len(Tail(q)) : Tail(q)[k] = q[k + 1]
  BY TailElems
<1>2. q[1].id = Id(n + 1) /\ Numbered(Tail(q), n + 1)
  BY <1>1, NumberedRest
<1> QED BY <1>1, <1>2

LEMMA NumberedFirst ==
  ASSUME NEW S, NEW q \in Seq(S), NEW n \in Nat, Numbered(q, n), 1 \in 1 .. Len(q)
  PROVE  /\ q[1].id = Id(n + 1) /\ Numbered(Without(q, 1), n + 1)
         /\ Len(Without(q, 1)) = Len(q) - 1
         /\ \A k \in 1 .. Len(q) - 1 : Without(q, 1)[k] = q[k + 1]
<1> DEFINE w == Without(q, 1)
<1>1. Len(w) = Len(q) - 1 /\ \A k \in 1 .. Len(q) - 1 : w[k] = q[k + 1]
  BY WithoutAt
<1>2. Len(q) > 0
  OBVIOUS
<1> HIDE DEF w
<1>3. \A k \in 1 .. Len(w) : w[k] = q[k + 1]
  BY <1>1
<1>4. q[1].id = Id(n + 1) /\ Numbered(w, n + 1)
  BY <1>1, <1>2, <1>3, NumberedRest
<1> QED BY <1>1, <1>4 DEF w

\* Two numbered lines, one behind the other.
LEMMA NumberedConcat ==
  ASSUME NEW S, NEW a \in Seq(S), NEW b \in Seq(S), NEW n \in Nat,
         Numbered(a, n), Numbered(b, n + Len(a))
  PROVE  Len(a \o b) = Len(a) + Len(b) /\ Numbered(a \o b, n)
<1> DEFINE c == a \o b
           k == Len(a)
           l == Len(b)
<1>1. k \in Nat /\ l \in Nat
  OBVIOUS
<1>2. /\ Len(c) = k + l /\ \A i \in 1 .. k : c[i] = a[i]
      /\ \A i \in 1 .. l : c[k + i] = b[i]
  BY Joined
<1>3. (\A i \in 1 .. k : a[i].id = Id(n + i)) /\ \A i \in 1 .. l : b[i].id = Id(n + k + i)
  BY DEF Numbered
<1> HIDE DEF c, k, l
<1>4. ASSUME NEW i \in 1 .. k + l PROVE c[i].id = Id(n + i)
  <2>1. CASE i \in 1 .. k
    BY <1>2, <1>3, <2>1
  <2>2. CASE i - k \in 1 .. l
    <3>1. k + (i - k) = i /\ n + k + (i - k) = n + i
      BY <1>1
    <3>2. c[k + (i - k)] = b[i - k] /\ b[i - k].id = Id(n + k + (i - k))
      BY <1>2, <1>3, <2>2
    <3> QED BY <3>1, <3>2
  <2> QED BY <1>1, <2>1, <2>2
<1>5. Numbered(c, n)
  BY <1>2, <1>4 DEF Numbered
<1> QED BY <1>2, <1>5 DEF c, k, l

\* What sendnext writes continues the line, and it times a packet that is out.
LEMMA SendnextCalm ==
  ASSUME Regime, NEW s, NEW r, NEW t, Sendable(s, r, t),
         ~s.panicked, s.aged = {}, Clock(s)
  PROVE  LET n == Burst(s)
             f == Len(s.flyingids)
             u == sendnext(s)
         IN  /\ n \in Nat /\ f \in Nat /\ u \in HWRecord
             /\ ~u.panicked /\ u.aged = {} /\ Clock(u)
             /\ u.handlinglost = s.handlinglost /\ u.replied = s.replied
             /\ u.configured = s.configured
             /\ u.inflight = s.inflight + n /\ Len(u.flyingids) = f + n
             /\ Outgoing(s) \in Seq(Request) /\ Len(Outgoing(s)) = n
             /\ Numbered(Outgoing(s), r + f)
             /\ \A i \in 1 .. n : Outgoing(s)[i].ptype = control
             /\ Queues(u, r, t)
<1> DEFINE n   == Burst(s)
           f   == Len(s.flyingids)
           b   == SubSeq(s.queuedids, 1, n)
           out == {b[i] : i \in 1 .. n}
           u   == sendnext(s)
           og  == Outgoing(s)
<1>1. /\ s \in HWRecord /\ r \in Nat /\ t \in 0 .. NPackets /\ Queues(s, r, t)
      /\ handed \in t .. NPackets /\ t - r <= MaxOutstanding /\ Named(s.flying, handed)
  BY DEF Sendable
<1>2. /\ n \in Nat /\ f \in Nat /\ u \in HWRecord /\ Len(u.flyingids) = f + n
      /\ u.inflight = s.inflight + n /\ u.replied = s.replied
  BY SendnextLists
<1>3. /\ ~u.panicked /\ u.configured = s.configured /\ Queues(u, r, t)
  BY <1>1, SendnextKeeps
<1>4. /\ u.handlinglost = s.handlinglost
      /\ u.timedout = IF Arms(s) THEN NewTicker("on") ELSE s.timedout
      /\ u.aged = s.aged \ out
  BY <1>1, SendnextTimes, Zenon
<1>5. og \in Seq(Request)
  BY <1>1, OutgoingType
<1>6. \A i \in 1 .. n : s.queuedids[i] = Id(r + f + i)
  <2>1. /\ n \in 0 .. Len(s.queuedids) /\ b \in Seq(UInt16) /\ Len(b) = n
        /\ \A i \in 1 .. n : /\ b[i] = s.queuedids[i] /\ b[i] = Id(r + f + i)
                             /\ b[i] \in UInt16
                             /\ s.tosend[b[i]] = r + f + i
                             /\ r + f + i \in 1 .. t
    <3>1. s \in HWRecord /\ r \in Nat /\ t \in 0 .. NPackets /\ Queues(s, r, t)
      BY <1>1
    <3> QED BY <3>1, BatchFacts, Zenon
  <2> QED BY <2>1, Zenon
<1>7. og = [i \in 1 .. n |-> controlPacket(s.queuedids[i], s.tosend[s.queuedids[i]])]
  BY DEF Outgoing
<1>8. s.inflight \in Int
  BY <1>1, Fields
<1>9. Arms(s) => 1 - s.inflight \in 1 .. n
  BY DEF Arms
<1> HIDE DEF n, f, b, out, u, og
<1>10. u.aged = {}
  BY <1>4
<1>11. Clock(u)
  <2>1. CASE Arms(s)
    <3>1. u.timedout = NewTicker("on")
      BY <1>4, <2>1
    <3>2. u.timedout.run = "on" /\ ~u.timedout.tick
      BY <3>1 DEF NewTicker
    <3>3. u.inflight > 0
      BY <1>2, <1>8, <1>9, <2>1
    <3> QED BY <3>2, <3>3 DEF Clock
  <2>2. CASE ~Arms(s)
    <3>1. u.timedout = s.timedout
      BY <1>4, <2>2
    <3>2. s.inflight > 0 => u.inflight > 0
      BY <1>2, <1>8
    <3> QED BY <3>1, <3>2 DEF Clock
  <2> QED BY <2>1, <2>2
<1>12. Len(og) = n /\ \A i \in 1 .. n : og[i].ptype = control /\ og[i].id = Id(r + f + i)
  <2>1. Len(og) = n
    BY <1>2, <1>7
  <2>2. ASSUME NEW i \in 1 .. n PROVE og[i].ptype = control /\ og[i].id = Id(r + f + i)
    <3>1. og[i] = controlPacket(s.queuedids[i], s.tosend[s.queuedids[i]])
      BY <1>7
    <3>2. og[i].ptype = control /\ og[i].id = s.queuedids[i]
      BY <3>1 DEF controlPacket
    <3> QED BY <1>6, <3>2
  <2> QED BY <2>1, <2>2
<1>13. Numbered(og, r + f)
  BY <1>12 DEF Numbered
<1> QED BY <1>2, <1>3, <1>4, <1>5, <1>10, <1>11, <1>12, <1>13, Zenon DEF n, f, u, og

\* The reply to the oldest packet moves the timeout to the next one, which is
\* not overdue, or stops it.
LEMMA LandCalm ==
  ASSUME NEW s \in HWRecord, NEW id \in UInt16, s.flyingids # <<>>, s.flyingids[1] = id,
         s.aged = {}, Clock(s)
  PROVE  LET u == land(s, id)
         IN  u.aged = {} /\ Clock(u) /\ u.handlinglost = s.handlinglost
<1> DEFINE freed == [s EXCEPT !.inflight = @ - 1]
           stopped == [freed EXCEPT !.timedout = Stop(@)]
           timed == updatetimeout(stopped)
           fly   == [timed.flying EXCEPT ![id] = NoPacket]
           Calmed(u) == u.aged = {} /\ Clock(u) /\ u.handlinglost = s.handlinglost
<1>1. /\ freed \in HWRecord /\ freed.timedout = s.timedout /\ freed.aged = {}
      /\ freed.handlinglost = s.handlinglost
  <2>1. s.inflight \in Int
    BY Fields
  <2>2. s.inflight - 1 \in Int
    BY <2>1
  <2>3. freed = [s EXCEPT !.inflight = s.inflight - 1]
    OBVIOUS
  <2> HIDE DEF freed
  <2> QED BY <2>2, <2>3 DEF HWRecord
<1>2. /\ stopped \in HWRecord /\ stopped.timedout = Stop(s.timedout) /\ stopped.aged = {}
      /\ stopped.handlinglost = s.handlinglost
  <2> HIDE DEF freed
  <2>1. Stop(freed.timedout) \in Ticker
    BY <1>1, Fields, TickerType
  <2> QED BY <1>1, <2>1 DEF HWRecord
<1>3. stopped.timedout.run = "off" /\ ~stopped.timedout.tick
  <2>1. s.timedout \in Ticker /\ ~s.timedout.tick
    BY Fields DEF Clock
  <2> QED BY <1>2, <2>1 DEF Stop, Ticker
<1> HIDE DEF stopped
<1>4. timed \in HWRecord /\ Calmed(timed)
  <2>1. timed \in HWRecord
    BY <1>2, UpdatetimeoutType
  <2>2. CASE Retimes(stopped)
    <3> DEFINE first == stopped.flyingids[2]
               overdue == stopped.flying[first] # NoPacket /\ first \in stopped.aged
    <3>0. timed = [stopped EXCEPT !.timedout = NewTicker(IF overdue THEN "due" ELSE "on"),
                                  !.timeoutid = first]
      <4>1. ~(stopped.inflight <= 0)
        BY <1>2, <2>2, Fields DEF Retimes
      <4> QED BY <2>2, <4>1, Zenon DEF updatetimeout
    <3>1. timed = [stopped EXCEPT !.timedout = NewTicker("on"), !.timeoutid = first]
      <4>1. ~overdue
        BY <1>2
      <4> HIDE DEF overdue
      <4> QED BY <3>0, <4>1
    <3>2. NewTicker("on").run = "on" /\ ~NewTicker("on").tick
      BY DEF NewTicker
    <3>3. stopped.inflight > 0
      BY <2>2 DEF Retimes
    <3> HIDE DEF timed, first
    <3>4. /\ timed.timedout = NewTicker("on") /\ timed.inflight = stopped.inflight
          /\ timed.aged = stopped.aged /\ timed.handlinglost = stopped.handlinglost
      BY <1>2, <3>1 DEF HWRecord
    <3> QED BY <1>2, <2>1, <3>2, <3>3, <3>4 DEF Clock
  <2>3. CASE ~Retimes(stopped) /\ stopped.inflight > 0
    <3>1. timed = stopped
      BY <2>3, <1>2, Fields DEF updatetimeout
    <3> HIDE DEF timed
    <3> QED BY <1>2, <1>3, <3>1 DEF Clock
  <2>4. CASE stopped.inflight <= 0
    <3>0. stopped.inflight \in Int
      BY <1>2, Fields
    <3>1. timed = [stopped EXCEPT !.timedout = Stop(@)]
      BY <2>4, <3>0 DEF updatetimeout, Retimes
    <3>2. Stop(stopped.timedout) = stopped.timedout
      BY <1>2, <1>3, Fields DEF Stop, Ticker
    <3> HIDE DEF timed
    <3>3. timed.timedout = stopped.timedout /\ timed.aged = stopped.aged
          /\ timed.handlinglost = stopped.handlinglost
      BY <1>2, <3>1, <3>2 DEF HWRecord
    <3> QED BY <1>2, <1>3, <2>1, <3>3 DEF Clock
  <2>5. stopped.inflight \in Int
    BY <1>2, Fields
  <2> QED BY <2>1, <2>2, <2>3, <2>4, <2>5
<1>5. land(s, id) = [timed EXCEPT !.flying = fly]
  BY DEF land, stopped
<1> HIDE DEF timed, fly
<1> DEFINE u == land(s, id)
<1>6. /\ u.aged = timed.aged /\ u.timedout = timed.timedout /\ u.inflight = timed.inflight
      /\ u.handlinglost = timed.handlinglost
  BY <1>4, <1>5 DEF HWRecord
<1> HIDE DEF u
<1>7. Calmed(u)
  BY <1>4, <1>6 DEF Clock
<1> QED BY <1>7 DEF u

\* Before the device is configured no packet has been handed over: there is none
\* in flight, on the wire or at the device.
LEMMA BeforeConfigured ==
  ASSUME TypeOK, Live, ~h.configured
  PROVE  /\ handed = 0 /\ Len(returned) = 0 /\ Len(h.flyingids) = 0 /\ Len(incoming) = 0
         /\ Len(accepted) = 0 /\ answered = 0 /\ config # "done"
         /\ \A i \in 1 .. Len(requests) : requests[i].ptype # control
         /\ \A i \in 1 .. Len(responses) : responses[i].id = 0
         /\ \A i \in 1 .. Len(replies) : replies[i].id = 0
<1> DEFINE a == Len(returned)
           b == Len(h.flyingids)
           c == Len(h.queuedids)
           d == Len(incoming)
           e == Len(accepted)
<1>1. handed = 0 /\ config # "done"
  BY DEF Live, Configured
<1>2. a \in Nat /\ d \in Nat /\ e \in Nat /\ answered \in 0 .. e /\ h \in HWRecord
  BY Types
<1>3. b \in Nat /\ c \in Nat
  BY <1>2, Fields
<1>4. a + b + c = handed - d /\ d <= handed /\ e <= handed
  BY DEF Live, Queued, Queues, Waiting, Executed
<1>5. \A id, p : ~Carries(id, p, handed)
  <2>1. 1 .. handed = {}
    BY <1>1
  <2> HIDE DEF a, b, c, d, e
  <2> QED BY <2>1 DEF Carries
<1>6. /\ \A i \in 1 .. Len(requests) : requests[i].ptype # control
      /\ \A i \in 1 .. Len(responses) : responses[i].id = 0
      /\ \A i \in 1 .. Len(replies) : replies[i].id = 0
  BY <1>5 DEF Live, OnWire
<1> HIDE DEF a, b, c, d, e
<1>7. a = 0 /\ b = 0 /\ d = 0 /\ e = 0 /\ answered = 0
  BY <1>1, <1>2, <1>3, <1>4
<1> QED BY <1>1, <1>6, <1>7 DEF a, b, d, e

\* A step that leaves the line, the client and its goroutines alone.
LEMMA CalmUnmoved ==
  ASSUME Calm, UNCHANGED <<h, watched, lost, requests, responses, replies, returned,
                           accepted, answered>>
  PROVE  Calm'
BY DEF Calm, Stream, Still, Clock, Numbered

\* In order means that the first datagram is delivered first.
LEMMA FirstDelivered ==
  ASSUME Orderly, NEW q, NEW i \in Deliverable(q)
  PROVE  i = 1 /\ 1 \in 1 .. Len(q)
BY DEF Orderly, Deliverable

\* receive moves the first reply of the line behind those already read.
LEMMA ReceiveCalm ==
  ASSUME Orderly, TypeOK, Calm, receive
  PROVE  Calm'
<1>1. PICK i \in Deliverable(responses) : /\ replies' = Append(replies, responses[i])
                                          /\ responses' = Without(responses, i)
  BY DEF receive
<1>2. i = 1 /\ 1 \in 1 .. Len(responses)
  BY FirstDelivered
<1>3. UNCHANGED <<h, watched, lost, requests, returned, accepted, answered>>
  BY DEF receive, devVars
<1>4. /\ Still(h') /\ watched' = Current /\ (\A g \in Handlers : lost'[g].pc = "idle")
      /\ \A k \in 1 .. Len(requests') : requests'[k].ptype # resend
  BY <1>3 DEF Calm
<1>5. ASSUME h'.configured PROVE Stream(h.inflight)'
  <2> DEFINE a == Len(replies)
             b == Len(responses)
             r == Len(returned)
  <2>1. Stream(h.inflight)
    BY <1>3, <1>5 DEF Calm
  <2>2. /\ responses \in Seq(Response) /\ replies \in Seq(Response)
        /\ a \in Nat /\ b \in Nat /\ r \in Nat
    BY Types
  <2>3. r + a + b = answered /\ Numbered(replies, r) /\ Numbered(responses, r + a)
    BY <2>1 DEF Stream
  <2>4. r + a \in Nat
    BY <2>2
  <2>5. /\ responses[1].id = Id(r + a + 1) /\ Numbered(responses', r + a + 1)
        /\ Len(responses') = b - 1
    BY <1>1, <1>2, <2>2, <2>3, <2>4, NumberedFirst
  <2>6. responses[1] \in Response
    BY <1>2, <2>2
  <2>7. Len(replies') = a + 1 /\ Numbered(replies', r)
    BY <1>1, <1>2, <2>2, <2>3, <2>5, <2>6, NumberedAppend
  <2> HIDE DEF a, b, r
  <2>8. r + (a + 1) + (b - 1) = answered /\ r + (a + 1) = r + a + 1
    BY <2>2, <2>3
  <2>9. /\ Len(returned') = r /\ answered' = answered
    BY <1>3 DEF r
  <2>10. /\ Len(returned') + Len(replies') + Len(responses') = answered'
         /\ Numbered(replies', Len(returned'))
         /\ Numbered(responses', Len(returned') + Len(replies'))
    BY <2>5, <2>7, <2>8, <2>9
  <2>11. /\ Len(accepted') + Len(requests') = Len(returned') + h'.inflight
         /\ Numbered(requests', Len(accepted'))
         /\ \A k \in 1 .. Len(requests') : requests'[k].ptype = control
    BY <1>3, <2>1 DEF Stream
  <2> QED BY <2>10, <2>11 DEF Stream
<1> QED BY <1>4, <1>5 DEF Calm

\* A status is read only before the device is configured.
LEMMA StatusCalm ==
  ASSUME Regime, TypeOK, Live, Calm, RunStatus
  PROVE  Calm'
<1>1. replies # <<>> /\ Head(replies).id = 0
  BY DEF RunStatus
<1>2. /\ UNCHANGED <<h, lost, requests, responses, returned, accepted, answered>>
      /\ watched' = Current
  BY DEF RunStatus, wireVars, devVars
<1>3. ~h.configured
  <2> SUFFICES ASSUME h.configured PROVE FALSE
    OBVIOUS
  <2>1. Numbered(replies, Len(returned))
    BY DEF Calm, Stream
  <2>2. replies \in Seq(Response) /\ Len(returned) \in Nat
    BY Types
  <2>3. Head(replies).id = Id(Len(returned) + 1)
    BY <1>1, <2>1, <2>2, NumberedTail
  <2>4. Len(returned) + 1 \in 1 .. NPackets + 1
    BY ReturnedFew
  <2>5. Id(Len(returned) + 1) # 0
    BY <2>4, IdType
  <2> QED BY <1>1, <2>3, <2>5
<1> QED BY <1>2, <1>3 DEF Calm

\* ConfigDevice asks once, before there is a line.
LEMMA ConfigRequestCalm ==
  ASSUME TypeOK, Live, Calm, ConfigRequest
  PROVE  Calm'
<1>1. /\ requests' = Append(requests, newStatusPacket) /\ config = "request"
      /\ UNCHANGED <<h, watched, lost>>
  BY DEF ConfigRequest
<1>2. ~h'.configured
  BY <1>1 DEF Live, Configured
<1>3. newStatusPacket \in Request /\ newStatusPacket.ptype # resend
  BY Constants DEF newStatusPacket, Request, control, status, resend, NoPacket
<1>4. requests \in Seq(Request)
  BY Types
<1>5. \A k \in 1 .. Len(requests') : requests'[k].ptype # resend
  <2>1. \A k \in 1 .. Len(requests') : \/ requests'[k] = newStatusPacket
                                       \/ \E j \in 1 .. Len(requests) : requests'[k] = requests[j]
    BY <1>1, <1>3, <1>4, AppendElems
  <2>2. \A j \in 1 .. Len(requests) : requests[j].ptype # resend
    BY DEF Calm
  <2> HIDE DEF newStatusPacket
  <2> QED BY <1>3, <2>1, <2>2
<1> QED BY <1>1, <1>2, <1>5 DEF Calm

\* An empty line is numbered whatever its number.
LEMMA NumberedNone == ASSUME NEW q, Len(q) = 0, NEW n PROVE Numbered(q, n)
BY DEF Numbered

\* A set of places that counts none is empty.
LEMMA NoHits ==
  ASSUME NEW S, NEW q \in Seq(S), NEW T, Cardinality(Hits(q, T)) = 0
  PROVE  \A i \in 1 .. Len(q) : q[i] \notin T
<1>1. IsFiniteSet(Hits(q, T))
  BY HitsFinite
<1>2. Hits(q, T) = {}
  BY <1>1, FS_EmptySet
<1> QED BY <1>2 DEF Hits

\* A line without any elements has length 0.
LEMMA NoElements ==
  ASSUME NEW S, NEW q \in Seq(S), \A i \in 1 .. Len(q) : FALSE
  PROVE  Len(q) = 0
<1>1. Len(q) \in Nat
  OBVIOUS
<1>2. Len(q) > 0 => 1 \in 1 .. Len(q)
  BY <1>1
<1> QED BY <1>1, <1>2

\* When ConfigDevice gets its status nothing else is under way: the line begins.
LEMMA ConfigStatusCalm ==
  ASSUME Regime, TypeOK, Live, Balance, Calm, ConfigStatus
  PROVE  Calm'
<1>0. /\ requests \in Seq(Request) /\ responses \in Seq(Response) /\ replies \in Seq(Response)
      /\ h \in HWRecord /\ statuses \in Seq(targetstatus)
  BY Types
<1>1. /\ config = "await" /\ statuses # <<>>
      /\ h' = [h EXCEPT !.nextID = Head(statuses).nextid, !.configured = TRUE]
      /\ UNCHANGED <<watched, lost, requests, responses, replies, returned, accepted, answered>>
  BY DEF ConfigStatus, wireVars, devVars
<1>2. ~h.configured
  BY <1>1 DEF Live, Configured
<1>3. /\ Len(returned) = 0 /\ Len(h.flyingids) = 0 /\ Len(accepted) = 0 /\ answered = 0
      /\ \A i \in 1 .. Len(requests) : requests[i].ptype # control
      /\ \A i \in 1 .. Len(responses) : responses[i].id = 0
      /\ \A i \in 1 .. Len(replies) : replies[i].id = 0
  BY <1>2, BeforeConfigured
<1>4. Asked(requests) = 0 /\ Told(responses) = 0 /\ Told(replies) = 0
  <2> DEFINE a == Asked(requests)
             b == Told(responses)
             c == Told(replies)
             d == Len(statuses)
  <2>1. Awaiting(lost) = {}
    BY DEF Awaiting, Calm
  <2>2. Cardinality(Awaiting(lost)) = 0
    BY <2>1, FS_EmptySet
  <2>3. Configuring(config) = 1
    BY <1>1 DEF Configuring
  <2>4. a + b + c + d <= 0 + 1
    BY <2>2, <2>3 DEF Balance
  <2>5. a \in Nat /\ b \in Nat /\ c \in Nat /\ d \in Nat
    BY BalanceTypes
  <2>6. d > 0
    BY <1>0, <1>1, TailElems
  <2> HIDE DEF a, b, c, d
  <2>7. a = 0 /\ b = 0 /\ c = 0
    BY <2>4, <2>5, <2>6
  <2> QED BY <2>7 DEF a, b, c
<1>5. Len(requests) = 0
  <2>1. \A i \in 1 .. Len(requests) : requests[i] \notin StatusRequests
    BY <1>0, <1>4, NoHits DEF Asked
  <2>2. ASSUME NEW i \in 1 .. Len(requests) PROVE FALSE
    <3>1. requests[i] \in Request
      BY <1>0
    <3>2. requests[i].ptype # control /\ requests[i].ptype # resend
      BY <1>3 DEF Calm
    <3>3. requests[i].ptype = status
      BY <3>1, <3>2 DEF Request
    <3> QED BY <2>1, <3>1, <3>3 DEF StatusRequests
  <2> QED BY <1>0, <2>2, NoElements
<1>6. ASSUME NEW q \in Seq(Response), \A i \in 1 .. Len(q) : q[i].id = 0, Told(q) = 0
      PROVE  Len(q) = 0
  <2>1. \A i \in 1 .. Len(q) : q[i] \notin StatusReplies
    BY <1>6, NoHits DEF Told
  <2>2. ASSUME NEW i \in 1 .. Len(q) PROVE FALSE
    <3>1. q[i] \in Response /\ q[i].id = 0
      BY <1>6
    <3> QED BY <2>1, <3>1 DEF StatusReplies
  <2> QED BY <2>2, NoElements
<1>7. Len(responses) = 0 /\ Len(replies) = 0
  BY <1>0, <1>3, <1>4, <1>6
<1>8. /\ h'.inflight = h.inflight /\ h'.flyingids = h.flyingids /\ h'.panicked = h.panicked
      /\ h'.handlinglost = h.handlinglost /\ h'.aged = h.aged /\ h'.timedout = h.timedout
      /\ h'.replied = h.replied
  BY <1>0, <1>1 DEF HWRecord
<1>9. Still(h')
  BY <1>8 DEF Calm, Still, Clock
<1>10. h'.inflight = 0
  BY <1>3, <1>8 DEF Calm, Still
<1>11. Stream(h.inflight)'
  <2>1. /\ Len(returned') = 0 /\ Len(replies') = 0 /\ Len(responses') = 0 /\ answered' = 0
        /\ Len(accepted') = 0 /\ Len(requests') = 0
    BY <1>1, <1>3, <1>5, <1>7
  <2>2. /\ Numbered(replies', Len(returned'))
        /\ Numbered(responses', Len(returned') + Len(replies'))
        /\ Numbered(requests', Len(accepted'))
    BY <2>1, NumberedNone
  <2>3. \A i \in 1 .. Len(requests') : requests'[i].ptype = control
    BY <2>1
  <2>4. /\ Len(returned') + Len(replies') + Len(responses') = answered'
        /\ Len(accepted') + Len(requests') = Len(returned') + h'.inflight
    BY <1>10, <2>1
  <2> QED BY <2>2, <2>3, <2>4 DEF Stream
<1> QED BY <1>1, <1>9, <1>11 DEF Calm

\* The device executes the first request of the line, which is the one it
\* expects, and its reply joins the end of the line.
LEMMA DeviceCalm ==
  ASSUME Regime, Orderly, TypeOK, Live, Calm, DeviceNext, UNCHANGED hwVars
  PROVE  Calm'
<1> DEFINE a == Len(accepted)
           b == Len(requests)
           r == Len(returned)
<1>0. /\ requests \in Seq(Request) /\ responses \in Seq(Response) /\ accepted \in Seq(Request)
      /\ a \in Nat /\ b \in Nat /\ r \in Nat /\ answered \in 0 .. a
      /\ Len(replies) \in Nat /\ Len(responses) \in Nat
  BY Types
<1>1. UNCHANGED <<h, watched, lost, replies, returned>>
  BY DEF hwVars
<1>2. Still(h') /\ watched' = Current /\ \A g \in Handlers : lost'[g].pc = "idle"
  BY <1>1 DEF Calm
<1>3. h.configured => Stream(h.inflight)
  BY DEF Calm
<1>4. \A k \in 1 .. Len(requests) : requests[k].ptype # resend
  BY DEF Calm
<1>5. ASSUME NEW i \in Deliverable(requests), requests' = Without(requests, i)
      PROVE  /\ i = 1 /\ 1 \in 1 .. b /\ requests[1].ptype # resend
             /\ \A k \in 1 .. Len(requests') : requests'[k].ptype # resend
  <2>1. i = 1 /\ 1 \in 1 .. b
    BY FirstDelivered
  <2>2. \A k \in 1 .. Len(requests') : \E j \in 1 .. Len(requests) : requests'[k] = requests[j]
    BY <1>0, <1>5, <2>1, WithoutElems
  <2> QED BY <1>4, <2>1, <2>2
<1>6. CASE DeviceControl
  <2>1. PICK i \in Deliverable(requests) :
          /\ requests[i].ptype = control /\ requests' = Without(requests, i)
          /\ IF requests[i].id = expects
             THEN accepted' = Append(accepted, requests[i])
             ELSE accepted' = accepted
          /\ UNCHANGED <<answered, responses>>
    BY <1>6 DEF DeviceControl
  <2>2. /\ i = 1 /\ 1 \in 1 .. b
        /\ \A k \in 1 .. Len(requests') : requests'[k].ptype # resend
    BY <1>5, <2>1
  <2>3. h.configured
    <3> SUFFICES ASSUME ~h.configured PROVE FALSE
      OBVIOUS
    <3>1. \A k \in 1 .. Len(requests) : requests[k].ptype # control
      BY BeforeConfigured
    <3> QED BY <2>1, <2>2, <3>1
  <2>4. /\ r + Len(replies) + Len(responses) = answered /\ a + b = r + h.inflight
        /\ Numbered(replies, r) /\ Numbered(responses, r + Len(replies))
        /\ Numbered(requests, a)
        /\ \A k \in 1 .. b : requests[k].ptype = control
    BY <1>3, <2>3 DEF Stream
  <2>5. /\ requests[1].id = Id(a + 1) /\ Numbered(requests', a + 1)
        /\ Len(requests') = b - 1
        /\ \A k \in 1 .. b - 1 : requests'[k] = requests[k + 1]
    BY <1>0, <2>1, <2>2, <2>4, NumberedFirst
  <2>6. expects = Id(a + 1)
    BY DEF Live, Executed
  <2>7. accepted' = Append(accepted, requests[1])
    BY <2>1, <2>2, <2>5, <2>6
  <2>8. Len(accepted') = a + 1
    <3>1. requests[1] \in Request
      BY <1>0, <2>2
    <3> QED BY <1>0, <2>7, <3>1, AppendElems
  <2>9. \A k \in 1 .. Len(requests') : requests'[k].ptype = control
    <3> HIDE DEF b
    <3> SUFFICES ASSUME NEW k \in 1 .. b - 1 PROVE requests'[k].ptype = control
      BY <2>5
    <3>1. k + 1 \in 1 .. b
      BY <1>0
    <3> QED BY <2>4, <2>5, <3>1
  <2>10. /\ Len(returned') = r /\ replies' = replies /\ responses' = responses
         /\ answered' = answered /\ h'.inflight = h.inflight
    BY <1>1, <2>1
  <2> HIDE DEF a, b, r
  <2>11. a + 1 + (b - 1) = a + b
    BY <1>0
  <2>12. Stream(h.inflight)'
    BY <2>4, <2>5, <2>8, <2>9, <2>10, <2>11 DEF Stream
  <2> QED BY <1>2, <2>2, <2>12 DEF Calm
<1>7. CASE DeviceReply
  <2> DEFINE c == Len(responses)
             d == Len(replies)
             e == controlReply(accepted[answered + 1].id, accepted[answered + 1].pkt)
  <2>1. /\ answered < a /\ answered' = answered + 1 /\ responses' = Append(responses, e)
        /\ UNCHANGED <<accepted, requests>>
    BY <1>7 DEF DeviceReply
  <2>2. h.configured
    <3> SUFFICES ASSUME ~h.configured PROVE FALSE
      OBVIOUS
    <3>1. a = 0 /\ answered = 0
      BY BeforeConfigured
    <3> QED BY <2>1, <3>1
  <2>3. /\ r + d + c = answered /\ a + b = r + h.inflight
        /\ Numbered(replies, r) /\ Numbered(responses, r + d)
        /\ Numbered(requests, a)
        /\ \A k \in 1 .. b : requests[k].ptype = control
    BY <1>3, <2>2 DEF Stream
  <2>4. answered + 1 \in 1 .. a
    <3> HIDE DEF a
    <3> QED BY <1>0, <2>1
  <2>5. e.id = Id(answered + 1) /\ e \in Response
    <3>1. accepted[answered + 1].id = Id(answered + 1)
      BY <2>4 DEF Live, Executed
    <3>2. e \in Response
      BY <2>4, ReplyCarries DEF Live
    <3>3. e.id = accepted[answered + 1].id
      BY DEF controlReply
    <3> HIDE DEF e
    <3> QED BY <3>1, <3>2, <3>3
  <2>6. r + d \in Nat /\ r + d + c + 1 = answered + 1 /\ r + d + (c + 1) = answered + 1
    <3> HIDE DEF a, b, c, d, r
    <3>1. r \in Nat /\ d \in Nat /\ c \in Nat
      BY <1>0 DEF c, d
    <3> QED BY <2>3, <3>1
  <2> HIDE DEF e
  <2>7. Len(responses') = c + 1 /\ Numbered(responses', r + d)
    <3>1. e.id = Id(r + d + Len(responses) + 1)
      BY <2>5, <2>6
    <3> QED BY <1>0, <2>1, <2>3, <2>5, <2>6, <3>1, NumberedAppend
  <2>8. /\ Len(returned') = r /\ replies' = replies /\ h'.inflight = h.inflight
        /\ Len(accepted') = a /\ requests' = requests
    BY <1>1, <2>1
  <2>9. Stream(h.inflight)'
    BY <2>1, <2>3, <2>6, <2>7, <2>8 DEF Stream
  <2>10. \A k \in 1 .. Len(requests') : requests'[k].ptype # resend
    BY <1>4, <2>8
  <2> QED BY <1>2, <2>9, <2>10 DEF Calm
<1>8. CASE DeviceStatus
  <2>1. PICK i \in Deliverable(requests) :
          requests[i].ptype = status /\ requests' = Without(requests, i)
    BY <1>8 DEF DeviceStatus
  <2>2. /\ i = 1 /\ 1 \in 1 .. b
        /\ \A k \in 1 .. Len(requests') : requests'[k].ptype # resend
    BY <1>5, <2>1
  <2>3. ~h'.configured
    <3> SUFFICES ASSUME h.configured PROVE FALSE
      BY <1>1
    <3>1. requests[1].ptype = control
      BY <1>3, <2>2 DEF Stream
    <3> QED BY <2>1, <2>2, <3>1 DEF control, status
  <2> QED BY <1>2, <2>2, <2>3 DEF Calm
<1>9. CASE DeviceResend
  <2>1. PICK i \in Deliverable(requests) :
          requests[i].ptype = resend /\ requests' = Without(requests, i)
    BY <1>9 DEF DeviceResend
  <2> QED BY <1>5, <2>1
<1> QED BY <1>6, <1>7, <1>8, <1>9 DEF DeviceNext

\* What sendnext writes joins the line behind the requests under way.
LEMMA BurstStream ==
  ASSUME TypeOK, Calm, h.configured, NEW o \in Seq(Request),
         Numbered(o, Len(returned) + Len(h.flyingids)),
         \A i \in 1 .. Len(o) : o[i].ptype = control
  PROVE  /\ Len(requests \o o) = Len(requests) + Len(o)
         /\ Len(accepted) + Len(requests \o o) = Len(returned) + h.inflight + Len(o)
         /\ Numbered(requests \o o, Len(accepted))
         /\ \A i \in 1 .. Len(requests \o o) : (requests \o o)[i].ptype = control
<1> DEFINE a == Len(accepted)
           b == Len(requests)
           c == Len(o)
           r == Len(returned)
           f == h.inflight
<1>1. a \in Nat /\ b \in Nat /\ c \in Nat /\ r \in Nat /\ requests \in Seq(Request)
  BY Types
<1>2. f \in Int
  BY Types, Fields
<1>3. a + b = r + f /\ Numbered(requests, a) /\ f = Len(h.flyingids)
      /\ \A i \in 1 .. b : requests[i].ptype = control
  BY DEF Calm, Stream, Still
<1>4. Numbered(o, a + b)
  BY <1>3
<1>5. Len(requests \o o) = b + c /\ Numbered(requests \o o, a)
  BY <1>1, <1>3, <1>4, NumberedConcat
<1>6. \A i \in 1 .. Len(requests \o o) : (requests \o o)[i].ptype = control
  <2>1. \A i \in 1 .. Len(requests \o o) :
          \/ \E j \in 1 .. b : (requests \o o)[i] = requests[j]
          \/ \E j \in 1 .. c : (requests \o o)[i] = o[j]
    BY <1>1, ConcatElems
  <2> QED BY <1>3, <2>1
<1> HIDE DEF a, b, c, r, f
<1>7. a + (b + c) = r + f + c
  <2>1. a \in Nat /\ b \in Nat /\ c \in Nat /\ r \in Nat /\ a + b = r + f
    BY <1>1, <1>3
  <2> QED BY <1>2, <2>1
<1> QED BY <1>5, <1>6, <1>7 DEF a, b, c, r, f

\* A new packet finds room, and goes out behind the others if there is a slot.
LEMMA IncomingCalm ==
  ASSUME Regime, Orderly, TypeOK, Live, Calm, RunIncoming
  PROVE  Calm'
<1> DEFINE s == enqueue(h, Head(incoming))
           o == Outgoing(s)
           t == handed - Len(incoming) + 1
           n == Burst(s)
<1>0. Still(h) /\ ~h.panicked /\ h \in HWRecord
  BY Types DEF Calm, Still
<1>1. incoming # <<>>
  BY DEF RunIncoming
<1>2. /\ ~s.panicked /\ Same(s, h) /\ Sendable(s, Len(returned), t)
      /\ s.timedout = h.timedout /\ s.handlinglost = h.handlinglost /\ s.aged = h.aged
      /\ h.configured /\ s.configured = h.configured
  <2>1. MaxOutstanding <= QueuedMax
    BY DEF Orderly
  <2> QED BY <1>0, <1>1, <2>1, EnqueueFits
<1>3. /\ h' = sendnext(s) /\ requests' = requests \o o /\ watched' = Current
      /\ UNCHANGED <<replies, responses, lost, returned, accepted, answered>>
  <2>1. h' = sendnext(s) /\ requests' = requests \o o
    BY <1>2, IncomingSends, Zenon
  <2>2. /\ watched' = Current
        /\ UNCHANGED <<replies, responses, lost, returned, accepted, answered>>
    BY DEF RunIncoming, devVars
  <2> QED BY <2>1, <2>2
<1>4. /\ s.flyingids = h.flyingids /\ s.replied = h.replied /\ s.inflight = h.inflight
  BY <1>2 DEF Same
<1>5. ~s.panicked /\ s.aged = {} /\ Clock(s)
  BY <1>0, <1>2, <1>4 DEF Still, Clock
<1> HIDE DEF s
<1>6. /\ n \in Nat /\ ~h'.panicked /\ h'.aged = {} /\ Clock(h')
      /\ h'.handlinglost = s.handlinglost /\ h'.replied = s.replied
      /\ h'.inflight = s.inflight + n /\ Len(h'.flyingids) = Len(s.flyingids) + n
      /\ o \in Seq(Request) /\ Len(o) = n
      /\ Numbered(o, Len(returned) + Len(s.flyingids))
      /\ \A i \in 1 .. n : o[i].ptype = control
  BY <1>2, <1>3, <1>5, SendnextCalm, Zenon
<1> HIDE DEF o, n
<1>7. Still(h')
  BY <1>0, <1>2, <1>4, <1>6 DEF Still
<1>8. /\ Len(accepted) + Len(requests') = Len(returned) + h.inflight + Len(o)
      /\ Numbered(requests', Len(accepted))
      /\ \A i \in 1 .. Len(requests') : requests'[i].ptype = control
  BY <1>2, <1>3, <1>4, <1>6, BurstStream
<1>9. Stream(h.inflight)'
  <2>1. Stream(h.inflight)
    BY <1>2 DEF Calm
  <2>2. /\ Len(returned') + Len(replies') + Len(responses') = answered'
        /\ Numbered(replies', Len(returned'))
        /\ Numbered(responses', Len(returned') + Len(replies'))
    BY <1>3, <2>1 DEF Stream
  <2>3. Len(returned) + h.inflight + Len(o) = Len(returned) + h'.inflight
    <3> DEFINE r == Len(returned)
    <3>1. r \in Nat /\ h.inflight \in Int
      BY Types, Fields
    <3> HIDE DEF r
    <3>2. r + h.inflight + n = r + (h.inflight + n)
      BY <1>6, <3>1
    <3> QED BY <1>4, <1>6, <3>2 DEF r
  <2> QED BY <1>3, <1>8, <2>2, <2>3 DEF Stream
<1>10. \A i \in 1 .. Len(requests') : requests'[i].ptype # resend
  BY <1>8 DEF control, resend
<1>11. \A g \in Handlers : lost'[g].pc = "idle"
  BY <1>3 DEF Calm
<1> QED BY <1>3, <1>7, <1>9, <1>10, <1>11 DEF Calm

\* The reply Run reads is to the oldest packet in flight.
LEMMA HeadCalm ==
  ASSUME Regime, TypeOK, Live, Tracked(h), Calm, replies # <<>>, Head(replies).id # 0
  PROVE  /\ h.configured /\ Head(replies).id = Id(Len(returned) + 1)
         /\ Len(h.flyingids) > 0 /\ h.flyingids[1] = Id(Len(returned) + 1)
         /\ Id(Len(returned) + 1) \in UInt16
         /\ h.flying[Id(Len(returned) + 1)] # NoPacket
<1> DEFINE r == Len(returned)
           a == Len(accepted)
           b == Len(requests)
           c == Len(replies)
           d == Len(responses)
           f == Len(h.flyingids)
<1>0. /\ replies \in Seq(Response) /\ h \in HWRecord
      /\ r \in Nat /\ a \in Nat /\ b \in Nat /\ c \in Nat /\ d \in Nat
      /\ answered \in 0 .. a
  BY Types
<1>1. c > 0 /\ Head(replies) = replies[1] /\ 1 \in 1 .. c
  BY <1>0, TailElems
<1>2. h.configured
  <2> SUFFICES ASSUME ~h.configured PROVE FALSE
    OBVIOUS
  <2>1. \A i \in 1 .. Len(replies) : replies[i].id = 0
    BY BeforeConfigured
  <2> QED BY <1>1, <2>1
<1>3. r + c + d = answered /\ a + b = r + h.inflight /\ Numbered(replies, r)
  BY <1>2 DEF Calm, Stream
<1>4. h.inflight = f /\ \A id \in UInt16 : h.replied[id] = NoPacket
  BY DEF Calm, Still
<1>5. f \in Nat
  BY <1>0, Fields
<1>6. Head(replies).id = Id(r + 1)
  BY <1>0, <1>3, NumberedTail
<1>7. f > 0
  <2> HIDE DEF r, a, b, c, d, f
  <2>1. r + c + d = answered /\ a + b = r + f /\ c > 0
    BY <1>1, <1>3, <1>4
  <2>2. r \in Nat /\ a \in Nat /\ b \in Nat /\ c \in Nat /\ d \in Nat /\ answered \in 0 .. a
    BY <1>0
  <2> QED BY <1>5, <2>1, <2>2
<1>8. 1 \in 1 .. f
  <2> HIDE DEF f
  <2> QED BY <1>5, <1>7
<1>9. h.flyingids[1] = Id(r + 1)
  BY <1>8 DEF Live, Queued, Queues
<1>10. r + 1 \in 1 .. NPackets + 1
  BY ReturnedFew
<1>11. Id(r + 1) \in UInt16
  BY <1>10, IdType
<1>12. h.flying[Id(r + 1)] # NoPacket
  BY <1>4, <1>8, <1>9, <1>11 DEF Tracked
<1> QED BY <1>2, <1>6, <1>7, <1>9, <1>11, <1>12

\* p is the only packet in replied, under id.
OnlyReply(s, id, p) == \A k \in UInt16 : s.replied[k] = IF k = id THEN p ELSE NoPacket

\* Exactly the oldest packet is handed back when its reply is the only one kept.
LEMMA ReturnsOne ==
  ASSUME Regime, NEW t \in HWRecord, NEW r \in Nat, NEW m \in 0 .. NPackets, Queues(t, r, m),
         Len(t.flyingids) > 0, NEW p, p # NoPacket, OnlyReply(t, Id(r + 1), p),
         NEW n \in 0 .. Len(t.flyingids), Returns(t, n)
  PROVE  /\ n = 1 /\ Len(Handback(t, n)) = 1 /\ Handback(t, n)[1] = p
         /\ Len(returnreply(t, n).flyingids) = Len(t.flyingids) - 1
         /\ \A id \in UInt16 : returnreply(t, n).replied[id] = NoPacket
<1> DEFINE f == Len(t.flyingids)
           u == returnreply(t, n)
<1>1. /\ n \in Nat /\ f \in Nat /\ Len(u.flyingids) = f - n
      /\ \A i \in 1 .. f : t.flyingids[i] \in UInt16
      /\ \A i, j \in 1 .. f : t.flyingids[i] = t.flyingids[j] => i = j
      /\ \A i \in 1 .. n : u.replied[t.flyingids[i]] = NoPacket
      /\ \A id \in UInt16 : u.replied[id] \in {t.replied[id], NoPacket}
  BY ReturnreplyLists
<1>2. f > 0 /\ n \in 0 .. f
  OBVIOUS
<1>3. t.flyingids[1] = Id(r + 1)
  BY <1>1 DEF Queues
<1>4. t.replied[t.flyingids[1]] = p
  <2>1. t.flyingids[1] \in UInt16
    BY <1>1
  <2> QED BY <1>3, <2>1 DEF OnlyReply
<1>5. n # 0
  <2>1. n < Len(t.flyingids) =>
          ~(/\ t.replied[t.flyingids[n + 1]] # NoPacket
            /\ \A j \in 1 .. (n + 1) - 1 : t.flyingids[j] # t.flyingids[n + 1])
    BY DEF Returns
  <2> SUFFICES ASSUME n = 0 PROVE FALSE
    OBVIOUS
  <2>2. n < Len(t.flyingids) /\ n + 1 = 1 /\ (n + 1) - 1 = 0
    OBVIOUS
  <2>3. \A j \in 1 .. (n + 1) - 1 : t.flyingids[j] # t.flyingids[n + 1]
    BY <2>2
  <2> QED BY <1>4, <2>1, <2>2, <2>3
<1>6. ~(n > 1)
  <2> SUFFICES ASSUME n > 1 PROVE FALSE
    OBVIOUS
  <2>1. 2 \in 1 .. n
    BY <1>1
  <2>2. t.replied[t.flyingids[2]] # NoPacket
    BY <2>1 DEF Returns
  <2> HIDE DEF f
  <2>3. 2 \in 1 .. f /\ 1 \in 1 .. f
    BY <1>1, <1>2, <2>1
  <2>4. t.flyingids[2] # t.flyingids[1] /\ t.flyingids[2] \in UInt16
    BY <1>1, <2>3
  <2> QED BY <1>3, <2>2, <2>4 DEF OnlyReply
<1>7. n = 1
  <2> HIDE DEF f
  <2> QED BY <1>1, <1>5, <1>6
<1>8. Len(Handback(t, n)) = 1 /\ Handback(t, n)[1] = p
  <2>1. Handback(t, n) = [i \in 1 .. 1 |-> t.replied[t.flyingids[i]]]
    BY <1>7 DEF Handback
  <2> QED BY <1>4, <2>1
<1>9. \A id \in UInt16 : u.replied[id] = NoPacket
  <2> SUFFICES ASSUME NEW id \in UInt16 PROVE u.replied[id] = NoPacket
    OBVIOUS
  <2>1. CASE id = Id(r + 1)
    BY <1>1, <1>3, <1>7, <2>1
  <2>2. CASE id # Id(r + 1)
    BY <1>1, <2>2 DEF OnlyReply
  <2> QED BY <2>1, <2>2
<1> QED BY <1>1, <1>7, <1>8, <1>9

\* The reply to the oldest packet hands it back and lets the next ones out.
LEMMA ReplyCalm ==
  ASSUME Regime, TypeOK, Live, Tracked(h), Calm, RunReply
  PROVE  Calm'
<1> DEFINE r   == Len(returned)
           m   == handed - Len(incoming)
           id1 == Head(replies).id
           req == h.flying[id1]
           s   == land(h, id1)
           u   == sendnext(s)
           t   == [u EXCEPT !.replied[id1] = req]
           k   == Burst(s)
           o   == Outgoing(s)
           f   == Len(h.flyingids)
<1>0. /\ h \in HWRecord /\ r \in Nat /\ returned \in Seq(Packets) /\ replies \in Seq(Response)
      /\ replies # <<>> /\ id1 # 0 /\ Still(h)
  BY Types DEF RunReply, Calm
<1>1. /\ h.configured /\ id1 = Id(r + 1) /\ f > 0 /\ h.flyingids[1] = id1 /\ id1 \in UInt16
  BY <1>0, HeadCalm
<1>24. h.flyingids # <<>>
  <2>1. Len(<<>>) = 0 /\ ~(0 > 0)
    OBVIOUS
  <2> QED BY <1>1, <2>1, Zenon
<1>2. PICK n \in 0 .. Len(t.flyingids) :
        Returns(t, n) /\ h' = returnreply(t, n) /\ returned' = returned \o Handback(t, n)
  BY <1>24, ReplyLanded, Zenon
<1>3. /\ req # NoPacket /\ requests' = requests \o o /\ replies' = Tail(replies)
      /\ watched' = Current /\ UNCHANGED <<lost, responses, accepted, answered>>
  <2>1. requests' = requests \o o
    BY <1>24, ReplyLanded, Zenon
  <2>2. /\ req # NoPacket /\ replies' = Tail(replies)
        /\ watched' = Current /\ UNCHANGED <<lost, responses, accepted, answered>>
    BY DEF RunReply, devVars
  <2> QED BY <2>1, <2>2
<1>4. req \in Packets
  BY <1>0, <1>1, <1>3, Fields
<1>5. /\ Sendable(s, r, m) /\ s.flyingids = h.flyingids /\ s.replied = h.replied
      /\ s.inflight = h.inflight - 1 /\ s.panicked = h.panicked
      /\ s.configured = h.configured
  BY <1>1, LandSendable
<1>6. s.aged = {} /\ Clock(s) /\ s.handlinglost = h.handlinglost
  <2>1. h.aged = {} /\ Clock(h)
    BY <1>0 DEF Still
  <2> QED BY <1>0, <1>1, <1>24, <2>1, LandCalm
<1>7. ~s.panicked
  BY <1>0, <1>5 DEF Still
<1> HIDE DEF s, id1, req
<1>8. /\ k \in Nat /\ u \in HWRecord /\ ~u.panicked /\ u.aged = {} /\ Clock(u)
      /\ u.handlinglost = s.handlinglost /\ u.replied = s.replied
      /\ u.configured = s.configured
      /\ u.inflight = s.inflight + k /\ Len(u.flyingids) = Len(s.flyingids) + k
      /\ o \in Seq(Request) /\ Len(o) = k
      /\ Numbered(o, r + Len(s.flyingids))
      /\ (\A i \in 1 .. k : o[i].ptype = control) /\ Queues(u, r, m)
  BY <1>5, <1>6, <1>7, SendnextCalm, Zenon
<1>9. m \in 0 .. NPackets
  BY <1>5 DEF Sendable
<1> HIDE DEF u, k, o, m
<1>10. /\ t \in HWRecord /\ t.replied = [u.replied EXCEPT ![id1] = req]
       /\ t.timedout = u.timedout /\ t.handlinglost = u.handlinglost /\ t.aged = u.aged
       /\ t.inflight = u.inflight /\ t.panicked = u.panicked
       /\ t.flyingids = u.flyingids
       /\ t.tosend = u.tosend /\ t.queuedids = u.queuedids
       /\ t.configured = u.configured
  BY <1>1, <1>4, <1>8, StoreReply
<1> HIDE DEF t
<1>11. Queues(t, r, m)
  BY <1>8, <1>10 DEF Queues
<1>12. f \in Nat /\ Len(t.flyingids) = f + k /\ Len(t.flyingids) > 0
  <2>1. f \in Nat
    BY <1>0, Fields
  <2>2. Len(t.flyingids) = f + k
    BY <1>5, <1>8, <1>10
  <2> HIDE DEF f
  <2> QED BY <1>1, <1>8, <2>1, <2>2
<1>13. OnlyReply(t, Id(r + 1), req)
  <2>1. \A id \in UInt16 : h.replied[id] = NoPacket
    BY <1>0 DEF Still
  <2>2. u.replied \in [UInt16 -> Packets \cup {NoPacket}]
    BY <1>8, Fields
  <2> QED BY <1>1, <1>5, <1>8, <1>10, <2>1, <2>2 DEF OnlyReply
<1>14. /\ n = 1 /\ Len(Handback(t, n)) = 1 /\ Handback(t, n)[1] = req
       /\ Len(h'.flyingids) = Len(t.flyingids) - 1
       /\ \A id \in UInt16 : h'.replied[id] = NoPacket
  <2>1. /\ t \in HWRecord /\ r \in Nat /\ m \in 0 .. NPackets /\ Queues(t, r, m)
        /\ Len(t.flyingids) > 0 /\ req # NoPacket
        /\ n \in 0 .. Len(t.flyingids) /\ Returns(t, n)
    BY <1>0, <1>2, <1>3, <1>9, <1>10, <1>11, <1>12
  <2>2. /\ n = 1 /\ Len(Handback(t, n)) = 1 /\ Handback(t, n)[1] = req
        /\ Len(returnreply(t, n).flyingids) = Len(t.flyingids) - 1
        /\ \A id \in UInt16 : returnreply(t, n).replied[id] = NoPacket
    BY <1>13, <2>1, ReturnsOne, Zenon
  <2> QED BY <1>2, <2>2, Zenon
<1>15. /\ h'.timedout = t.timedout /\ h'.handlinglost = t.handlinglost /\ h'.aged = t.aged
       /\ h'.inflight = t.inflight /\ h'.panicked = t.panicked
       /\ h'.configured = t.configured
  BY <1>2, <1>10, ReturnreplyTimes
<1>16. Len(returned') = r + 1
  <2> DEFINE hb == Handback(t, n)
  <2>1. hb \in Seq(Packets)
    <3>1. hb = [i \in 1 .. 1 |-> t.replied[t.flyingids[i]]]
      BY <1>14 DEF Handback
    <3>2. Len(hb) = 1 /\ hb[1] \in Packets
      BY <1>4, <1>14
    <3>3. hb = [i \in 1 .. 1 |-> hb[i]]
      BY <3>1
    <3>4. \A i \in 1 .. 1 : hb[i] \in Packets
      BY <3>2
    <3> HIDE DEF hb
    <3> QED BY <3>3, <3>4
  <2> HIDE DEF hb
  <2>2. Len(returned \o hb) = Len(returned) + Len(hb)
    BY <1>0, <2>1, Joined
  <2>3. returned' = returned \o hb /\ Len(hb) = 1
    BY <1>2, <1>14 DEF hb
  <2> QED BY <2>2, <2>3
<1>17. h.inflight = f
  BY <1>0 DEF Still
<1>18. h'.inflight = f - 1 + k /\ Len(h'.flyingids) = f - 1 + k
  <2>1. h'.inflight = f - 1 + k
    <3>1. s.inflight = f - 1
      BY <1>5, <1>17
    <3>2. h'.inflight = s.inflight + k
      BY <1>8, <1>10, <1>15, Zenon
    <3> QED BY <3>1, <3>2
  <2>2. Len(h'.flyingids) = (f + k) - 1
    <3>1. Len(t.flyingids) = f + k
      BY <1>12
    <3>2. Len(h'.flyingids) = Len(t.flyingids) - 1
      BY <1>14
    <3> QED BY <3>1, <3>2, Zenon
  <2> HIDE DEF f
  <2>3. (f + k) - 1 = f - 1 + k
    BY <1>8, <1>12
  <2> QED BY <2>1, <2>2, <2>3
<1>19. Still(h')
  <2>1. ~h'.panicked /\ ~h'.handlinglost /\ h'.aged = {}
    BY <1>0, <1>6, <1>8, <1>10, <1>15 DEF Still
  <2>2. Clock(h')
    BY <1>8, <1>10, <1>15 DEF Clock
  <2> QED BY <1>14, <1>18, <2>1, <2>2 DEF Still
<1>20. /\ Len(accepted) + Len(requests') = r + h.inflight + Len(o)
       /\ Numbered(requests', Len(accepted))
       /\ \A i \in 1 .. Len(requests') : requests'[i].ptype = control
  BY <1>1, <1>3, <1>5, <1>8, BurstStream
<1>21. Stream(h.inflight)'
  <2> DEFINE c == Len(replies)
             d == Len(responses)
  <2>1. r + c + d = answered /\ Numbered(replies, r) /\ Numbered(responses, r + c)
    BY <1>1 DEF Calm, Stream
  <2>2. c \in Nat /\ d \in Nat
    BY Types
  <2>3. Numbered(replies', r + 1) /\ Len(replies') = c - 1
    BY <1>0, <1>3, <2>1, NumberedTail
  <2>4. r + h.inflight + Len(o) = (r + 1) + h'.inflight
    <3> HIDE DEF r, f
    <3>1. r + f + k = (r + 1) + (f - 1 + k)
      BY <1>0, <1>8, <1>12
    <3> QED BY <1>8, <1>17, <1>18, <3>1
  <2> HIDE DEF r, c
  <2>5. (r + 1) + (c - 1) = r + c
    BY <1>0, <2>2
  <2>6. /\ Len(returned') + Len(replies') + Len(responses') = answered'
        /\ Numbered(replies', Len(returned'))
        /\ Numbered(responses', Len(returned') + Len(replies'))
    BY <1>3, <1>16, <2>1, <2>3, <2>5
  <2>7. Len(accepted') + Len(requests') = Len(returned') + h'.inflight
    BY <1>3, <1>16, <1>20, <2>4
  <2> QED BY <1>3, <1>20, <2>6, <2>7 DEF Stream
<1>22. \A i \in 1 .. Len(requests') : requests'[i].ptype # resend
  BY <1>20 DEF control, resend
<1>23. \A g \in Handlers : lost'[g].pc = "idle"
  BY <1>3 DEF Calm
<1> QED BY <1>3, <1>19, <1>21, <1>22, <1>23 DEF Calm

\* What cannot happen while nothing is lost: an unmatched reply, a tick of any
\* ticker, a handlelost; and, in this network, a copy.
LEMMA CalmNever ==
  ASSUME Regime, Orderly, TypeOK, Live, Tracked(h), Calm
  PROVE  /\ ~RunUnmatched /\ ~RunReport /\ ~Tick /\ ~TickWatched
         /\ ~DuplicateRequest /\ ~DuplicateResponse
         /\ \A g \in Handlers : ~RunTimeout(g) /\ ~handlelost(g)
<1>1. ~DuplicateRequest /\ ~DuplicateResponse
  <2>1. dups \in 0 .. MaxDup
    BY DEF TypeOK
  <2>2. ~(dups < MaxDup)
    BY <2>1 DEF Orderly
  <2> QED BY <2>2 DEF DuplicateRequest, DuplicateResponse
<1>2. watched = Current /\ Still(h) /\ \A g \in Handlers : lost[g].pc = "idle"
  BY DEF Calm
<1>3. ~TickWatched
  <2>1. watched.run = "current"
    BY <1>2 DEF Current
  <2> QED BY <2>1 DEF TickWatched, Ticks
<1>4. ~RunReport
  BY <1>2 DEF RunReport
<1>5. ASSUME NEW g \in Handlers PROVE ~RunTimeout(g) /\ ~handlelost(g)
  <2>1. ~RunTimeout(g)
    <3>1. ~h.timedout.tick
      BY <1>2 DEF Still, Clock
    <3> QED BY <1>2, <3>1 DEF RunTimeout, Watching
  <2>2. lost[g].pc = "idle"
    BY <1>2
  <2> QED BY <2>1, <2>2 DEF handlelost, LostStop, LostRequest, LostStatus, LostSent,
                            LostResend, LostRewrite, LostReadd, LostFinish
<1>6. ASSUME RunUnmatched PROVE FALSE
  <2>1. replies # <<>> /\ Head(replies).id # 0 /\ h.flying[Head(replies).id] = NoPacket
    BY <1>6 DEF RunUnmatched
  <2> QED BY <2>1, HeadCalm
<1>7. ASSUME Tick PROVE FALSE
  <2> DEFINE r == Len(returned)
             a == Len(accepted)
             f == Len(h.flyingids)
  <2>1. ~(early < MaxEarly)
    <3>1. early \in 0 .. MaxEarly
      BY DEF TypeOK
    <3> QED BY <3>1 DEF Orderly
  <2>2. h.timedout.run # "due" /\ (h.timedout.run = "on" => h.inflight > 0) /\ h.inflight = f
    BY <1>2 DEF Still, Clock
  <2>3. h.timedout.run = "on" /\ Quiet
    BY <1>7, <2>1, <2>2 DEF Tick, Ticks
  <2>4. f > 0
    BY <2>2, <2>3
  <2>5. h.configured
    <3> SUFFICES ASSUME ~h.configured PROVE FALSE
      OBVIOUS
    <3>1. f = 0
      BY BeforeConfigured
    <3> QED BY <2>4, <3>1
  <2>6. /\ r + Len(replies) + Len(responses) = answered /\ a + Len(requests) = r + f
    BY <2>2, <2>5 DEF Calm, Stream
  <2>7. Len(requests) = 0 /\ Len(responses) = 0 /\ Len(replies) = 0 /\ answered = a
    <3>1. Len(<<>>) = 0
      OBVIOUS
    <3>2. requests = <<>> /\ responses = <<>> /\ replies = <<>> /\ answered = a
      BY <2>3 DEF Quiet
    <3> QED BY <3>1, <3>2, Zenon
  <2>8. r \in Nat /\ a \in Nat /\ h \in HWRecord
    BY Types
  <2>9. f \in Nat
    BY <2>8, Fields
  <2> HIDE DEF r, a, f
  <2> QED BY <2>4, <2>6, <2>7, <2>8, <2>9
<1> QED BY <1>1, <1>3, <1>4, <1>5, <1>6, <1>7

LEMMA CalmStep ==
  ASSUME Regime, Orderly
  PROVE  CalmInv /\ [Next]_vars => CalmInv'
<1> SUFFICES ASSUME CalmInv, [Next]_vars PROVE CalmInv'
  OBVIOUS
<1>1. IInv' /\ Tracked(h)' /\ Balance'
  <2>1. MaxDup = 0
    BY DEF Orderly
  <2> QED BY <2>1, InvStep, TrackedStep, BalanceStep DEF CalmInv
<1>2. SUFFICES ASSUME losses' = 0 PROVE Calm'
  BY <1>1 DEF CalmInv
<1>3. CASE Next
  <2>0. losses \in Nat
    <3>1. losses \in 0 .. MaxLoss
      BY DEF CalmInv, IInv, TypeOK
    <3> QED BY <3>1, Constants
  <2>1. ~LoseRequest /\ ~LoseResponse
    BY <1>2, <2>0 DEF LoseRequest, LoseResponse
  <2>2. losses = 0
    <3>1. losses' = losses
      BY <1>3, <2>1 DEF Next, netVars, Network, DuplicateRequest, DuplicateResponse,
                        Tick, TickWatched, Ticks
    <3> QED BY <1>2, <3>1
  <2>3. TypeOK /\ Live /\ Tracked(h) /\ Balance /\ Calm
    <3>1. Calm
      BY <2>2 DEF CalmInv
    <3> QED BY <3>1 DEF CalmInv, IInv, Calm, Still
  <2>4. CASE HWNext
    <3>1. CASE Send
      <4>1. UNCHANGED <<h, watched, lost, requests, responses, replies, returned,
                        accepted, answered>>
        BY <3>1 DEF Send, wireVars, devVars
      <4> QED BY <2>3, <4>1, CalmUnmoved
    <3>2. CASE receive
      BY <2>3, <3>2, ReceiveCalm
    <3>3. CASE ConfigRequest
      BY <2>3, <3>3, ConfigRequestCalm
    <3>4. CASE ConfigStatus
      BY <2>3, <3>4, ConfigStatusCalm
    <3>5. CASE RunIncoming
      BY <2>3, <3>5, IncomingCalm
    <3>6. CASE RunStatus
      BY <2>3, <3>6, StatusCalm
    <3>7. CASE RunReply
      BY <2>3, <3>7, ReplyCalm
    <3> QED BY <2>3, <2>4, <3>1, <3>2, <3>3, <3>4, <3>5, <3>6, <3>7, CalmNever, NoWritePanics
            DEF HWNext, Run
  <2>5. CASE DeviceNext /\ UNCHANGED <<hwVars, netVars>>
    BY <2>3, <2>5, DeviceCalm
  <2>6. CASE Network \/ Tick \/ TickWatched
    BY <2>1, <2>3, <2>6, CalmNever DEF Network
  <2> QED BY <1>3, <2>4, <2>5, <2>6 DEF Next
<1>4. CASE UNCHANGED vars
  <2>1. losses = 0
    BY <1>2, <1>4 DEF vars, netVars
  <2>2. UNCHANGED <<h, watched, lost, requests, responses, replies, returned,
                    accepted, answered>>
    BY <1>4 DEF vars, wireVars, devVars, hwVars
  <2> QED BY <2>1, <2>2, CalmUnmoved DEF CalmInv
<1> QED BY <1>3, <1>4

LEMMA CalmInit == Init => Calm
<1> SUFFICES ASSUME Init PROVE Calm
  OBVIOUS
<1>1. /\ requests = <<>> /\ watched = Current /\ h = newhw /\ lost = [g \in Handlers |-> idle]
  BY DEF Init, WireInit, DeviceInit, HWInit
<1>2. /\ h.inflight = 0 /\ h.flyingids = <<>> /\ h.replied = EmptyLog /\ h.aged = {}
      /\ h.handlinglost = FALSE /\ h.panicked = FALSE /\ h.configured = FALSE
      /\ h.timedout.run = "long" /\ h.timedout.tick = FALSE
  BY <1>1 DEF newhw, NewTicker
<1>3. Len(<<>>) = 0
  OBVIOUS
<1>4. Len(requests) = 0 /\ Len(h.flyingids) = 0
  BY <1>1, <1>2, <1>3, Zenon
<1>5. Still(h)
  <2>1. \A id \in UInt16 : h.replied[id] = NoPacket
    BY <1>2 DEF EmptyLog
  <2> QED BY <1>2, <1>4, <2>1 DEF Still, Clock
<1>6. \A g \in Handlers : lost[g].pc = "idle"
  BY <1>1 DEF idle
<1> QED BY <1>1, <1>2, <1>4, <1>5, <1>6 DEF Calm

\* Nothing lost, nothing alarmed: in a network that keeps the order and answers
\* in time, with any window, no timeout strikes and nothing panics before the
\* first datagram is lost.  updatetimeout, which times the second oldest packet
\* at every reply, never finds one overdue and never times one that is back.
THEOREM NoAlarmWithoutLoss ==
  ASSUME Regime, Orderly PROVE Spec => []NoFalseAlarm
<1>1. Init => CalmInv
  BY InitInv, TrackedInit, BalanceInit, CalmInit DEF CalmInv
<1>2. CalmInv /\ [Next]_vars => CalmInv'
  BY CalmStep
<1>3. CalmInv => NoFalseAlarm
  BY DEF CalmInv, Calm, Still, NoFalseAlarm
<1> QED BY <1>1, <1>2, <1>3, PTL DEF Spec
=============================================================================
