------------------------------ MODULE HWProofs ------------------------------
(***************************************************************************)
(* Theorems about HWSystem, for every value of the constants.              *)
(***************************************************************************)
EXTENDS HWSystem, TLAPS

-----------------------------------------------------------------------------
(* The methods of hw map hw records to hw records.                         *)

\* The constants are numbers.
LEMMA Constants ==
  /\ MaxID \in Nat \ {0} /\ NPackets \in Nat \ {0}
  /\ StartID \in 1 .. MaxID
  /\ MaxFlight \in Nat \ {0} /\ QueuedMax \in Nat \ {0} /\ FlyingMax \in Nat \ {0}
  /\ MaxOutstanding \in Nat \ {0}
  /\ MaxLoss \in Nat /\ MaxDup \in Nat /\ MaxEarly \in Nat
  /\ 0 \in UInt16 /\ NoPacket \notin Packets
BY WireAssumption, DeviceAssumption, HWAssumption, NetworkAssumption
   DEF UInt16, NoPacket, Packets

\* The fields of an hw record.
LEMMA Fields ==
  ASSUME NEW s \in HWRecord
  PROVE  /\ s.nextID \in UInt16 /\ s.configured \in BOOLEAN
         /\ s.tosend \in [UInt16 -> Packets \cup {NoPacket}]
         /\ s.flying \in [UInt16 -> Packets \cup {NoPacket}]
         /\ s.replied \in [UInt16 -> Packets \cup {NoPacket}]
         /\ s.queuedids \in Seq(UInt16) /\ s.flyingids \in Seq(UInt16)
         /\ s.inflight \in Int
         /\ s.timedout \in Ticker /\ s.timeoutid \in UInt16
         /\ s.aged \in SUBSET UInt16 /\ s.handlinglost \in BOOLEAN
         /\ s.resent \in UInt16 /\ s.panicked \in BOOLEAN
BY DEF HWRecord

\* nextid stays within the uint16 range.
LEMMA SuccType == ASSUME NEW id \in UInt16 PROVE succ(id) \in UInt16
BY Constants DEF succ, UInt16

\* Stopped and new tickers are tickers, and none is the marker Current.
LEMMA TickerType ==
  /\ \A t \in Ticker : Stop(t) \in Ticker /\ t # Current
  /\ \A dt \in {"off", "on", "due", "long"} : NewTicker(dt) \in Ticker
BY DEF Ticker, Stop, NewTicker, Current

\* updatetimeout changes the ticker and timeoutid and keeps their types.
LEMMA UpdatetimeoutType ==
  ASSUME NEW s \in HWRecord PROVE updatetimeout(s) \in HWRecord
<1> DEFINE overdue == s.flying[s.flyingids[2]] # NoPacket /\ s.flyingids[2] \in s.aged
           dt == IF overdue THEN "due" ELSE "on"
<1>1. CASE Retimes(s)
  <2>1. s.flyingids[2] \in UInt16
    BY <1>1, Fields DEF Retimes
  <2>2. ~(s.inflight <= 0)
    BY <1>1, Fields DEF Retimes
  <2>3. updatetimeout(s) = [s EXCEPT !.timedout = NewTicker(dt),
                                     !.timeoutid = s.flyingids[2]]
    BY <1>1, <2>2, Zenon DEF updatetimeout
  <2>4. dt \in {"off", "on", "due", "long"}
    OBVIOUS
  <2>5. NewTicker(dt) \in Ticker
    BY <2>4, TickerType
  <2> HIDE DEF dt
  <2> QED BY <2>1, <2>3, <2>5 DEF HWRecord
<1>2. CASE ~Retimes(s) /\ s.inflight > 0
  BY <1>2, Fields DEF updatetimeout, Retimes
<1>3. CASE s.inflight <= 0
  <2>1. updatetimeout(s) = [s EXCEPT !.timedout = Stop(@)]
    BY <1>3, Fields DEF updatetimeout, Retimes
  <2> QED BY <2>1, Fields, TickerType DEF HWRecord
<1> QED BY <1>1, <1>2, <1>3, Fields

\* A burst takes no more ids than are queued.
LEMMA BurstType ==
  ASSUME NEW s \in HWRecord PROVE Burst(s) \in 0 .. Len(s.queuedids)
BY Fields, Constants DEF Burst, Least

\* What sendnext writes are well-formed datagrams.
LEMMA OutgoingType ==
  ASSUME NEW s \in HWRecord PROVE Outgoing(s) \in Seq(Request)
<1>1. ASSUME NEW i \in 1 .. Burst(s)
      PROVE  controlPacket(s.queuedids[i], s.tosend[s.queuedids[i]]) \in Request
  <2>1. s.queuedids[i] \in UInt16
    BY BurstType, Fields
  <2>2. s.tosend[s.queuedids[i]] \in Packets \cup {NoPacket}
    BY <2>1, Fields
  <2> QED BY <2>1, <2>2 DEF controlPacket, Request
<1>2. Burst(s) \in Nat
  BY BurstType, Fields
<1> QED BY <1>1, <1>2 DEF Outgoing

\* sendnext keeps the queues, logs, counter and timeout well typed.
LEMMA SendnextType ==
  ASSUME NEW s \in HWRecord PROVE sendnext(s) \in HWRecord
<1> DEFINE n     == Burst(s)
           batch == SubSeq(s.queuedids, 1, n)
           out   == {batch[i] : i \in 1 .. n}
           queue == SubSeq(s.queuedids, n + 1, Len(s.queuedids))
           tos   == [id \in UInt16 |-> IF id \in out THEN NoPacket ELSE s.tosend[id]]
           fly   == [id \in UInt16 |-> IF id \in out THEN s.tosend[id] ELSE s.flying[id]]
           ids   == SubSeq(s.flyingids \o batch, 1, Least(FlyingMax, Len(s.flyingids) + n))
           tick  == IF Arms(s) THEN NewTicker("on") ELSE s.timedout
           tid   == IF Arms(s) THEN batch[1 - s.inflight] ELSE s.timeoutid
           pan   == s.panicked \/ \E i \in 1 .. n :
                      \/ s.tosend[batch[i]] = NoPacket
                      \/ \E j \in 1 .. i - 1 : batch[j] = batch[i]
           infl  == s.inflight + n
           aged  == s.aged \ out
<1>1. n \in 0 .. Len(s.queuedids) /\ n \in Nat
  BY BurstType, Fields
<1>2. batch \in Seq(UInt16) /\ Len(batch) = n /\ \A i \in 1 .. n : batch[i] \in UInt16
  BY <1>1, Fields
<1>3. queue \in Seq(UInt16)
  BY <1>1, Fields
<1>4. tos \in [UInt16 -> Packets \cup {NoPacket}] /\ fly \in [UInt16 -> Packets \cup {NoPacket}]
  BY Fields
<1>5. ids \in Seq(UInt16)
  <2>1. Len(s.flyingids) + n \in Nat /\ FlyingMax \in Nat
    BY <1>1, Fields, Constants
  <2>2. s.flyingids \o batch \in Seq(UInt16) /\ Len(s.flyingids \o batch) = Len(s.flyingids) + n
    BY <1>2, Fields
  <2>3. Least(FlyingMax, Len(s.flyingids) + n) \in 0 .. Len(s.flyingids) + n
    BY <2>1 DEF Least
  <2> HIDE DEF batch, n
  <2> QED BY <2>1, <2>2, <2>3
<1>6. infl \in Int
  BY <1>1, Fields
<1>7. aged \in SUBSET UInt16
  BY Fields
<1>8. tick \in Ticker
  BY Fields, TickerType
<1>9. tid \in UInt16
  BY <1>2, Fields DEF Arms
<1>10. pan \in BOOLEAN
  BY Fields, Zenon
<1>11. sendnext(s) = [s EXCEPT !.queuedids = queue, !.tosend = tos, !.flying = fly,
                        !.flyingids = ids, !.inflight = infl,
                        !.aged = aged, !.timedout = tick,
                        !.timeoutid = tid, !.panicked = pan]
  BY Zenon DEF sendnext
<1> HIDE DEF n, batch, out, queue, tos, fly, ids, tick, tid, pan, infl, aged
<1> DEFINE v == [s EXCEPT !.queuedids = queue, !.tosend = tos, !.flying = fly,
                         !.flyingids = ids]
<1>12. v \in HWRecord
  BY <1>3, <1>4, <1>5 DEF HWRecord
<1>13. sendnext(s) = [v EXCEPT !.inflight = infl, !.aged = aged, !.timedout = tick,
                               !.timeoutid = tid, !.panicked = pan]
  BY <1>11 DEF HWRecord
<1> HIDE DEF v
<1> QED BY <1>6, <1>7, <1>8, <1>9, <1>10, <1>12, <1>13 DEF HWRecord

\* The first packets of a queue are a queue.
LEMMA QueuingType ==
  ASSUME NEW s \in HWRecord, NEW n \in 0 .. Len(s.queuedids)
  PROVE  Queuing(s, n) \in HWRecord
<1> DEFINE ids == SubSeq(s.queuedids, 1, n)
<1>1. ids \in Seq(UInt16)
  BY Fields
<1>2. Queuing(s, n) = [s EXCEPT !.queuedids = ids]
  BY DEF Queuing
<1> HIDE DEF ids
<1> QED BY <1>1, <1>2 DEF HWRecord

\* A call of sendnext that stops at a failed write keeps the types.
LEMMA AbortType ==
  ASSUME NEW s \in HWRecord, NEW n \in 0 .. Len(s.queuedids) - 1
  PROVE  Abort(s, n) \in HWRecord
<1> DEFINE t   == sendnext(Queuing(s, n))
           id  == s.queuedids[n + 1]
           ids == SubSeq(s.queuedids, n + 2, Len(s.queuedids))
           tos == [t.tosend EXCEPT ![id] = NoPacket]
<1>1. Queuing(s, n) \in HWRecord
  BY QueuingType, Fields
<1>2. t \in HWRecord
  BY <1>1, SendnextType
<1>3. ids \in Seq(UInt16)
  BY Fields
<1>4. tos \in [UInt16 -> Packets \cup {NoPacket}]
  <2> HIDE DEF t
  <2> QED BY <1>2, Fields
<1>5. Abort(s, n) = [t EXCEPT !.queuedids = ids, !.tosend = tos]
  BY DEF Abort
<1> HIDE DEF t, ids, tos
<1> QED BY <1>2, <1>3, <1>4, <1>5 DEF HWRecord

\* However a call of sendnext ends, it keeps the types.
LEMMA SendingsType ==
  ASSUME NEW s \in HWRecord, NEW c \in Sendings(s)
  PROVE  c.hw \in HWRecord /\ c.out \in Seq(Request)
<1>1. CASE c = [hw |-> sendnext(s), out |-> Outgoing(s), arms |-> Arms(s)]
  BY <1>1, SendnextType, OutgoingType
<1>2. ASSUME NEW n \in Failing(s),
             c = [hw |-> Abort(s, n), out |-> Outgoing(Queuing(s, n)),
                  arms |-> Arms(Queuing(s, n))]
      PROVE  c.hw \in HWRecord /\ c.out \in Seq(Request)
  <2>1. n \in 0 .. Burst(s) - 1
    BY DEF Failing
  <2>2. n \in 0 .. Len(s.queuedids) - 1 /\ n \in 0 .. Len(s.queuedids)
    BY <2>1, BurstType, Fields
  <2>3. Abort(s, n) \in HWRecord
    BY <2>2, AbortType
  <2>4. Outgoing(Queuing(s, n)) \in Seq(Request)
    BY <2>2, QueuingType, OutgoingType
  <2> QED BY <1>2, <2>3, <2>4
<1> QED BY <1>1, <1>2 DEF Sendings

\* When no write fails a call of sendnext sends all it can.
LEMMA Writes ==
  ASSUME ~WriteErrors, NEW s, NEW c \in Sendings(s)
  PROVE  c.hw = sendnext(s) /\ c.out = Outgoing(s) /\ c.arms = Arms(s)
<1>1. Failing(s) = {}
  BY DEF Failing
<1>2. c = [hw |-> sendnext(s), out |-> Outgoing(s), arms |-> Arms(s)]
  BY <1>1, Zenon DEF Sendings
<1> QED BY <1>2

\* Giving a packet its id and queueing it keeps the types.
LEMMA EnqueueType ==
  ASSUME NEW s \in HWRecord, NEW p \in Packets PROVE enqueue(s, p) \in HWRecord
<1>1. succ(s.nextID) \in UInt16
  BY SuccType, Fields
<1>2. nextid(s) \in HWRecord
  BY <1>1 DEF nextid, HWRecord
<1>3. CASE s.nextID = 0 \/ Len(s.queuedids) = QueuedMax
  <2>1. enqueue(s, p) = [nextid(s) EXCEPT !.panicked = TRUE]
    BY <1>3 DEF enqueue
  <2> QED BY <1>2, <2>1 DEF HWRecord
<1>4. CASE ~(s.nextID = 0 \/ Len(s.queuedids) = QueuedMax)
  <2> DEFINE t   == nextid(s)
             tos == [t.tosend EXCEPT ![s.nextID] = p]
             ids == Append(t.queuedids, s.nextID)
  <2>1. enqueue(s, p) = [t EXCEPT !.tosend = tos, !.queuedids = ids]
    BY <1>4 DEF enqueue
  <2>2. tos \in [UInt16 -> Packets \cup {NoPacket}]
    BY <1>2, Fields
  <2>3. ids \in Seq(UInt16)
    BY <1>2, Fields
  <2> HIDE DEF t, tos, ids
  <2>4. t \in HWRecord
    BY <1>2 DEF t
  <2> QED BY <2>1, <2>2, <2>3, <2>4 DEF HWRecord
<1> QED BY <1>3, <1>4

\* Freeing the slot of an id keeps the types.
LEMMA LandType ==
  ASSUME NEW s \in HWRecord, NEW id \in UInt16 PROVE land(s, id) \in HWRecord
<1> DEFINE freed == [s EXCEPT !.inflight = @ - 1]
           stopped == [freed EXCEPT !.timedout = Stop(@)]
           timed == IF s.flyingids # <<>> /\ s.flyingids[1] = id
                    THEN updatetimeout(stopped) ELSE freed
           fly   == [timed.flying EXCEPT ![id] = NoPacket]
<1>1. freed \in HWRecord
  <2>1. s.inflight - 1 \in Int
    BY Fields
  <2>2. freed = [s EXCEPT !.inflight = s.inflight - 1]
    OBVIOUS
  <2> HIDE DEF freed
  <2> QED BY <2>1, <2>2 DEF HWRecord
<1>2. stopped \in HWRecord
  <2> HIDE DEF freed
  <2> QED BY <1>1, Fields, TickerType DEF HWRecord
<1>3. timed \in HWRecord
  <2> HIDE DEF freed, stopped
  <2> QED BY <1>1, <1>2, UpdatetimeoutType
<1>4. land(s, id) = [timed EXCEPT !.flying = fly]
  BY DEF land
<1> HIDE DEF timed
<1>5. fly \in [UInt16 -> Packets \cup {NoPacket}]
  BY <1>3, Fields
<1> HIDE DEF fly
<1> QED BY <1>3, <1>4, <1>5 DEF HWRecord

\* So does every way a reply may land, also with no id in flight.
LEMMA LandingsType ==
  ASSUME NEW s \in HWRecord, NEW id \in UInt16, NEW u \in Landings(s, id)
  PROVE  u \in HWRecord
<1> DEFINE l == land(s, id)
<1>1. l \in HWRecord
  BY LandType
<1>2. u = l \/ u = [l EXCEPT !.timedout = Stop(@)]
  BY DEF Landings
<1> HIDE DEF l
<1>3. Stop(l.timedout) \in Ticker
  BY <1>1, Fields, TickerType
<1> QED BY <1>1, <1>2, <1>3 DEF HWRecord

\* Handing packets back keeps the types, and what is handed back are packets.
LEMMA ReturnreplyType ==
  ASSUME NEW s \in HWRecord, NEW n \in 0 .. Len(s.flyingids), Returns(s, n)
  PROVE  returnreply(s, n) \in HWRecord /\ Handback(s, n) \in Seq(Packets)
<1> DEFINE ids == SubSeq(s.flyingids, n + 1, Len(s.flyingids))
           gone == {s.flyingids[i] : i \in 1 .. n}
           rep == [id \in UInt16 |-> IF id \in gone THEN NoPacket ELSE s.replied[id]]
<1>1. n \in Nat
  BY Fields
<1>2. ids \in Seq(UInt16)
  BY <1>1, Fields
<1>3. rep \in [UInt16 -> Packets \cup {NoPacket}]
  BY Fields
<1>4. returnreply(s, n) = [s EXCEPT !.flyingids = ids, !.replied = rep]
  BY DEF returnreply
<1>5. returnreply(s, n) \in HWRecord
  <2> HIDE DEF ids, rep
  <2> QED BY <1>2, <1>3, <1>4 DEF HWRecord
<1>6. ASSUME NEW i \in 1 .. n PROVE s.replied[s.flyingids[i]] \in Packets
  <2>1. s.flyingids[i] \in UInt16
    BY <1>1, Fields
  <2>2. s.replied[s.flyingids[i]] # NoPacket
    BY DEF Returns
  <2> QED BY <2>1, <2>2, Fields
<1>7. Handback(s, n) \in Seq(Packets)
  BY <1>1, <1>6 DEF Handback
<1> QED BY <1>5, <1>7

\* Taking a datagram off the wire leaves a sequence of datagrams.
LEMMA WithoutType ==
  ASSUME NEW S, NEW q \in Seq(S), NEW i \in 1 .. Len(q)
  PROVE  Without(q, i) \in Seq(S) /\ q[i] \in S
<1>1. SubSeq(q, 1, i - 1) \in Seq(S)
  OBVIOUS
<1>2. SubSeq(q, i + 1, Len(q)) \in Seq(S)
  OBVIOUS
<1> QED BY <1>1, <1>2 DEF Without

\* Whatever is delivered is a datagram under way.
LEMMA DeliverableType ==
  ASSUME NEW q, NEW i \in Deliverable(q) PROVE i \in 1 .. Len(q)
BY DEF Deliverable

-----------------------------------------------------------------------------
(* TypeOK is inductive: one lemma per group of actions.                    *)

\* The initial state is well typed.
LEMMA InitType == Init => TypeOK
<1> SUFFICES ASSUME Init PROVE TypeOK
  OBVIOUS
<1>1. WireTypeOK
  BY DEF Init, WireInit, WireTypeOK
<1>2. DeviceTypeOK
  BY Constants DEF Init, DeviceInit, DeviceTypeOK, UInt16
<1>3. newhw \in HWRecord
  <2>1. EmptyLog \in [UInt16 -> Packets \cup {NoPacket}]
    BY DEF EmptyLog
  <2>2. 1 \in UInt16
    BY Constants DEF UInt16
  <2>3. NewTicker("long") \in Ticker
    BY TickerType
  <2> QED BY <2>1, <2>2, <2>3, Constants DEF newhw, HWRecord
<1>4. HWTypeOK
  BY <1>3, Constants DEF Init, HWInit, HWTypeOK, idle, Packets, NoPacket
<1>5. /\ losses \in 0 .. MaxLoss /\ lostat \in Int
      /\ dups \in 0 .. MaxDup /\ early \in 0 .. MaxEarly
  BY Constants DEF Init
<1> QED BY <1>1, <1>2, <1>4, <1>5 DEF TypeOK

\* The steps of the device keep the wire and the device well typed.
LEMMA DeviceType ==
  ASSUME WireTypeOK, DeviceTypeOK, DeviceNext
  PROVE  WireTypeOK' /\ DeviceTypeOK'
<1> USE DEF WireTypeOK, DeviceTypeOK
<1>1. CASE DeviceControl
  <2>1. PICK i \in Deliverable(requests) : DeviceControl!(i)
    BY <1>1 DEF DeviceControl
  <2>2. /\ Without(requests, i) \in Seq(Request)
        /\ requests[i] \in Request
    BY <2>1, DeliverableType, WithoutType
  <2>3. succ(expects) \in UInt16
    BY SuccType
  <2>4. /\ accepted' \in Seq(Request) /\ expects' \in UInt16
        /\ Len(accepted') \in Nat /\ Len(accepted) <= Len(accepted')
    <3>1. CASE requests[i].id = expects
      <4>1. accepted' = Append(accepted, requests[i]) /\ expects' = succ(expects)
        BY <2>1, <3>1
      <4> QED BY <2>2, <2>3, <4>1
    <3>2. CASE requests[i].id # expects
      <4>1. accepted' = accepted /\ expects' = expects
        BY <2>1, <3>2
      <4> QED BY <4>1
    <3> QED BY <3>1, <3>2
  <2>5. answered' \in 0 .. Len(accepted')
    BY <2>1, <2>4
  <2> QED BY <2>1, <2>2, <2>4, <2>5
<1>2. CASE DeviceReply
  <2>1. answered + 1 \in 1 .. Len(accepted)
    BY <1>2 DEF DeviceReply
  <2>2. accepted[answered + 1] \in Request
    BY <2>1
  <2>3. controlReply(accepted[answered + 1].id, accepted[answered + 1].pkt) \in Response
    BY <2>2, Constants DEF controlReply, Response, Request, NoStatus, targetstatus
  <2> QED BY <1>2, <2>1, <2>3 DEF DeviceReply
<1>3. CASE DeviceStatus
  <2>1. PICK i \in Deliverable(requests) : DeviceStatus!(i)
    BY <1>3 DEF DeviceStatus
  <2> DEFINE R == {accepted[k].id : k \in Recent(Len(accepted))}
             T == {accepted[k].id : k \in Recent(answered)}
             st == [nextid |-> expects, received |-> R, sent |-> T]
  <2>2. ASSUME NEW k \in 1 .. Len(accepted) PROVE accepted[k].id \in UInt16
    <3>1. accepted[k] \in Request
      OBVIOUS
    <3> QED BY <3>1 DEF Request
  <2>3. R \in SUBSET UInt16
    BY <2>2 DEF Recent
  <2>4. T \in SUBSET UInt16
    BY <2>2 DEF Recent
  <2>5. statusReply(st) \in Response
    <3> HIDE DEF R, T
    <3> QED BY <2>3, <2>4, Constants DEF statusReply, Response, targetstatus
  <2>6. Without(requests, i) \in Seq(Request)
    BY <2>1, DeliverableType, WithoutType
  <2>7. responses' = Append(responses, statusReply(st))
    BY <2>1
  <2> HIDE DEF st
  <2> QED BY <2>1, <2>5, <2>6, <2>7 DEF devVars
<1>4. CASE DeviceResend
  <2>1. PICK i \in Deliverable(requests) : DeviceResend!(i)
    BY <1>4 DEF DeviceResend
  <2>2. Without(requests, i) \in Seq(Request)
    BY <2>1, DeliverableType, WithoutType
  <2>3. ASSUME NEW k \in Recent(answered)
        PROVE  controlReply(accepted[k].id, accepted[k].pkt) \in Response
    <3>1. accepted[k] \in Request
      BY DEF Recent
    <3> QED BY <3>1, Constants DEF controlReply, Response, Request, NoStatus, targetstatus
  <2>4. responses' \in Seq(Response)
    <3>1. CASE UNCHANGED responses
      BY <3>1
    <3>2. ASSUME NEW k \in Recent(answered),
                 responses' = Append(responses, controlReply(accepted[k].id, accepted[k].pkt))
          PROVE  responses' \in Seq(Response)
      <4>1. controlReply(accepted[k].id, accepted[k].pkt) \in Response
        BY <2>3
      <4> QED BY <3>2, <4>1
    <3> QED BY <2>1, <3>1, <3>2
  <2> QED BY <2>1, <2>2, <2>4 DEF devVars
<1> QED BY <1>1, <1>2, <1>3, <1>4 DEF DeviceNext

\* The network and the clock keep everything well typed.
LEMMA NetworkType ==
  ASSUME TypeOK, Network \/ Tick \/ TickWatched
  PROVE  TypeOK'
<1> USE DEF TypeOK
<1>1. CASE Network
  <2>1. WireTypeOK'
    <3> USE DEF WireTypeOK
    <3>1. CASE LoseRequest
      <4>1. PICK i \in 1 .. Len(requests) : requests' = Without(requests, i)
        BY <3>1 DEF LoseRequest
      <4>2. Without(requests, i) \in Seq(Request)
        BY WithoutType
      <4> QED BY <3>1, <4>1, <4>2 DEF LoseRequest
    <3>2. CASE LoseResponse
      <4>1. PICK i \in 1 .. Len(responses) : responses' = Without(responses, i)
        BY <3>2 DEF LoseResponse
      <4>2. Without(responses, i) \in Seq(Response)
        BY WithoutType
      <4> QED BY <3>2, <4>1, <4>2 DEF LoseResponse
    <3>3. CASE DuplicateRequest
      <4>1. PICK i \in 1 .. Len(requests) : requests' = Append(requests, requests[i])
        BY <3>3 DEF DuplicateRequest
      <4>2. requests[i] \in Request
        OBVIOUS
      <4> QED BY <3>3, <4>1, <4>2 DEF DuplicateRequest
    <3>4. CASE DuplicateResponse
      <4>1. PICK i \in 1 .. Len(responses) : responses' = Append(responses, responses[i])
        BY <3>4 DEF DuplicateResponse
      <4>2. responses[i] \in Response
        OBVIOUS
      <4> QED BY <3>4, <4>1, <4>2 DEF DuplicateResponse
    <3> QED BY <1>1, <3>1, <3>2, <3>3, <3>4 DEF Network
  <2>2. /\ losses' \in 0 .. MaxLoss /\ lostat' \in Int
        /\ dups' \in 0 .. MaxDup /\ early' \in 0 .. MaxEarly
    <3>1. CASE LoseRequest \/ LoseResponse
      <4>1. /\ losses' = losses + 1 /\ losses < MaxLoss /\ lostat' = Len(returned)
            /\ dups' = dups /\ early' = early
        BY <3>1 DEF LoseRequest, LoseResponse, MayLose
      <4> QED BY <4>1, Constants DEF HWTypeOK
    <3>2. CASE DuplicateRequest \/ DuplicateResponse
      <4>1. /\ dups' = dups + 1 /\ dups < MaxDup
            /\ losses' = losses /\ lostat' = lostat /\ early' = early
        BY <3>2 DEF DuplicateRequest, DuplicateResponse
      <4> QED BY <4>1, Constants
    <3> QED BY <1>1, <3>1, <3>2 DEF Network
  <2>3. UNCHANGED <<devVars, hwVars>>
    BY <1>1 DEF Network, LoseRequest, LoseResponse, DuplicateRequest, DuplicateResponse
  <2> QED BY <2>1, <2>2, <2>3 DEF DeviceTypeOK, HWTypeOK, devVars, hwVars
<1>2. ASSUME NEW t, Ticks(t)
      PROVE  /\ WireTypeOK' /\ DeviceTypeOK'
             /\ losses' \in 0 .. MaxLoss /\ lostat' \in Int
             /\ dups' \in 0 .. MaxDup /\ early' \in 0 .. MaxEarly
             /\ t.run \in {"on", "due", "long"}
  BY <1>2, Constants DEF Ticks, wireVars, devVars, WireTypeOK, DeviceTypeOK
<1>3. CASE Tick
  <2> DEFINE tt  == [h.timedout EXCEPT !.tick = TRUE]
  <2>1. h \in HWRecord
    BY DEF HWTypeOK
  <2>2. PICK old \in Aged(h.timedout, {h.timeoutid}) :
          h' = [h EXCEPT !.timedout = tt, !.aged = old]
    BY <1>3 DEF Tick
  <2>3. tt \in Ticker
    BY <2>1, Fields DEF Ticker
  <2>4. old \in SUBSET UInt16
    BY <2>2 DEF Aged, Logged
  <2>5. h' \in HWRecord
    <3> HIDE DEF tt
    <3> QED BY <2>1, <2>2, <2>3, <2>4 DEF HWRecord
  <2>6. HWTypeOK'
    BY <1>3, <2>5 DEF Tick, HWTypeOK
  <2>7. Ticks(h.timedout)
    BY <1>3 DEF Tick
  <2> QED BY <1>2, <2>6, <2>7
<1>4. CASE TickWatched
  <2>1. Ticks(watched)
    BY <1>4 DEF TickWatched
  <2>2. watched # Current
    BY <1>2, <2>1 DEF Current
  <2>3. watched' \in Ticker
    BY <1>4, <2>2 DEF TickWatched, HWTypeOK, Ticker
  <2>4. HWTypeOK'
    <3>1. PICK old \in Aged(watched, {}) : h' = [h EXCEPT !.aged = old]
      BY <1>4 DEF TickWatched
    <3>2. old \in SUBSET UInt16
      BY <3>1 DEF Aged, Logged
    <3>3. h' \in HWRecord
      BY <3>1, <3>2 DEF HWTypeOK, HWRecord
    <3> QED BY <1>4, <2>3, <3>3 DEF TickWatched, HWTypeOK
  <2> QED BY <1>2, <2>1, <2>4
<1> QED BY <1>1, <1>3, <1>4

\* The users, receive and ConfigDevice keep everything well typed.
LEMMA ClientType ==
  ASSUME WireTypeOK, DeviceTypeOK, HWTypeOK,
         Send \/ receive \/ ConfigRequest \/ ConfigStatus
  PROVE  WireTypeOK' /\ DeviceTypeOK' /\ HWTypeOK'
<1> USE DEF WireTypeOK, DeviceTypeOK, HWTypeOK, wireVars, devVars
<1>1. CASE Send
  <2>1. handed + 1 \in Packets /\ handed + 1 \in 0 .. NPackets
    BY <1>1, Constants DEF Send, Packets
  <2>2. incoming' \in Seq(Packets) /\ handed' \in 0 .. NPackets
    BY <1>1, <2>1 DEF Send
  <2> QED BY <1>1, <2>2 DEF Send
<1>2. CASE receive
  <2>1. PICK i \in Deliverable(responses) :
          replies' = Append(replies, responses[i]) /\ responses' = Without(responses, i)
    BY <1>2 DEF receive
  <2>2. Without(responses, i) \in Seq(Response) /\ responses[i] \in Response
    BY DeliverableType, WithoutType
  <2> QED BY <1>2, <2>1, <2>2 DEF receive
<1>3. CASE ConfigRequest
  <2>1. newStatusPacket \in Request
    BY Constants DEF newStatusPacket, Request, control, status, resend
  <2> QED BY <1>3, <2>1 DEF ConfigRequest
<1>4. CASE ConfigStatus
  <2>1. Head(statuses) \in targetstatus /\ Tail(statuses) \in Seq(targetstatus)
    BY <1>4 DEF ConfigStatus
  <2>2. Head(statuses).nextid \in UInt16
    BY <2>1 DEF targetstatus
  <2>3. h' = [h EXCEPT !.nextID = Head(statuses).nextid, !.configured = TRUE]
    BY <1>4 DEF ConfigStatus
  <2>4. h' \in HWRecord
    BY <2>2, <2>3 DEF HWRecord
  <2> QED BY <1>4, <2>1, <2>4 DEF ConfigStatus
<1> QED BY <1>1, <1>2, <1>3, <1>4

\* The cases of Run's select keep everything well typed.
LEMMA RunType ==
  ASSUME WireTypeOK, DeviceTypeOK, HWTypeOK, Run
  PROVE  WireTypeOK' /\ DeviceTypeOK' /\ HWTypeOK'
<1> USE DEF WireTypeOK, DeviceTypeOK, HWTypeOK, wireVars, devVars
<1>1. CASE RunIncoming
  <2> DEFINE s == enqueue(h, Head(incoming))
  <2>1. Head(incoming) \in Packets /\ Tail(incoming) \in Seq(Packets)
    BY <1>1 DEF RunIncoming
  <2>2. s \in HWRecord
    BY <2>1, EnqueueType
  <2> HIDE DEF s
  <2>5. h' \in HWRecord /\ requests' \in Seq(Request)
    <3>1. CASE h' = s /\ UNCHANGED requests
      BY <2>2, <3>1
    <3>2. ASSUME NEW c \in Sendings(s), h' = c.hw, requests' = requests \o c.out
          PROVE  h' \in HWRecord /\ requests' \in Seq(Request)
      BY <2>2, <3>2, SendingsType
    <3> QED BY <1>1, <3>1, <3>2 DEF RunIncoming, s
  <2> QED BY <1>1, <2>1, <2>5 DEF RunIncoming
<1>2. CASE RunStatus
  <2>1. Head(replies) \in Response /\ Tail(replies) \in Seq(Response)
    BY <1>2 DEF RunStatus
  <2>2. Head(replies).st \in targetstatus
    BY <2>1 DEF Response
  <2> QED BY <1>2, <2>1, <2>2 DEF RunStatus
<1>3. CASE RunReply
  <2> DEFINE rep == Head(replies)
             req == h.flying[rep.id]
  <2>0. replies # <<>> /\ replies \in Seq(Response) /\ req # NoPacket
    BY <1>3 DEF RunReply
  <2>1. rep \in Response /\ Tail(replies) \in Seq(Response)
    BY <2>0
  <2>2. rep.id \in UInt16 /\ rep.pkt \in Packets \cup {NoPacket}
    BY <2>1 DEF Response
  <2>3. req \in Packets
    <3>1. h.flying \in [UInt16 -> Packets \cup {NoPacket}]
      BY Fields
    <3> HIDE DEF rep
    <3> QED BY <2>0, <2>2, <3>1
  <2>4. PICK s \in Landings(h, rep.id) : \E c \in Sendings(s) :
          LET t == [c.hw EXCEPT !.replied[rep.id] = req]
          IN  /\ requests' = requests \o c.out
              /\ \E n \in 0 .. Len(t.flyingids) :
                   /\ Returns(t, n)
                   /\ h' = returnreply(t, n)
                   /\ returned' = returned \o Handback(t, n)
    BY <1>3, Zenon DEF RunReply
  <2>12. PICK c \in Sendings(s) :
          LET t == [c.hw EXCEPT !.replied[rep.id] = req]
          IN  /\ requests' = requests \o c.out
              /\ \E n \in 0 .. Len(t.flyingids) :
                   /\ Returns(t, n)
                   /\ h' = returnreply(t, n)
                   /\ returned' = returned \o Handback(t, n)
    BY <2>4, Zenon
  <2>5. c.hw \in HWRecord /\ c.out \in Seq(Request)
    <3>1. s \in HWRecord
      BY <2>2, LandingsType
    <3> QED BY <3>1, SendingsType
  <2> DEFINE t == [c.hw EXCEPT !.replied[rep.id] = req]
  <2>6. t \in HWRecord
    <3> DEFINE m == [c.hw.replied EXCEPT ![rep.id] = req]
    <3>1. m \in [UInt16 -> Packets \cup {NoPacket}]
      BY <2>2, <2>3, <2>5, Fields
    <3>2. t = [c.hw EXCEPT !.replied = m]
      OBVIOUS
    <3> HIDE DEF m, t
    <3> QED BY <2>5, <3>1, <3>2 DEF HWRecord
  <2>7. PICK n \in 0 .. Len(t.flyingids) :
          Returns(t, n) /\ h' = returnreply(t, n) /\ returned' = returned \o Handback(t, n)
    BY <2>12, Zenon
  <2>8. h' \in HWRecord /\ Handback(t, n) \in Seq(Packets)
    <3> HIDE DEF t
    <3> QED BY <2>6, <2>7, ReturnreplyType
  <2>9. returned' \in Seq(Packets)
    <3> HIDE DEF t
    <3> QED BY <2>7, <2>8
  <2>10. answer' \in [Packets -> Packets \cup {NoPacket}]
    <3>1. answer' = [answer EXCEPT ![req] = IF @ = NoPacket THEN rep.pkt ELSE @]
      BY <1>3 DEF RunReply
    <3> HIDE DEF req, rep
    <3> QED BY <2>2, <2>3, <3>1
  <2>11. requests' \in Seq(Request)
    <3>1. requests' = requests \o c.out
      BY <2>12, Zenon
    <3> QED BY <2>5, <3>1
  <2> QED BY <1>3, <2>1, <2>8, <2>9, <2>10, <2>11 DEF RunReply
<1>4. CASE RunUnmatched
  <2>1. h' \in HWRecord
    <3>1. h' = [h EXCEPT !.panicked = Head(replies).id # h.resent]
      BY <1>4 DEF RunUnmatched
    <3>2. (Head(replies).id # h.resent) \in BOOLEAN
      OBVIOUS
    <3> QED BY <3>1, <3>2 DEF HWRecord
  <2>2. Tail(replies) \in Seq(Response)
    BY <1>4 DEF RunUnmatched
  <2> QED BY <1>4, <2>1, <2>2 DEF RunUnmatched
<1>5. CASE RunReport
  BY <1>5 DEF RunReport
<1> QED BY <1>1, <1>2, <1>3, <1>4, <1>5 DEF Run

\* The local state of a handlelost goroutine.
LostRecord == [pc : {"idle", "stop", "request", "await", "sent", "resend", "rewrite",
                     "readd", "finish"},
               id : UInt16, pack : Packets \cup {NoPacket}, resentpack : BOOLEAN,
               packetreceived : BOOLEAN, sent : SUBSET UInt16]

\* Moving a goroutine on, or giving it fresh locals, keeps lost well typed.
LEMMA LostType ==
  ASSUME lost \in [Handlers -> LostRecord], NEW g \in Handlers,
         NEW pc \in {"idle", "stop", "request", "await", "sent", "resend",
                     "rewrite", "readd", "finish"},
         NEW id \in UInt16, NEW p \in Packets \cup {NoPacket}, NEW b \in BOOLEAN
  PROVE  /\ [lost EXCEPT ![g].pc = pc] \in [Handlers -> LostRecord]
         /\ [lost EXCEPT ![g] = [idle EXCEPT !.pc = pc, !.id = id, !.pack = p,
                                             !.resentpack = b]]
              \in [Handlers -> LostRecord]
         /\ [lost EXCEPT ![g] = [idle EXCEPT !.pc = pc]] \in [Handlers -> LostRecord]
<1>1. [lost[g] EXCEPT !.pc = pc] \in LostRecord
  BY DEF LostRecord
<1>2. idle \in LostRecord
  BY Constants DEF LostRecord, idle
<1>3. [idle EXCEPT !.pc = pc] \in LostRecord
  BY <1>2 DEF LostRecord
<1>4. [idle EXCEPT !.pc = pc, !.id = id, !.pack = p, !.resentpack = b] \in LostRecord
  BY <1>2 DEF LostRecord
<1> QED BY <1>1, <1>3, <1>4

\* Store keeps the ticker Run waits on well typed.
LEMMA StoreType ==
  ASSUME h \in HWRecord, watched \in Ticker \cup {Current},
         NEW new \in HWRecord, NEW replaced, Store(new, replaced)
  PROVE  h' \in HWRecord /\ watched' \in Ticker \cup {Current}
BY Fields DEF Store

\* Run's timeout case and the steps of handlelost keep everything well typed.
LEMMA HandlelostType ==
  ASSUME WireTypeOK, DeviceTypeOK, HWTypeOK, NEW g \in Handlers,
         RunTimeout(g) \/ handlelost(g)
  PROVE  WireTypeOK' /\ DeviceTypeOK' /\ HWTypeOK'
<1>0. /\ requests \in Seq(Request) /\ responses \in Seq(Response)
      /\ h \in HWRecord /\ watched \in Ticker \cup {Current}
      /\ statuses \in Seq(targetstatus)
      /\ lost \in [Handlers -> LostRecord]
      /\ lost[g] \in LostRecord
  BY DEF WireTypeOK, HWTypeOK, LostRecord
<1>1. SUFFICES /\ requests' \in Seq(Request)
               /\ h' \in HWRecord
               /\ watched' \in Ticker \cup {Current}
               /\ statuses' \in Seq(targetstatus)
               /\ lost' \in [Handlers -> LostRecord]
  <2>1. UNCHANGED <<responses, devVars, incoming, replies, config, handed, answer, returned>>
    BY DEF RunTimeout, handlelost, LostStop, LostRequest, LostStatus, LostSent,
           LostResend, LostRewrite, LostReadd, LostFinish, wireVars
  <2> QED BY <1>1, <2>1 DEF WireTypeOK, DeviceTypeOK, HWTypeOK, LostRecord, devVars
<1> USE <1>0
<1>2. CASE RunTimeout(g)
  <2>1. h' \in HWRecord
    <3>1. CASE watched = Current
      <4> DEFINE t == [h.timedout EXCEPT !.tick = FALSE]
      <4>1. h' = [h EXCEPT !.timedout = t]
        BY <1>2, <3>1 DEF RunTimeout
      <4>2. t \in Ticker
        BY Fields DEF Ticker
      <4> HIDE DEF t
      <4> QED BY <4>1, <4>2 DEF HWRecord
    <3>2. CASE watched # Current
      BY <1>2, <3>2 DEF RunTimeout
    <3> QED BY <3>1, <3>2
  <2>2. lost' \in [Handlers -> LostRecord]
    BY <1>2, LostType, Constants DEF RunTimeout
  <2> QED BY <1>2, <2>1, <2>2 DEF RunTimeout, wireVars
<1>3. CASE LostStop(g)
  <2>1. Stop(h.timedout) \in Ticker
    BY Fields, TickerType
  <2>2. h' \in HWRecord
    BY <1>3, <2>1 DEF LostStop, HWRecord
  <2>3. lost' \in [Handlers -> LostRecord]
    BY <1>3, LostType, Constants DEF LostStop
  <2> QED BY <1>3, <2>2, <2>3 DEF LostStop, wireVars
<1>4. CASE LostRequest(g)
  <2>1. h' \in HWRecord
    BY <1>4 DEF LostRequest, HWRecord
  <2>2. newStatusPacket \in Request
    BY Constants DEF newStatusPacket, Request, control, status, resend
  <2>3. lost' \in [Handlers -> LostRecord]
    BY <1>4, LostType, Constants DEF LostRequest
  <2> QED BY <1>4, <2>1, <2>2, <2>3 DEF LostRequest
<1>10. CASE LostStatus(g)
  <2> DEFINE st   == Head(statuses)
             recd == h.timeoutid \in st.received
             new  == [idle EXCEPT !.pc = "sent", !.sent = st.sent, !.packetreceived = recd]
  <2>1. st \in targetstatus /\ Tail(statuses) \in Seq(targetstatus)
    BY <1>10 DEF LostStatus
  <2>2. recd \in BOOLEAN /\ st.sent \in SUBSET UInt16
    BY <2>1 DEF targetstatus
  <2>3. new \in LostRecord
    <3> HIDE DEF recd, st
    <3> QED BY <2>2, Constants DEF idle, LostRecord
  <2>4. lost' = [lost EXCEPT ![g] = new]
    BY <1>10 DEF LostStatus
  <2> HIDE DEF new
  <2>5. lost' \in [Handlers -> LostRecord]
    BY <2>3, <2>4
  <2> QED BY <1>10, <2>1, <2>5 DEF LostStatus, wireVars
<1>5. CASE LostSent(g)
  <2> DEFINE sent == h.timeoutid \in lost[g].sent
             recd == lost[g].packetreceived
             pc   == IF sent THEN "resend" ELSE "rewrite"
  <2>1. h' = [h EXCEPT !.panicked = recd /\ ~sent]
    BY <1>5 DEF LostSent
  <2>2. (recd /\ ~sent) \in BOOLEAN
    OBVIOUS
  <2>3. h' \in HWRecord
    <3> HIDE DEF sent, recd
    <3> QED BY <2>1, <2>2 DEF HWRecord
  <2>4. lost' = [lost EXCEPT ![g] = [idle EXCEPT !.pc = pc]]
    BY <1>5 DEF LostSent
  <2>5. pc \in {"resend", "rewrite"}
    OBVIOUS
  <2>6. lost' \in [Handlers -> LostRecord]
    <3> HIDE DEF pc
    <3> QED BY <2>4, <2>5, LostType, Constants
  <2> QED BY <1>5, <2>3, <2>6 DEF LostSent, wireVars
<1>6. CASE LostResend(g)
  <2> DEFINE s == [h EXCEPT !.resent = h.timeoutid]
  <2>1. h.timeoutid \in UInt16
    BY Fields
  <2>2. s \in HWRecord
    BY <2>1 DEF HWRecord
  <2>3. Store(updatetimeout(s), Retimes(h))
    BY <1>6 DEF LostResend
  <2> HIDE DEF s
  <2>4. h' \in HWRecord /\ watched' \in Ticker \cup {Current}
    BY <2>2, <2>3, UpdatetimeoutType, StoreType
  <2>5. newResendPacket(h.timeoutid) \in Request
    BY <2>1 DEF newResendPacket, Request
  <2>6. lost' \in [Handlers -> LostRecord]
    BY <1>6, LostType, Constants DEF LostResend
  <2> QED BY <1>6, <2>4, <2>5, <2>6 DEF LostResend
<1>7. CASE LostRewrite(g)
  <2> DEFINE id   == resendid(g)
             pack == h.flying[id]
  <2>1. id \in UInt16
    BY Fields DEF LostRecord, resendid
  <2>2. pack \in Packets \cup {NoPacket}
    <3> HIDE DEF id
    <3> QED BY <2>1, Fields
  <2>3. statuses' \in Seq(targetstatus)
    BY <1>7 DEF LostRewrite
  <2>4. CASE pack # NoPacket
    <3>1. /\ requests' = Append(requests, controlPacket(id, pack))
          /\ lost' = [lost EXCEPT ![g] = [idle EXCEPT !.pc = "readd", !.id = id,
                                                      !.pack = pack]]
          /\ UNCHANGED <<h, watched>>
      BY <1>7, <2>4 DEF LostRewrite
    <3> HIDE DEF id, pack
    <3>2. controlPacket(id, pack) \in Request
      BY <2>1, <2>2 DEF controlPacket, Request
    <3>3. [idle EXCEPT !.pc = "readd", !.id = id, !.pack = pack] \in LostRecord
      BY <2>1, <2>2 DEF idle, LostRecord
    <3>4. lost' \in [Handlers -> LostRecord]
      BY <3>1, <3>3
    <3> QED BY <2>3, <3>1, <3>2, <3>4
  <2>5. CASE pack = NoPacket
    <3>1. /\ Store(updatetimeout(h), Retimes(h)) \/ UNCHANGED <<h, watched>>
          /\ lost' = [lost EXCEPT ![g].pc = "finish"]
          /\ UNCHANGED requests
      BY <1>7, <2>5 DEF LostRewrite
    <3>2. h' \in HWRecord /\ watched' \in Ticker \cup {Current}
      BY <3>1, UpdatetimeoutType, StoreType
    <3>3. lost' \in [Handlers -> LostRecord]
      BY <3>1, LostType, Constants
    <3> QED BY <2>3, <3>1, <3>2, <3>3
  <2> QED BY <2>4, <2>5
<1>8. CASE LostReadd(g)
  <2> DEFINE id  == lost[g].id
             fly == [h.flying EXCEPT ![id] = lost[g].pack]
  <2>1. id \in UInt16 /\ lost[g].pack \in Packets \cup {NoPacket}
    BY DEF LostRecord
  <2>2. fly \in [UInt16 -> Packets \cup {NoPacket}]
    BY <2>1, Fields
  <2>3. h.aged \ {id} \in SUBSET UInt16
    BY Fields
  <2>4. h' = [h EXCEPT !.flying = fly, !.aged = h.aged \ {id}]
    BY <1>8 DEF LostReadd
  <2>5. h' \in HWRecord
    <3> HIDE DEF fly, id
    <3> QED BY <2>2, <2>3, <2>4 DEF HWRecord
  <2>6. succ(id) \in UInt16
    BY <2>1, SuccType
  <2>7. lost' \in [Handlers -> LostRecord]
    <3>1. lost' = [lost EXCEPT ![g] = [idle EXCEPT !.pc = "rewrite", !.id = succ(id),
                                                   !.resentpack = TRUE]]
      BY <1>8 DEF LostReadd
    <3> HIDE DEF id
    <3>2. [idle EXCEPT !.pc = "rewrite", !.id = succ(id), !.resentpack = TRUE] \in LostRecord
      BY <2>6 DEF idle, LostRecord
    <3> QED BY <3>1, <3>2
  <2> QED BY <1>8, <2>5, <2>7 DEF LostReadd, wireVars
<1>9. CASE LostFinish(g)
  <2> DEFINE s == [h EXCEPT !.handlinglost = FALSE]
  <2>1. s \in HWRecord
    BY DEF HWRecord
  <2>2. PICK c \in Sendings(s) : Store(c.hw, c.arms) /\ requests' = requests \o c.out
    BY <1>9 DEF LostFinish
  <2> HIDE DEF s
  <2>3. h' \in HWRecord /\ watched' \in Ticker \cup {Current}
    BY <2>1, <2>2, SendingsType, StoreType
  <2>4. requests' \in Seq(Request)
    BY <2>1, <2>2, SendingsType
  <2>5. idle \in LostRecord
    BY Constants DEF idle, LostRecord
  <2>6. lost' \in [Handlers -> LostRecord]
    BY <1>9, <2>5 DEF LostFinish
  <2> QED BY <1>9, <2>3, <2>4, <2>6 DEF LostFinish
<1> QED BY <1>2, <1>3, <1>4, <1>5, <1>6, <1>7, <1>8, <1>9, <1>10 DEF handlelost

-----------------------------------------------------------------------------
\* A write that fails and is fatal keeps everything well typed.
LEMMA PanicType ==
  ASSUME WireTypeOK, DeviceTypeOK, HWTypeOK, WritePanics
  PROVE  WireTypeOK' /\ DeviceTypeOK' /\ HWTypeOK'
<1>1. h' \in HWRecord
  BY DEF WritePanics, HWTypeOK, HWRecord
<1> QED BY <1>1 DEF WritePanics, WireTypeOK, DeviceTypeOK, HWTypeOK, wireVars, devVars

\* Every step keeps everything well typed.
LEMMA TypeStep == TypeOK /\ [Next]_vars => TypeOK'
<1> SUFFICES ASSUME TypeOK, [Next]_vars PROVE TypeOK'
  OBVIOUS
<1>1. CASE HWNext /\ UNCHANGED netVars
  <2>1. WireTypeOK' /\ DeviceTypeOK' /\ HWTypeOK'
    BY <1>1, ClientType, RunType, HandlelostType, PanicType DEF HWNext, TypeOK
  <2> QED BY <1>1, <2>1 DEF netVars, TypeOK
<1>2. CASE DeviceNext /\ UNCHANGED <<hwVars, netVars>>
  <2>1. WireTypeOK' /\ DeviceTypeOK'
    BY <1>2, DeviceType DEF TypeOK
  <2>2. HWTypeOK'
    BY <1>2 DEF hwVars, TypeOK, HWTypeOK
  <2> QED BY <1>2, <2>1, <2>2 DEF netVars, TypeOK
<1>3. CASE Network \/ Tick \/ TickWatched
  BY <1>3, NetworkType
<1>4. CASE UNCHANGED vars
  BY <1>4 DEF vars, wireVars, devVars, hwVars, netVars, TypeOK, WireTypeOK,
              DeviceTypeOK, HWTypeOK
<1> QED BY <1>1, <1>2, <1>3, <1>4 DEF Next

\* Every variable of the client, the device and the network keeps its type, for
\* every number of packets and goroutines, window, capacity and network: the ids
\* of hw stay uint16 values and no id other than 0 .. MaxID indexes a packet log.
THEOREM TypeCorrect == Spec => []TypeOK
BY InitType, TypeStep, PTL DEF Spec
=============================================================================
