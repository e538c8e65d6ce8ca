---------------------------- MODULE HWLinkProofs ----------------------------
(***************************************************************************)
(* What hw.go makes of a lossy network, for every value of the constants:  *)
(*   - the system implements ReliableLink;                                 *)
(*   - no packet is forgotten, whatever handlelost and Run do to the logs  *)
(*     at the same time;                                                   *)
(*   - every status reply has a goroutine that waits for it, if the        *)
(*     network does not copy datagrams;                                    *)
(*   - no flight slot is lost, whatever they do to inflight.               *)
(* The invariant IInv of HWSafetyProofs is what all of them start from.    *)
(***************************************************************************)
EXTENDS HWSafetyProofs, FiniteSetTheorems, FunctionTheorems

-----------------------------------------------------------------------------
(* Replies are about packets that were executed.                           *)

\* The replies in q are about the first n packets.
About(q, n) == \A i \in 1 .. Len(q) : q[i].id # 0 => q[i].pkt <= n

\* A reply, on the wire, in h.replies or parsed, is about an executed packet.
Answered ==
  /\ About(responses, Len(accepted))
  /\ About(replies, Len(accepted))
  /\ \A p \in Packets : answer[p] # NoPacket => p <= Len(accepted)

\* A datagram joins a channel of such replies, or leaves it.
LEMMA AboutKept ==
  ASSUME NEW q \in Seq(Response), NEW n, About(q, n)
  PROVE  /\ \A e \in Response : (e.id # 0 => e.pkt <= n) => About(Append(q, e), n)
         /\ \A i \in 1 .. Len(q) : About(Without(q, i), n)
         /\ q # <<>> => About(Tail(q), n)
<1>1. ASSUME NEW e \in Response, e.id # 0 => e.pkt <= n
      PROVE  About(Append(q, e), n)
  <2>1. \A k \in 1 .. Len(Append(q, e)) :
          Append(q, e)[k] = e \/ \E j \in 1 .. Len(q) : Append(q, e)[k] = q[j]
    BY AppendElems
  <2> QED BY <1>1, <2>1 DEF About
<1>2. ASSUME NEW i \in 1 .. Len(q)
      PROVE  About(Without(q, i), n)
  <2>1. \A k \in 1 .. Len(Without(q, i)) : \E j \in 1 .. Len(q) : Without(q, i)[k] = q[j]
    BY WithoutElems
  <2> QED BY <2>1 DEF About
<1>3. ASSUME q # <<>> PROVE About(Tail(q), n)
  <2>1. \A k \in 1 .. Len(Tail(q)) : Tail(q)[k] = q[k + 1] /\ k + 1 \in 1 .. Len(q)
    BY <1>3, TailElems
  <2> QED BY <2>1 DEF About
<1> QED BY <1>1, <1>2, <1>3

\* The device answers for what it has executed.
LEMMA DeviceAnswered ==
  ASSUME Regime, TypeOK, Live, Answered, DeviceNext, UNCHANGED hwVars
  PROVE  Answered'
<1>0. /\ UNCHANGED <<replies, answer>> /\ Executed
      /\ responses \in Seq(Response) /\ accepted \in Seq(Request) /\ Len(accepted) \in Nat
  BY Types DEF hwVars, Live
<1>1. CASE DeviceControl
  <2>1. PICK i \in Deliverable(requests) : DeviceControl!(i)
    BY <1>1 DEF DeviceControl
  <2>2. requests[i] \in Request
    BY DeliverableType, Types
  <2>3. Len(accepted') \in Nat /\ Len(accepted) <= Len(accepted')
    BY <1>0, <2>1, <2>2
  <2>4. \A q : About(q, Len(accepted)) /\ q \in Seq(Response) => About(q, Len(accepted'))
    <3> SUFFICES ASSUME NEW q \in Seq(Response), About(q, Len(accepted)), 
                        NEW k \in 1 .. Len(q), q[k].id # 0
                 PROVE  q[k].pkt <= Len(accepted')
      BY DEF About
    <3>1. q[k].pkt \in Packets \cup {NoPacket}
      <4>1. q[k] \in Response
        OBVIOUS
      <4> QED BY <4>1 DEF Response
    <3>2. q[k].pkt \in Int
      BY <3>1, Constants DEF Packets, NoPacket
    <3>3. q[k].pkt <= Len(accepted)
      BY DEF About
    <3> QED BY <1>0, <2>3, <3>2, <3>3
  <2>5. \A p \in Packets : answer[p] # NoPacket => p <= Len(accepted')
    BY <1>0, <2>3 DEF Answered, Packets
  <2>6. responses' = responses
    BY <2>1
  <2> QED BY <1>0, <2>4, <2>5, <2>6, Types DEF Answered
<1>2. ASSUME NEW k \in 1 .. Len(accepted), accepted' = accepted,
             responses' = Append(responses, controlReply(accepted[k].id, accepted[k].pkt))
      PROVE  Answered'
  <2> DEFINE e == controlReply(accepted[k].id, accepted[k].pkt)
  <2>1. e \in Response
    BY <1>0, ReplyCarries
  <2>2. e.pkt = k
    BY <1>0 DEF controlReply, Executed
  <2> HIDE DEF e
  <2>3. About(Append(responses, e), Len(accepted))
    BY <1>0, <2>1, <2>2, AboutKept DEF Answered
  <2> QED BY <1>0, <1>2, <2>3 DEF Answered, e
<1>3. CASE DeviceReply
  <2>1. answered + 1 \in 1 .. Len(accepted)
    BY <1>3, Types DEF DeviceReply
  <2> QED BY <1>2, <1>3, <2>1 DEF DeviceReply
<1>4. CASE DeviceStatus
  <2> DEFINE st == [nextid   |-> expects,
                    received |-> {accepted[k].id : k \in Recent(Len(accepted))},
                    sent     |-> {accepted[k].id : k \in Recent(answered)}]
             e  == statusReply(st)
  <2>1. responses' = Append(responses, e) /\ accepted' = accepted
    BY <1>4 DEF DeviceStatus, devVars
  <2>2. e \in Response
    <3>1. WireTypeOK' /\ WireTypeOK /\ DeviceTypeOK
      BY DeviceType DEF TypeOK
    <3>2. responses' \in Seq(Response) /\ responses \in Seq(Response)
      BY <3>1 DEF WireTypeOK
    <3> HIDE DEF e
    <3>3. Append(responses, e)[Len(responses) + 1] = e
      BY <1>0
    <3>4. Len(responses) + 1 \in 1 .. Len(Append(responses, e))
      BY <1>0
    <3> QED BY <2>1, <3>2, <3>3, <3>4
  <2>3. e.id = 0
    BY DEF statusReply
  <2> HIDE DEF e
  <2>4. About(Append(responses, e), Len(accepted))
    BY <1>0, <2>2, <2>3, AboutKept DEF Answered
  <2> QED BY <1>0, <2>1, <2>4 DEF Answered
<1>5. CASE DeviceResend
  <2>1. PICK i \in Deliverable(requests) : DeviceResend!(i)
    BY <1>5 DEF DeviceResend
  <2>2. CASE UNCHANGED responses
    BY <1>0, <2>1, <2>2 DEF Answered, devVars
  <2>3. CASE \E k \in Recent(answered) :
               responses' = Append(responses, controlReply(accepted[k].id, accepted[k].pkt))
    <3>1. PICK k \in Recent(answered) :
            responses' = Append(responses, controlReply(accepted[k].id, accepted[k].pkt))
      BY <2>3
    <3>2. k \in 1 .. Len(accepted)
      BY Types DEF Recent
    <3> QED BY <1>2, <2>1, <3>1, <3>2 DEF devVars
  <2> QED BY <2>1, <2>2, <2>3
<1> QED BY <1>1, <1>3, <1>4, <1>5 DEF DeviceNext

\* Copies and losses do not make a reply be about another packet.
LEMMA NetworkAnswered ==
  ASSUME TypeOK, Answered, Network \/ Tick \/ TickWatched
  PROVE  Answered'
<1>0. UNCHANGED <<replies, answer, accepted>> /\ responses \in Seq(Response)
  BY Types DEF Network, LoseRequest, LoseResponse, DuplicateRequest, DuplicateResponse,
               Tick, TickWatched, Ticks, hwVars, devVars
<1>1. CASE responses' = responses
  BY <1>0, <1>1 DEF Answered
<1>2. CASE LoseResponse
  <2>1. PICK i \in 1 .. Len(responses) : responses' = Without(responses, i)
    BY <1>2 DEF LoseResponse
  <2> QED BY <1>0, <2>1, AboutKept DEF Answered
<1>3. CASE DuplicateResponse
  <2>1. PICK i \in 1 .. Len(responses) : responses' = Append(responses, responses[i])
    BY <1>3 DEF DuplicateResponse
  <2>2. responses[i] \in Response /\ (responses[i].id # 0 => responses[i].pkt <= Len(accepted))
    BY <1>0 DEF Answered, About
  <2> QED BY <1>0, <2>1, <2>2, AboutKept DEF Answered
<1> QED BY <1>1, <1>2, <1>3 DEF Network, LoseRequest, DuplicateRequest, Tick, TickWatched,
                                Ticks, wireVars

\* Nor does Run when it takes a reply out of the channel and parses it.
LEMMA RunAnswered ==
  ASSUME Regime, TypeOK, Safe, Live, Answered, Run
  PROVE  Answered'
<1>0. UNCHANGED <<responses, accepted>> /\ replies \in Seq(Response)
  BY Types DEF Run, RunIncoming, RunStatus, RunReply, RunUnmatched, RunReport, wireVars, devVars
<1>1. CASE RunIncoming \/ RunReport
  BY <1>0, <1>1 DEF RunIncoming, RunReport, Answered
<1>2. CASE RunStatus \/ RunUnmatched
  <2>1. replies # <<>> /\ replies' = Tail(replies) /\ answer' = answer
    BY <1>2 DEF RunStatus, RunUnmatched
  <2> QED BY <1>0, <2>1, AboutKept DEF Answered
<1>3. CASE RunReply
  <2> DEFINE rep == Head(replies)
             req == h.flying[rep.id]
             a   == IF answer[req] = NoPacket THEN rep.pkt ELSE answer[req]
  <2>1. /\ replies # <<>> /\ replies' = Tail(replies) /\ rep.id # 0
        /\ req # NoPacket /\ answer' = [answer EXCEPT ![req] = a]
    BY <1>3 DEF RunReply
  <2>2. Carries(rep.id, rep.pkt, handed) /\ rep.id \in UInt16
    BY <2>1, ReplyTaken DEF Response
  <2>3. Carries(rep.id, req, handed)
    BY <2>1, <2>2 DEF Live, InFlight, Named
  <2>4. rep.pkt <= Len(accepted)
    <3>1. rep = replies[1] /\ 1 \in 1 .. Len(replies)
      BY <1>0, <2>1, TailElems
    <3> QED BY <2>1, <3>1 DEF Answered, About
  <2> HIDE DEF rep, req, a
  <2>5. req = rep.pkt
    <3>1. /\ req \in 1 .. NPackets + 1 /\ rep.pkt \in 1 .. NPackets + 1
          /\ Id(req) = Id(rep.pkt)
      BY <2>2, <2>3, Types, Constants DEF Carries
    <3> QED BY <3>1, IdInjective
  <2>6. \A p \in Packets : answer'[p] # NoPacket => p <= Len(accepted)
    <3>1. \A p \in Packets : p # req => answer'[p] = answer[p]
      BY <2>1, Types
    <3> QED BY <2>4, <2>5, <3>1 DEF Answered
  <2> QED BY <1>0, <2>1, <2>6, AboutKept DEF Answered
<1> QED BY <1>1, <1>2, <1>3 DEF Run

\* Nor do the users, receive, ConfigDevice and handlelost.
LEMMA ClientAnswered ==
  ASSUME TypeOK, Answered,
         \/ Send \/ receive \/ ConfigRequest \/ ConfigStatus
         \/ \E g \in Handlers : RunTimeout(g) \/ handlelost(g)
  PROVE  Answered'
<1>0. UNCHANGED <<answer, accepted>> /\ responses \in Seq(Response) /\ replies \in Seq(Response)
  BY Types DEF Send, receive, ConfigRequest, ConfigStatus, RunTimeout, handlelost, LostStop,
               LostRequest, LostStatus, LostSent, LostResend, LostRewrite, LostReadd, LostFinish,
               devVars
<1>1. CASE receive
  <2>1. PICK i \in Deliverable(responses) :
          replies' = Append(replies, responses[i]) /\ responses' = Without(responses, i)
    BY <1>1 DEF receive
  <2>2. i \in 1 .. Len(responses)
    BY DeliverableType
  <2>3. responses[i] \in Response /\ (responses[i].id # 0 => responses[i].pkt <= Len(accepted))
    BY <1>0, <2>2 DEF Answered, About
  <2> QED BY <1>0, <2>1, <2>2, <2>3, AboutKept DEF Answered
<1>2. CASE ~receive
  <2>1. UNCHANGED <<responses, replies>>
    BY <1>2 DEF Send, receive, ConfigRequest, ConfigStatus, RunTimeout, handlelost, LostStop,
            LostRequest, LostStatus, LostSent, LostResend, LostRewrite, LostReadd, LostFinish,
            wireVars
  <2> QED BY <1>0, <2>1 DEF Answered
<1> QED BY <1>1, <1>2

\* Every reply is about an executed packet, always.
LEMMA AnsweredStep == ASSUME Regime PROVE IInv /\ Answered /\ [Next]_vars => Answered'
<1> SUFFICES ASSUME IInv, Answered, [Next]_vars PROVE Answered'
  OBVIOUS
<1>1. CASE Next
  <2>1. TypeOK /\ Safe /\ Live
    BY <1>1 DEF IInv, Next
  <2>2. CASE HWNext
    BY <2>1, <2>2, ClientAnswered, RunAnswered, NoWritePanics DEF HWNext
  <2>3. CASE DeviceNext /\ UNCHANGED <<hwVars, netVars>>
    BY <2>1, <2>3, DeviceAnswered
  <2>4. CASE Network \/ Tick \/ TickWatched
    BY <2>1, <2>4, NetworkAnswered
  <2> QED BY <1>1, <2>2, <2>3, <2>4 DEF Next
<1>2. CASE UNCHANGED vars
  BY <1>2 DEF vars, wireVars, devVars, hwVars, Answered
<1> QED BY <1>1, <1>2

\* There is no reply at the start.
LEMMA AnsweredInit == Init => Answered
BY DEF Init, WireInit, DeviceInit, HWInit, Answered, About

-----------------------------------------------------------------------------
(* A reply, step by step.                                                  *)

\* updatetimeout does not touch the counter.
LEMMA UpdatetimeoutCounts ==
  ASSUME NEW s \in HWRecord PROVE updatetimeout(s).inflight = s.inflight
<1> DEFINE u == updatetimeout(s)
           dt == IF s.flying[s.flyingids[2]] # NoPacket /\ s.flyingids[2] \in s.aged
                 THEN "due" ELSE "on"
<1>1. CASE Retimes(s)
  <2>1. ~(s.inflight <= 0)
    BY <1>1, Fields DEF Retimes
  <2>2. u = [s EXCEPT !.timedout = NewTicker(dt), !.timeoutid = s.flyingids[2]]
    BY <1>1, <2>1, Zenon DEF updatetimeout
  <2> HIDE DEF u, dt
  <2> QED BY <2>2 DEF HWRecord, u
<1>2. CASE ~Retimes(s) /\ s.inflight > 0
  BY <1>2, Fields DEF updatetimeout, Retimes
<1>3. CASE s.inflight <= 0
  <2>1. u = [s EXCEPT !.timedout = Stop(@)]
    BY <1>3, Fields DEF updatetimeout, Retimes
  <2> HIDE DEF u
  <2> QED BY <2>1 DEF HWRecord, u
<1> QED BY <1>1, <1>2, <1>3, Fields

\* land counts one packet less, whether it was the oldest or not.
LEMMA LandCounts ==
  ASSUME NEW s \in HWRecord, NEW id \in UInt16
  PROVE  land(s, id).inflight = s.inflight - 1
<1> DEFINE freed == [s EXCEPT !.inflight = @ - 1]
           stopped == [freed EXCEPT !.timedout = Stop(@)]
           timed == IF s.flyingids # <<>> /\ s.flyingids[1] = id
                    THEN updatetimeout(stopped) ELSE freed
           fly   == [timed.flying EXCEPT ![id] = NoPacket]
<1>1. freed \in HWRecord /\ freed.inflight = s.inflight - 1
  <2>1. s.inflight - 1 \in Int
    BY Fields
  <2>2. freed = [s EXCEPT !.inflight = s.inflight - 1]
    OBVIOUS
  <2> HIDE DEF freed
  <2> QED BY <2>1, <2>2 DEF HWRecord
<1>2. stopped \in HWRecord /\ stopped.inflight = s.inflight - 1
  <2> HIDE DEF freed
  <2>1. Stop(freed.timedout) \in Ticker
    BY <1>1, Fields, TickerType
  <2> QED BY <1>1, <2>1 DEF HWRecord
<1>3. timed \in HWRecord /\ timed.inflight = s.inflight - 1
  <2> HIDE DEF freed, stopped
  <2> QED BY <1>1, <1>2, UpdatetimeoutCounts, UpdatetimeoutType
<1>4. land(s, id) = [timed EXCEPT !.flying = fly]
  BY DEF land
<1> HIDE DEF timed
<1> QED BY <1>3, <1>4 DEF HWRecord

\* sendnext counts what it sends.
LEMMA SendnextCounts ==
  ASSUME NEW s \in HWRecord PROVE sendnext(s).inflight = s.inflight + Burst(s)
<1> DEFINE n     == Burst(s)
           batch == SubSeq(s.queuedids, 1, n)
           out   == {batch[i] : i \in 1 .. n}
           queue == SubSeq(s.queuedids, n + 1, Len(s.queuedids))
           tos   == [id \in UInt16 |-> IF id \in out THEN NoPacket ELSE s.tosend[id]]
           fly   == [id \in UInt16 |-> IF id \in out THEN s.tosend[id] ELSE s.flying[id]]
           ids   == SubSeq(s.flyingids \o batch, 1, Least(FlyingMax, Len(s.flyingids) + n))
           tick  == IF Arms(s) THEN NewTicker("on") ELSE s.timedout
           tid   == IF Arms(s) THEN batch[1 - s.inflight] ELSE s.timeoutid
           pan   == s.panicked \/ \E i \in 1 .. n :
                      \/ s.tosend[batch[i]] = NoPacket
                      \/ \E j \in 1 .. i - 1 : batch[j] = batch[i]
           infl  == s.inflight + n
           aged  == s.aged \ out
<1>1. sendnext(s) = [s EXCEPT !.queuedids = queue, !.tosend = tos, !.flying = fly,
                        !.flyingids = ids, !.inflight = infl,
                        !.aged = aged, !.timedout = tick,
                        !.timeoutid = tid, !.panicked = pan]
  BY Zenon DEF sendnext
<1> HIDE DEF n, batch, out, queue, tos, fly, ids, tick, tid, pan, infl, aged
<1>2. sendnext(s).inflight = infl
  BY <1>1 DEF HWRecord
<1> QED BY <1>2 DEF infl, n

\* The packet in flight under id lands (w), others are sent (t), and the n
\* oldest go back.  sendnext does not look at replied, so what it does to the
\* queues it would also do once replied is set, as it is in w.
Replying(id, w, t, n) ==
  LET r == Len(returned)
      m == handed - Len(incoming)
  IN  /\ h.flying[id] # NoPacket
      /\ w.flying = [h.flying EXCEPT ![id] = NoPacket]
      /\ w.replied = [h.replied EXCEPT ![id] = h.flying[id]]
      /\ w.flyingids = h.flyingids /\ w.inflight = h.inflight - 1
      /\ Queues(w, r, m) /\ Named(w.flying, handed)
      /\ m \in 0 .. NPackets /\ handed \in m .. NPackets /\ m - r <= MaxOutstanding
      /\ t.flying = sendnext(w).flying /\ t.replied = w.replied
      /\ t.flyingids = sendnext(w).flyingids /\ t.inflight = sendnext(w).inflight
      /\ Queues(t, r, m) /\ Named(t.replied, handed)
      /\ Returns(t, n) /\ h' = returnreply(t, n) /\ Len(returned') = r + n

\* That is what RunReply does.
LEMMA ReplyStep ==
  ASSUME Regime, TypeOK, Safe, Live, RunReply
  PROVE  \E id \in UInt16, w \in HWRecord, t \in HWRecord : \E n \in 0 .. Len(t.flyingids) :
           Replying(id, w, t, n)
<1> DEFINE rep == Head(replies)
           req == h.flying[rep.id]
           r   == Len(returned)
           m   == handed - Len(incoming)
           After(l, o) ==
             LET v == [l EXCEPT !.replied[rep.id] = req]
             IN  /\ requests' = requests \o o
                 /\ \E n \in 0 .. Len(v.flyingids) :
                      /\ Returns(v, n)
                      /\ h' = returnreply(v, n)
                      /\ returned' = returned \o Handback(v, n)
<1>33. PICK s \in Landings(h, rep.id) : After(sendnext(s), Outgoing(s))
  BY ReplySends, Zenon
<1> DEFINE u   == sendnext(s)
           rp  == [u.replied EXCEPT ![rep.id] = req]
           t   == [u EXCEPT !.replied = rp]
           wr  == [h.replied EXCEPT ![rep.id] = req]
           w   == [s EXCEPT !.replied = wr]
<1>0. Waiting /\ Queued /\ InFlight
  BY DEF Live
<1>1. replies # <<>> /\ rep.id # 0 /\ req # NoPacket
  BY DEF RunReply
<1>2. PICK n \in 0 .. Len(t.flyingids) :
        Returns(t, n) /\ h' = returnreply(t, n) /\ returned' = returned \o Handback(t, n)
  BY <1>33
<1> HIDE DEF After
<1>3. rep \in Response /\ rep.id \in UInt16 /\ handed \in 0 .. NPackets
  <2>1. rep \in Response
    BY <1>1, ReplyTaken
  <2> QED BY <2>1, Types DEF Response
<1>4. Carries(rep.id, req, handed)
  BY <1>0, <1>1, <1>3 DEF InFlight, Named
<1>5. h \in HWRecord /\ r \in Nat /\ Len(incoming) \in Nat /\ returned \in Seq(Packets)
  BY Types
<1>6. m \in 0 .. NPackets /\ handed \in m .. NPackets /\ m - r <= MaxOutstanding /\ Queues(h, r, m)
  <2>1. Len(incoming) <= handed /\ Queues(h, r, m) /\ handed - r <= MaxOutstanding
    BY <1>0 DEF Waiting, Queued
  <2> QED BY <1>3, <1>5, <2>1, Constants
<1>7. s \in HWRecord
  BY <1>3, <1>5, <1>33, LandingsType
<1>8. /\ s.tosend = h.tosend /\ s.flying = [h.flying EXCEPT ![rep.id] = NoPacket]
      /\ s.replied = h.replied
      /\ s.queuedids = h.queuedids /\ s.flyingids = h.flyingids
      /\ s.inflight = h.inflight - 1
  <2> DEFINE k == rep.id
  <2>1. k \in UInt16 /\ s \in Landings(h, k) /\ h \in HWRecord
    BY <1>3, <1>5, <1>33
  <2> HIDE DEF k
  <2>2. land(h, k).inflight = h.inflight - 1
    BY <2>1, LandCounts, Zenon
  <2>3. /\ s.tosend = h.tosend /\ s.flying = [h.flying EXCEPT ![k] = NoPacket]
        /\ s.replied = h.replied
        /\ s.queuedids = h.queuedids /\ s.flyingids = h.flyingids
        /\ s.inflight = land(h, k).inflight
    BY <2>1, LandingsKeeps, Zenon
  <2> QED BY <2>2, <2>3 DEF k
<1>9. Named(h.replied, handed) /\ Named(h.flying, handed)
  BY <1>0 DEF InFlight
<1> HIDE DEF rep, m, r
<1>10. /\ h.flying \in [UInt16 -> Packets \cup {NoPacket}]
       /\ h.replied \in [UInt16 -> Packets \cup {NoPacket}]
  BY <1>5, Fields
<1>11. req \in Packets
  BY <1>1, <1>3, <1>10
<1> HIDE DEF req
<1>12. Queues(s, r, m)
  BY <1>6, <1>8 DEF Queues
<1>13. Named(s.flying, handed)
  BY <1>3, <1>8, <1>9, <1>10 DEF Named
<1>14. Queues(u, r, m) /\ Named(u.flying, handed) /\ u.replied = s.replied
  BY <1>5, <1>6, <1>7, <1>12, <1>13, SendnextKeeps
<1>15. u \in HWRecord
  BY <1>7, SendnextType
<1>16. wr \in [UInt16 -> Packets \cup {NoPacket}]
  BY <1>3, <1>10, <1>11
<1>17. rp = wr
  BY <1>8, <1>14
<1> HIDE DEF u, rp, wr
<1>18. /\ t \in HWRecord /\ t.flying = u.flying /\ t.inflight = u.inflight
       /\ t.tosend = u.tosend /\ t.replied = wr
       /\ t.queuedids = u.queuedids /\ t.flyingids = u.flyingids
  BY <1>15, <1>16, <1>17 DEF HWRecord
<1>19. /\ w \in HWRecord /\ w.flying = s.flying /\ w.inflight = s.inflight
       /\ w.tosend = s.tosend /\ w.replied = wr /\ w.handlinglost = s.handlinglost
       /\ w.queuedids = s.queuedids /\ w.flyingids = s.flyingids
  BY <1>7, <1>16 DEF HWRecord
<1> HIDE DEF t, w
<1>20. Queues(w, r, m) /\ Queues(t, r, m)
  BY <1>12, <1>14, <1>18, <1>19 DEF Queues
<1>21. Named(w.flying, handed)
  BY <1>13, <1>19
<1>22. Named(t.replied, handed)
  BY <1>4, <1>9, <1>10, <1>16, <1>18 DEF Named, wr
<1>23. Burst(w) = Burst(s)
  BY <1>19 DEF Burst
<1>24. u.flying = sendnext(w).flying /\ u.flyingids = sendnext(w).flyingids
  <2> DEFINE n1   == Burst(s)
             b    == SubSeq(s.queuedids, 1, n1)
             out  == {b[i] : i \in 1 .. n1}
             n2   == Burst(w)
             bw   == SubSeq(w.queuedids, 1, n2)
             outw == {bw[i] : i \in 1 .. n2}
  <2>1. /\ u.flyingids = SubSeq(s.flyingids \o b, 1, Least(FlyingMax, Len(s.flyingids) + n1))
        /\ u.flying = [id \in UInt16 |-> IF id \in out THEN s.tosend[id] ELSE s.flying[id]]
    BY <1>7, SendnextFields, Zenon DEF u
  <2>2. /\ sendnext(w).flyingids
             = SubSeq(w.flyingids \o bw, 1, Least(FlyingMax, Len(w.flyingids) + n2))
        /\ sendnext(w).flying
             = [id \in UInt16 |-> IF id \in outw THEN w.tosend[id] ELSE w.flying[id]]
    BY <1>19, SendnextFields, Zenon
  <2>3. n1 = n2 /\ b = bw /\ out = outw
    BY <1>19, <1>23
  <2> HIDE DEF n1, n2, b, bw, out, outw
  <2> QED BY <1>19, <2>1, <2>2, <2>3, Zenon
<1>25. u.inflight = sendnext(w).inflight
  BY <1>7, <1>19, <1>23, SendnextCounts DEF u
<1>26. Len(returned') = r + n
  <2> DEFINE hb == Handback(t, n)
  <2>1. hb \in Seq(Packets)
    BY <1>2, <1>18, ReturnreplyType
  <2>2. Len(hb) = n
    <3>1. n \in Nat
      BY <1>2, <1>18, Fields
    <3> QED BY <3>1 DEF Handback
  <2>3. returned' = returned \o hb
    BY <1>2
  <2> HIDE DEF hb
  <2>4. Len(returned \o hb) = Len(returned) + Len(hb)
    BY <1>5, <2>1, Joined
  <2> QED BY <2>2, <2>3, <2>4 DEF r
<1>27. /\ h.flying[rep.id] # NoPacket
       /\ w.flying = [h.flying EXCEPT ![rep.id] = NoPacket]
       /\ w.replied = [h.replied EXCEPT ![rep.id] = h.flying[rep.id]]
       /\ w.flyingids = h.flyingids /\ w.inflight = h.inflight - 1
  BY <1>1, <1>8, <1>19 DEF req, wr
<1>28. /\ t.flying = sendnext(w).flying /\ t.replied = w.replied
       /\ t.flyingids = sendnext(w).flyingids /\ t.inflight = sendnext(w).inflight
  BY <1>18, <1>19, <1>24, <1>25
<1>29. Returns(t, n) /\ h' = returnreply(t, n) /\ n \in 0 .. Len(t.flyingids)
  BY <1>2
<1>30. t \in HWRecord /\ w \in HWRecord /\ rep.id \in UInt16
  BY <1>3, <1>18, <1>19
<1>31. m \in 0 .. NPackets /\ handed \in m .. NPackets /\ m - r <= MaxOutstanding
  BY <1>6
<1>32. Replying(rep.id, w, t, n)
  BY <1>20, <1>21, <1>22, <1>26, <1>27, <1>28, <1>29, <1>31 DEF Replying, r, m
<1> QED BY <1>29, <1>30, <1>32

-----------------------------------------------------------------------------
(* The refinement.                                                         *)

\* The packets executed and those handed back with their replies, as the
\* refinement mapping shows them, are told by their number, and no packet is
\* handed back before it is executed.
Mapped ==
  /\ [i \in 1 .. Len(accepted) |-> accepted[i].pkt] = [i \in 1 .. Len(accepted) |-> i]
  /\ [i \in 1 .. Len(returned) |-> <<returned[i], answer[returned[i]]>>]
       = [i \in 1 .. Len(returned) |-> <<i, i>>]
  /\ Len(returned) <= Len(accepted)

\* That follows from the invariants.
LEMMA Mapping == IInv /\ Answered => Mapped
<1> HAVE IInv /\ Answered
<1>1. \A i \in 1 .. Len(accepted) : accepted[i].pkt = i
  BY DEF IInv, Safe, ExecutedOnce
<1>2. ASSUME NEW i \in 1 .. Len(returned)
      PROVE  /\ <<returned[i], answer[returned[i]]>> = <<i, i>>
             /\ i <= Len(accepted)
  <2>1. returned[i] = i /\ returned[i] \in Packets
    BY Types DEF IInv, Safe, InOrder
  <2>2. answer[i] = i /\ answer[i] # NoPacket
    BY <2>1, Constants DEF IInv, Safe, OwnReply
  <2> QED BY <2>1, <2>2 DEF Answered
<1>3. Len(returned) <= Len(accepted)
  <2>1. Len(returned) \in Nat /\ Len(accepted) \in Nat
    BY Types DEF IInv
  <2>2. CASE Len(returned) = 0
    BY <2>1, <2>2
  <2>3. CASE Len(returned) > 0
    <3>1. Len(returned) \in 1 .. Len(returned)
      BY <2>1, <2>3
    <3> QED BY <1>2, <3>1
  <2> QED BY <2>1, <2>2, <2>3
<1> QED BY <1>1, <1>2, <1>3 DEF Mapped

\* What a step may do to the three numbers that the link knows of.
LEMMA Counts ==
  ASSUME Regime, IInv, IInv', [Next]_vars
  PROVE  \/ /\ handed < NPackets /\ handed' = handed + 1
            /\ UNCHANGED <<Len(accepted), Len(returned)>>
         \/ /\ Len(accepted') = Len(accepted) + 1 /\ Len(accepted) < handed
            /\ UNCHANGED <<handed, Len(returned)>>
         \/ /\ Len(returned') >= Len(returned)
            /\ UNCHANGED <<handed, Len(accepted)>>
<1>0. /\ Len(accepted) \in Nat /\ Len(returned) \in Nat /\ handed \in Nat
      /\ accepted \in Seq(Request) /\ returned \in Seq(Packets)
  BY Types DEF IInv
<1>1. CASE UNCHANGED vars
  BY <1>0, <1>1 DEF vars, devVars, hwVars
<1>2. CASE Next
  <2>1. TypeOK /\ Safe /\ Live /\ ~h.panicked
    BY <1>2 DEF IInv, Next
  <2>2. CASE Send
    BY <1>0, <2>2 DEF Send, devVars
  <2>3. CASE RunReply
    <3>1. handed' = handed /\ accepted' = accepted
      BY <2>3 DEF RunReply, devVars
    <3>2. \E t \in HWRecord : \E n \in 0 .. Len(t.flyingids) :
            Len(returned') = Len(returned) + n
      BY <2>1, <2>3, ReplyStep DEF Replying
    <3>3. Len(returned') >= Len(returned)
      BY <1>0, <3>2, Fields
    <3> QED BY <3>1, <3>3
  <2>4. CASE DeviceControl /\ UNCHANGED hwVars
    <3>1. UNCHANGED <<h, handed, returned>>
      BY <2>4 DEF hwVars
    <3>2. PICK i \in Deliverable(requests) : DeviceControl!(i)
      BY <2>4 DEF DeviceControl
    <3>3. requests[i] \in Request
      BY <2>1, DeliverableType, Types
    <3>4. CASE accepted' = accepted
      BY <1>0, <3>1, <3>4
    <3>5. CASE accepted' = Append(accepted, requests[i])
      <4>1. Len(accepted') = Len(accepted) + 1
        BY <1>0, <3>3, <3>5
      <4>2. Len(accepted') <= handed
        BY <2>1, <3>1 DEF IInv, Live, Executed
      <4> QED BY <1>0, <3>1, <4>1, <4>2
    <3> QED BY <3>2, <3>4, <3>5
  <2>5. CASE \/ (DeviceReply \/ DeviceStatus \/ DeviceResend) /\ UNCHANGED hwVars
             \/ Network \/ Tick \/ TickWatched
    <3>1. UNCHANGED <<handed, accepted, returned>>
      BY <2>5 DEF DeviceReply, DeviceStatus, DeviceResend, Network,
          LoseRequest, LoseResponse, DuplicateRequest, DuplicateResponse, Tick, TickWatched,
          Ticks, hwVars, devVars
    <3> QED BY <1>0, <3>1
  <2>6. CASE \/ receive \/ ConfigRequest \/ ConfigStatus \/ RunIncoming \/ RunStatus
             \/ RunUnmatched \/ RunReport
             \/ \E g \in Handlers : RunTimeout(g) \/ handlelost(g)
    <3>1. UNCHANGED <<handed, accepted, returned>>
      BY <2>6 DEF receive, ConfigRequest, ConfigStatus, RunIncoming, RunStatus, RunUnmatched,
          RunReport, RunTimeout, handlelost, LostStop, LostRequest, LostStatus, LostSent,
          LostResend, LostRewrite, LostReadd, LostFinish, devVars
    <3> QED BY <1>0, <3>1
  <2> QED BY <1>2, <2>2, <2>3, <2>4, <2>5, <2>6, NoWritePanics
          DEF Next, HWNext, Run, DeviceNext
<1> QED BY <1>1, <1>2

\* One more packet executed, and more packets handed back.
LEMMA Lists ==
  ASSUME NEW k \in Nat, NEW n \in Nat, k <= n
  PROVE  LET E(j) == [i \in 1 .. j |-> i]
             D(j) == [i \in 1 .. j |-> <<i, i>>]
         IN  /\ Len(E(k)) = k /\ Len(D(k)) = k
             /\ E(k + 1) = Append(E(k), k + 1)
             /\ D(n) = [i \in 1 .. n |-> IF i <= Len(D(k)) THEN D(k)[i] ELSE <<i, i>>]
<1> DEFINE E(j) == [i \in 1 .. j |-> i]
           D(j) == [i \in 1 .. j |-> <<i, i>>]
<1>1. E(k) \in Seq(Int) /\ Len(E(k)) = k
  OBVIOUS
<1>2. Len(D(k)) = k
  OBVIOUS
<1>3. E(k + 1) = Append(E(k), k + 1)
  OBVIOUS
<1>4. D(n) = [i \in 1 .. n |-> IF i <= k THEN D(k)[i] ELSE <<i, i>>]
  <2>1. ASSUME NEW i \in 1 .. n PROVE <<i, i>> = IF i <= k THEN D(k)[i] ELSE <<i, i>>
    <3>1. CASE i <= k
      <4>1. i \in 1 .. k
        BY <3>1
      <4> QED BY <4>1
    <3>2. CASE ~(i <= k)
      BY <3>2
    <3> QED BY <3>1, <3>2
  <2> QED BY <2>1, Zenon
<1> QED BY <1>1, <1>2, <1>3, <1>4, Zenon

\* Every step is a step of the link or leaves it alone.
LEMMA LinkStep ==
  ASSUME Regime, IInv, IInv', Mapped, Mapped', [Next]_vars
  PROVE  [Link!LinkNext]_(Link!linkVars)
<1> DEFINE X  == [i \in 1 .. Len(accepted) |-> accepted[i].pkt]
           Y  == [i \in 1 .. Len(returned) |-> <<returned[i], answer[returned[i]]>>]
           a  == Len(accepted)
           b  == Len(returned)
           E(j) == [i \in 1 .. j |-> i]
           D(j) == [i \in 1 .. j |-> <<i, i>>]
<1>1. a \in Nat /\ b \in Nat /\ a' \in Nat /\ b' \in Nat
  <2>1. TypeOK /\ TypeOK'
    BY DEF IInv
  <2>2. accepted' \in Seq(Request) /\ returned' \in Seq(Packets)
    BY <2>1 DEF TypeOK, DeviceTypeOK, HWTypeOK
  <2> QED BY <2>1, <2>2, Types
<1>2. X = E(a) /\ Y = D(b)
  BY DEF Mapped
<1>3. X' = E(a') /\ Y' = D(b') /\ b' <= a'
  BY DEF Mapped
<1>5. \/ /\ handed < NPackets /\ handed' = handed + 1 /\ a' = a /\ b' = b
      \/ /\ a' = a + 1 /\ a < handed /\ handed' = handed /\ b' = b
      \/ /\ b' >= b /\ handed' = handed /\ a' = a
  BY Counts
<1> HIDE DEF X, Y, a, b
<1>6. CASE handed < NPackets /\ handed' = handed + 1 /\ a' = a /\ b' = b
  <2>1. X' = X /\ Y' = Y
    BY <1>2, <1>3, <1>6
  <2> QED BY <1>6, <2>1 DEF Link!LinkNext, Link!Hand, X, Y
<1>7. CASE a' = a + 1 /\ a < handed /\ handed' = handed /\ b' = b
  <2>1. Y' = Y
    BY <1>2, <1>3, <1>7
  <2>2. Len(X) = a /\ X' = Append(X, a + 1)
    BY <1>1, <1>2, <1>3, <1>7, Lists
  <2>3. Len(X) < handed /\ X' = Append(X, Len(X) + 1)
    BY <1>7, <2>2
  <2> QED BY <1>7, <2>1, <2>3 DEF Link!LinkNext, Link!Execute, X, Y
<1>8. CASE b' >= b /\ handed' = handed /\ a' = a
  <2>1. X' = X
    BY <1>2, <1>3, <1>8
  <2>2. CASE b' = b
    <3>1. Y' = Y
      BY <1>2, <1>3, <2>2
    <3> QED BY <1>8, <2>1, <3>1 DEF Link!linkVars, X, Y
  <2>3. CASE b' > b
    <3>1. Len(X) = a /\ Len(Y) = b
      BY <1>1, <1>2, Lists
    <3>2. Y' = [i \in 1 .. b' |-> IF i <= Len(Y) THEN Y[i] ELSE <<i, i>>]
      <4>1. D(b') = [i \in 1 .. b' |-> IF i <= Len(D(b)) THEN D(b)[i] ELSE <<i, i>>]
        BY <1>1, <1>8, Lists
      <4> QED BY <1>2, <1>3, <4>1
    <3>3. b' \in Len(Y) + 1 .. Len(X)
      BY <1>1, <1>3, <1>8, <2>3, <3>1
    <3>4. Link!Return
      BY <1>8, <2>1, <3>2, <3>3 DEF Link!Return, X, Y
    <3> QED BY <3>4 DEF Link!LinkNext
  <2> QED BY <1>1, <1>8, <2>2, <2>3
<1> QED BY <1>5, <1>6, <1>7, <1>8

\* hw, the device and a network that loses, copies and reorders datagrams make
\* a reliable link: whatever Run and handlelost do to each other, packets are
\* executed once and in order, and go back in order, after they were executed
\* and each with the reply to it.
THEOREM LinkRefinement == ASSUME Regime PROVE Spec => Reliable
<1>1. Init => Link!LinkInit
  <2> SUFFICES ASSUME Init PROVE Link!LinkInit
    OBVIOUS
  <2>1. handed = 0 /\ accepted = <<>> /\ returned = <<>>
    BY DEF Init, DeviceInit, HWInit
  <2>2. Len(accepted) = 0 /\ Len(returned) = 0
    BY <2>1
  <2>3. /\ [i \in 1 .. Len(accepted) |-> accepted[i].pkt] = <<>>
        /\ [i \in 1 .. Len(returned) |-> <<returned[i], answer[returned[i]]>>] = <<>>
    BY <2>2
  <2> QED BY <2>1, <2>3 DEF Link!LinkInit
<1>2. IInv /\ IInv' /\ Mapped /\ Mapped' /\ [Next]_vars => [Link!LinkNext]_(Link!linkVars)
  BY LinkStep
<1> QED BY <1>1, <1>2, Invariance, AnsweredInit, AnsweredStep, Mapping, PTL
        DEF Spec, Reliable, Link!LinkSpec

-----------------------------------------------------------------------------
(* What a step does to the packets in flight.                              *)

\* The packets that have been sent and not handed back are the same.
Same(u, s) ==
  /\ u.flying = s.flying /\ u.replied = s.replied
  /\ u.flyingids = s.flyingids /\ u.inflight = s.inflight

\* Giving a packet its id does not touch those that have been sent.
LEMMA EnqueueSame ==
  ASSUME NEW s \in HWRecord, NEW p \in Packets PROVE Same(enqueue(s, p), s)
<1> DEFINE t   == nextid(s)
           tos == [t.tosend EXCEPT ![s.nextID] = p]
           ids == Append(t.queuedids, s.nextID)
<1>1. t \in HWRecord /\ Same(t, s)
  <2>1. succ(s.nextID) \in UInt16
    BY SuccType, Fields
  <2> QED BY <2>1 DEF nextid, HWRecord, Same
<1>2. CASE s.nextID = 0 \/ Len(s.queuedids) = QueuedMax
  <2>1. enqueue(s, p) = [t EXCEPT !.panicked = TRUE]
    BY <1>2 DEF enqueue
  <2> HIDE DEF t
  <2> QED BY <1>1, <2>1 DEF HWRecord, Same
<1>3. CASE ~(s.nextID = 0 \/ Len(s.queuedids) = QueuedMax)
  <2>1. enqueue(s, p) = [t EXCEPT !.tosend = tos, !.queuedids = ids]
    BY <1>3 DEF enqueue
  <2> HIDE DEF t, tos, ids
  <2> QED BY <1>1, <2>1 DEF HWRecord, Same
<1> QED BY <1>2, <1>3

\* updatetimeout does not touch them either.
LEMMA UpdatetimeoutSame ==
  ASSUME NEW s \in HWRecord PROVE Same(updatetimeout(s), s)
BY UpdatetimeoutKeeps, UpdatetimeoutCounts DEF Same

\* sendnext(s) may be called: s is as h, its queues are in order.
Sendable(s, r, t) ==
  /\ s \in HWRecord /\ Queues(s, r, t)
  /\ r \in Nat /\ t \in 0 .. NPackets /\ handed \in t .. NPackets
  /\ t - r <= MaxOutstanding
  /\ Named(s.flying, handed)

\* A step leaves the packets that have been sent alone, or sends more, or is the
\* arrival of a reply, or is handlelost putting a packet back into flying.
LEMMA FlightStep ==
  ASSUME Regime, TypeOK, Safe, Live, Next
  PROVE  \/ Same(h', h) /\ Len(returned') = Len(returned)
         \/ \E s, t : /\ Sendable(s, Len(returned), t) /\ Same(s, h)
                      /\ h' = sendnext(s) /\ returned' = returned
         \/ RunReply
         \/ \E g \in Handlers : LostReadd(g)
<1> DEFINE r == Len(returned)
           m == handed - Len(incoming)
<1>0. Configured /\ Waiting /\ Queued /\ InFlight
  BY DEF Live
<1>1. /\ h \in HWRecord /\ r \in Nat /\ Len(incoming) \in Nat /\ handed \in 0 .. NPackets
      /\ Same(h, h)
  BY Types DEF Same
<1>2. m \in 0 .. NPackets /\ handed \in m .. NPackets /\ m - r <= MaxOutstanding /\ Queues(h, r, m)
  <2>1. Len(incoming) <= handed /\ Queues(h, r, m) /\ handed - r <= MaxOutstanding
    BY <1>0 DEF Waiting, Queued
  <2> QED BY <1>1, <2>1, Constants
<1>3. Named(h.flying, handed)
  BY <1>0 DEF InFlight
<1>4. CASE DeviceNext /\ UNCHANGED <<hwVars, netVars>>
  BY <1>1, <1>4 DEF hwVars
<1>5. CASE Network \/ Send \/ receive \/ ConfigRequest \/ RunStatus \/ RunReport
  <2>1. h' = h /\ returned' = returned
    BY <1>5 DEF Network, LoseRequest, LoseResponse, DuplicateRequest, DuplicateResponse,
                hwVars, Send, receive, ConfigRequest, RunStatus, RunReport
  <2> QED BY <1>1, <2>1
<1>6. CASE Tick \/ TickWatched
  <2>1. returned' = returned
    BY <1>6 DEF Tick, TickWatched
  <2> QED BY <1>1, <1>6, <2>1, TickKeeps DEF Same
<1>7. CASE ConfigStatus
  <2> DEFINE a == Head(statuses).nextid
  <2>1. h' = [h EXCEPT !.nextID = a, !.configured = TRUE] /\ returned' = returned
    BY <1>7 DEF ConfigStatus
  <2> HIDE DEF a
  <2> QED BY <1>1, <2>1 DEF HWRecord, Same
<1>8. CASE RunUnmatched
  <2> DEFINE b == Head(replies).id # h.resent
  <2>1. h' = [h EXCEPT !.panicked = b] /\ returned' = returned
    BY <1>8 DEF RunUnmatched
  <2> HIDE DEF b
  <2> QED BY <1>1, <2>1 DEF HWRecord, Same
<1>9. CASE RunIncoming
  <2> DEFINE s == enqueue(h, Head(incoming))
  <2>1. returned' = returned /\ incoming # <<>>
    BY <1>9 DEF RunIncoming
  <2>2. m \in 0 .. NPackets - 1 /\ m + 1 \in 1 .. handed /\ Head(incoming) = m + 1
    BY <2>1, HeadWaiting
  <2>3. m + 1 \in Packets
    BY <1>1, <2>2, Constants DEF Packets
  <2>4. s \in HWRecord /\ Same(s, h)
    BY <1>1, <2>2, <2>3, EnqueueType, EnqueueSame
  <2>5. CASE s.panicked
    <3>1. h' = s
      BY <1>9, <2>5, IncomingSends
    <3> QED BY <2>1, <2>4, <3>1
  <2>6. CASE ~s.panicked
    <3>1. h' = sendnext(s)
      BY <1>9, <2>6, IncomingSends
    <3>2. h.nextID = Id(m + 1)
      <4>1. handed # 0
        BY <1>1, <2>2
      <4> QED BY <1>0, <4>1 DEF Configured
    <3>3. ~h.panicked /\ s = enqueue(h, m + 1)
      BY <2>2 DEF Next
    <3> HIDE DEF s, m, r
    <3>4. Queues(s, r, m + 1)
      BY <1>1, <1>2, <2>2, <2>6, <3>2, <3>3, EnqueueKeeps
    <3>5. Named(s.flying, handed)
      BY <1>3, <2>4 DEF Same
    <3>6. m + 1 \in 0 .. NPackets /\ handed \in m + 1 .. NPackets
      BY <1>1, <2>2, Constants
    <3>7. (m + 1) - r <= MaxOutstanding
      <4>1. handed - r <= MaxOutstanding
        BY <1>0 DEF Queued, r
      <4> QED BY <1>1, <2>2, <4>1, Constants
    <3>8. Sendable(s, r, m + 1)
      BY <1>1, <2>4, <3>4, <3>5, <3>6, <3>7 DEF Sendable
    <3> QED BY <2>1, <2>4, <3>1, <3>8 DEF r
  <2> QED BY <2>5, <2>6
<1>10. ASSUME NEW g \in Handlers, RunTimeout(g) \/ handlelost(g), ~LostReadd(g)
       PROVE  \/ Same(h', h) /\ Len(returned') = Len(returned)
              \/ \E s, t : /\ Sendable(s, r, t) /\ Same(s, h)
                           /\ h' = sendnext(s) /\ returned' = returned
  <2>0. returned' = returned
    BY <1>10 DEF RunTimeout, handlelost, LostStop, LostRequest, LostStatus, LostSent,
                 LostResend, LostRewrite, LostReadd, LostFinish
  <2>1. CASE RunTimeout(g)
    <3>1. CASE watched = Current
      <4> DEFINE t == [h.timedout EXCEPT !.tick = FALSE]
      <4>1. h' = [h EXCEPT !.timedout = t]
        BY <2>1, <3>1 DEF RunTimeout
      <4> HIDE DEF t
      <4> QED BY <1>1, <2>0, <4>1 DEF HWRecord, Same
    <3>2. CASE watched # Current
      BY <1>1, <2>0, <2>1, <3>2 DEF RunTimeout
    <3> QED BY <3>1, <3>2
  <2>2. CASE LostStop(g)
    <3> DEFINE t == Stop(h.timedout)
    <3>1. h' = [h EXCEPT !.timedout = t]
      BY <2>2 DEF LostStop
    <3> HIDE DEF t
    <3> QED BY <1>1, <2>0, <3>1 DEF HWRecord, Same
  <2>3. CASE LostRequest(g)
    BY <1>1, <2>0, <2>3 DEF LostRequest, HWRecord, Same
  <2>8. CASE LostStatus(g)
    BY <1>1, <2>0, <2>8 DEF LostStatus
  <2>4. CASE LostSent(g)
    <3> DEFINE b == lost[g].packetreceived /\ ~(h.timeoutid \in lost[g].sent)
    <3>1. h' = [h EXCEPT !.panicked = b]
      BY <2>4 DEF LostSent
    <3> HIDE DEF b
    <3> QED BY <1>1, <2>0, <3>1 DEF HWRecord, Same
  <2>5. CASE LostResend(g)
    <3> DEFINE u == [h EXCEPT !.resent = h.timeoutid]
    <3>1. h' = updatetimeout(u)
      BY <2>5 DEF LostResend, Store
    <3>2. u \in HWRecord /\ Same(u, h)
      <4>1. h.timeoutid \in UInt16
        BY <1>1, Fields
      <4> QED BY <1>1, <4>1 DEF HWRecord, Same
    <3> HIDE DEF u
    <3> QED BY <2>0, <3>1, <3>2, UpdatetimeoutSame DEF Same
  <2>6. CASE LostRewrite(g)
    <3>1. h' = h \/ h' = updatetimeout(h)
      BY <2>6 DEF LostRewrite, Store
    <3> QED BY <1>1, <2>0, <3>1, UpdatetimeoutSame
  <2>7. CASE LostFinish(g)
    <3> DEFINE s == [h EXCEPT !.handlinglost = FALSE]
    <3>1. h' = sendnext(s)
      BY <2>7, FinishSends DEF Store
    <3>2. s \in HWRecord /\ Keeps(s) /\ Same(s, h)
      BY <1>1 DEF HWRecord, Keeps, Same
    <3> HIDE DEF s, m, r
    <3>3. Queues(s, r, m) /\ Named(s.flying, handed)
      BY <1>2, <1>3, <3>2 DEF Keeps, Queues
    <3>4. Sendable(s, r, m)
      BY <1>1, <1>2, <3>2, <3>3 DEF Sendable
    <3> QED BY <2>0, <3>1, <3>2, <3>4
  <2> QED BY <1>10, <2>1, <2>2, <2>3, <2>4, <2>5, <2>6, <2>7, <2>8 DEF handlelost
<1> HIDE DEF m
<1>11. CASE \E g \in Handlers : RunTimeout(g) \/ handlelost(g)
  BY <1>10, <1>11
<1> QED BY <1>4, <1>5, <1>6, <1>7, <1>8, <1>9, <1>11, NoWritePanics DEF Next, HWNext, Run

\* What sendnext does to flyingids and flying: n packets join the end of the
\* log, in flight, and no id is in it twice.
LEMMA SendnextLists ==
  ASSUME Regime, NEW s, NEW r, NEW t, Sendable(s, r, t)
  PROVE  LET n == Burst(s)
             f == Len(s.flyingids)
             u == sendnext(s)
         IN  /\ n \in Nat /\ f \in Nat /\ Len(u.flyingids) = f + n
             /\ \A i \in 1 .. f : u.flyingids[i] = s.flyingids[i]
             /\ \A i \in 1 .. f + n : u.flyingids[i] \in UInt16
             /\ \A i, j \in 1 .. f + n : u.flyingids[i] = u.flyingids[j] => i = j
             /\ \A i \in f + 1 .. f + n : u.flying[u.flyingids[i]] # NoPacket
             /\ \A id \in UInt16 : \/ u.flying[id] = s.flying[id]
                                   \/ \E i \in f + 1 .. f + n : u.flyingids[i] = id
             /\ \A i \in 1 .. f : u.flying[u.flyingids[i]] = s.flying[s.flyingids[i]]
             /\ u.replied = s.replied /\ u.inflight = s.inflight + n
             /\ u \in HWRecord
<1> DEFINE n   == Burst(s)
           b   == SubSeq(s.queuedids, 1, n)
           out == {b[i] : i \in 1 .. n}
           f   == Len(s.flyingids)
           q   == Len(s.queuedids)
           u   == sendnext(s)
<1>0. /\ s \in HWRecord /\ Queues(s, r, t) /\ r \in Nat /\ t \in 0 .. NPackets
      /\ handed \in t .. NPackets /\ t - r <= MaxOutstanding /\ Named(s.flying, handed)
  BY DEF Sendable
<1>1. /\ n \in 0 .. q
      /\ \A i \in 1 .. n : /\ b[i] = Id(r + f + i) /\ b[i] \in UInt16
                           /\ s.tosend[b[i]] = r + f + i
                           /\ r + f + i \in 1 .. t
  BY <1>0, BatchFacts
<1>2. n \in Nat /\ q \in Nat /\ f \in Nat /\ s.queuedids \in Seq(UInt16) /\ s.flyingids \in Seq(UInt16)
  BY <1>0, <1>1, Fields
<1>3. Queues(u, r, t) /\ u.replied = s.replied
  BY <1>0, SendnextKeeps
<1>4. u \in HWRecord /\ u.inflight = s.inflight + n
  BY <1>0, SendnextType, SendnextCounts
<1>5. /\ u.queuedids = SubSeq(s.queuedids, n + 1, q)
      /\ u.flying = [id \in UInt16 |-> IF id \in out THEN s.tosend[id] ELSE s.flying[id]]
  BY <1>0, SendnextFields, Zenon
<1>6. u.flyingids \in Seq(UInt16) /\ Len(u.flyingids) \in Nat
  BY <1>4, Fields
<1> HIDE DEF n, b, f, q, u
<1>7. Len(u.queuedids) = q - n
  <2> DEFINE a == s.queuedids
  <2>1. Len(SubSeq(a, n + 1, Len(a))) = Len(a) - n
    BY <1>1, <1>2, Behind, Zenon DEF q
  <2> QED BY <1>5, <2>1 DEF q
<1>8. Len(u.flyingids) = f + n
  <2>1. r + f + q = t /\ r + Len(u.flyingids) + Len(u.queuedids) = t
    BY <1>0, <1>3 DEF Queues, f, q
  <2> DEFINE x == Len(u.flyingids)
             y == Len(u.queuedids)
  <2>2. r \in Nat /\ x \in Nat /\ y = q - n /\ r + f + q = r + x + y
    BY <1>0, <1>6, <1>7, <2>1
  <2> HIDE DEF x, y
  <2>3. x = f + n
    BY <1>2, <2>2
  <2> QED BY <2>3 DEF x
<1>9. \A i \in 1 .. f + n : /\ u.flyingids[i] = Id(r + i) /\ u.flyingids[i] \in UInt16
                            /\ r + i \in 1 .. NPackets + 1
  <2>1. \A i \in 1 .. f + n : u.flyingids[i] = Id(r + i) /\ u.flyingids[i] \in UInt16
    BY <1>3, <1>6, <1>8 DEF Queues
  <2>2. r + f + q = t
    BY <1>0 DEF Queues, f, q
  <2>3. \A i \in 1 .. f + n : r + i \in 1 .. NPackets + 1
    BY <1>0, <1>1, <1>2, <2>2, Constants
  <2> QED BY <2>1, <2>3
<1>10. ASSUME NEW i \in 1 .. f + n, NEW j \in 1 .. f + n, u.flyingids[i] = u.flyingids[j]
       PROVE  i = j
  <2>1. Id(r + i) = Id(r + j) /\ r + i \in 1 .. NPackets + 1 /\ r + j \in 1 .. NPackets + 1
    BY <1>9, <1>10
  <2>2. r + i = r + j
    BY <2>1, IdInjective
  <2> QED BY <1>0, <1>2, <2>2
<1>11. \A i \in 1 .. f : u.flyingids[i] = s.flyingids[i] /\ i \in 1 .. f + n
  <2>1. \A i \in 1 .. f : s.flyingids[i] = Id(r + i)
    BY <1>0 DEF Queues, f
  <2> QED BY <1>2, <1>9, <2>1
<1>12. \A i \in 1 .. n : b[i] = u.flyingids[f + i] /\ f + i \in f + 1 .. f + n /\ f + i \in 1 .. f + n
  <2> SUFFICES ASSUME NEW i \in 1 .. n
               PROVE  b[i] = u.flyingids[f + i] /\ f + i \in f + 1 .. f + n /\ f + i \in 1 .. f + n
    OBVIOUS
  <2>1. f + i \in f + 1 .. f + n /\ f + i \in 1 .. f + n /\ r + (f + i) = r + f + i
    BY <1>0, <1>2
  <2> QED BY <1>1, <1>9, <2>1
<1>13. ASSUME NEW i \in f + 1 .. f + n PROVE u.flying[u.flyingids[i]] # NoPacket
  <2>1. i - f \in 1 .. n /\ i = f + (i - f)
    BY <1>2
  <2>2. u.flyingids[i] = b[i - f] /\ b[i - f] \in UInt16
    BY <1>1, <1>12, <2>1
  <2>3. u.flying[u.flyingids[i]] = s.tosend[b[i - f]]
    BY <1>5, <2>1, <2>2
  <2>4. s.tosend[b[i - f]] \in 1 .. t
    BY <1>1, <2>1
  <2> QED BY <1>0, <2>3, <2>4 DEF NoPacket
<1>14. ASSUME NEW id \in UInt16
       PROVE  \/ u.flying[id] = s.flying[id]
              \/ \E i \in f + 1 .. f + n : u.flyingids[i] = id
  <2>1. CASE id \in out
    BY <1>12, <2>1
  <2>2. CASE id \notin out
    <3> HIDE DEF out
    <3> QED BY <1>5, <2>2
  <2> QED BY <2>1, <2>2
<1>15. ASSUME NEW i \in 1 .. f PROVE u.flying[u.flyingids[i]] = s.flying[s.flyingids[i]]
  <2>1. u.flyingids[i] \in UInt16 /\ u.flyingids[i] = s.flyingids[i] /\ i \in 1 .. f + n
    BY <1>9, <1>11
  <2>2. ASSUME NEW j \in f + 1 .. f + n PROVE u.flyingids[j] # u.flyingids[i]
    <3>1. j \in 1 .. f + n /\ j # i
      BY <1>2
    <3> QED BY <1>10, <2>1, <3>1
  <2>3. u.flying[u.flyingids[i]] = s.flying[u.flyingids[i]]
    BY <1>14, <2>1, <2>2
  <2> QED BY <2>1, <2>3
<1> QED BY <1>2, <1>3, <1>4, <1>8, <1>9, <1>10, <1>11, <1>13, <1>14, <1>15 DEF n, f, u

\* What returnreply does to flyingids and replied: the first n ids leave the
\* log and their replies with them, and no id is in it twice.
LEMMA ReturnreplyLists ==
  ASSUME Regime, NEW s \in HWRecord, NEW r \in Nat, NEW t \in 0 .. NPackets,
         Queues(s, r, t), NEW n \in 0 .. Len(s.flyingids)
  PROVE  LET f == Len(s.flyingids)
             u == returnreply(s, n)
         IN  /\ n \in Nat /\ f \in Nat /\ Len(u.flyingids) = f - n
             /\ \A i \in 1 .. f - n : u.flyingids[i] = s.flyingids[n + i]
             /\ \A i \in 1 .. f : s.flyingids[i] \in UInt16
             /\ \A i, j \in 1 .. f : s.flyingids[i] = s.flyingids[j] => i = j
             /\ \A i \in 1 .. f - n : u.replied[u.flyingids[i]] = s.replied[u.flyingids[i]]
             /\ \A i \in 1 .. n : u.replied[s.flyingids[i]] = NoPacket
             /\ \A id \in UInt16 : u.replied[id] \in {s.replied[id], NoPacket}
             /\ u.flying = s.flying /\ u.inflight = s.inflight
<1> DEFINE ids  == SubSeq(s.flyingids, n + 1, Len(s.flyingids))
           gone == {s.flyingids[i] : i \in 1 .. n}
           rep  == [id \in UInt16 |-> IF id \in gone THEN NoPacket ELSE s.replied[id]]
           u    == returnreply(s, n)
           f    == Len(s.flyingids)
           q    == Len(s.queuedids)
<1>1. n \in Nat /\ f \in Nat /\ q \in Nat /\ s.flyingids \in Seq(UInt16)
  BY Fields
<1>2. u = [s EXCEPT !.flyingids = ids, !.replied = rep]
  BY DEF returnreply
<1>3. /\ u.flying = s.flying /\ u.inflight = s.inflight
      /\ u.flyingids = ids /\ u.replied = rep
  <2> HIDE DEF ids, rep, u
  <2> QED BY <1>2 DEF HWRecord
<1>4. Len(ids) = f - n /\ \A i \in 1 .. f - n : ids[i] = s.flyingids[n + i]
  BY <1>1, Behind
<1>5. \A i \in 1 .. f : s.flyingids[i] \in UInt16
  BY <1>1
<1>6. r + f + q = t /\ \A i \in 1 .. f : s.flyingids[i] = Id(r + i)
  BY DEF Queues
<1> HIDE DEF ids, u, f, q
<1>7. ASSUME NEW i \in 1 .. f, NEW j \in 1 .. f, s.flyingids[i] = s.flyingids[j]
      PROVE  i = j
  <2>1. Id(r + i) = Id(r + j)
    BY <1>6, <1>7
  <2>2. r + i \in 1 .. NPackets + 1 /\ r + j \in 1 .. NPackets + 1
    BY <1>1, <1>6, Constants
  <2>3. r + i = r + j
    BY <2>1, <2>2, IdInjective
  <2> QED BY <1>1, <2>3
<1>8. ASSUME NEW i \in 1 .. f - n PROVE u.replied[u.flyingids[i]] = s.replied[u.flyingids[i]]
  <2>1. n + i \in 1 .. f /\ u.flyingids[i] = s.flyingids[n + i]
    BY <1>1, <1>3, <1>4
  <2>2. u.flyingids[i] \notin gone
    <3> SUFFICES ASSUME NEW j \in 1 .. n, s.flyingids[n + i] = s.flyingids[j] PROVE FALSE
      BY <2>1
    <3>1. j \in 1 .. f
      BY <1>1, <2>1
    <3>2. n + i = j
      BY <1>7, <2>1, <3>1
    <3> QED BY <1>1, <2>1, <3>2
  <2>3. u.flyingids[i] \in UInt16
    BY <1>5, <2>1
  <2> HIDE DEF gone
  <2> QED BY <1>3, <2>2, <2>3
<1>9. ASSUME NEW i \in 1 .. n PROVE u.replied[s.flyingids[i]] = NoPacket
  <2>1. s.flyingids[i] \in UInt16 /\ s.flyingids[i] \in gone
    BY <1>1, <1>5 DEF f
  <2> HIDE DEF gone
  <2> QED BY <1>3, <2>1
<1>10. \A id \in UInt16 : u.replied[id] \in {s.replied[id], NoPacket}
  BY <1>3
<1> QED BY <1>1, <1>3, <1>4, <1>5, <1>7, <1>8, <1>9, <1>10 DEF u, f

-----------------------------------------------------------------------------
(* No packet is forgotten.                                                 *)

\* A packet that was sent and not handed back is in flying or in replied.
Tracked(s) ==
  \A i \in 1 .. Len(s.flyingids) : \/ s.flying[s.flyingids[i]] # NoPacket
                                   \/ s.replied[s.flyingids[i]] # NoPacket

\* What sendnext sends is in flying.
LEMMA SendnextTracked ==
  ASSUME Regime, NEW s, NEW r, NEW t, Sendable(s, r, t), Tracked(s)
  PROVE  Tracked(sendnext(s))
<1> DEFINE n == Burst(s)
           f == Len(s.flyingids)
           u == sendnext(s)
<1>1. /\ n \in Nat /\ f \in Nat /\ Len(u.flyingids) = f + n
      /\ \A i \in 1 .. f : u.flyingids[i] = s.flyingids[i]
      /\ \A i \in f + 1 .. f + n : u.flying[u.flyingids[i]] # NoPacket
      /\ \A i \in 1 .. f : u.flying[u.flyingids[i]] = s.flying[s.flyingids[i]]
      /\ u.replied = s.replied
  BY SendnextLists
<1>2. \A i \in 1 .. f : \/ s.flying[s.flyingids[i]] # NoPacket
                        \/ s.replied[s.flyingids[i]] # NoPacket
  BY DEF Tracked
<1> HIDE DEF n, f, u
<1>3. ASSUME NEW i \in 1 .. f + n
      PROVE  u.flying[u.flyingids[i]] # NoPacket \/ u.replied[u.flyingids[i]] # NoPacket
  <2>1. i \in 1 .. f \/ i \in f + 1 .. f + n
    BY <1>1
  <2> QED BY <1>1, <1>2, <2>1
<1> QED BY <1>1, <1>3 DEF Tracked, u

\* Every step keeps track of every packet, also the ones that put a packet back
\* into flying after its reply has come.
LEMMA TrackedStep == ASSUME Regime PROVE IInv /\ Tracked(h) /\ [Next]_vars => Tracked(h)'
<1> SUFFICES ASSUME IInv, Tracked(h), [Next]_vars PROVE Tracked(h')
  OBVIOUS
<1>1. CASE UNCHANGED vars
  BY <1>1 DEF vars, hwVars
<1>2. CASE Next
  <2>0. TypeOK /\ Safe /\ Live /\ h \in HWRecord
    BY <1>2, Types DEF IInv, Next
  <2>1. CASE Same(h', h)
    BY <2>1 DEF Same, Tracked
  <2>2. CASE \E s, t : Sendable(s, Len(returned), t) /\ Same(s, h) /\ h' = sendnext(s)
    <3>1. PICK s, t : Sendable(s, Len(returned), t) /\ Same(s, h) /\ h' = sendnext(s)
      BY <2>2
    <3>2. Tracked(s)
      BY <3>1 DEF Same, Tracked
    <3> QED BY <3>1, <3>2, SendnextTracked
  <2>3. CASE RunReply
    <3> DEFINE r == Len(returned)
               m == handed - Len(incoming)
    <3>1. PICK id \in UInt16, w \in HWRecord, t \in HWRecord :
            \E n \in 0 .. Len(t.flyingids) : Replying(id, w, t, n)
      BY <2>0, <2>3, ReplyStep
    <3>2. PICK n \in 0 .. Len(t.flyingids) : Replying(id, w, t, n)
      BY <3>1
    <3>3. r \in Nat
      BY <2>0, Types
    <3> HIDE DEF r, m
    <3>4. Tracked(w)
      <4>1. /\ h.flying \in [UInt16 -> Packets \cup {NoPacket}]
            /\ h.replied \in [UInt16 -> Packets \cup {NoPacket}]
            /\ h.flyingids \in Seq(UInt16)
        BY <2>0, Fields
      <4>2. /\ w.flyingids = h.flyingids /\ h.flying[id] # NoPacket
            /\ w.replied[id] = h.flying[id]
            /\ \A k \in UInt16 : k # id => w.flying[k] = h.flying[k] /\ w.replied[k] = h.replied[k]
        BY <3>2, <4>1 DEF Replying
      <4>3. \A i \in 1 .. Len(h.flyingids) : h.flyingids[i] \in UInt16
        BY <4>1
      <4> QED BY <4>2, <4>3 DEF Tracked
    <3>5. Sendable(w, r, m)
      BY <3>2, <3>3 DEF Sendable, Replying, r, m
    <3>6. Tracked(sendnext(w)) /\ sendnext(w).replied = w.replied
      BY <3>4, <3>5, SendnextTracked, SendnextLists
    <3>7. Tracked(t)
      BY <3>2, <3>6 DEF Tracked, Replying
    <3> DEFINE u == returnreply(t, n)
               f == Len(t.flyingids)
    <3>8. /\ n \in Nat /\ f \in Nat /\ Len(u.flyingids) = f - n
          /\ \A i \in 1 .. f - n : u.flyingids[i] = t.flyingids[n + i]
          /\ \A i \in 1 .. f - n : u.replied[u.flyingids[i]] = t.replied[u.flyingids[i]]
          /\ u.flying = t.flying
      <4>1. Queues(t, r, m) /\ m \in 0 .. NPackets
        BY <3>2 DEF Replying, r, m
      <4> QED BY <3>3, <4>1, ReturnreplyLists
    <3>9. \A i \in 1 .. f : t.flying[t.flyingids[i]] # NoPacket \/ t.replied[t.flyingids[i]] # NoPacket
      BY <3>7 DEF Tracked
    <3> HIDE DEF u, f
    <3>10. Tracked(u)
      <4> SUFFICES ASSUME NEW i \in 1 .. f - n
                   PROVE  u.flying[u.flyingids[i]] # NoPacket \/ u.replied[u.flyingids[i]] # NoPacket
        BY <3>8 DEF Tracked
      <4>1. n + i \in 1 .. f
        BY <3>8
      <4> QED BY <3>8, <3>9, <4>1
    <3> QED BY <3>2, <3>10 DEF u, Replying
  <2>4. ASSUME NEW g \in Handlers, LostReadd(g) PROVE Tracked(h')
    <3> DEFINE id  == lost[g].id
               fly == [h.flying EXCEPT ![id] = lost[g].pack]
               old == h.aged \ {id}
    <3>1. h' = [h EXCEPT !.flying = fly, !.aged = old]
      BY <2>4 DEF LostReadd
    <3>2. \A k \in UInt16 : h.flying[k] # NoPacket => fly[k] # NoPacket
      <4>1. Carries(id, lost[g].pack, handed)
        BY <2>0, <2>4 DEF Live, Rewriting, LostReadd
      <4>2. lost[g].pack # NoPacket
        BY <2>0, <4>1, Types DEF Carries, NoPacket
      <4> QED BY <2>0, <4>2, Fields
    <3> HIDE DEF fly, old
    <3>3. h'.flying = fly /\ h'.replied = h.replied /\ h'.flyingids = h.flyingids
      BY <2>0, <3>1 DEF HWRecord
    <3>4. \A i \in 1 .. Len(h.flyingids) : h.flyingids[i] \in UInt16
      BY <2>0, Fields
    <3> QED BY <3>2, <3>3, <3>4 DEF Tracked
  <2> QED BY <1>2, <2>0, <2>1, <2>2, <2>3, <2>4, FlightStep
<1> QED BY <1>1, <1>2

\* Nothing has been sent at the start.
LEMMA TrackedInit == Init => Tracked(h)
<1> SUFFICES ASSUME Init PROVE Tracked(h)
  OBVIOUS
<1>1. h.flyingids = <<>>
  BY DEF Init, HWInit, newhw
<1> QED BY <1>1 DEF Tracked

\* A packet is in the channel, queued, out or handed back, by its number.
LEMMA Found == ASSUME Regime PROVE IInv /\ Tracked(h) => NoneForgotten
<1> SUFFICES ASSUME IInv, Tracked(h), ~h.panicked, NEW p \in 1 .. handed
             PROVE  \/ \E i \in 1 .. Len(incoming) : incoming[i] = p
                    \/ \E id \in UInt16 : p \in {h.tosend[id], h.flying[id], h.replied[id]}
                    \/ \E i \in 1 .. Len(returned) : returned[i] = p
  BY DEF NoneForgotten
<1> DEFINE r == Len(returned)
           f == Len(h.flyingids)
           q == Len(h.queuedids)
           c == Len(incoming)
<1>0. Waiting /\ Queued /\ InFlight /\ TypeOK /\ InOrder
  BY DEF IInv, Live, Safe
<1>1. /\ r \in Nat /\ c \in Nat /\ handed \in 0 .. NPackets
      /\ h.flyingids \in Seq(UInt16) /\ h.queuedids \in Seq(UInt16)
      /\ f \in Nat /\ q \in Nat
  BY <1>0, Types, Fields
<1>2. /\ r + f + q = handed - c /\ c <= handed
      /\ \A i \in 1 .. c : incoming[i] = handed - c + i
      /\ \A i \in 1 .. f : h.flyingids[i] = Id(r + i) /\ h.flyingids[i] \in UInt16
      /\ \A i \in 1 .. q : /\ h.tosend[h.queuedids[i]] = r + f + i
                           /\ h.queuedids[i] \in UInt16
      /\ \A i \in 1 .. r : returned[i] = i
  <2>1. c <= handed /\ \A i \in 1 .. c : incoming[i] = handed - c + i
    BY <1>0 DEF Waiting
  <2>2. /\ r + f + q = handed - c
        /\ \A i \in 1 .. f : h.flyingids[i] = Id(r + i)
        /\ \A i \in 1 .. q : h.tosend[h.queuedids[i]] = r + f + i
    BY <1>0 DEF Queued, Queues
  <2>3. /\ \A i \in 1 .. f : h.flyingids[i] \in UInt16
        /\ \A i \in 1 .. q : h.queuedids[i] \in UInt16
    BY <1>1
  <2>4. \A i \in 1 .. r : returned[i] = i
    BY <1>0 DEF InOrder
  <2> HIDE DEF r, f, q, c
  <2> QED BY <2>1, <2>2, <2>3, <2>4
<1>3. \A i \in 1 .. f : h.flying[h.flyingids[i]] # NoPacket \/ h.replied[h.flyingids[i]] # NoPacket
  BY DEF Tracked
<1> HIDE DEF r, f, q, c
<1>4. p \in Int /\ 1 <= p /\ p <= handed /\ p \in 1 .. NPackets + 1
  BY <1>1, Constants
<1>5. CASE p <= r
  <2>1. p \in 1 .. r
    BY <1>1, <1>4, <1>5
  <2> QED BY <1>2, <2>1 DEF r
<1>6. CASE r < p /\ p <= r + f
  <2>1. p - r \in 1 .. f /\ r + (p - r) = p
    BY <1>1, <1>4, <1>6
  <2> DEFINE id == h.flyingids[p - r]
  <2>2. id = Id(p) /\ id \in UInt16
    BY <1>2, <2>1
  <2>3. h.flying[id] # NoPacket \/ h.replied[id] # NoPacket
    BY <1>3, <2>1
  <2> HIDE DEF id
  <2>4. ASSUME NEW k, Carries(id, k, handed) PROVE k = p
    <3>1. k \in 1 .. NPackets + 1 /\ Id(k) = Id(p)
      BY <1>1, <2>2, <2>4, Constants DEF Carries
    <3> QED BY <1>4, <3>1, IdInjective
  <2>5. h.flying[id] = p \/ h.replied[id] = p
    BY <1>0, <2>2, <2>3, <2>4 DEF InFlight, Named
  <2> QED BY <2>2, <2>5
<1>7. CASE r + f < p /\ p <= handed - c
  <2>1. p - (r + f) \in 1 .. q /\ r + f + (p - (r + f)) = p
    BY <1>1, <1>2, <1>4, <1>7
  <2> QED BY <1>2, <2>1
<1>8. CASE handed - c < p
  <2>1. p - (handed - c) \in 1 .. c /\ handed - c + (p - (handed - c)) = p
    BY <1>1, <1>4, <1>8
  <2> QED BY <1>2, <2>1 DEF c
<1>9. p <= r \/ (r < p /\ p <= r + f) \/ (r + f < p /\ p <= handed - c) \/ handed - c < p
  BY <1>1, <1>4
<1> QED BY <1>5, <1>6, <1>7, <1>8, <1>9

\* No packet is ever forgotten: until it goes back to its user it is in h.incoming
\* or in one of the packet logs, where Run and handlelost find it, although the
\* two share the logs without a lock and handlelost may put back what Run took out.
THEOREM NothingForgotten == ASSUME Regime PROVE Spec => []NoneForgotten
BY Invariance, TrackedInit, TrackedStep, Found, PTL DEF Spec

-----------------------------------------------------------------------------
(* The flight slots.                                                       *)

\* Where flyingids has ids without a reply.
Pending(s) == {i \in 1 .. Len(s.flyingids) : s.replied[s.flyingids[i]] = NoPacket}

\* The packets of log are among the first n.
Upto(log, n) == \A id \in UInt16 : log[id] <= n

\* inflight counts no more than the packets that are out and have no reply; what
\* is in flight or replied to, of r packets that went back and those that are
\* out, has been sent.  So a packet that is sent has no reply yet.
Slots(s, r) ==
  /\ s.inflight <= Cardinality(Pending(s))
  /\ Upto(s.flying, r + Len(s.flyingids)) /\ Upto(s.replied, r + Len(s.flyingids))

\* So has the packet that handlelost puts back into flying, even if its reply has
\* come since, or it has gone back to its user.
PutBack ==
  \A g \in Handlers : lost[g].pc = "readd" => lost[g].pack <= Len(returned) + Len(h.flyingids)

\* Pending packets can be counted.
LEMMA PendingFinite ==
  ASSUME NEW s \in HWRecord
  PROVE  IsFiniteSet(Pending(s)) /\ Cardinality(Pending(s)) \in Nat
<1>1. Len(s.flyingids) \in Nat
  BY Fields
<1>2. IsFiniteSet(1 .. Len(s.flyingids))
  BY <1>1, FS_Interval
<1>3. Pending(s) \subseteq 1 .. Len(s.flyingids)
  BY DEF Pending
<1> QED BY <1>2, <1>3, FS_Subset, FS_CardinalityType

\* Packets are numbers.
LEMMA LogNumbers ==
  ASSUME NEW s \in HWRecord, NEW id \in UInt16
  PROVE  /\ s.flying[id] \in Int /\ s.replied[id] \in Int
         /\ s.flying[id] >= 0 /\ s.replied[id] >= 0
<1>1. \A p \in Packets \cup {NoPacket} : p \in Int /\ p >= 0
  BY Constants DEF Packets, NoPacket
<1>2. s.flying[id] \in Packets \cup {NoPacket} /\ s.replied[id] \in Packets \cup {NoPacket}
  BY Fields
<1> QED BY <1>1, <1>2

\* sendnext takes a slot for each packet it sends.
LEMMA SendnextSlots ==
  ASSUME Regime, NEW s, NEW r, NEW t, Sendable(s, r, t), Named(s.replied, handed), Slots(s, r)
  PROVE  Slots(sendnext(s), r)
<1> DEFINE n == Burst(s)
           f == Len(s.flyingids)
           u == sendnext(s)
<1>0. /\ s \in HWRecord /\ r \in Nat /\ t \in 0 .. NPackets /\ handed \in t .. NPackets
      /\ Queues(s, r, t) /\ Named(s.flying, handed) /\ t - r <= MaxOutstanding
  BY DEF Sendable
<1>1. /\ n \in Nat /\ f \in Nat /\ Len(u.flyingids) = f + n
      /\ \A i \in 1 .. f : u.flyingids[i] = s.flyingids[i]
      /\ \A i \in 1 .. f + n : u.flyingids[i] \in UInt16
      /\ \A id \in UInt16 : \/ u.flying[id] = s.flying[id]
                            \/ \E i \in f + 1 .. f + n : u.flyingids[i] = id
      /\ u.replied = s.replied /\ u.inflight = s.inflight + n /\ u \in HWRecord
  BY SendnextLists
<1>2. Queues(u, r, t) /\ Named(u.flying, handed)
  BY <1>0, SendnextKeeps
<1>3. /\ s.inflight <= Cardinality(Pending(s)) /\ s.inflight \in Int
      /\ \A id \in UInt16 : s.flying[id] <= r + f /\ s.replied[id] <= r + f
  BY <1>0, Fields DEF Slots, Upto
<1>4. Pending(s) = {i \in 1 .. f : s.replied[s.flyingids[i]] = NoPacket}
  BY DEF Pending
<1>5. /\ \A i \in 1 .. f + n : u.flyingids[i] = Id(r + i)
      /\ r + f + n + Len(u.queuedids) = t
  <2> DEFINE q == Len(u.queuedids)
  <2>1. r + (f + n) + q = t /\ \A i \in 1 .. f + n : u.flyingids[i] = Id(r + i)
    BY <1>1, <1>2 DEF Queues
  <2>2. q \in Nat /\ n \in Nat /\ f \in Nat /\ r \in Nat
    BY <1>0, <1>1, Fields
  <2> HIDE DEF n, f, u, q
  <2>3. r + f + n + q = t
    BY <2>1, <2>2
  <2> QED BY <2>1, <2>3 DEF q
<1>6. \A i \in 1 .. f + n : r + i \in 1 .. NPackets + 1
  <2> DEFINE q == Len(u.queuedids)
  <2>1. q \in Nat /\ r + f + n + q = t
    BY <1>1, <1>5, Fields
  <2>2. n \in Nat /\ f \in Nat /\ r \in Nat /\ t \in 0 .. NPackets /\ NPackets \in Nat
    BY <1>0, <1>1, Constants
  <2> HIDE DEF n, f, q
  <2> QED BY <2>1, <2>2
<1> HIDE DEF n, f, u
<1>7. ASSUME NEW i \in f + 1 .. f + n
      PROVE  i \in 1 .. f + n /\ u.replied[u.flyingids[i]] = NoPacket
  <2> DEFINE id == u.flyingids[i]
             p  == s.replied[id]
  <2>1. i \in 1 .. f + n /\ i > f
    BY <1>1
  <2>2. id \in UInt16 /\ id = Id(r + i) /\ r + i \in 1 .. NPackets + 1
    BY <1>1, <1>5, <1>6, <2>1
  <2>3. p <= r + f
    BY <1>3, <2>2
  <2>4. p # NoPacket => p \in 1 .. handed /\ id = Id(p)
    BY <2>2 DEF Named, Carries
  <2> HIDE DEF id, p
  <2>5. p = NoPacket
    <3> SUFFICES ASSUME p # NoPacket PROVE FALSE
      OBVIOUS
    <3>1. p \in 1 .. NPackets + 1 /\ Id(p) = Id(r + i)
      BY <1>0, <2>2, <2>4, Constants
    <3>2. p = r + i
      BY <2>2, <3>1, IdInjective
    <3> QED BY <1>0, <1>1, <2>1, <2>3, <3>1, <3>2
  <2> QED BY <1>1, <2>1, <2>5 DEF id, p
<1>8. Pending(u) = Pending(s) \cup (f + 1 .. f + n)
  <2>1. Pending(u) = {i \in 1 .. f + n : u.replied[u.flyingids[i]] = NoPacket}
    BY <1>1 DEF Pending
  <2>2. ASSUME NEW i \in 1 .. f + n PROVE i \in 1 .. f \/ i \in f + 1 .. f + n
    BY <1>1
  <2>3. \A i \in 1 .. f : i \in 1 .. f + n /\ u.replied[u.flyingids[i]] = s.replied[s.flyingids[i]]
    BY <1>1
  <2> QED BY <1>4, <1>7, <2>1, <2>2, <2>3
<1>9. Cardinality(Pending(u)) = Cardinality(Pending(s)) + n
  <2>1. IsFiniteSet(f + 1 .. f + n) /\ Cardinality(f + 1 .. f + n) = n
    <3>1. f + 1 \in Int /\ f + n \in Int
      BY <1>1
    <3>2. /\ IsFiniteSet(f + 1 .. f + n)
          /\ Cardinality(f + 1 .. f + n) = IF f + 1 > f + n THEN 0 ELSE (f + n) - (f + 1) + 1
      BY <3>1, FS_Interval
    <3> QED BY <1>1, <3>2
  <2>2. Pending(s) \cap (f + 1 .. f + n) = {}
    BY <1>1, <1>4
  <2>3. IsFiniteSet(Pending(s)) /\ Cardinality(Pending(s)) \in Nat
    BY <1>0, PendingFinite
  <2>4. Cardinality(Pending(s) \cup (f + 1 .. f + n))
          = Cardinality(Pending(s)) + n - Cardinality(Pending(s) \cap (f + 1 .. f + n))
    BY <2>1, <2>3, FS_Union
  <2>5. Cardinality(Pending(s) \cap (f + 1 .. f + n)) = 0
    BY <2>2, FS_EmptySet
  <2> QED BY <1>1, <1>8, <2>3, <2>4, <2>5
<1>10. ASSUME NEW id \in UInt16
       PROVE  u.flying[id] <= r + (f + n) /\ u.replied[id] <= r + (f + n)
  <2>0. s.flying[id] \in Int /\ s.replied[id] \in Int
    BY <1>0, LogNumbers
  <2>1. u.replied[id] <= r + (f + n)
    BY <1>0, <1>1, <1>3, <2>0
  <2>2. CASE u.flying[id] = s.flying[id]
    BY <1>0, <1>1, <1>3, <2>0, <2>1, <2>2
  <2>3. ASSUME NEW i \in f + 1 .. f + n, u.flyingids[i] = id
        PROVE  u.flying[id] <= r + (f + n)
    <3> DEFINE p == u.flying[id]
    <3>1. i \in 1 .. f + n /\ i <= f + n
      BY <1>1
    <3>2. id = Id(r + i) /\ r + i \in 1 .. NPackets + 1
      BY <1>5, <1>6, <2>3, <3>1
    <3>3. p # NoPacket => p \in 1 .. handed /\ id = Id(p)
      BY <1>2 DEF Named, Carries
    <3> HIDE DEF p
    <3>4. CASE p = NoPacket
      BY <1>0, <1>1, <3>4 DEF p, NoPacket
    <3>5. CASE p # NoPacket
      <4>1. p \in 1 .. NPackets + 1 /\ Id(p) = Id(r + i)
        BY <1>0, <3>2, <3>3, <3>5, Constants
      <4>2. p = r + i
        BY <3>2, <4>1, IdInjective
      <4> QED BY <1>0, <1>1, <3>1, <4>2 DEF p
    <3> QED BY <3>4, <3>5
  <2> QED BY <1>1, <2>1, <2>2, <2>3
<1>11. u.inflight <= Cardinality(Pending(u))
  <2> DEFINE c == Cardinality(Pending(s))
  <2>1. c \in Nat
    BY <1>0, PendingFinite
  <2> HIDE DEF c
  <2> QED BY <1>1, <1>3, <1>9, <2>1 DEF c
<1> QED BY <1>1, <1>10, <1>11 DEF Slots, Upto, u

\* A reply arrives: its packet is not in flight any more and has its reply.  It
\* frees one slot, also if it did before, and at most one packet less is pending.
LEMMA LandSlots ==
  ASSUME NEW s \in HWRecord, NEW w \in HWRecord, NEW id \in UInt16, NEW r \in Nat, Slots(s, r),
         \A i, j \in 1 .. Len(s.flyingids) : s.flyingids[i] = s.flyingids[j] => i = j,
         w.flying = [s.flying EXCEPT ![id] = NoPacket],
         w.replied = [s.replied EXCEPT ![id] = s.flying[id]],
         w.flyingids = s.flyingids, w.inflight = s.inflight - 1
  PROVE  Slots(w, r)
<1> DEFINE f == Len(s.flyingids)
<1>1. /\ s.flying \in [UInt16 -> Packets \cup {NoPacket}]
      /\ s.replied \in [UInt16 -> Packets \cup {NoPacket}]
      /\ s.flyingids \in Seq(UInt16) /\ s.inflight \in Int /\ f \in Nat
  BY Fields
<1>2. /\ w.flying[id] = NoPacket /\ w.replied[id] = s.flying[id]
      /\ \A k \in UInt16 : k # id => w.flying[k] = s.flying[k] /\ w.replied[k] = s.replied[k]
  BY <1>1
<1>3. /\ s.inflight <= Cardinality(Pending(s))
      /\ \A k \in UInt16 : s.flying[k] <= r + f /\ s.replied[k] <= r + f
  BY DEF Slots, Upto
<1>4. /\ Pending(w) = {i \in 1 .. f : w.replied[s.flyingids[i]] = NoPacket}
      /\ Pending(s) = {i \in 1 .. f : s.replied[s.flyingids[i]] = NoPacket}
  BY DEF Pending
<1>5. \A i \in 1 .. f : s.flyingids[i] \in UInt16
  BY <1>1
<1> HIDE DEF f
<1>6. Cardinality(Pending(s)) - 1 <= Cardinality(Pending(w))
  <2>0. /\ IsFiniteSet(Pending(s)) /\ Cardinality(Pending(s)) \in Nat
        /\ IsFiniteSet(Pending(w)) /\ Cardinality(Pending(w)) \in Nat
    BY PendingFinite
  <2>1. CASE \E j \in 1 .. f : s.flyingids[j] = id
    <3>1. PICK j \in 1 .. f : s.flyingids[j] = id
      BY <2>1
    <3>2. ASSUME NEW i \in Pending(s), i # j PROVE i \in Pending(w)
      <4>1. i \in 1 .. f /\ s.replied[s.flyingids[i]] = NoPacket
        BY <1>4
      <4>2. s.flyingids[i] # id
        BY <3>1, <3>2, <4>1 DEF f
      <4> QED BY <1>2, <1>4, <1>5, <4>1, <4>2
    <3>3. Pending(s) \ {j} \in SUBSET Pending(w)
      BY <3>2
    <3>4. Cardinality(Pending(s) \ {j}) <= Cardinality(Pending(w))
      BY <2>0, <3>3, FS_Subset
    <3>5. Cardinality(Pending(s) \ {j}) = IF j \in Pending(s) THEN Cardinality(Pending(s)) - 1
                                          ELSE Cardinality(Pending(s))
      BY <2>0, FS_RemoveElement
    <3> QED BY <2>0, <3>4, <3>5
  <2>2. CASE ~\E j \in 1 .. f : s.flyingids[j] = id
    <3>1. Pending(w) = Pending(s)
      BY <1>2, <1>4, <1>5, <2>2
    <3> QED BY <2>0, <3>1
  <2> QED BY <2>1, <2>2
<1>7. w.inflight <= Cardinality(Pending(w))
  <2> DEFINE c == Cardinality(Pending(s))
             d == Cardinality(Pending(w))
  <2>1. c \in Nat /\ d \in Nat
    BY PendingFinite
  <2>2. c - 1 <= d /\ s.inflight <= c
    BY <1>3, <1>6
  <2> HIDE DEF c, d
  <2>3. w.inflight <= d
    BY <1>1, <2>1, <2>2
  <2> QED BY <2>3 DEF d
<1>8. ASSUME NEW k \in UInt16 PROVE w.flying[k] <= r + f /\ w.replied[k] <= r + f
  <2>1. CASE k = id
    BY <1>1, <1>2, <1>3, <2>1 DEF NoPacket
  <2>2. CASE k # id
    BY <1>2, <1>3, <2>2
  <2> QED BY <2>1, <2>2
<1> QED BY <1>7, <1>8 DEF Slots, Upto, f

\* Packets go back: they have their replies and were not pending.
LEMMA ReturnreplySlots ==
  ASSUME Regime, NEW s \in HWRecord, NEW r \in Nat, NEW t \in 0 .. NPackets,
         Queues(s, r, t), NEW n \in 0 .. Len(s.flyingids), Returns(s, n), Slots(s, r)
  PROVE  /\ Slots(returnreply(s, n), r + n)
         /\ r + n + Len(returnreply(s, n).flyingids) = r + Len(s.flyingids)
<1> DEFINE f == Len(s.flyingids)
           u == returnreply(s, n)
<1>1. /\ n \in Nat /\ f \in Nat /\ Len(u.flyingids) = f - n
      /\ \A i \in 1 .. f - n : u.flyingids[i] = s.flyingids[n + i]
      /\ \A i \in 1 .. f - n : u.replied[u.flyingids[i]] = s.replied[u.flyingids[i]]
      /\ \A id \in UInt16 : u.replied[id] \in {s.replied[id], NoPacket}
      /\ u.flying = s.flying /\ u.inflight = s.inflight
  BY ReturnreplyLists
<1>2. /\ s.inflight <= Cardinality(Pending(s))
      /\ \A k \in UInt16 : s.flying[k] <= r + f /\ s.replied[k] <= r + f
  BY DEF Slots, Upto
<1>3. \A i \in 1 .. n : s.replied[s.flyingids[i]] # NoPacket
  BY DEF Returns
<1>4. Pending(s) = {i \in 1 .. f : s.replied[s.flyingids[i]] = NoPacket}
  BY DEF Pending
<1>6. n <= f
  BY Fields
<1> HIDE DEF f, u
<1>7. Pending(u) = {i \in 1 .. f - n : s.replied[s.flyingids[n + i]] = NoPacket}
  <2>1. Pending(u) = {i \in 1 .. f - n : u.replied[u.flyingids[i]] = NoPacket}
    BY <1>1 DEF Pending
  <2>2. \A i \in 1 .. f - n : u.replied[u.flyingids[i]] = s.replied[s.flyingids[n + i]]
    BY <1>1
  <2> QED BY <2>1, <2>2
<1>8. Cardinality(Pending(u)) = Cardinality(Pending(s))
  <2> DEFINE A == Pending(u)
             B == Pending(s)
             b == [i \in A |-> n + i]
  <2>1. ASSUME NEW i \in A PROVE n + i \in B /\ i \in Int
    <3>1. i \in 1 .. f - n /\ s.replied[s.flyingids[n + i]] = NoPacket
      BY <1>7
    <3>2. n + i \in 1 .. f
      BY <1>1, <3>1
    <3> QED BY <1>4, <3>1, <3>2
  <2>2. ASSUME NEW i \in B PROVE i - n \in A /\ n + (i - n) = i
    <3>1. i \in 1 .. f /\ s.replied[s.flyingids[i]] = NoPacket
      BY <1>4
    <3>2. i \notin 1 .. n
      BY <1>3, <3>1
    <3>3. i - n \in 1 .. f - n /\ n + (i - n) = i
      BY <1>1, <1>6, <3>1, <3>2
    <3> QED BY <1>7, <3>1, <3>3
  <2> HIDE DEF A, B
  <2>3. b \in [A -> B]
    BY <2>1
  <2>4. \A i, j \in A : b[i] = b[j] => i = j
    BY <1>1, <2>1
  <2>5. \A i \in B : \E j \in A : b[j] = i
    BY <2>2
  <2>6. b \in Bijection(A, B)
    <3> HIDE DEF b
    <3> QED BY <2>3, <2>4, <2>5, Fun_IsBij
  <2>7. ExistsBijection(A, B)
    BY <2>6 DEF ExistsBijection
  <2>8. IsFiniteSet(A)
    <3>1. IsFiniteSet(1 .. f - n)
      BY <1>1, FS_Interval
    <3>2. A \subseteq 1 .. f - n
      BY <1>7 DEF A
    <3> QED BY <3>1, <3>2, FS_Subset
  <2> QED BY <2>7, <2>8, FS_Bijection DEF A, B
<1>9. r + n + (f - n) = r + f /\ 0 <= r + f
  BY <1>1
<1>10. ASSUME NEW k \in UInt16 PROVE u.flying[k] <= r + f /\ u.replied[k] <= r + f
  <2>1. u.replied[k] = s.replied[k] \/ u.replied[k] = 0
    BY <1>1 DEF NoPacket
  <2> QED BY <1>1, <1>2, <1>9, <2>1
<1>11. Slots(u, r + n)
  BY <1>1, <1>2, <1>8, <1>9, <1>10 DEF Slots, Upto
<1> QED BY <1>1, <1>9, <1>11 DEF u, f

\* The arrival of a reply loses no slot.
LEMMA ReplySlots ==
  ASSUME Regime, TypeOK, Safe, Live, RunReply, Slots(h, Len(returned))
  PROVE  /\ Slots(h', Len(returned'))
         /\ Len(returned') + Len(h'.flyingids) >= Len(returned) + Len(h.flyingids)
<1> DEFINE r == Len(returned)
           m == handed - Len(incoming)
<1>1. PICK id \in UInt16, w \in HWRecord, t \in HWRecord :
        \E n \in 0 .. Len(t.flyingids) : Replying(id, w, t, n)
  BY ReplyStep
<1>2. PICK n \in 0 .. Len(t.flyingids) : Replying(id, w, t, n)
  BY <1>1
<1>3. r \in Nat /\ h \in HWRecord
  BY Types
<1>4. Queues(h, r, m)
  BY DEF Live, Queued
<1>5. /\ h.flying[id] # NoPacket
      /\ w.flying = [h.flying EXCEPT ![id] = NoPacket]
      /\ w.replied = [h.replied EXCEPT ![id] = h.flying[id]]
      /\ w.flyingids = h.flyingids /\ w.inflight = h.inflight - 1
      /\ Queues(w, r, m) /\ Named(w.flying, handed)
      /\ m \in 0 .. NPackets /\ handed \in m .. NPackets /\ m - r <= MaxOutstanding
      /\ t.flying = sendnext(w).flying /\ t.replied = w.replied
      /\ t.flyingids = sendnext(w).flyingids /\ t.inflight = sendnext(w).inflight
      /\ Queues(t, r, m) /\ Returns(t, n) /\ h' = returnreply(t, n)
      /\ Named(t.replied, handed) /\ Len(returned') = r + n
  BY <1>2, Zenon DEF Replying
<1> HIDE DEF r, m
<1>6. \A i, j \in 1 .. Len(h.flyingids) : h.flyingids[i] = h.flyingids[j] => i = j
  <2>1. 0 \in 0 .. Len(h.flyingids)
    BY <1>3, Fields
  <2> QED BY <1>3, <1>4, <1>5, <2>1, ReturnreplyLists
<1>7. Slots(w, r)
  BY <1>3, <1>5, <1>6, LandSlots DEF r
<1>8. Sendable(w, r, m)
  BY <1>3, <1>5 DEF Sendable
<1>9. Slots(sendnext(w), r) /\ sendnext(w).replied = w.replied
  BY <1>5, <1>7, <1>8, SendnextSlots, SendnextLists
<1>10. Slots(t, r)
  BY <1>5, <1>9 DEF Slots, Pending
<1>11. Slots(h', r + n) /\ r + n + Len(h'.flyingids) = r + Len(t.flyingids)
  BY <1>3, <1>5, <1>10, ReturnreplySlots
<1>12. Len(t.flyingids) >= Len(h.flyingids)
  <2>1. /\ Burst(w) \in Nat /\ Len(w.flyingids) \in Nat
        /\ Len(sendnext(w).flyingids) = Len(w.flyingids) + Burst(w)
    BY <1>8, SendnextLists
  <2> QED BY <1>5, <2>1
<1>13. Len(t.flyingids) \in Nat /\ Len(h.flyingids) \in Nat
  BY <1>3, Fields
<1>14. n \in Nat /\ r \in Nat /\ Len(h'.flyingids) \in Nat
  <2>1. Len(returnreply(t, n).flyingids) = Len(t.flyingids) - n
    BY <1>3, <1>5, ReturnreplyLists
  <2>2. n \in Nat /\ n <= Len(t.flyingids)
    BY <1>13
  <2> QED BY <1>3, <1>5, <1>13, <2>1, <2>2 DEF r
<1>15. Len(returned') + Len(h'.flyingids) >= r + Len(h.flyingids)
  <2> DEFINE a == Len(t.flyingids)
             b == Len(h.flyingids)
             c == Len(h'.flyingids)
             v == Len(returned')
  <2>1. /\ a \in Nat /\ b \in Nat /\ c \in Nat /\ n \in Nat /\ r \in Nat
        /\ a >= b /\ v = r + n /\ r + n + c = r + a
    BY <1>5, <1>11, <1>12, <1>13, <1>14
  <2> HIDE DEF a, b, c, v
  <2>2. v + c >= r + b
    BY <2>1
  <2> QED BY <2>2 DEF b, c, v
<1> QED BY <1>5, <1>11, <1>15 DEF r

\* No step loses a slot, or takes a packet that has been sent back.
LEMMA SlotsGrow ==
  ASSUME Regime, IInv, Slots(h, Len(returned)), PutBack, Next
  PROVE  /\ Slots(h', Len(returned'))
         /\ Len(returned') + Len(h'.flyingids) >= Len(returned) + Len(h.flyingids)
<1> DEFINE r == Len(returned)
           f == Len(h.flyingids)
<1>0. /\ TypeOK /\ Safe /\ Live /\ h \in HWRecord /\ handed \in 0 .. NPackets
      /\ r \in Nat /\ f \in Nat
  BY Types, Fields DEF IInv, Next
<1>1. CASE Same(h', h) /\ Len(returned') = Len(returned)
  <2>1. Slots(h', Len(returned'))
    BY <1>1 DEF Same, Slots, Pending
  <2> QED BY <1>1, <2>1 DEF Same
<1>2. CASE \E s, t : /\ Sendable(s, r, t) /\ Same(s, h)
                     /\ h' = sendnext(s) /\ returned' = returned
  <2>1. PICK s, t : /\ Sendable(s, r, t) /\ Same(s, h)
                    /\ h' = sendnext(s) /\ returned' = returned
    BY <1>2
  <2>2. Slots(s, r)
    BY <2>1 DEF Same, Slots, Pending
  <2>3. Named(s.replied, handed)
    BY <1>0, <2>1 DEF Same, Live, InFlight
  <2>4. Slots(sendnext(s), r)
    BY <2>1, <2>2, <2>3, SendnextSlots
  <2>5. /\ Burst(s) \in Nat /\ Len(s.flyingids) = f
        /\ Len(sendnext(s).flyingids) = Len(s.flyingids) + Burst(s)
    BY <2>1, SendnextLists DEF Same
  <2>6. Len(h'.flyingids) >= f
    BY <1>0, <2>1, <2>5
  <2> QED BY <1>0, <2>1, <2>4, <2>6
<1>3. CASE RunReply
  BY <1>0, <1>3, ReplySlots
<1>4. ASSUME NEW g \in Handlers, LostReadd(g)
      PROVE  Slots(h', Len(returned')) /\ Len(returned') + Len(h'.flyingids) >= r + f
  <2> DEFINE id  == lost[g].id
             fly == [h.flying EXCEPT ![id] = lost[g].pack]
             old == h.aged \ {id}
  <2>1. h' = [h EXCEPT !.flying = fly, !.aged = old] /\ lost[g].pc = "readd" /\ returned' = returned
    BY <1>4 DEF LostReadd
  <2>2. h.flying \in [UInt16 -> Packets \cup {NoPacket}]
    BY <1>0, Fields
  <2>3. lost[g].pack <= r + f
    BY <2>1 DEF PutBack
  <2>4. \A k \in UInt16 : fly[k] <= r + f
    BY <2>2, <2>3 DEF Slots, Upto
  <2> HIDE DEF fly, old
  <2>5. /\ h'.flying = fly /\ h'.replied = h.replied /\ h'.flyingids = h.flyingids
        /\ h'.inflight = h.inflight
    BY <1>0, <2>1 DEF HWRecord
  <2> HIDE DEF r
  <2>6. Slots(h', r)
    BY <2>4, <2>5 DEF Slots, Upto, Pending, r
  <2> QED BY <1>0, <2>1, <2>5, <2>6 DEF r
<1>5. Slots(h', Len(returned')) /\ Len(returned') + Len(h'.flyingids) >= r + f
  <2>1. CASE Same(h', h) /\ Len(returned') = Len(returned)
    BY <1>0, <1>1, <2>1 DEF Same
  <2>2. CASE \E s, t : /\ Sendable(s, r, t) /\ Same(s, h)
                       /\ h' = sendnext(s) /\ returned' = returned
    BY <1>0, <1>2, <2>2
  <2> QED BY <1>0, <1>3, <1>4, <2>1, <2>2, FlightStep
<1> QED BY <1>5

\* What handlelost will put back is a packet it has found in flying.
LEMMA PutBackStep ==
  ASSUME Regime, TypeOK, Next, Slots(h, Len(returned)), PutBack,
         Len(returned') + Len(h'.flyingids) >= Len(returned) + Len(h.flyingids),
         Len(returned') + Len(h'.flyingids) \in Nat
  PROVE  PutBack'
<1> DEFINE v == Len(returned) + Len(h.flyingids)
           w == Len(returned') + Len(h'.flyingids)
<1>0. /\ h \in HWRecord /\ v \in Nat /\ w \in Nat /\ w >= v
      /\ lost \in [Handlers -> LostRecord] /\ \A g \in Handlers : lost[g].pack \in Nat
  <2>1. lost \in [Handlers -> LostRecord] /\ h \in HWRecord /\ Len(returned) \in Nat
    BY DEF TypeOK, HWTypeOK, LostRecord
  <2>2. \A g \in Handlers : lost[g].pack \in Packets \cup {NoPacket}
    BY <2>1 DEF LostRecord
  <2>3. \A g \in Handlers : lost[g].pack \in Nat
    BY <2>2, Constants DEF Packets, NoPacket
  <2>4. Len(h.flyingids) \in Nat
    BY <2>1, Fields
  <2> QED BY <2>1, <2>3, <2>4
<1>1. \A k \in UInt16 : h.flying[k] \in Nat /\ h.flying[k] <= v
  <2>1. h.flying \in [UInt16 -> Packets \cup {NoPacket}]
    BY <1>0, Fields
  <2> QED BY <2>1, Constants DEF Slots, Upto, Packets, NoPacket
<1>2. \A g \in Handlers : lost[g].pc = "readd" => lost[g].pack <= v
  BY DEF PutBack
<1> HIDE DEF v, w
<1>3. SUFFICES \A g \in Handlers : lost'[g].pc = "readd" =>
                 lost'[g] = lost[g] \/ \E k \in UInt16 : lost'[g].pack = h.flying[k]
  <2> SUFFICES ASSUME NEW g \in Handlers, lost'[g].pc = "readd" PROVE lost'[g].pack <= w
    BY DEF PutBack, w
  <2>1. CASE lost'[g] = lost[g]
    BY <1>0, <1>2, <2>1
  <2>2. CASE \E k \in UInt16 : lost'[g].pack = h.flying[k]
    BY <1>0, <1>1, <2>2
  <2> QED BY <1>3, <2>1, <2>2
<1>4. CASE UNCHANGED lost
  BY <1>4
<1>5. ASSUME NEW g \in Handlers, RunTimeout(g) \/ handlelost(g)
      PROVE  \A k \in Handlers : lost'[k].pc = "readd" =>
               lost'[k] = lost[k] \/ \E id \in UInt16 : lost'[k].pack = h.flying[id]
  <2> SUFFICES ASSUME NEW k \in Handlers, lost'[k].pc = "readd"
               PROVE  lost'[k] = lost[k] \/ \E id \in UInt16 : lost'[k].pack = h.flying[id]
    OBVIOUS
  <2>1. CASE LostRewrite(g)
    <3>1. resendid(g) \in UInt16
      <4>1. lost[g].id \in UInt16 /\ h.timeoutid \in UInt16
        BY <1>0, Fields DEF LostRecord
      <4> QED BY <4>1 DEF resendid
    <3>2. \/ lost' = [lost EXCEPT ![g] = [idle EXCEPT !.pc = "readd", !.id = resendid(g),
                                                    !.pack = h.flying[resendid(g)]]]
          \/ lost' = [lost EXCEPT ![g].pc = "finish"]
      BY <2>1 DEF LostRewrite
    <3> QED BY <1>0, <3>1, <3>2 DEF idle, LostRecord
  <2>2. CASE \/ RunTimeout(g) \/ LostStop(g) \/ LostRequest(g) \/ LostStatus(g) \/ LostSent(g)
             \/ LostResend(g) \/ LostReadd(g) \/ LostFinish(g)
    <3>1. \/ \E p \in {"stop", "request", "await", "finish"} : lost' = [lost EXCEPT ![g].pc = p]
          \/ \E l : l.pc # "readd" /\ lost' = [lost EXCEPT ![g] = l]
      <4>1. CASE RunTimeout(g) \/ LostStop(g) \/ LostRequest(g) \/ LostResend(g)
        BY <4>1 DEF RunTimeout, LostStop, LostRequest, LostResend
      <4>2. CASE LostStatus(g)
        <5> DEFINE l == [idle EXCEPT !.pc = "sent", !.sent = Head(statuses).sent,
                           !.packetreceived = h.timeoutid \in Head(statuses).received]
        <5>1. lost' = [lost EXCEPT ![g] = l] /\ l.pc = "sent"
          BY <4>2 DEF LostStatus, idle
        <5> QED BY <5>1
      <4>3. CASE LostSent(g)
        <5> DEFINE l == [idle EXCEPT !.pc = IF h.timeoutid \in lost[g].sent
                                            THEN "resend" ELSE "rewrite"]
        <5>1. lost' = [lost EXCEPT ![g] = l] /\ l.pc # "readd"
          BY <4>3 DEF LostSent, idle
        <5> QED BY <5>1
      <4>4. CASE LostReadd(g)
        <5> DEFINE l == [idle EXCEPT !.pc = "rewrite", !.id = succ(lost[g].id),
                                     !.resentpack = TRUE]
        <5>1. lost' = [lost EXCEPT ![g] = l] /\ l.pc # "readd"
          BY <4>4 DEF LostReadd, idle
        <5> QED BY <5>1
      <4>5. CASE LostFinish(g)
        <5>1. lost' = [lost EXCEPT ![g] = idle] /\ idle.pc # "readd"
          BY <4>5 DEF LostFinish, idle
        <5> QED BY <5>1
      <4> QED BY <2>2, <4>1, <4>2, <4>3, <4>4, <4>5
    <3> QED BY <1>0, <3>1 DEF LostRecord
  <2> QED BY <1>5, <2>1, <2>2 DEF handlelost
<1>6. \/ UNCHANGED lost
      \/ \E g \in Handlers : RunTimeout(g) \/ handlelost(g)
  <2>1. CASE HWNext
    <3>1. CASE Send \/ receive \/ ConfigRequest \/ ConfigStatus
      BY <3>1 DEF Send, receive, ConfigRequest, ConfigStatus
    <3>2. CASE Run
      BY <3>2 DEF Run, RunIncoming, RunStatus, RunReply, RunUnmatched, RunReport
    <3> QED BY <2>1, <3>1, <3>2, NoWritePanics DEF HWNext
  <2>2. CASE Network
    BY <2>2 DEF Network, LoseRequest, LoseResponse, DuplicateRequest, DuplicateResponse, hwVars
  <2>3. CASE Tick \/ TickWatched
    BY <2>3 DEF Tick, TickWatched
  <2>4. CASE UNCHANGED hwVars
    BY <2>4 DEF hwVars
  <2> QED BY <2>1, <2>2, <2>3, <2>4 DEF Next
<1> QED BY <1>4, <1>5, <1>6

\* Every step keeps the slots, also when handlelost loses the race with Run and
\* puts back a packet that has been replied to.
LEMMA SlotsStep ==
  ASSUME Regime
  PROVE  IInv /\ Slots(h, Len(returned)) /\ PutBack /\ [Next]_vars
           => Slots(h, Len(returned))' /\ PutBack'
<1> SUFFICES ASSUME IInv, Slots(h, Len(returned)), PutBack, [Next]_vars
             PROVE  Slots(h', Len(returned')) /\ PutBack'
  OBVIOUS
<1>1. CASE UNCHANGED vars
  BY <1>1 DEF vars, hwVars, PutBack
<1>2. CASE Next
  <2>1. /\ Slots(h', Len(returned'))
        /\ Len(returned') + Len(h'.flyingids) >= Len(returned) + Len(h.flyingids)
    BY <1>2, SlotsGrow
  <2>2. Len(returned') + Len(h'.flyingids) \in Nat
    <3>1. TypeOK'
      BY <1>2, TypeStep DEF IInv
    <3>2. h' \in HWRecord /\ returned' \in Seq(Packets)
      BY <3>1 DEF TypeOK, HWTypeOK
    <3>3. h'.flyingids \in Seq(UInt16)
      BY <3>2, Fields
    <3>4. Len(returned') \in Nat /\ Len(h'.flyingids) \in Nat
      BY <3>2, <3>3
    <3> QED BY <3>4
  <2> QED BY <1>2, <2>1, <2>2, PutBackStep DEF IInv
<1> QED BY <1>1, <1>2

\* At first nothing is out.
LEMMA SlotsInit == Init => Slots(h, Len(returned)) /\ PutBack
<1> SUFFICES ASSUME Init PROVE Slots(h, Len(returned)) /\ PutBack
  OBVIOUS
<1>1. /\ h.flyingids = <<>> /\ h.inflight = 0 /\ returned = <<>>
      /\ \A id \in UInt16 : h.flying[id] = 0 /\ h.replied[id] = 0
  BY DEF Init, HWInit, newhw, EmptyLog, NoPacket
<1>2. \A g \in Handlers : lost[g].pc # "readd"
  BY DEF Init, HWInit, idle
<1>3. Cardinality(Pending(h)) = 0
  <2>1. Pending(h) = {}
    BY <1>1 DEF Pending
  <2> QED BY <2>1, FS_EmptySet
<1>4. Slots(h, Len(returned))
  BY <1>1, <1>3 DEF Slots, Upto
<1> QED BY <1>2, <1>4 DEF PutBack

\* No flight slot is ever lost: whatever replies come late or twice, and whatever
\* handlelost puts back while Run takes it out, inflight counts no more packets than
\* are out without a reply, so that sendnext does not stop for good.
THEOREM SlotsKept == ASSUME Regime PROVE Spec => []NoSlotLost
<1>1. Slots(h, Len(returned)) => NoSlotLost
  BY DEF Slots, NoSlotLost, Out, Pending
<1> QED BY <1>1, Invariance, SlotsInit, SlotsStep, PTL DEF Spec

-----------------------------------------------------------------------------
(* Status replies.                                                         *)

\* Where q has elements of T.
Hits(q, T) == {i \in 1 .. Len(q) : q[i] \in T}

\* They can be counted.
LEMMA HitsFinite ==
  ASSUME NEW S, NEW q \in Seq(S), NEW T
  PROVE  IsFiniteSet(Hits(q, T)) /\ Cardinality(Hits(q, T)) \in Nat
<1>1. IsFiniteSet(1 .. Len(q))
  BY FS_Interval
<1>2. Hits(q, T) \subseteq 1 .. Len(q)
  BY DEF Hits
<1> QED BY <1>1, <1>2, FS_Subset, FS_CardinalityType

\* A datagram joins the wire or a channel.
LEMMA HitsAppend ==
  ASSUME NEW S, NEW q \in Seq(S), NEW e \in S, NEW T
  PROVE  Cardinality(Hits(Append(q, e), T))
           = Cardinality(Hits(q, T)) + IF e \in T THEN 1 ELSE 0
<1> DEFINE n == Len(q)
           w == Append(q, e)
<1>1. /\ n \in Nat /\ Len(w) = n + 1 /\ w[n + 1] = e
      /\ \A k \in 1 .. n : w[k] = q[k]
  BY AppendElems
<1>2. Hits(q, T) = {i \in 1 .. n : q[i] \in T}
  BY DEF Hits
<1>3. Hits(w, T) = {i \in 1 .. n + 1 : w[i] \in T}
  BY <1>1 DEF Hits
<1> HIDE DEF n, w
<1>4. ASSUME NEW i \in 1 .. n + 1 PROVE i \in 1 .. n \/ i = n + 1
  BY <1>1
<1>5. \A i \in 1 .. n : i \in 1 .. n + 1 /\ i # n + 1
  BY <1>1
<1>6. n + 1 \in 1 .. n + 1
  BY <1>1
<1>7. CASE e \in T
  <2>1. Hits(w, T) = Hits(q, T) \cup {n + 1} /\ n + 1 \notin Hits(q, T)
    BY <1>1, <1>2, <1>3, <1>4, <1>5, <1>6, <1>7
  <2> QED BY <1>7, <2>1, HitsFinite, FS_AddElement DEF w
<1>8. CASE e \notin T
  <2>1. Hits(w, T) = Hits(q, T)
    BY <1>1, <1>2, <1>3, <1>4, <1>5, <1>8
  <2> QED BY <1>8, <2>1, HitsFinite DEF w
<1> QED BY <1>7, <1>8

\* A burst joins the wire.
LEMMA HitsConcat ==
  ASSUME NEW S, NEW a \in Seq(S), NEW b \in Seq(S), NEW T,
         \A i \in 1 .. Len(b) : b[i] \notin T
  PROVE  Hits(a \o b, T) = Hits(a, T)
<1> DEFINE n == Len(a)
           m == Len(b)
           w == a \o b
<1>1. /\ n \in Nat /\ m \in Nat /\ Len(w) = n + m
      /\ \A i \in 1 .. n : w[i] = a[i]
      /\ \A i \in 1 .. m : w[n + i] = b[i]
  BY Joined
<1>2. Hits(a, T) = {i \in 1 .. n : a[i] \in T}
  BY DEF Hits
<1>3. Hits(w, T) = {i \in 1 .. n + m : w[i] \in T}
  BY <1>1 DEF Hits
<1>4. \A i \in 1 .. m : b[i] \notin T
  OBVIOUS
<1> HIDE DEF n, m, w
<1>5. ASSUME NEW i \in 1 .. n + m PROVE i \in 1 .. n \/ w[i] \notin T
  <2>1. CASE i > n
    <3>1. i - n \in 1 .. m /\ n + (i - n) = i
      BY <1>1, <2>1
    <3> QED BY <1>1, <1>4, <3>1
  <2> QED BY <1>1, <2>1
<1>6. \A i \in 1 .. n : i \in 1 .. n + m
  BY <1>1
<1> QED BY <1>1, <1>2, <1>3, <1>5, <1>6 DEF w

\* The elements of a sequence that has lost its i-th one.
LEMMA WithoutAt ==
  ASSUME NEW S, NEW q \in Seq(S), NEW i \in 1 .. Len(q)
  PROVE  /\ Len(Without(q, i)) = Len(q) - 1
         /\ \A k \in 1 .. i - 1 : Without(q, i)[k] = q[k]
         /\ \A k \in i .. Len(q) - 1 : Without(q, i)[k] = q[k + 1]
<1> DEFINE a == SubSeq(q, 1, i - 1)
           b == SubSeq(q, i + 1, Len(q))
           n == Len(q)
<1>1. /\ a \in Seq(S) /\ Len(a) = i - 1
      /\ \A k \in 1 .. i - 1 : a[k] = q[k]
  OBVIOUS
<1>2. /\ b \in Seq(S) /\ Len(b) = n - i
      /\ \A k \in 1 .. n - i : b[k] = q[i + k]
  OBVIOUS
<1>3. Without(q, i) = a \o b /\ n \in Nat /\ i \in 1 .. n
  BY DEF Without
<1> HIDE DEF a, b, n
<1>4. /\ Len(a \o b) = Len(a) + Len(b)
      /\ \A k \in 1 .. Len(a) : (a \o b)[k] = a[k]
      /\ \A k \in 1 .. Len(b) : (a \o b)[Len(a) + k] = b[k]
  <2>1. a \in Seq(S) /\ b \in Seq(S)
    BY <1>1, <1>2
  <2> QED BY <2>1, Joined
<1>5. Len(a \o b) = n - 1
  BY <1>1, <1>2, <1>3, <1>4
<1>6. \A k \in 1 .. i - 1 : (a \o b)[k] = q[k]
  BY <1>1, <1>4
<1>7. ASSUME NEW k \in i .. n - 1 PROVE (a \o b)[k] = q[k + 1]
  <2> DEFINE j == k - (i - 1)
  <2>1. j \in 1 .. n - i /\ (i - 1) + j = k /\ i + j = k + 1
    BY <1>3
  <2> HIDE DEF j
  <2>2. (a \o b)[(i - 1) + j] = b[j]
    BY <1>1, <1>2, <1>4, <2>1
  <2>3. b[j] = q[i + j]
    BY <1>2, <2>1
  <2> QED BY <2>1, <2>2, <2>3
<1> QED BY <1>3, <1>5, <1>6, <1>7 DEF n

\* A datagram leaves the wire.
LEMMA HitsWithout ==
  ASSUME NEW S, NEW q \in Seq(S), NEW i \in 1 .. Len(q), NEW T
  PROVE  Cardinality(Hits(Without(q, i), T))
           = Cardinality(Hits(q, T)) - IF q[i] \in T THEN 1 ELSE 0
<1> DEFINE n == Len(q)
           w == Without(q, i)
           A == Hits(w, T)
           B == Hits(q, T) \ {i}
           b == [k \in A |-> IF k < i THEN k ELSE k + 1]
<1>1. /\ n \in Nat /\ i \in 1 .. n /\ Len(w) = n - 1
      /\ \A k \in 1 .. i - 1 : w[k] = q[k]
      /\ \A k \in i .. n - 1 : w[k] = q[k + 1]
  <2>1. n \in Nat /\ i \in 1 .. n
    OBVIOUS
  <2>2. /\ Len(w) = n - 1
        /\ \A k \in 1 .. i - 1 : w[k] = q[k]
        /\ \A k \in i .. n - 1 : w[k] = q[k + 1]
    BY WithoutAt, Zenon
  <2> QED BY <2>1, <2>2
<1>2. A = {k \in 1 .. n - 1 : w[k] \in T} /\ B = {k \in 1 .. n : q[k] \in T} \ {i}
  BY <1>1 DEF Hits
<1> HIDE DEF n, w, A, B
<1>3. ASSUME NEW k \in A PROVE b[k] \in B /\ k \in Int
  <2>0. k \in 1 .. n - 1 /\ w[k] \in T
    BY <1>2
  <2>1. CASE k < i
    <3>1. k \in 1 .. i - 1 /\ k \in 1 .. n /\ k # i
      BY <1>1, <2>0, <2>1
    <3> QED BY <1>1, <1>2, <2>0, <2>1, <3>1
  <2>2. CASE ~(k < i)
    <3>1. k \in i .. n - 1 /\ k + 1 \in 1 .. n /\ k + 1 # i
      BY <1>1, <2>0, <2>2
    <3> QED BY <1>1, <1>2, <2>0, <2>2, <3>1
  <2> QED BY <2>1, <2>2
<1>4. ASSUME NEW k \in B PROVE \E j \in A : b[j] = k
  <2>0. k \in 1 .. n /\ q[k] \in T /\ k # i
    BY <1>2
  <2>1. CASE k < i
    <3>1. k \in 1 .. i - 1 /\ k \in 1 .. n - 1
      BY <1>1, <2>0, <2>1
    <3>2. k \in A
      BY <1>1, <1>2, <2>0, <3>1
    <3> QED BY <2>1, <3>2
  <2>2. CASE ~(k < i)
    <3>1. k - 1 \in i .. n - 1 /\ k - 1 \in 1 .. n - 1 /\ (k - 1) + 1 = k /\ ~(k - 1 < i)
      BY <1>1, <2>0, <2>2
    <3>2. w[k - 1] = q[(k - 1) + 1]
      BY <1>1, <3>1
    <3>3. k - 1 \in A
      BY <1>2, <2>0, <3>1, <3>2
    <3> QED BY <3>1, <3>3
  <2> QED BY <2>1, <2>2
<1>5. \A j, k \in A : b[j] = b[k] => j = k
  BY <1>1, <1>3
<1>6. b \in [A -> B]
  BY <1>3
<1>7. b \in Bijection(A, B)
  <2> HIDE DEF b
  <2> QED BY <1>4, <1>5, <1>6, Fun_IsBij
<1>8. IsFiniteSet(A)
  <2>1. IsFiniteSet(1 .. n - 1)
    BY <1>1, FS_Interval
  <2>2. A \subseteq 1 .. n - 1
    BY <1>2
  <2> QED BY <2>1, <2>2, FS_Subset
<1>9. Cardinality(A) = Cardinality(B)
  <2>1. ExistsBijection(A, B)
    BY <1>7 DEF ExistsBijection
  <2> QED BY <1>8, <2>1, FS_Bijection
<1>10. i \in Hits(q, T) <=> q[i] \in T
  BY DEF Hits
<1>11. IsFiniteSet(Hits(q, T)) /\ Cardinality(Hits(q, T)) \in Nat
  BY HitsFinite
<1>12. Cardinality(B) = IF q[i] \in T THEN Cardinality(Hits(q, T)) - 1 ELSE Cardinality(Hits(q, T))
  BY <1>10, <1>11, FS_RemoveElement DEF B
<1> QED BY <1>9, <1>11, <1>12 DEF A, w

\* What is behind the head is what is left without it.
LEMMA HitsTail ==
  ASSUME NEW S, NEW q \in Seq(S), q # <<>>, NEW T
  PROVE  Cardinality(Hits(Tail(q), T))
           = Cardinality(Hits(q, T)) - IF Head(q) \in T THEN 1 ELSE 0
<1>1. Len(q) \in Nat /\ 1 \in 1 .. Len(q) /\ Head(q) = q[1]
  BY TailElems
<1>2. Hits(Tail(q), T) = Hits(Without(q, 1), T)
  <2>1. Len(Tail(q)) = Len(q) - 1 /\ \A k \in 1 .. Len(Tail(q)) : Tail(q)[k] = q[k + 1]
    BY TailElems
  <2>2. /\ Len(Without(q, 1)) = Len(q) - 1
        /\ \A k \in 1 .. Len(q) - 1 : Without(q, 1)[k] = q[k + 1]
    BY <1>1, WithoutAt
  <2> QED BY <2>1, <2>2 DEF Hits
<1> QED BY <1>1, <1>2, HitsWithout

\* The datagrams that ask for the device's status and that tell it.
StatusRequests == {q \in Request : q.ptype = status}
StatusReplies  == {r \in Response : r.id = 0}

Asked(q) == Cardinality(Hits(q, StatusRequests))
Told(q)  == Cardinality(Hits(q, StatusReplies))

\* Who waits for one: handlelost goroutines and, at the start, ConfigDevice.
Awaiting(l)    == {g \in Handlers : l[g].pc = "await"}
Configuring(c) == IF c = "await" THEN 1 ELSE 0

\* No more statuses are under way or in the channel than goroutines wait for.
Balance ==
  /\ IsFiniteSet(Awaiting(lost))
  /\ Asked(requests) + Told(responses) + Told(replies) + Len(statuses)
       <= Cardinality(Awaiting(lost)) + Configuring(config)

\* What Balance adds up are natural numbers.
LEMMA BalanceTypes ==
  ASSUME TypeOK, Balance
  PROVE  /\ Asked(requests) \in Nat /\ Told(responses) \in Nat /\ Told(replies) \in Nat
         /\ Len(statuses) \in Nat /\ Cardinality(Awaiting(lost)) \in Nat
         /\ Configuring(config) \in Nat
<1>1. Asked(requests) \in Nat /\ Told(responses) \in Nat /\ Told(replies) \in Nat
  BY Types, HitsFinite DEF Asked, Told
<1>2. Len(statuses) \in Nat
  BY Types
<1>3. Cardinality(Awaiting(lost)) \in Nat
  BY FS_CardinalityType DEF Balance
<1> QED BY <1>1, <1>2, <1>3 DEF Configuring

\* A burst of sendnext asks for no status.
LEMMA BurstAsks ==
  ASSUME TypeOK, NEW s \in HWRecord
  PROVE  Asked(requests \o Outgoing(s)) = Asked(requests)
<1> DEFINE b == Outgoing(s)
<1>1. requests \in Seq(Request) /\ b \in Seq(Request)
  BY Types, OutgoingType
<1>2. ASSUME NEW i \in 1 .. Len(b) PROVE b[i] \notin StatusRequests
  <2>1. Burst(s) \in Nat
    BY BurstType, Fields
  <2>2. Len(b) = Burst(s)
    BY <2>1 DEF Outgoing
  <2>3. b[i] = controlPacket(s.queuedids[i], s.tosend[s.queuedids[i]])
    BY <2>2 DEF Outgoing
  <2> HIDE DEF b
  <2> QED BY <2>3 DEF StatusRequests, controlPacket, status, control
<1> HIDE DEF b
<1>3. Hits(requests \o b, StatusRequests) = Hits(requests, StatusRequests)
  BY <1>1, <1>2, HitsConcat
<1> QED BY <1>3 DEF Asked, b

\* A request joins the wire.
LEMMA RequestAsks ==
  ASSUME TypeOK, NEW q \in Request
  PROVE  Asked(Append(requests, q)) = Asked(requests) + IF q.ptype = status THEN 1 ELSE 0
<1>1. q \in StatusRequests <=> q.ptype = status
  BY DEF StatusRequests
<1> QED BY <1>1, Types, HitsAppend DEF Asked

\* A request leaves the wire.
LEMMA RequestTaken ==
  ASSUME TypeOK, NEW i \in 1 .. Len(requests)
  PROVE  Asked(Without(requests, i))
           = Asked(requests) - IF requests[i].ptype = status THEN 1 ELSE 0
<1>1. requests \in Seq(Request) /\ requests[i] \in Request
  BY Types
<1>2. requests[i] \in StatusRequests <=> requests[i].ptype = status
  BY <1>1 DEF StatusRequests
<1> QED BY <1>1, <1>2, HitsWithout DEF Asked

\* A response joins the wire, or the channel to Run.
LEMMA ResponseTells ==
  ASSUME NEW q \in Seq(Response), NEW r \in Response
  PROVE  Told(Append(q, r)) = Told(q) + IF r.id = 0 THEN 1 ELSE 0
<1>1. r \in StatusReplies <=> r.id = 0
  BY DEF StatusReplies
<1> QED BY <1>1, HitsAppend DEF Told

\* A response leaves the wire.
LEMMA ResponseTaken ==
  ASSUME NEW q \in Seq(Response), NEW i \in 1 .. Len(q)
  PROVE  Told(Without(q, i)) = Told(q) - IF q[i].id = 0 THEN 1 ELSE 0
<1>1. q[i] \in StatusReplies <=> q[i].id = 0
  BY DEF StatusReplies
<1> QED BY <1>1, HitsWithout DEF Told

\* Run takes a response from the channel.
LEMMA ResponseRead ==
  ASSUME NEW q \in Seq(Response), q # <<>>
  PROVE  Told(Tail(q)) = Told(q) - IF Head(q).id = 0 THEN 1 ELSE 0
<1>1. Head(q) \in Response
  OBVIOUS
<1>2. Head(q) \in StatusReplies <=> Head(q).id = 0
  BY <1>1 DEF StatusReplies
<1> QED BY <1>2, HitsTail DEF Told

\* A handlelost goroutine moves on without having waited or starting to wait.
LEMMA AwaitingSame ==
  ASSUME TypeOK, NEW g \in Handlers, lost[g].pc # "await", lost'[g].pc # "await",
         \A k \in Handlers : k # g => lost'[k] = lost[k]
  PROVE  Awaiting(lost') = Awaiting(lost)
BY DEF Awaiting

\* The device answers each request for its status once, and a reply to a
\* control packet is no status.
LEMMA DeviceBalance ==
  ASSUME Regime, TypeOK, Live, Balance, DeviceNext, UNCHANGED hwVars
  PROVE  Balance'
<1>0. requests \in Seq(Request) /\ responses \in Seq(Response)
  BY Types
<1>1. UNCHANGED <<lost, config, replies, statuses>>
  BY DEF hwVars
<1>2. SUFFICES Asked(requests') + Told(responses') <= Asked(requests) + Told(responses)
                /\ Asked(requests') \in Nat /\ Told(responses') \in Nat
  BY <1>1, BalanceTypes DEF Balance
<1>3. ASSUME NEW k \in 1 .. Len(accepted)
      PROVE  LET r == controlReply(accepted[k].id, accepted[k].pkt)
             IN  Told(Append(responses, r)) = Told(responses)
  <2> DEFINE r == controlReply(accepted[k].id, accepted[k].pkt)
  <2>1. r \in Response /\ r.id # 0
    BY ReplyCarries DEF Live
  <2> HIDE DEF r
  <2>2. Told(Append(responses, r)) = Told(responses) + 0
    BY <1>0, <2>1, ResponseTells
  <2>3. Told(responses) \in Nat
    BY BalanceTypes
  <2>4. Told(Append(responses, r)) = Told(responses)
    BY <2>2, <2>3
  <2> QED BY <2>4 DEF r
<1>4. ASSUME NEW i \in 1 .. Len(requests), requests[i].ptype # status
      PROVE  Asked(Without(requests, i)) = Asked(requests)
  <2>1. Asked(Without(requests, i)) = Asked(requests) - 0
    BY <1>4, RequestTaken
  <2> QED BY <2>1, BalanceTypes
<1>5. CASE DeviceControl
  <2>1. PICK i \in Deliverable(requests) :
          /\ requests[i].ptype = control
          /\ requests' = Without(requests, i) /\ responses' = responses
    BY <1>5 DEF DeviceControl
  <2>2. i \in 1 .. Len(requests) /\ requests[i].ptype # status
    BY <2>1, DeliverableType DEF control, status
  <2> QED BY <1>4, <2>1, <2>2, BalanceTypes
<1>6. CASE DeviceReply
  <2>1. answered + 1 \in 1 .. Len(accepted)
    BY <1>6, Types DEF DeviceReply
  <2> QED BY <1>3, <1>6, <2>1, BalanceTypes DEF DeviceReply
<1>7. CASE DeviceStatus
  <2> DEFINE st == [nextid   |-> expects,
                    received |-> {accepted[k].id : k \in Recent(Len(accepted))},
                    sent     |-> {accepted[k].id : k \in Recent(answered)}]
             r  == statusReply(st)
  <2>1. PICK i \in Deliverable(requests) :
          /\ requests[i].ptype = status
          /\ requests' = Without(requests, i) /\ responses' = Append(responses, r)
    BY <1>7, Zenon DEF DeviceStatus
  <2>2. i \in 1 .. Len(requests)
    BY <2>1, DeliverableType
  <2>3. r \in Response /\ r.id = 0
    <3>0. \A k \in 1 .. Len(accepted) : accepted[k].id \in UInt16
      <4>1. \A k \in 1 .. Len(accepted) : accepted[k] \in Request
        BY Types
      <4> QED BY <4>1 DEF Request
    <3>1. /\ {accepted[k].id : k \in Recent(Len(accepted))} \subseteq UInt16
          /\ {accepted[k].id : k \in Recent(answered)} \subseteq UInt16
          /\ expects \in UInt16
      BY <3>0, Types DEF Recent
    <3>2. st \in targetstatus
      BY <3>1 DEF targetstatus
    <3> HIDE DEF st
    <3> QED BY <3>2, Constants DEF statusReply, Response, UInt16
  <2> HIDE DEF r, st
  <2>4. Asked(requests') = Asked(requests) - 1
    BY <2>1, <2>2, RequestTaken
  <2>5. Told(responses') = Told(responses) + 1
    BY <1>0, <2>1, <2>3, ResponseTells
  <2>6. Asked(requests') \in Nat
    <3>1. requests' \in Seq(Request)
      BY <1>0, <2>1, <2>2, WithoutType
    <3> QED BY <3>1, HitsFinite DEF Asked
  <2> QED BY <2>4, <2>5, <2>6, BalanceTypes
<1>8. CASE DeviceResend
  <2>1. PICK i \in Deliverable(requests) :
          /\ requests[i].ptype = resend
          /\ requests' = Without(requests, i)
          /\ \/ \E k \in Recent(answered) :
                  responses' = Append(responses, controlReply(accepted[k].id, accepted[k].pkt))
             \/ responses' = responses
    BY <1>8 DEF DeviceResend
  <2>2. i \in 1 .. Len(requests) /\ requests[i].ptype # status
    BY <2>1, DeliverableType DEF resend, status
  <2>3. Told(responses') = Told(responses)
    <3>1. \A k \in Recent(answered) : k \in 1 .. Len(accepted)
      BY Types DEF Recent
    <3>2. ASSUME NEW k \in Recent(answered),
                 responses' = Append(responses, controlReply(accepted[k].id, accepted[k].pkt))
          PROVE  Told(responses') = Told(responses)
      BY <1>3, <3>1, <3>2, Zenon
    <3> QED BY <2>1, <3>2
  <2> QED BY <1>4, <2>1, <2>2, <2>3, BalanceTypes
<1> QED BY <1>5, <1>6, <1>7, <1>8 DEF DeviceNext

\* The network may lose a status but, with MaxDup = 0, not make a second one.
LEMMA NetworkBalance ==
  ASSUME MaxDup = 0, TypeOK, Balance, Network
  PROVE  Balance'
<1>0. requests \in Seq(Request) /\ responses \in Seq(Response)
  BY Types
<1>1. dups \in 0 .. MaxDup
  BY DEF TypeOK
<1>2. LoseRequest \/ LoseResponse
  BY <1>1 DEF Network, DuplicateRequest, DuplicateResponse
<1>3. UNCHANGED <<lost, config, replies, statuses>>
  BY <1>2 DEF LoseRequest, LoseResponse, hwVars
<1>4. CASE LoseRequest
  <2>1. PICK i \in 1 .. Len(requests) : requests' = Without(requests, i)
    BY <1>4 DEF LoseRequest
  <2>2. responses' = responses
    BY <1>4 DEF LoseRequest
  <2>3. requests' \in Seq(Request)
    BY <1>0, <2>1, WithoutType
  <2>4. Asked(requests') \in Nat
    BY <2>3, HitsFinite DEF Asked
  <2>5. Asked(requests') <= Asked(requests)
    BY <2>1, RequestTaken, BalanceTypes
  <2> QED BY <1>3, <2>2, <2>4, <2>5, BalanceTypes DEF Balance
<1>5. CASE LoseResponse
  <2>1. PICK i \in 1 .. Len(responses) : responses' = Without(responses, i)
    BY <1>5 DEF LoseResponse
  <2>2. requests' = requests
    BY <1>5 DEF LoseResponse
  <2>3. responses' \in Seq(Response)
    BY <1>0, <2>1, WithoutType
  <2>4. Told(responses') \in Nat
    BY <2>3, HitsFinite DEF Told
  <2>5. Told(responses') <= Told(responses)
    BY <1>0, <2>1, ResponseTaken, BalanceTypes
  <2> QED BY <1>3, <2>2, <2>4, <2>5, BalanceTypes DEF Balance
<1> QED BY <1>2, <1>4, <1>5

\* receive passes a status on; ConfigDevice asks for one and waits for one.
LEMMA ClientBalance ==
  ASSUME TypeOK, Balance, receive \/ ConfigRequest \/ ConfigStatus
  PROVE  Balance'
<1>0. responses \in Seq(Response) /\ replies \in Seq(Response)
  BY Types
<1>1. UNCHANGED lost
  BY DEF receive, ConfigRequest, ConfigStatus
<1>2. CASE receive
  <2>1. PICK i \in Deliverable(responses) :
          replies' = Append(replies, responses[i]) /\ responses' = Without(responses, i)
    BY <1>2 DEF receive
  <2>2. i \in 1 .. Len(responses) /\ responses[i] \in Response
    BY <1>0, <2>1, DeliverableType
  <2>3. UNCHANGED <<requests, statuses, config>>
    BY <1>2 DEF receive
  <2>4. Told(responses') = Told(responses) - IF responses[i].id = 0 THEN 1 ELSE 0
    BY <1>0, <2>1, <2>2, ResponseTaken
  <2>5. Told(replies') = Told(replies) + IF responses[i].id = 0 THEN 1 ELSE 0
    BY <1>0, <2>1, <2>2, ResponseTells
  <2> QED BY <1>1, <2>3, <2>4, <2>5, BalanceTypes DEF Balance
<1>3. CASE ConfigRequest
  <2>1. newStatusPacket \in Request /\ newStatusPacket.ptype = status
    BY Constants DEF newStatusPacket, Request, UInt16
  <2>2. Asked(requests') = Asked(requests) + 1
    BY <1>3, <2>1, RequestAsks DEF ConfigRequest
  <2>3. Configuring(config) = 0 /\ Configuring(config') = 1
    BY <1>3 DEF ConfigRequest, Configuring
  <2>4. UNCHANGED <<responses, replies, statuses>>
    BY <1>3 DEF ConfigRequest
  <2> QED BY <1>1, <2>2, <2>3, <2>4, BalanceTypes DEF Balance
<1>4. CASE ConfigStatus
  <2>1. Len(statuses') = Len(statuses) - 1
    BY <1>4, Types DEF ConfigStatus
  <2>2. Configuring(config) = 1 /\ Configuring(config') = 0
    BY <1>4 DEF ConfigStatus, Configuring
  <2>3. UNCHANGED <<requests, responses, replies>>
    BY <1>4 DEF ConfigStatus, wireVars
  <2> QED BY <1>1, <2>1, <2>2, <2>3, BalanceTypes DEF Balance
<1> QED BY <1>2, <1>3, <1>4

\* Run passes on what it reads, and asks for nothing itself.
LEMMA RunBalance ==
  ASSUME Regime, TypeOK, Balance, Run
  PROVE  Balance'
<1>0. replies \in Seq(Response) /\ h \in HWRecord /\ statuses \in Seq(targetstatus)
  BY Types
<1>1. UNCHANGED <<lost, config, responses>>
  BY DEF Run, RunIncoming, RunStatus, RunReply, RunUnmatched, RunReport, wireVars
<1>2. CASE RunIncoming
  <2> DEFINE s == enqueue(h, Head(incoming))
  <2>1. s \in HWRecord
    <3>1. Head(incoming) \in Packets
      BY <1>2, Types DEF RunIncoming
    <3> QED BY <1>0, <3>1, EnqueueType
  <2>2. requests' = requests \/ requests' = requests \o Outgoing(s)
    BY <1>2, IncomingSends
  <2>3. UNCHANGED <<replies, statuses>>
    BY <1>2 DEF RunIncoming
  <2> HIDE DEF s
  <2>4. Asked(requests') = Asked(requests)
    <3>1. CASE requests' = requests
      BY <3>1
    <3>2. CASE requests' = requests \o Outgoing(s)
      BY <2>1, <3>2, BurstAsks
    <3> QED BY <2>2, <3>1, <3>2
  <2> QED BY <1>1, <2>3, <2>4 DEF Balance
<1>3. CASE RunStatus
  <2>1. Told(replies') = Told(replies) - 1
    BY <1>0, <1>3, ResponseRead DEF RunStatus
  <2>2. Len(statuses') = Len(statuses) + 1
    BY <1>0, <1>3 DEF RunStatus
  <2>3. requests' = requests
    BY <1>3 DEF RunStatus, wireVars
  <2> QED BY <1>1, <2>1, <2>2, <2>3, BalanceTypes DEF Balance
<1>4. CASE RunReply
  <2>2. PICK s \in Landings(h, Head(replies).id) : requests' = requests \o Outgoing(s)
    BY <1>4, ReplySends, Zenon
  <2>1. s \in HWRecord
    <3>1. Head(replies) \in Response
      BY <1>0, <1>4 DEF RunReply
    <3>2. Head(replies).id \in UInt16
      BY <3>1 DEF Response
    <3> QED BY <1>0, <2>2, <3>2, LandingsType
  <2>3. replies # <<>> /\ Head(replies).id # 0 /\ replies' = Tail(replies) /\ statuses' = statuses
    BY <1>4 DEF RunReply
  <2>4. Asked(requests') = Asked(requests)
    BY <2>1, <2>2, BurstAsks
  <2>5. Told(replies') = Told(replies)
    BY <1>0, <2>3, ResponseRead, BalanceTypes
  <2> QED BY <1>1, <2>3, <2>4, <2>5 DEF Balance
<1>5. CASE RunUnmatched
  <2>1. replies # <<>> /\ Head(replies).id # 0 /\ replies' = Tail(replies)
    BY <1>5 DEF RunUnmatched
  <2>2. UNCHANGED <<requests, statuses>>
    BY <1>5 DEF RunUnmatched, wireVars
  <2>3. Told(replies') = Told(replies)
    BY <1>0, <2>1, ResponseRead, BalanceTypes
  <2> QED BY <1>1, <2>2, <2>3 DEF Balance
<1>6. CASE RunReport
  BY <1>1, <1>6 DEF RunReport, wireVars, Balance
<1> QED BY <1>2, <1>3, <1>4, <1>5, <1>6 DEF Run

\* handlelost asks for one status and takes one; what else it writes are control
\* packets and requests to send a reply again.
LEMMA HandlelostBalance ==
  ASSUME Regime, TypeOK, Balance, NEW g \in Handlers, RunTimeout(g) \/ handlelost(g)
  PROVE  Balance'
<1>0. /\ requests \in Seq(Request) /\ h \in HWRecord
      /\ lost \in [Handlers -> LostRecord] /\ lost[g] \in LostRecord
  BY DEF TypeOK, WireTypeOK, HWTypeOK, LostRecord
<1>1. UNCHANGED <<config, responses, replies>>
  BY DEF RunTimeout, handlelost, LostStop, LostRequest, LostStatus, LostSent,
         LostResend, LostRewrite, LostReadd, LostFinish, wireVars
<1>2. \A k \in Handlers : k # g => lost'[k] = lost[k]
  BY <1>0 DEF RunTimeout, handlelost, LostStop, LostRequest, LostStatus, LostSent,
              LostResend, LostRewrite, LostReadd, LostFinish
<1>3. CASE LostRequest(g)
  <2>1. newStatusPacket \in Request /\ newStatusPacket.ptype = status
    BY Constants DEF newStatusPacket, Request, UInt16
  <2>2. Asked(requests') = Asked(requests) + 1
    BY <1>3, <2>1, RequestAsks DEF LostRequest
  <2>3. lost[g].pc # "await" /\ lost'[g].pc = "await"
    BY <1>0, <1>3 DEF LostRequest, LostRecord
  <2>4. Awaiting(lost') = Awaiting(lost) \cup {g} /\ g \notin Awaiting(lost)
    BY <1>2, <2>3 DEF Awaiting
  <2>5. /\ IsFiniteSet(Awaiting(lost'))
        /\ Cardinality(Awaiting(lost')) = Cardinality(Awaiting(lost)) + 1
    BY <2>4, FS_AddElement DEF Balance
  <2>6. statuses' = statuses
    BY <1>3 DEF LostRequest
  <2> QED BY <1>1, <2>2, <2>5, <2>6, BalanceTypes DEF Balance
<1>4. CASE LostStatus(g)
  <2>1. Len(statuses') = Len(statuses) - 1
    BY <1>4, Types DEF LostStatus
  <2>2. lost[g].pc = "await" /\ lost'[g].pc # "await"
    BY <1>0, <1>4 DEF LostStatus, idle
  <2>3. Awaiting(lost') = Awaiting(lost) \ {g} /\ g \in Awaiting(lost)
    BY <1>2, <2>2 DEF Awaiting
  <2>4. /\ IsFiniteSet(Awaiting(lost'))
        /\ Cardinality(Awaiting(lost')) = Cardinality(Awaiting(lost)) - 1
    BY <2>3, FS_RemoveElement DEF Balance
  <2>5. requests' = requests
    BY <1>4 DEF LostStatus, wireVars
  <2> QED BY <1>1, <2>1, <2>4, <2>5, BalanceTypes DEF Balance
<1>5. CASE RunTimeout(g) \/ LostStop(g) \/ LostSent(g) \/ LostReadd(g)
  <2>1. lost[g].pc # "await" /\ lost'[g].pc # "await"
    <3>1. CASE RunTimeout(g) \/ LostStop(g)
      BY <1>0, <3>1 DEF RunTimeout, LostStop, LostRecord
    <3>2. CASE LostReadd(g)
      BY <1>0, <3>2 DEF LostReadd, LostRecord, idle
    <3>3. CASE LostSent(g)
      BY <1>0, <3>3 DEF LostSent, LostRecord, idle
    <3> QED BY <1>5, <3>1, <3>2, <3>3
  <2>2. UNCHANGED <<requests, statuses>>
    BY <1>5 DEF RunTimeout, LostStop, LostSent, LostReadd, wireVars
  <2> QED BY <1>1, <1>2, <2>1, <2>2, AwaitingSame DEF Balance
<1>6. ASSUME NEW q \in Request, q.ptype # status
      PROVE  Asked(Append(requests, q)) = Asked(requests)
  BY <1>6, RequestAsks, BalanceTypes
<1>7. CASE LostResend(g)
  <2>1. lost[g].pc # "await" /\ lost'[g].pc # "await"
    BY <1>0, <1>7 DEF LostResend, LostRecord
  <2>2. newResendPacket(h.timeoutid) \in Request /\ newResendPacket(h.timeoutid).ptype # status
    BY <1>0, Fields DEF newResendPacket, Request, resend, status
  <2>3. Asked(requests') = Asked(requests)
    BY <1>6, <1>7, <2>2 DEF LostResend
  <2>4. statuses' = statuses
    BY <1>7 DEF LostResend
  <2> QED BY <1>1, <1>2, <2>1, <2>3, <2>4, AwaitingSame DEF Balance
<1>8. CASE LostRewrite(g)
  <2> DEFINE id == resendid(g)
             q  == controlPacket(id, h.flying[id])
  <2>1. lost[g].pc # "await" /\ lost'[g].pc # "await"
    <3>1. lost[g].pc = "rewrite"
      BY <1>8 DEF LostRewrite
    <3>2. CASE lost' = [lost EXCEPT ![g].pc = "finish"]
      BY <1>0, <3>1, <3>2 DEF LostRecord
    <3>3. CASE \E i, p : lost' = [lost EXCEPT ![g] = [idle EXCEPT !.pc = "readd", !.id = i,
                                                               !.pack = p]]
      BY <1>0, <3>1, <3>3 DEF idle
    <3> QED BY <1>8, <3>2, <3>3 DEF LostRewrite
  <2>2. requests' = requests \/ requests' = Append(requests, q)
    BY <1>8 DEF LostRewrite
  <2>3. q \in Request /\ q.ptype # status
    <3>1. id \in UInt16
      BY <1>0, Fields DEF LostRecord, resendid
    <3> HIDE DEF id
    <3>2. h.flying[id] \in Packets \cup {NoPacket}
      BY <1>0, <3>1, Fields
    <3> QED BY <3>1, <3>2 DEF controlPacket, Request, control, status
  <2>4. statuses' = statuses
    BY <1>8 DEF LostRewrite
  <2> HIDE DEF q
  <2>5. Asked(requests') = Asked(requests)
    <3>1. CASE requests' = requests
      BY <3>1
    <3>2. CASE requests' = Append(requests, q)
      BY <1>6, <2>3, <3>2
    <3> QED BY <2>2, <3>1, <3>2
  <2> QED BY <1>1, <1>2, <2>1, <2>4, <2>5, AwaitingSame DEF Balance
<1>9. CASE LostFinish(g)
  <2> DEFINE s == [h EXCEPT !.handlinglost = FALSE]
  <2>1. lost[g].pc # "await" /\ lost'[g].pc # "await"
    BY <1>0, <1>9 DEF LostFinish, LostRecord, idle
  <2>2. s \in HWRecord
    BY <1>0 DEF HWRecord
  <2>3. requests' = requests \o Outgoing(s) /\ statuses' = statuses
    BY <1>9, FinishSends DEF LostFinish
  <2> HIDE DEF s
  <2>4. Asked(requests') = Asked(requests)
    BY <2>2, <2>3, BurstAsks
  <2> QED BY <1>1, <1>2, <2>1, <2>3, <2>4, AwaitingSame DEF Balance
<1> QED BY <1>3, <1>4, <1>5, <1>7, <1>8, <1>9 DEF handlelost

\* Every step keeps the balance, on a network that makes no copies.
LEMMA BalanceStep ==
  ASSUME Regime, MaxDup = 0 PROVE IInv /\ Balance /\ [Next]_vars => Balance'
<1> SUFFICES ASSUME IInv, Balance, [Next]_vars PROVE Balance'
  OBVIOUS
<1>0. TypeOK
  BY DEF IInv
<1>1. CASE UNCHANGED <<requests, responses, replies, statuses, lost, config>>
  BY <1>1 DEF Balance
<1>2. CASE DeviceNext /\ UNCHANGED <<hwVars, netVars>> /\ ~h.panicked
  BY <1>0, <1>2, DeviceBalance DEF IInv
<1>3. CASE Network
  BY <1>0, <1>3, NetworkBalance
<1>4. CASE HWNext
  <2>1. CASE Send
    BY <1>1, <2>1 DEF Send, wireVars
  <2> QED BY <1>0, <1>4, <2>1, ClientBalance, RunBalance, HandlelostBalance, NoWritePanics
          DEF HWNext
<1>5. CASE Tick \/ TickWatched
  BY <1>1, <1>5 DEF Tick, TickWatched, Ticks, wireVars
<1>6. CASE UNCHANGED vars
  BY <1>1, <1>6 DEF vars, wireVars, hwVars
<1> QED BY <1>2, <1>3, <1>4, <1>5, <1>6 DEF Next

\* At the start nobody has asked.
LEMMA BalanceInit == Init => Balance
<1> SUFFICES ASSUME Init PROVE Balance
  OBVIOUS
<1>1. requests = <<>> /\ responses = <<>> /\ replies = <<>> /\ statuses = <<>>
  BY DEF Init, WireInit, HWInit
<1>2. Awaiting(lost) = {}
  BY DEF Init, HWInit, idle, Awaiting
<1>3. Hits(requests, StatusRequests) = {} /\ Hits(responses, StatusReplies) = {}
      /\ Hits(replies, StatusReplies) = {}
  BY <1>1 DEF Hits
<1>4. Configuring(config) \in Nat
  BY DEF Configuring
<1>5. Asked(requests) = 0 /\ Told(responses) = 0 /\ Told(replies) = 0
  BY <1>3, FS_EmptySet DEF Asked, Told
<1>6. IsFiniteSet(Awaiting(lost)) /\ Cardinality(Awaiting(lost)) = 0 /\ Len(statuses) = 0
  BY <1>1, <1>2, FS_EmptySet
<1> QED BY <1>4, <1>5, <1>6 DEF Balance

\* On a network that loses and reorders datagrams but makes no copies of them,
\* every status reply has a ConfigDevice or a handlelost waiting for it, for any
\* number of handlelost goroutines and whatever h.timedout does to start them:
\* Run is never left holding a status that nobody will take.
THEOREM StatusesAwaited ==
  ASSUME Regime, MaxDup = 0 PROVE Spec => []EveryStatusAwaited
<1>1. ASSUME TypeOK, Balance PROVE EveryStatusAwaited
  <2>1. requests \in Seq(Request) /\ responses \in Seq(Response) /\ replies \in Seq(Response)
    BY <1>1, Types
  <2>2. Hits(requests, StatusRequests) = {i \in 1 .. Len(requests) : requests[i].ptype = status}
    BY <2>1 DEF Hits, StatusRequests
  <2>3. Hits(responses, StatusReplies) = {i \in 1 .. Len(responses) : responses[i].id = 0}
    BY <2>1 DEF Hits, StatusReplies
  <2>4. Hits(replies, StatusReplies) = {i \in 1 .. Len(replies) : replies[i].id = 0}
    BY <2>1 DEF Hits, StatusReplies
  <2> QED BY <1>1, <2>2, <2>3, <2>4
          DEF Balance, EveryStatusAwaited, Asked, Told, Awaiting, Configuring
<1>2. IInv /\ Balance => EveryStatusAwaited
  BY <1>1 DEF IInv
<1> QED BY <1>2, Invariance, BalanceInit, BalanceStep, PTL DEF Spec
=============================================================================
