--------------------------- MODULE HWSafetyProofs ---------------------------
(***************************************************************************)
(* What hw.go promises about packets and replies, for every window, every  *)
(* capacity, every number of handlelost goroutines and every network that  *)
(* loses, duplicates and reorders datagrams: the device executes a packet  *)
(* once and in order, its reply is the one that is handed back with it,    *)
(* and packets are handed back in order.                                   *)
(*                                                                         *)
(* The argument: packet p always travels under the id Id(p), on the wire,  *)
(* in the packet logs and in handlelost's hands, and ids are not used      *)
(* twice; so whatever copies there are of a packet or of a reply, the id   *)
(* says whose they are.                                                    *)
(***************************************************************************)
EXTENDS HWProofs

\* What the proof assumes of the use of hw: users wait for the configuration
\* of the device, no write fails, ids are not used again (they may wrap), and
\* flyingids has room for what the users have not got back.
Regime ==
  /\ ~EarlySend
  /\ ~WriteErrors
  /\ NPackets < MaxID
  /\ MaxOutstanding <= FlyingMax

-----------------------------------------------------------------------------
(* The inductive invariant.                                                *)

\* The id of the p-th packet.
Id(p) == IF StartID + p - 1 <= MaxID THEN StartID + p - 1 ELSE StartID + p - 1 - MaxID

\* Packet p, one of the n handed over, goes by the id id.
Carries(id, p, n) == p \in 1 .. n /\ id = Id(p)

\* A packet log has packets under their own ids only.
Named(log, n) == \A id \in UInt16 : log[id] # NoPacket => Carries(id, log[id], n)

\* r packets have been handed back and t have got their id: those in between
\* are in flyingids and then in queuedids, in order, the latter also in tosend.
Queues(s, r, t) ==
  /\ r + Len(s.flyingids) + Len(s.queuedids) = t
  /\ \A i \in 1 .. Len(s.flyingids) : s.flyingids[i] = Id(r + i)
  /\ \A i \in 1 .. Len(s.queuedids) :
       /\ s.queuedids[i] = Id(r + Len(s.flyingids) + i)
       /\ s.tosend[s.queuedids[i]] = r + Len(s.flyingids) + i

\* Nobody sends before ConfigDevice has told nextID what the device expects.
Configured ==
  /\ h.configured <=> config = "done"
  /\ h.configured => h.nextID = Id(handed - Len(incoming) + 1)
  /\ ~h.configured =>
       /\ handed = 0
       /\ \A i \in 1 .. Len(statuses) : statuses[i].nextid = StartID
       /\ \A i \in 1 .. Len(responses) :
            responses[i].id = 0 => responses[i].st.nextid = StartID
       /\ \A i \in 1 .. Len(replies) :
            replies[i].id = 0 => replies[i].st.nextid = StartID

\* The packets that wait for Run are the last ones handed over.
Waiting ==
  /\ Len(incoming) <= handed
  /\ \A i \in 1 .. Len(incoming) : incoming[i] = handed - Len(incoming) + i

\* The device has accepted the first packets and expects the one after them.
Executed ==
  /\ Len(accepted) <= handed
  /\ expects = Id(Len(accepted) + 1)
  /\ \A i \in 1 .. Len(accepted) : accepted[i].pkt = i /\ accepted[i].id = Id(i)

\* Run's queues are in order and flyingids never overflows.
Queued ==
  /\ Queues(h, Len(returned), handed - Len(incoming))
  /\ handed - Len(returned) <= MaxOutstanding

\* What is in flight or has been replied to goes by its own id, and what has
\* been replied to has its reply.
InFlight ==
  /\ Named(h.flying, handed)
  /\ Named(h.replied, handed)
  /\ \A id \in UInt16 : h.replied[id] # NoPacket => answer[h.replied[id]] # NoPacket

\* The packet handlelost puts back into flying goes by its own id.
Rewriting ==
  \A g \in Handlers : lost[g].pc = "readd" => Carries(lost[g].id, lost[g].pack, handed)

\* So does every control packet and every reply on the wire.
OnWire ==
  /\ \A i \in 1 .. Len(requests) :
       requests[i].ptype = control => Carries(requests[i].id, requests[i].pkt, handed)
  /\ \A i \in 1 .. Len(responses) :
       responses[i].id # 0 => Carries(responses[i].id, responses[i].pkt, handed)
  /\ \A i \in 1 .. Len(replies) :
       replies[i].id # 0 => Carries(replies[i].id, replies[i].pkt, handed)

Live ==
  Configured /\ Waiting /\ Executed /\ Queued /\ InFlight /\ Rewriting /\ OnWire

Safe == ExecutedOnce /\ InOrder /\ OwnReply

\* A panic may leave the queues half changed, but nothing happens after it.
IInv == TypeOK /\ Safe /\ (~h.panicked => Live)

-----------------------------------------------------------------------------
(* Ids.                                                                    *)

\* Ids are ids of control packets.
LEMMA IdType ==
  ASSUME Regime, NEW p \in 1 .. NPackets + 1
  PROVE  Id(p) \in 1 .. MaxID /\ Id(p) \in UInt16 /\ Id(p) # 0
BY Constants DEF Regime, Id, UInt16

\* nextid and the device count packets alike.
LEMMA IdSucc ==
  ASSUME Regime, NEW p \in 1 .. NPackets + 1 PROVE succ(Id(p)) = Id(p + 1)
BY Constants DEF Regime, Id, succ

\* The first packet has the id the device expected at the start.
LEMMA IdFirst == Id(1) = StartID
BY Constants DEF Id

\* No two packets have the same id.
LEMMA IdInjective ==
  ASSUME Regime, NEW p \in 1 .. NPackets + 1, NEW q \in 1 .. NPackets + 1, Id(p) = Id(q)
  PROVE  p = q
BY Constants DEF Regime, Id

-----------------------------------------------------------------------------
(* The methods of hw.                                                      *)

\* updatetimeout only touches the timeout.
LEMMA UpdatetimeoutKeeps ==
  ASSUME NEW s \in HWRecord
  PROVE  LET u == updatetimeout(s)
         IN  /\ u.nextID = s.nextID /\ u.configured = s.configured
             /\ u.tosend = s.tosend /\ u.flying = s.flying /\ u.replied = s.replied
             /\ u.queuedids = s.queuedids /\ u.flyingids = s.flyingids
             /\ u.panicked = s.panicked
<1> DEFINE u == updatetimeout(s)
           dt == IF s.flying[s.flyingids[2]] # NoPacket /\ s.flyingids[2] \in s.aged
                 THEN "due" ELSE "on"
<1>1. CASE Retimes(s)
  <2>1. ~(s.inflight <= 0)
    BY <1>1, Fields DEF Retimes
  <2>2. u = [s EXCEPT !.timedout = NewTicker(dt), !.timeoutid = s.flyingids[2]]
    BY <1>1, <2>1, Zenon DEF updatetimeout
  <2> HIDE DEF u, dt
  <2> QED BY <2>2 DEF HWRecord, u
<1>2. CASE ~Retimes(s) /\ s.inflight > 0
  BY <1>2, Fields DEF updatetimeout, Retimes
<1>3. CASE s.inflight <= 0
  <2>1. u = [s EXCEPT !.timedout = Stop(@)]
    BY <1>3, Fields DEF updatetimeout, Retimes
  <2> HIDE DEF u
  <2> QED BY <2>1 DEF HWRecord, u
<1> QED BY <1>1, <1>2, <1>3, Fields

\* land only touches the timeout, the counter and the packet in flight.
LEMMA LandKeeps ==
  ASSUME NEW s \in HWRecord, NEW id \in UInt16
  PROVE  LET u == land(s, id)
         IN  /\ u.nextID = s.nextID /\ u.configured = s.configured
             /\ u.tosend = s.tosend /\ u.flying = [s.flying EXCEPT ![id] = NoPacket]
             /\ u.replied = s.replied
             /\ u.queuedids = s.queuedids /\ u.flyingids = s.flyingids
             /\ u.panicked = s.panicked
<1> DEFINE freed == [s EXCEPT !.inflight = @ - 1]
           stopped == [freed EXCEPT !.timedout = Stop(@)]
           timed == IF s.flyingids # <<>> /\ s.flyingids[1] = id
                    THEN updatetimeout(stopped) ELSE freed
           fly   == [timed.flying EXCEPT ![id] = NoPacket]
           Same(u) == /\ u.nextID = s.nextID /\ u.configured = s.configured
                      /\ u.tosend = s.tosend /\ u.flying = s.flying
                      /\ u.replied = s.replied
                      /\ u.queuedids = s.queuedids /\ u.flyingids = s.flyingids
                      /\ u.panicked = s.panicked
<1>1. freed \in HWRecord /\ Same(freed)
  <2>1. s.inflight - 1 \in Int
    BY Fields
  <2>2. freed = [s EXCEPT !.inflight = s.inflight - 1]
    OBVIOUS
  <2> HIDE DEF freed
  <2> QED BY <2>1, <2>2 DEF HWRecord
<1>2. stopped \in HWRecord /\ Same(stopped)
  <2> HIDE DEF freed
  <2>1. Stop(freed.timedout) \in Ticker
    BY <1>1, Fields, TickerType
  <2> QED BY <1>1, <2>1 DEF HWRecord
<1>3. Same(updatetimeout(stopped)) /\ updatetimeout(stopped) \in HWRecord
  <2> HIDE DEF stopped
  <2> QED BY <1>2, UpdatetimeoutKeeps, UpdatetimeoutType
<1>4. timed \in HWRecord /\ Same(timed)
  <2> HIDE DEF freed, stopped
  <2> QED BY <1>1, <1>3
<1>5. land(s, id) = [timed EXCEPT !.flying = fly]
  BY DEF land
<1> HIDE DEF timed
<1> QED BY <1>4, <1>5 DEF HWRecord

\* Whether or not a stale slot of flyingids stops the ticker, it is as after land.
LEMMA LandingsKeeps ==
  ASSUME NEW s \in HWRecord, NEW id \in UInt16, NEW u \in Landings(s, id)
  PROVE  /\ u \in HWRecord
         /\ u.nextID = s.nextID /\ u.configured = s.configured
         /\ u.tosend = s.tosend /\ u.flying = [s.flying EXCEPT ![id] = NoPacket]
         /\ u.replied = s.replied
         /\ u.queuedids = s.queuedids /\ u.flyingids = s.flyingids
         /\ u.panicked = s.panicked
         /\ u.inflight = land(s, id).inflight
         /\ s.flyingids # <<>> => u = land(s, id)
<1> DEFINE l == land(s, id)
           b == Stop(l.timedout)
<1>1. u \in HWRecord /\ l \in HWRecord
  BY LandType, LandingsType
<1>2. u = l \/ (s.flyingids = <<>> /\ u = [l EXCEPT !.timedout = b])
  BY DEF Landings
<1>3. /\ l.nextID = s.nextID /\ l.configured = s.configured
      /\ l.tosend = s.tosend /\ l.flying = [s.flying EXCEPT ![id] = NoPacket]
      /\ l.replied = s.replied
      /\ l.queuedids = s.queuedids /\ l.flyingids = s.flyingids
      /\ l.panicked = s.panicked
  BY LandKeeps
<1> HIDE DEF l, b
<1>4. CASE u = l
  BY <1>1, <1>3, <1>4 DEF l
<1>5. CASE s.flyingids = <<>> /\ u = [l EXCEPT !.timedout = b]
  <2>1. u.inflight = l.inflight
    BY <1>1, <1>5 DEF HWRecord
  <2>2. /\ u.nextID = l.nextID /\ u.configured = l.configured
        /\ u.tosend = l.tosend /\ u.flying = l.flying /\ u.replied = l.replied
        /\ u.queuedids = l.queuedids /\ u.flyingids = l.flyingids
        /\ u.panicked = l.panicked
    BY <1>1, <1>5 DEF HWRecord
  <2> QED BY <1>1, <1>3, <1>5, <2>1, <2>2 DEF l
<1> QED BY <1>2, <1>4, <1>5

\* Without write errors a packet that Run takes joins the queue and the burst.
LEMMA IncomingSends ==
  ASSUME Regime, RunIncoming
  PROVE  LET s == enqueue(h, Head(incoming))
         IN  IF s.panicked THEN h' = s /\ UNCHANGED requests
             ELSE h' = sendnext(s) /\ requests' = requests \o Outgoing(s)
<1> DEFINE s == enqueue(h, Head(incoming))
<1>1. IF s.panicked THEN h' = s /\ UNCHANGED requests
      ELSE \E c \in Sendings(s) : h' = c.hw /\ requests' = requests \o c.out
  BY Zenon DEF RunIncoming
<1> HIDE DEF s
<1>2. ~WriteErrors
  BY DEF Regime
<1>3. IF s.panicked THEN h' = s /\ UNCHANGED requests
      ELSE h' = sendnext(s) /\ requests' = requests \o Outgoing(s)
  BY <1>1, <1>2, Writes
<1> QED BY <1>3 DEF s

\* Without write errors the slot a reply frees is used for the next burst.
LEMMA ReplySends ==
  ASSUME Regime, RunReply
  PROVE  LET rep == Head(replies)
         IN  \E s \in Landings(h, rep.id) :
               LET t == [sendnext(s) EXCEPT !.replied[rep.id] = h.flying[rep.id]]
               IN  /\ requests' = requests \o Outgoing(s)
                   /\ \E n \in 0 .. Len(t.flyingids) :
                        /\ Returns(t, n)
                        /\ h' = returnreply(t, n)
                        /\ returned' = returned \o Handback(t, n)
<1> DEFINE id  == Head(replies).id
           req == h.flying[id]
           After(u, o) ==
             LET t == [u EXCEPT !.replied[id] = req]
             IN  /\ requests' = requests \o o
                 /\ \E n \in 0 .. Len(t.flyingids) :
                      /\ Returns(t, n)
                      /\ h' = returnreply(t, n)
                      /\ returned' = returned \o Handback(t, n)
<1>1. \E s \in Landings(h, id) : \E c \in Sendings(s) : After(c.hw, c.out)
  BY Zenon DEF RunReply
<1>2. ~WriteErrors
  BY DEF Regime
<1>3. \E s \in Landings(h, id) : After(sendnext(s), Outgoing(s))
  <2> HIDE DEF After, id, req
  <2>1. PICK s \in Landings(h, id) : \E c \in Sendings(s) : After(c.hw, c.out)
    BY <1>1, Zenon
  <2>2. PICK c \in Sendings(s) : After(c.hw, c.out)
    BY <2>1, Zenon
  <2>3. c.hw = sendnext(s) /\ c.out = Outgoing(s)
    BY <1>2, Writes
  <2> QED BY <2>2, <2>3, Zenon
<1> QED BY <1>3, Zenon

\* Without write errors handlelost ends with a whole burst.
LEMMA FinishSends ==
  ASSUME Regime, NEW g \in Handlers, LostFinish(g)
  PROVE  LET s == [h EXCEPT !.handlinglost = FALSE]
         IN  Store(sendnext(s), Arms(s)) /\ requests' = requests \o Outgoing(s)
<1> DEFINE s == [h EXCEPT !.handlinglost = FALSE]
<1>1. PICK c \in Sendings(s) : Store(c.hw, c.arms) /\ requests' = requests \o c.out
  BY Zenon DEF LostFinish
<1> HIDE DEF s
<1>2. c.hw = sendnext(s) /\ c.out = Outgoing(s) /\ c.arms = Arms(s)
  BY Writes DEF Regime
<1>3. Store(sendnext(s), Arms(s)) /\ requests' = requests \o Outgoing(s)
  BY <1>1, <1>2
<1> QED BY <1>3 DEF s

\* No write panics.
LEMMA NoWritePanics == ASSUME Regime PROVE ~WritePanics
BY DEF Regime, WritePanics

\* Time only sets ticks and makes packets older.
LEMMA TickKeeps ==
  ASSUME h \in HWRecord, Tick \/ TickWatched
  PROVE  /\ h'.nextID = h.nextID /\ h'.configured = h.configured
         /\ h'.tosend = h.tosend /\ h'.flying = h.flying /\ h'.replied = h.replied
         /\ h'.queuedids = h.queuedids /\ h'.flyingids = h.flyingids
         /\ h'.inflight = h.inflight /\ h'.timeoutid = h.timeoutid
         /\ h'.handlinglost = h.handlinglost /\ h'.resent = h.resent
         /\ h'.panicked = h.panicked
<1>1. CASE Tick
  <2> DEFINE tt == [h.timedout EXCEPT !.tick = TRUE]
  <2>1. PICK old \in Aged(h.timedout, {h.timeoutid}) :
          h' = [h EXCEPT !.timedout = tt, !.aged = old]
    BY <1>1 DEF Tick
  <2> HIDE DEF tt
  <2> QED BY <2>1 DEF HWRecord
<1>2. CASE TickWatched
  <2>1. PICK old \in Aged(watched, {}) : h' = [h EXCEPT !.aged = old]
    BY <1>2 DEF TickWatched
  <2> QED BY <2>1 DEF HWRecord
<1> QED BY <1>1, <1>2

\* The elements of a sequence behind its first n, and of its first n.
LEMMA Behind ==
  ASSUME NEW S, NEW a \in Seq(S), NEW n \in 0 .. Len(a)
  PROVE  /\ SubSeq(a, n + 1, Len(a)) \in Seq(S)
         /\ Len(SubSeq(a, n + 1, Len(a))) = Len(a) - n
         /\ \A i \in 1 .. Len(a) - n : SubSeq(a, n + 1, Len(a))[i] = a[n + i]
         /\ Len(SubSeq(a, 1, n)) = n
         /\ \A i \in 1 .. n : SubSeq(a, 1, n)[i] = a[i]
OBVIOUS

\* The elements of two sequences joined.
LEMMA Joined ==
  ASSUME NEW S, NEW a \in Seq(S), NEW b \in Seq(S)
  PROVE  /\ a \o b \in Seq(S)
         /\ Len(a \o b) = Len(a) + Len(b)
         /\ \A i \in 1 .. Len(a) : (a \o b)[i] = a[i]
         /\ \A i \in 1 .. Len(b) : (a \o b)[Len(a) + i] = b[i]
OBVIOUS

\* What sendnext takes from the queue: the packets after those in flight.
LEMMA BatchFacts ==
  ASSUME Regime, NEW s \in HWRecord, NEW r \in Nat, NEW t \in 0 .. NPackets,
         Queues(s, r, t)
  PROVE  LET n == Burst(s)
             b == SubSeq(s.queuedids, 1, n)
             f == Len(s.flyingids)
         IN  /\ n \in 0 .. Len(s.queuedids) /\ b \in Seq(UInt16) /\ Len(b) = n
             /\ \A i \in 1 .. n : /\ b[i] = s.queuedids[i] /\ b[i] = Id(r + f + i)
                                  /\ b[i] \in UInt16
                                  /\ s.tosend[b[i]] = r + f + i
                                  /\ r + f + i \in 1 .. t
             /\ \A i, j \in 1 .. Len(s.queuedids) :
                  s.queuedids[i] = s.queuedids[j] => i = j
<1> DEFINE n == Burst(s)
           b == SubSeq(s.queuedids, 1, n)
           f == Len(s.flyingids)
           q == Len(s.queuedids)
<1>1. n \in 0 .. q /\ q \in Nat /\ f \in Nat /\ n \in Nat
  BY BurstType, Fields
<1>2. b \in Seq(UInt16) /\ Len(b) = n /\ \A i \in 1 .. n : b[i] = s.queuedids[i]
  BY <1>1, Fields
<1>3. \A i \in 1 .. q : /\ s.queuedids[i] = Id(r + f + i)
                        /\ s.tosend[s.queuedids[i]] = r + f + i
                        /\ s.queuedids[i] \in UInt16
  BY <1>1, Fields DEF Queues
<1>4. r + f + q = t
  BY DEF Queues
<1> HIDE DEF n, f, q
<1>5. \A i \in 1 .. q : r + f + i \in 1 .. t /\ r + f + i \in 1 .. NPackets + 1
  BY <1>1, <1>4, Constants
<1>6. ASSUME NEW i \in 1 .. q, NEW j \in 1 .. q, s.queuedids[i] = s.queuedids[j]
      PROVE  i = j
  <2>1. Id(r + f + i) = Id(r + f + j)
    BY <1>3, <1>6
  <2>2. r + f + i \in 1 .. NPackets + 1 /\ r + f + j \in 1 .. NPackets + 1
    BY <1>5
  <2>3. r + f + i = r + f + j
    BY <2>1, <2>2, IdInjective
  <2> QED BY <1>1, <2>3
<1>7. ASSUME NEW i \in 1 .. n PROVE i \in 1 .. q
  BY <1>1
<1>8. \A i \in 1 .. n : /\ b[i] = s.queuedids[i] /\ b[i] = Id(r + f + i)
                        /\ b[i] \in UInt16
                        /\ s.tosend[b[i]] = r + f + i
                        /\ r + f + i \in 1 .. t
  BY <1>2, <1>3, <1>5, <1>7
<1> HIDE DEF b
<1> QED BY <1>1, <1>2, <1>6, <1>8 DEF n, b, f, q

\* The fields of the record sendnext leaves behind.
LEMMA SendnextFields ==
  ASSUME NEW s \in HWRecord
  PROVE  LET n   == Burst(s)
             b   == SubSeq(s.queuedids, 1, n)
             out == {b[i] : i \in 1 .. n}
             u   == sendnext(s)
         IN  /\ u.nextID = s.nextID /\ u.configured = s.configured
             /\ u.replied = s.replied
             /\ u.queuedids = SubSeq(s.queuedids, n + 1, Len(s.queuedids))
             /\ u.flyingids = SubSeq(s.flyingids \o b, 1, Least(FlyingMax, Len(s.flyingids) + n))
             /\ u.tosend = [id \in UInt16 |-> IF id \in out THEN NoPacket ELSE s.tosend[id]]
             /\ u.flying = [id \in UInt16 |-> IF id \in out THEN s.tosend[id] ELSE s.flying[id]]
             /\ u.panicked <=> (s.panicked \/ \E i \in 1 .. n :
                  \/ s.tosend[b[i]] = NoPacket
                  \/ \E j \in 1 .. i - 1 : b[j] = b[i])
<1> DEFINE n     == Burst(s)
           batch == SubSeq(s.queuedids, 1, n)
           out   == {batch[i] : i \in 1 .. n}
           queue == SubSeq(s.queuedids, n + 1, Len(s.queuedids))
           tos   == [id \in UInt16 |-> IF id \in out THEN NoPacket ELSE s.tosend[id]]
           fly   == [id \in UInt16 |-> IF id \in out THEN s.tosend[id] ELSE s.flying[id]]
           ids   == SubSeq(s.flyingids \o batch, 1, Least(FlyingMax, Len(s.flyingids) + n))
           tick  == IF Arms(s) THEN NewTicker("on") ELSE s.timedout
           tid   == IF Arms(s) THEN batch[1 - s.inflight] ELSE s.timeoutid
           pan   == s.panicked \/ \E i \in 1 .. n :
                      \/ s.tosend[batch[i]] = NoPacket
                      \/ \E j \in 1 .. i - 1 : batch[j] = batch[i]
           infl  == s.inflight + n
           aged  == s.aged \ out
<1>1. sendnext(s) = [s EXCEPT !.queuedids = queue, !.tosend = tos, !.flying = fly,
                        !.flyingids = ids, !.inflight = infl,
                        !.aged = aged, !.timedout = tick,
                        !.timeoutid = tid, !.panicked = pan]
  BY Zenon DEF sendnext
<1> HIDE DEF n, batch, out, queue, tos, fly, ids, tick, tid, pan, infl, aged
<1>2. /\ sendnext(s).nextID = s.nextID /\ sendnext(s).configured = s.configured
      /\ sendnext(s).replied = s.replied
      /\ sendnext(s).queuedids = queue /\ sendnext(s).flyingids = ids
      /\ sendnext(s).tosend = tos /\ sendnext(s).flying = fly
      /\ sendnext(s).panicked = pan
  BY <1>1 DEF HWRecord
<1> QED BY <1>2, Zenon DEF n, batch, out, queue, tos, fly, ids, pan

\* sendnext keeps the queues in order and finds every packet it sends; what it
\* writes and what it puts in flight goes by the packet's own id.
LEMMA SendnextKeeps ==
  ASSUME Regime, NEW s \in HWRecord, NEW r \in Nat, NEW t \in 0 .. NPackets,
         NEW m \in t .. NPackets,
         t - r <= MaxOutstanding, Queues(s, r, t), Named(s.flying, m)
  PROVE  /\ Queues(sendnext(s), r, t)
         /\ Named(sendnext(s).flying, m)
         /\ sendnext(s).nextID = s.nextID /\ sendnext(s).configured = s.configured
         /\ sendnext(s).replied = s.replied
         /\ ~s.panicked => ~sendnext(s).panicked
         /\ \A i \in 1 .. Len(Outgoing(s)) : Carries(Outgoing(s)[i].id, Outgoing(s)[i].pkt, m)
<1> DEFINE n   == Burst(s)
           b   == SubSeq(s.queuedids, 1, n)
           out == {b[i] : i \in 1 .. n}
           f   == Len(s.flyingids)
           q   == Len(s.queuedids)
           u   == sendnext(s)
<1>1. /\ n \in 0 .. q /\ b \in Seq(UInt16) /\ Len(b) = n
      /\ \A i \in 1 .. n : /\ b[i] = s.queuedids[i] /\ b[i] = Id(r + f + i)
                           /\ b[i] \in UInt16
                           /\ s.tosend[b[i]] = r + f + i
                           /\ r + f + i \in 1 .. t
  BY BatchFacts
<1>2. \A i, j \in 1 .. q : s.queuedids[i] = s.queuedids[j] => i = j
  BY BatchFacts
<1>3. n \in Nat /\ q \in Nat /\ f \in Nat /\ s.flyingids \in Seq(UInt16) /\ s.queuedids \in Seq(UInt16)
  BY <1>1, Fields
<1>4. r + f + q = t
  BY DEF Queues
<1>5. /\ u.nextID = s.nextID /\ u.configured = s.configured
      /\ u.replied = s.replied
      /\ u.queuedids = SubSeq(s.queuedids, n + 1, q)
      /\ u.flyingids = SubSeq(s.flyingids \o b, 1, Least(FlyingMax, f + n))
      /\ u.tosend = [id \in UInt16 |-> IF id \in out THEN NoPacket ELSE s.tosend[id]]
      /\ u.flying = [id \in UInt16 |-> IF id \in out THEN s.tosend[id] ELSE s.flying[id]]
      /\ u.panicked <=> (s.panicked \/ \E i \in 1 .. n :
           \/ s.tosend[b[i]] = NoPacket
           \/ \E j \in 1 .. i - 1 : b[j] = b[i])
  BY SendnextFields, Zenon
<1>6. Outgoing(s) = [i \in 1 .. n |-> controlPacket(s.queuedids[i], s.tosend[s.queuedids[i]])]
  BY DEF Outgoing
<1>7. Named(s.flying, m) /\ Queues(s, r, t)
  OBVIOUS
<1> HIDE DEF n, b, f, q, u
<1>8. Least(FlyingMax, f + n) = f + n
  BY <1>1, <1>3, <1>4, Constants DEF Least, Regime
<1>9. /\ Len(u.flyingids) = f + n
      /\ \A i \in 1 .. f : u.flyingids[i] = s.flyingids[i]
      /\ \A i \in 1 .. n : u.flyingids[f + i] = b[i]
  <2> DEFINE a == s.flyingids
             w == a \o b
  <2>1. /\ w \in Seq(UInt16) /\ Len(w) = f + n
        /\ \A i \in 1 .. f : w[i] = s.flyingids[i]
        /\ \A i \in 1 .. n : w[f + i] = b[i]
    <3>1. s.flyingids \in Seq(UInt16) /\ b \in Seq(UInt16) /\ Len(b) = n
      BY <1>1, <1>3
    <3>2. Len(s.flyingids) = f
      BY DEF f
    <3>3. a \in Seq(UInt16) /\ b \in Seq(UInt16)
      BY <3>1
    <3> HIDE DEF a, out
    <3>4. /\ w \in Seq(UInt16) /\ Len(w) = Len(a) + Len(b)
          /\ \A i \in 1 .. Len(a) : w[i] = a[i]
          /\ \A i \in 1 .. Len(b) : w[Len(a) + i] = b[i]
      BY <3>3
    <3> HIDE DEF w
    <3> QED BY <3>1, <3>2, <3>4, Zenon DEF a
  <2>2. u.flyingids = SubSeq(w, 1, f + n)
    BY <1>5, <1>8
  <2> HIDE DEF w
  <2>3. f + n \in 0 .. Len(w)
    BY <1>3, <2>1
  <2>4. Len(u.flyingids) = f + n /\ \A i \in 1 .. f + n : u.flyingids[i] = w[i]
    <3>1. /\ Len(SubSeq(w, 1, f + n)) = f + n
          /\ \A i \in 1 .. f + n : SubSeq(w, 1, f + n)[i] = w[i]
      BY <2>1, <2>3, Behind, Zenon
    <3> QED BY <2>2, <3>1, Zenon
  <2>5. (\A i \in 1 .. f : i \in 1 .. f + n) /\ (\A i \in 1 .. n : f + i \in 1 .. f + n)
    BY <1>3
  <2> QED BY <2>1, <2>4, <2>5, Zenon
<1>10. /\ Len(u.queuedids) = q - n
       /\ \A i \in 1 .. q - n : u.queuedids[i] = s.queuedids[n + i]
  <2> DEFINE a == s.queuedids
  <2>1. /\ Len(SubSeq(a, n + 1, Len(a))) = Len(a) - n
        /\ \A i \in 1 .. Len(a) - n : SubSeq(a, n + 1, Len(a))[i] = a[n + i]
    BY <1>1, <1>3, Behind, Zenon DEF q
  <2> QED BY <1>5, <2>1, Zenon DEF q
<1>11. Queues(u, r, t)
  <2>0. \A k \in 1 .. q : /\ s.queuedids[k] = Id(r + f + k) /\ s.queuedids[k] \in UInt16
                          /\ s.tosend[s.queuedids[k]] = r + f + k
    BY <1>3, <1>7 DEF Queues, f, q
  <2>1. r + (f + n) + (q - n) = t
    BY <1>3, <1>4
  <2>2. ASSUME NEW i \in 1 .. f + n PROVE u.flyingids[i] = Id(r + i)
    <3>1. CASE i <= f
      BY <1>3, <1>7, <1>9, <3>1 DEF Queues, f
    <3>2. CASE i > f
      <4>1. i - f \in 1 .. n /\ i = f + (i - f)
        BY <1>3, <3>2
      <4>2. u.flyingids[i] = Id(r + f + (i - f))
        BY <1>1, <1>9, <4>1
      <4>3. r + f + (i - f) = r + i
        BY <1>3
      <4> QED BY <4>2, <4>3
    <3> QED BY <1>3, <3>1, <3>2
  <2>3. ASSUME NEW i \in 1 .. q - n
        PROVE  /\ u.queuedids[i] = Id(r + (f + n) + i)
               /\ u.tosend[u.queuedids[i]] = r + (f + n) + i
    <3>1. n + i \in 1 .. q
      BY <1>1, <1>3
    <3>2. s.queuedids[n + i] = Id(r + f + (n + i)) /\ s.queuedids[n + i] \in UInt16
      BY <2>0, <3>1
    <3>3. s.tosend[s.queuedids[n + i]] = r + f + (n + i)
      BY <2>0, <3>1
    <3>4. s.queuedids[n + i] \notin out
      <4> SUFFICES ASSUME NEW j \in 1 .. n, s.queuedids[n + i] = b[j] PROVE FALSE
        OBVIOUS
      <4>1. j \in 1 .. q /\ s.queuedids[n + i] = s.queuedids[j]
        BY <1>1, <1>3
      <4>2. n + i = j
        BY <1>2, <3>1, <4>1
      <4> QED BY <1>3, <4>2
    <3>5. r + f + (n + i) = r + (f + n) + i
      BY <1>3
    <3> HIDE DEF out
    <3>6. u.queuedids[i] = s.queuedids[n + i]
      BY <1>10
    <3>7. u.tosend[s.queuedids[n + i]] = s.tosend[s.queuedids[n + i]]
      BY <1>5, <3>2, <3>4
    <3> QED BY <3>2, <3>3, <3>5, <3>6, <3>7
  <2> QED BY <1>9, <1>10, <2>1, <2>2, <2>3 DEF Queues
<1>12. Named(u.flying, m)
  <2> SUFFICES ASSUME NEW id \in UInt16, u.flying[id] # NoPacket
               PROVE  Carries(id, u.flying[id], m)
    BY DEF Named
  <2>1. CASE id \in out
    <3>1. PICK i \in 1 .. n : id = b[i]
      BY <2>1
    <3>2. u.flying[id] = r + f + i
      BY <1>1, <1>5, <2>1, <3>1
    <3> QED BY <1>1, <1>3, <3>1, <3>2 DEF Carries
  <2>2. CASE id \notin out
    <3> HIDE DEF out
    <3>1. u.flying[id] = s.flying[id]
      BY <1>5, <2>2
    <3> QED BY <1>7, <3>1 DEF Named
  <2> QED BY <2>1, <2>2
<1>13. ~s.panicked => ~u.panicked
  <2>1. ASSUME NEW i \in 1 .. n PROVE s.tosend[b[i]] # NoPacket
    BY <1>1 DEF NoPacket
  <2>2. ASSUME NEW i \in 1 .. n, NEW j \in 1 .. i - 1 PROVE b[j] # b[i]
    <3>1. j \in 1 .. n /\ i \in 1 .. q /\ j \in 1 .. q /\ i # j
      BY <1>1, <1>3
    <3> QED BY <1>1, <1>2, <3>1
  <2> QED BY <1>5, <2>1, <2>2, Zenon
<1>14. \A i \in 1 .. Len(Outgoing(s)) : Carries(Outgoing(s)[i].id, Outgoing(s)[i].pkt, m)
  <2>1. Len(Outgoing(s)) = n
    BY <1>3, <1>6
  <2>2. ASSUME NEW i \in 1 .. n
        PROVE  Outgoing(s)[i].id = b[i] /\ Outgoing(s)[i].pkt = r + f + i
    BY <1>1, <1>6 DEF controlPacket
  <2>3. ASSUME NEW i \in 1 .. n PROVE r + f + i \in 1 .. m /\ b[i] = Id(r + f + i)
    BY <1>1, <1>3
  <2> QED BY <2>1, <2>2, <2>3 DEF Carries
<1> QED BY <1>5, <1>11, <1>12, <1>13, <1>14, Zenon DEF u

\* returnreply hands back the packets that follow those handed back before.
LEMMA ReturnreplyKeeps ==
  ASSUME Regime, NEW s \in HWRecord, NEW r \in Nat, NEW t \in 0 .. NPackets,
         NEW m \in t .. NPackets, Queues(s, r, t), Named(s.replied, m),
         NEW n \in 0 .. Len(s.flyingids), Returns(s, n)
  PROVE  /\ Queues(returnreply(s, n), r + n, t)
         /\ Named(returnreply(s, n).replied, m)
         /\ \A id \in UInt16 : returnreply(s, n).replied[id] \in {s.replied[id], NoPacket}
         /\ returnreply(s, n).nextID = s.nextID
         /\ returnreply(s, n).configured = s.configured
         /\ returnreply(s, n).flying = s.flying
         /\ returnreply(s, n).panicked = s.panicked
         /\ Len(Handback(s, n)) = n
         /\ \A i \in 1 .. n : /\ Handback(s, n)[i] = r + i
                              /\ \E id \in UInt16 : s.replied[id] = r + i
<1> DEFINE ids  == SubSeq(s.flyingids, n + 1, Len(s.flyingids))
           gone == {s.flyingids[i] : i \in 1 .. n}
           rep  == [id \in UInt16 |-> IF id \in gone THEN NoPacket ELSE s.replied[id]]
           u    == returnreply(s, n)
           f    == Len(s.flyingids)
           q    == Len(s.queuedids)
<1>1. /\ n \in Nat /\ f \in Nat /\ q \in Nat
      /\ s.flyingids \in Seq(UInt16) /\ s.queuedids \in Seq(UInt16)
  BY Fields
<1>2. u = [s EXCEPT !.flyingids = ids, !.replied = rep]
  BY DEF returnreply
<1>3. /\ u.nextID = s.nextID /\ u.configured = s.configured /\ u.flying = s.flying
      /\ u.panicked = s.panicked /\ u.queuedids = s.queuedids /\ u.tosend = s.tosend
      /\ u.flyingids = ids /\ u.replied = rep
  <2> HIDE DEF ids, rep, u
  <2> QED BY <1>2 DEF HWRecord
<1>4. Len(ids) = f - n /\ \A i \in 1 .. f - n : ids[i] = s.flyingids[n + i]
  BY <1>1, Behind
<1>5. /\ r + f + q = t
      /\ \A i \in 1 .. f : s.flyingids[i] = Id(r + i)
      /\ \A i \in 1 .. q : /\ s.queuedids[i] = Id(r + f + i)
                           /\ s.tosend[s.queuedids[i]] = r + f + i
  BY DEF Queues
<1>6. \A i \in 1 .. n : s.replied[s.flyingids[i]] # NoPacket
  BY DEF Returns
<1>7. Handback(s, n) = [i \in 1 .. n |-> s.replied[s.flyingids[i]]]
  BY DEF Handback
<1>8. Named(s.replied, m)
  OBVIOUS
<1> HIDE DEF ids, u, f, q
<1>9. Queues(u, r + n, t)
  <2>1. (r + n) + (f - n) + q = t
    BY <1>1, <1>5
  <2>2. ASSUME NEW i \in 1 .. f - n PROVE u.flyingids[i] = Id((r + n) + i)
    <3>1. n + i \in 1 .. f /\ r + (n + i) = (r + n) + i
      BY <1>1
    <3> QED BY <1>3, <1>4, <1>5, <3>1
  <2>3. ASSUME NEW i \in 1 .. q
        PROVE  /\ u.queuedids[i] = Id((r + n) + (f - n) + i)
               /\ u.tosend[u.queuedids[i]] = (r + n) + (f - n) + i
    <3>1. (r + n) + (f - n) + i = r + f + i
      BY <1>1
    <3> QED BY <1>3, <1>5, <3>1
  <2>4. Len(u.flyingids) = f - n /\ Len(u.queuedids) = q
    BY <1>3, <1>4 DEF q
  <2> QED BY <2>1, <2>2, <2>3, <2>4 DEF Queues
<1>10. \A id \in UInt16 : u.replied[id] \in {s.replied[id], NoPacket}
  BY <1>3
<1>11. Named(u.replied, m)
  BY <1>8, <1>10 DEF Named
<1>12. ASSUME NEW i \in 1 .. n
       PROVE  /\ s.replied[s.flyingids[i]] = r + i
              /\ s.flyingids[i] \in UInt16
  <2>1. i \in 1 .. f /\ s.flyingids[i] \in UInt16
    BY <1>1 DEF f
  <2>2. s.flyingids[i] = Id(r + i)
    BY <1>5, <2>1
  <2>3. /\ s.replied[s.flyingids[i]] \in 1 .. m
        /\ s.flyingids[i] = Id(s.replied[s.flyingids[i]])
    BY <1>6, <1>8, <2>1 DEF Named, Carries
  <2>4. r + i \in 1 .. NPackets + 1
    BY <1>1, <1>5, <2>1, Constants
  <2>5. s.replied[s.flyingids[i]] \in 1 .. NPackets + 1
    BY <2>3, Constants
  <2>6. Id(r + i) = Id(s.replied[s.flyingids[i]])
    BY <2>2, <2>3
  <2>7. s.replied[s.flyingids[i]] = r + i
    <3> DEFINE p == s.replied[s.flyingids[i]]
    <3> HIDE DEF p
    <3>1. p \in 1 .. NPackets + 1 /\ Id(r + i) = Id(p)
      BY <2>5, <2>6 DEF p
    <3>2. r + i = p
      BY <2>4, <3>1, IdInjective
    <3> QED BY <3>2 DEF p
  <2> QED BY <2>1, <2>7
<1>13. Len(Handback(s, n)) = n
  BY <1>1, <1>7
<1>14. ASSUME NEW i \in 1 .. n
       PROVE  Handback(s, n)[i] = r + i /\ \E id \in UInt16 : s.replied[id] = r + i
  BY <1>7, <1>12
<1> QED BY <1>3, <1>9, <1>10, <1>11, <1>13, <1>14 DEF u

\* What is in a channel or on the wire after a datagram has joined it.
LEMMA AppendElems ==
  ASSUME NEW S, NEW q \in Seq(S), NEW e \in S
  PROVE  /\ Len(Append(q, e)) = Len(q) + 1
         /\ \A k \in 1 .. Len(q) : Append(q, e)[k] = q[k]
         /\ Append(q, e)[Len(q) + 1] = e
         /\ \A k \in 1 .. Len(Append(q, e)) :
              Append(q, e)[k] = e \/ \E j \in 1 .. Len(q) : Append(q, e)[k] = q[j]
OBVIOUS

\* What is on the wire after a burst.
LEMMA ConcatElems ==
  ASSUME NEW S, NEW a \in Seq(S), NEW b \in Seq(S)
  PROVE  \A k \in 1 .. Len(a \o b) :
           \/ \E j \in 1 .. Len(a) : (a \o b)[k] = a[j]
           \/ \E j \in 1 .. Len(b) : (a \o b)[k] = b[j]
<1>1. /\ Len(a \o b) = Len(a) + Len(b)
      /\ \A k \in 1 .. Len(a) : (a \o b)[k] = a[k]
      /\ \A k \in 1 .. Len(b) : (a \o b)[Len(a) + k] = b[k]
  BY Joined
<1> SUFFICES ASSUME NEW k \in 1 .. Len(a) + Len(b), k > Len(a)
             PROVE  \E j \in 1 .. Len(b) : (a \o b)[k] = b[j]
  BY <1>1
<1>2. k - Len(a) \in 1 .. Len(b) /\ k = Len(a) + (k - Len(a))
  OBVIOUS
<1> QED BY <1>1, <1>2

\* What is left on the wire was there before.
LEMMA WithoutElems ==
  ASSUME NEW S, NEW q \in Seq(S), NEW i \in 1 .. Len(q)
  PROVE  \A k \in 1 .. Len(Without(q, i)) :
           \E j \in 1 .. Len(q) : Without(q, i)[k] = q[j]
<1> DEFINE a == SubSeq(q, 1, i - 1)
           b == SubSeq(q, i + 1, Len(q))
<1>1. a \in Seq(S) /\ \A k \in 1 .. Len(a) : a[k] = q[k] /\ k \in 1 .. Len(q)
  OBVIOUS
<1>2. b \in Seq(S) /\ \A k \in 1 .. Len(b) : b[k] = q[i + k] /\ i + k \in 1 .. Len(q)
  OBVIOUS
<1>3. Without(q, i) = a \o b
  BY DEF Without
<1> HIDE DEF a, b
<1>4. a \in Seq(S) /\ b \in Seq(S)
  BY <1>1, <1>2
<1>5. \A k \in 1 .. Len(a \o b) :
         \/ \E j \in 1 .. Len(a) : (a \o b)[k] = a[j]
         \/ \E j \in 1 .. Len(b) : (a \o b)[k] = b[j]
  BY <1>4, ConcatElems
<1> QED BY <1>1, <1>2, <1>3, <1>5

\* What is behind the head of a channel was in it before.
LEMMA TailElems ==
  ASSUME NEW S, NEW q \in Seq(S), q # <<>>
  PROVE  /\ Len(q) \in Nat /\ Len(q) > 0 /\ Head(q) = q[1] /\ 1 \in 1 .. Len(q)
         /\ Len(Tail(q)) = Len(q) - 1
         /\ \A k \in 1 .. Len(Tail(q)) : Tail(q)[k] = q[k + 1] /\ k + 1 \in 1 .. Len(q)
OBVIOUS


-----------------------------------------------------------------------------
(* The initial state and the steps, one lemma per actor.                   *)

\* The invariant holds at the start.
LEMMA InitInv == ASSUME Regime PROVE Init => IInv
<1> SUFFICES ASSUME Init PROVE IInv
  OBVIOUS
<1>1. TypeOK
  BY InitType
<1>2. /\ requests = <<>> /\ responses = <<>> /\ replies = <<>> /\ incoming = <<>>
      /\ statuses = <<>> /\ accepted = <<>> /\ returned = <<>>
      /\ expects = StartID /\ handed = 0 /\ config = "request" /\ h = newhw
      /\ answer = [p \in Packets |-> NoPacket]
      /\ lost = [g \in Handlers |-> idle]
  BY DEF Init, WireInit, DeviceInit, HWInit
<1>3. Safe
  BY <1>2 DEF Safe, ExecutedOnce, InOrder, OwnReply
<1>4. /\ newhw.configured = FALSE /\ newhw.queuedids = <<>> /\ newhw.flyingids = <<>>
      /\ newhw.flying = EmptyLog /\ newhw.replied = EmptyLog
  BY DEF newhw
<1>5. Configured
  BY <1>2, <1>4 DEF Configured
<1>6. Waiting /\ Executed
  BY <1>2, IdFirst DEF Waiting, Executed
<1>7. Queued
  <2>1. /\ Len(h.flyingids) = 0 /\ Len(h.queuedids) = 0 /\ Len(returned) = 0
        /\ handed - Len(incoming) = 0
    <3>1. h.flyingids = <<>> /\ h.queuedids = <<>>
      BY <1>2, <1>4
    <3>2. Len(<<>>) = 0
      OBVIOUS
    <3>3. /\ Len(h.flyingids) = 0 /\ Len(h.queuedids) = 0 /\ Len(returned) = 0
          /\ Len(incoming) = 0
      BY <1>2, <3>1, <3>2, Zenon
    <3>4. handed = 0
      BY <1>2
    <3> QED BY <3>3, <3>4
  <2>2. Queues(h, 0, 0)
    BY <2>1 DEF Queues
  <2> QED BY <1>2, <2>1, <2>2, Constants DEF Queued
<1>8. InFlight
  BY <1>2, <1>4 DEF InFlight, Named, EmptyLog
<1>9. Rewriting
  BY <1>2 DEF Rewriting, idle
<1>10. OnWire
  BY <1>2 DEF OnWire
<1> QED BY <1>1, <1>3, <1>5, <1>6, <1>7, <1>8, <1>9, <1>10 DEF IInv, Live

\* The types the proofs below use.
LEMMA Types ==
  ASSUME TypeOK
  PROVE  /\ requests \in Seq(Request) /\ responses \in Seq(Response)
         /\ replies \in Seq(Response) /\ statuses \in Seq(targetstatus)
         /\ incoming \in Seq(Packets) /\ returned \in Seq(Packets)
         /\ accepted \in Seq(Request) /\ answered \in 0 .. Len(accepted)
         /\ expects \in UInt16 /\ handed \in 0 .. NPackets /\ handed \in Nat
         /\ answer \in [Packets -> Packets \cup {NoPacket}]
         /\ h \in HWRecord
         /\ Len(requests) \in Nat /\ Len(responses) \in Nat /\ Len(replies) \in Nat
         /\ Len(statuses) \in Nat /\ Len(incoming) \in Nat /\ Len(returned) \in Nat
         /\ Len(accepted) \in Nat
BY DEF TypeOK, WireTypeOK, DeviceTypeOK, HWTypeOK

\* A reply of the device answers the packet whose id it has.
LEMMA ReplyCarries ==
  ASSUME Regime, TypeOK, Executed, NEW k \in 1 .. Len(accepted)
  PROVE  LET r == controlReply(accepted[k].id, accepted[k].pkt)
         IN  r \in Response /\ r.id # 0 /\ Carries(r.id, r.pkt, handed)
<1>1. accepted[k] \in Request
  BY Types
<1>2. controlReply(accepted[k].id, accepted[k].pkt) \in Response
  BY <1>1, Constants DEF controlReply, Response, Request, NoStatus, targetstatus
<1>3. accepted[k].id = Id(k) /\ accepted[k].pkt = k /\ k \in 1 .. handed
  BY Types DEF Executed
<1>4. Id(k) # 0
  BY <1>3, IdType, Types, Constants
<1> QED BY <1>2, <1>3, <1>4 DEF controlReply, Carries

\* A reply joins the wire.
LEMMA ReplyJoins ==
  ASSUME Regime, TypeOK, Live, NEW r \in Response,
         r.id # 0 => Carries(r.id, r.pkt, handed),
         r.id = 0 /\ ~h.configured => r.st.nextid = StartID
  PROVE  /\ \A i \in 1 .. Len(Append(responses, r)) :
              Append(responses, r)[i].id # 0 =>
                Carries(Append(responses, r)[i].id, Append(responses, r)[i].pkt, handed)
         /\ ~h.configured =>
              \A i \in 1 .. Len(Append(responses, r)) :
                Append(responses, r)[i].id = 0 => Append(responses, r)[i].st.nextid = StartID
<1>1. responses \in Seq(Response)
  BY Types
<1>2. \A k \in 1 .. Len(Append(responses, r)) :
        \/ Append(responses, r)[k] = r
        \/ \E j \in 1 .. Len(responses) : Append(responses, r)[k] = responses[j]
  BY <1>1, AppendElems
<1>3. \A i \in 1 .. Len(responses) :
        responses[i].id # 0 => Carries(responses[i].id, responses[i].pkt, handed)
  BY DEF Live, OnWire
<1>4. ~h.configured => \A i \in 1 .. Len(responses) :
                          responses[i].id = 0 => responses[i].st.nextid = StartID
  BY DEF Live, Configured
<1>5. ASSUME NEW i \in 1 .. Len(Append(responses, r))
      PROVE  /\ Append(responses, r)[i].id # 0 =>
                  Carries(Append(responses, r)[i].id, Append(responses, r)[i].pkt, handed)
             /\ ~h.configured =>
                  (Append(responses, r)[i].id = 0 => Append(responses, r)[i].st.nextid = StartID)
  BY <1>2, <1>3, <1>4
<1> QED BY <1>5

\* A datagram leaves the wire.
LEMMA RequestLeaves ==
  ASSUME TypeOK, Live, NEW i \in 1 .. Len(requests)
  PROVE  \A k \in 1 .. Len(Without(requests, i)) :
           Without(requests, i)[k].ptype = control =>
             Carries(Without(requests, i)[k].id, Without(requests, i)[k].pkt, handed)
<1>1. \A k \in 1 .. Len(Without(requests, i)) :
        \E j \in 1 .. Len(requests) : Without(requests, i)[k] = requests[j]
  BY Types, WithoutElems
<1> QED BY <1>1 DEF Live, OnWire

\* The device executes the packet that is due and answers for it.
LEMMA DeviceInv ==
  ASSUME Regime, TypeOK, Safe, Live, DeviceNext, UNCHANGED hwVars
  PROVE  Safe' /\ Live'
<1>1. UNCHANGED <<h, incoming, replies, statuses, config, lost, handed, answer, returned>>
  BY DEF hwVars
<1>2. Waiting' /\ Queued' /\ InFlight' /\ Rewriting' /\ InOrder' /\ OwnReply'
  BY <1>1 DEF Safe, Live, Waiting, Queued, Queues, InFlight, Rewriting, InOrder, OwnReply
<1>3. SUFFICES Executed' /\ Configured' /\ OnWire'
  BY <1>2 DEF Safe, Live, ExecutedOnce, Executed
<1>4. /\ Configured /\ OnWire /\ Executed /\ Waiting
  BY DEF Live
<1>5. \A i \in 1 .. Len(replies) :
        replies[i].id # 0 => Carries(replies[i].id, replies[i].pkt, handed)
  BY <1>4 DEF OnWire
<1>6. CASE DeviceControl
  <2>1. PICK i \in Deliverable(requests) : DeviceControl!(i)
    BY <1>6 DEF DeviceControl
  <2>2. i \in 1 .. Len(requests) /\ requests[i] \in Request
    BY <2>1, DeliverableType, Types
  <2>3. responses' = responses /\ requests' = Without(requests, i)
    BY <2>1
  <2>4. OnWire'
    BY <1>1, <1>4, <2>2, <2>3, RequestLeaves DEF OnWire
  <2>5. Configured'
    BY <1>1, <1>4, <2>3 DEF Configured
  <2>6. CASE requests[i].id = expects
    <3> DEFINE k == Len(accepted)
               p == requests[i].pkt
    <3>1. Carries(requests[i].id, p, handed)
      BY <1>4, <2>1, <2>2 DEF OnWire
    <3>2. expects = Id(k + 1) /\ k \in 0 .. NPackets /\ k <= handed
      BY <1>4, Types, Constants DEF Executed
    <3>3. p \in 1 .. NPackets + 1 /\ k + 1 \in 1 .. NPackets + 1 /\ Id(p) = Id(k + 1)
      <4> HIDE DEF p, k
      <4>1. p \in 1 .. handed /\ Id(p) = Id(k + 1)
        BY <2>6, <3>1, <3>2 DEF Carries
      <4>2. handed \in 0 .. NPackets
        BY Types
      <4> QED BY <3>2, <4>1, <4>2, Constants
    <3>4. p = k + 1
      <4> HIDE DEF p, k
      <4> QED BY <3>3, IdInjective
    <3>5. accepted' = Append(accepted, requests[i]) /\ expects' = succ(expects)
      BY <2>1, <2>6
    <3>6. /\ Len(accepted') = k + 1
          /\ \A j \in 1 .. k : accepted'[j] = accepted[j]
          /\ accepted'[k + 1] = requests[i]
      BY <2>2, <3>5, Types, AppendElems
    <3>7. expects' = Id((k + 1) + 1)
      BY <3>2, <3>3, <3>5, IdSucc
    <3>8. k + 1 <= handed
      BY <3>1, <3>4 DEF Carries
    <3>9. ASSUME NEW j \in 1 .. k + 1
          PROVE  accepted'[j].pkt = j /\ accepted'[j].id = Id(j)
      <4>1. CASE j <= k
        <5>1. j \in 1 .. k
          BY <3>2, <4>1
        <5> QED BY <1>4, <3>6, <5>1 DEF Executed
      <4>2. CASE j = k + 1
        BY <2>6, <3>2, <3>4, <3>6, <4>2
      <4> QED BY <3>2, <4>1, <4>2
    <3>10. Executed'
      BY <1>1, <3>6, <3>7, <3>8, <3>9 DEF Executed
    <3> QED BY <2>4, <2>5, <3>10
  <2>7. CASE requests[i].id # expects
    <3>1. UNCHANGED <<accepted, expects>>
      BY <2>1, <2>7
    <3>2. Executed'
      BY <1>1, <1>4, <3>1 DEF Executed
    <3> QED BY <2>4, <2>5, <3>2
  <2> QED BY <2>6, <2>7
<1>7. ASSUME NEW r \in Response, responses' = Append(responses, r),
             r.id # 0 => Carries(r.id, r.pkt, handed),
             r.id = 0 /\ ~h.configured => r.st.nextid = StartID
      PROVE  /\ Configured'
             /\ \A i \in 1 .. Len(responses') :
                  responses'[i].id # 0 => Carries(responses'[i].id, responses'[i].pkt, handed)
  <2>1. /\ \A i \in 1 .. Len(responses') :
             responses'[i].id # 0 => Carries(responses'[i].id, responses'[i].pkt, handed)
        /\ ~h.configured => \A i \in 1 .. Len(responses') :
             responses'[i].id = 0 => responses'[i].st.nextid = StartID
    BY <1>7, ReplyJoins
  <2> QED BY <1>1, <1>4, <2>1 DEF Configured
<1>8. CASE DeviceReply
  <2> DEFINE r == controlReply(accepted[answered + 1].id, accepted[answered + 1].pkt)
  <2>1. answered + 1 \in 1 .. Len(accepted)
    BY <1>8, Types DEF DeviceReply
  <2>2. r \in Response /\ r.id # 0 /\ Carries(r.id, r.pkt, handed)
    BY <1>4, <2>1, ReplyCarries
  <2>3. responses' = Append(responses, r) /\ UNCHANGED <<expects, accepted, requests>>
    BY <1>8 DEF DeviceReply
  <2> HIDE DEF r
  <2>4. /\ Configured'
        /\ \A i \in 1 .. Len(responses') :
             responses'[i].id # 0 => Carries(responses'[i].id, responses'[i].pkt, handed)
    BY <1>7, <2>2, <2>3
  <2>5. OnWire'
    BY <1>1, <1>4, <2>3, <2>4 DEF OnWire
  <2>6. Executed'
    BY <1>1, <1>4, <2>3 DEF Executed
  <2> QED BY <2>4, <2>5, <2>6
<1>9. CASE DeviceStatus
  <2>1. PICK i \in Deliverable(requests) : DeviceStatus!(i)
    BY <1>9 DEF DeviceStatus
  <2>2. i \in 1 .. Len(requests)
    BY <2>1, DeliverableType
  <2> DEFINE st == [nextid   |-> expects,
                    received |-> {accepted[k].id : k \in Recent(Len(accepted))},
                    sent     |-> {accepted[k].id : k \in Recent(answered)}]
  <2>3. responses' = Append(responses, statusReply(st)) /\ requests' = Without(requests, i)
    BY <2>1
  <2>4. \A k \in 1 .. Len(accepted) : accepted[k].id \in UInt16
    <3>1. \A k \in 1 .. Len(accepted) : accepted[k] \in Request
      BY Types
    <3> QED BY <3>1 DEF Request
  <2>5. st \in targetstatus
    <3>1. {accepted[k].id : k \in Recent(Len(accepted))} \in SUBSET UInt16
      BY <2>4 DEF Recent
    <3>2. {accepted[k].id : k \in Recent(answered)} \in SUBSET UInt16
      BY <2>4, Types DEF Recent
    <3> QED BY <3>1, <3>2, Types DEF targetstatus
  <2>6. st.nextid = expects
    OBVIOUS
  <2> HIDE DEF st
  <2>7. /\ statusReply(st) \in Response /\ statusReply(st).id = 0
        /\ statusReply(st).st.nextid = expects
    BY <2>5, <2>6, Constants DEF statusReply, Response
  <2>8. ~h.configured => expects = StartID
    <3>1. ~h.configured => Len(accepted) = 0
      BY <1>4, Types DEF Configured, Executed
    <3> QED BY <1>4, <3>1, IdFirst DEF Executed
  <2>9. /\ Configured'
        /\ \A j \in 1 .. Len(responses') :
             responses'[j].id # 0 => Carries(responses'[j].id, responses'[j].pkt, handed)
    BY <1>7, <2>3, <2>7, <2>8
  <2>10. OnWire'
    BY <1>1, <1>5, <2>2, <2>3, <2>9, RequestLeaves DEF OnWire
  <2>11. Executed'
    BY <1>1, <1>4, <2>1 DEF Executed, devVars
  <2> QED BY <2>9, <2>10, <2>11
<1>10. CASE DeviceResend
  <2>1. PICK i \in Deliverable(requests) : DeviceResend!(i)
    BY <1>10 DEF DeviceResend
  <2>2. i \in 1 .. Len(requests)
    BY <2>1, DeliverableType
  <2>3. requests' = Without(requests, i) /\ UNCHANGED devVars
    BY <2>1
  <2>4. Executed'
    BY <1>1, <1>4, <2>3 DEF Executed, devVars
  <2>5. CASE UNCHANGED responses
    <3>1. OnWire'
      BY <1>1, <1>4, <2>2, <2>3, <2>5, RequestLeaves DEF OnWire
    <3>2. Configured'
      BY <1>1, <1>4, <2>5 DEF Configured
    <3> QED BY <2>4, <3>1, <3>2
  <2>6. ASSUME NEW k \in Recent(answered),
               responses' = Append(responses, controlReply(accepted[k].id, accepted[k].pkt))
        PROVE  Executed' /\ Configured' /\ OnWire'
    <3> DEFINE r == controlReply(accepted[k].id, accepted[k].pkt)
    <3>1. k \in 1 .. Len(accepted)
      BY Types DEF Recent
    <3>2. r \in Response /\ r.id # 0 /\ Carries(r.id, r.pkt, handed)
      BY <1>4, <3>1, ReplyCarries
    <3>3. responses' = Append(responses, r)
      BY <2>6
    <3> HIDE DEF r
    <3>4. /\ Configured'
          /\ \A j \in 1 .. Len(responses') :
               responses'[j].id # 0 => Carries(responses'[j].id, responses'[j].pkt, handed)
      BY <1>7, <3>2, <3>3
    <3>5. OnWire'
      BY <1>1, <1>5, <2>2, <2>3, <3>4, RequestLeaves DEF OnWire
    <3> QED BY <2>4, <3>4, <3>5
  <2> QED BY <2>1, <2>5, <2>6
<1> QED BY <1>6, <1>8, <1>9, <1>10 DEF DeviceNext

\* The network only copies and drops, and time only sets ticks.
LEMMA NetworkInv ==
  ASSUME Regime, TypeOK, Safe, Live, Network \/ Tick \/ TickWatched
  PROVE  Safe' /\ Live'
<1>1. /\ UNCHANGED devVars
      /\ UNCHANGED <<incoming, replies, statuses, config, lost, handed, answer, returned>>
  BY DEF Network, LoseRequest, LoseResponse, DuplicateRequest, DuplicateResponse,
         Tick, TickWatched, Ticks, hwVars
<1>2. /\ h'.nextID = h.nextID /\ h'.configured = h.configured
      /\ h'.tosend = h.tosend /\ h'.flying = h.flying /\ h'.replied = h.replied
      /\ h'.queuedids = h.queuedids /\ h'.flyingids = h.flyingids
  <2>1. CASE Network
    BY <2>1 DEF Network, LoseRequest, LoseResponse, DuplicateRequest, DuplicateResponse,
                hwVars
  <2>2. CASE Tick \/ TickWatched
    BY <2>2, TickKeeps, Types
  <2> QED BY <2>1, <2>2
<1>3. Safe' /\ Waiting' /\ Executed' /\ Rewriting'
  BY <1>1 DEF Safe, ExecutedOnce, InOrder, OwnReply, Live, Waiting, Executed, Rewriting, devVars
<1>4. Queued' /\ InFlight'
  BY <1>1, <1>2 DEF Live, Queued, Queues, InFlight
<1>5. OnWire /\ Configured
  BY DEF Live
<1>6. requests' = requests \/ responses' = responses
  BY DEF Network, LoseRequest, LoseResponse, DuplicateRequest, DuplicateResponse,
         Tick, TickWatched, Ticks, wireVars
<1>7. /\ \A k \in 1 .. Len(requests') : \E j \in 1 .. Len(requests) : requests'[k] = requests[j]
      /\ \A k \in 1 .. Len(responses') : \E j \in 1 .. Len(responses) : responses'[k] = responses[j]
  <2>0. requests \in Seq(Request) /\ responses \in Seq(Response)
    BY Types
  <2>1. CASE LoseRequest
    <3>1. responses' = responses
      BY <2>1 DEF LoseRequest
    <3>2. PICK i \in 1 .. Len(requests) : requests' = Without(requests, i)
      BY <2>1 DEF LoseRequest
    <3>3. \A k \in 1 .. Len(requests') : \E j \in 1 .. Len(requests) : requests'[k] = requests[j]
      BY <2>0, <3>2, WithoutElems
    <3> QED BY <3>1, <3>3
  <2>2. CASE LoseResponse
    <3>1. requests' = requests
      BY <2>2 DEF LoseResponse
    <3>2. PICK i \in 1 .. Len(responses) : responses' = Without(responses, i)
      BY <2>2 DEF LoseResponse
    <3>3. \A k \in 1 .. Len(responses') : \E j \in 1 .. Len(responses) : responses'[k] = responses[j]
      BY <2>0, <3>2, WithoutElems
    <3> QED BY <3>1, <3>3
  <2>3. CASE DuplicateRequest
    <3>1. responses' = responses
      BY <2>3 DEF DuplicateRequest
    <3>2. PICK i \in 1 .. Len(requests) : requests' = Append(requests, requests[i])
      BY <2>3 DEF DuplicateRequest
    <3>3. requests[i] \in Request
      BY <2>0
    <3>4. \A k \in 1 .. Len(requests') :
            requests'[k] = requests[i] \/ \E j \in 1 .. Len(requests) : requests'[k] = requests[j]
      BY <2>0, <3>2, <3>3, AppendElems
    <3> QED BY <3>1, <3>4
  <2>4. CASE DuplicateResponse
    <3>1. requests' = requests
      BY <2>4 DEF DuplicateResponse
    <3>2. PICK i \in 1 .. Len(responses) : responses' = Append(responses, responses[i])
      BY <2>4 DEF DuplicateResponse
    <3> DEFINE e == responses[i]
    <3>3. e \in Response /\ responses \in Seq(Response)
      BY <2>0
    <3> HIDE DEF e
    <3>4. \A k \in 1 .. Len(Append(responses, e)) :
            \/ Append(responses, e)[k] = e
            \/ \E j \in 1 .. Len(responses) : Append(responses, e)[k] = responses[j]
      BY <3>3
    <3>5. responses' = Append(responses, e) /\ e = responses[i]
      BY <3>2 DEF e
    <3> QED BY <3>1, <3>4, <3>5
  <2>5. CASE Tick \/ TickWatched
    BY <2>5 DEF Tick, TickWatched, Ticks, wireVars
  <2> QED BY <2>1, <2>2, <2>3, <2>4, <2>5 DEF Network
<1>8. OnWire'
  <2>1. \A i \in 1 .. Len(requests') :
          requests'[i].ptype = control => Carries(requests'[i].id, requests'[i].pkt, handed)
    BY <1>5, <1>7 DEF OnWire
  <2>2. \A i \in 1 .. Len(responses') :
          responses'[i].id # 0 => Carries(responses'[i].id, responses'[i].pkt, handed)
    BY <1>5, <1>7 DEF OnWire
  <2> QED BY <1>1, <1>5, <2>1, <2>2 DEF OnWire
<1>9. Configured'
  <2>1. ~h.configured => \A i \in 1 .. Len(responses') :
          responses'[i].id = 0 => responses'[i].st.nextid = StartID
    BY <1>5, <1>7 DEF Configured
  <2> QED BY <1>1, <1>2, <1>5, <2>1 DEF Configured
<1> QED BY <1>3, <1>4, <1>8, <1>9 DEF Live

\* receive takes a reply from the wire and leaves the others on it.
LEMMA ResponseLeaves ==
  ASSUME TypeOK, NEW i \in 1 .. Len(responses)
  PROVE  \A k \in 1 .. Len(Without(responses, i)) :
           \E j \in 1 .. Len(responses) : Without(responses, i)[k] = responses[j]
<1>1. responses \in Seq(Response)
  BY Types
<1> QED BY <1>1, WithoutElems, SMTT(20)

\* The users, receive and ConfigDevice.
LEMMA ClientInv ==
  ASSUME Regime, TypeOK, Safe, Live,
         Send \/ receive \/ ConfigRequest \/ ConfigStatus
  PROVE  Safe' /\ Live'
<1>0. Configured /\ Waiting /\ Executed /\ Queued /\ InFlight /\ Rewriting /\ OnWire
  BY DEF Live
<1>1. UNCHANGED <<lost, answer, returned, devVars>>
  BY DEF Send, receive, ConfigRequest, ConfigStatus
<1>2. Safe'
  BY <1>1 DEF Safe, ExecutedOnce, InOrder, OwnReply, devVars
<1>3. CASE Send
  <2>1. /\ handed' = handed + 1 /\ incoming' = Append(incoming, handed + 1)
        /\ handed < NPackets /\ handed - Len(returned) < MaxOutstanding
        /\ h.configured /\ h' = h
        /\ UNCHANGED <<requests, responses, replies, statuses, config>>
    BY <1>3 DEF Send, Regime, wireVars
  <2>2. handed \in Nat /\ incoming \in Seq(Packets) /\ handed + 1 \in Packets /\ Len(incoming) \in Nat
    <3>1. handed \in Nat /\ incoming \in Seq(Packets) /\ Len(incoming) \in Nat
      BY Types
    <3>2. handed + 1 \in 1 .. NPackets
      BY <2>1, <3>1, Constants
    <3> QED BY <3>1, <3>2 DEF Packets
  <2>3. /\ Len(incoming') = Len(incoming) + 1
        /\ \A k \in 1 .. Len(incoming) : incoming'[k] = incoming[k]
        /\ incoming'[Len(incoming) + 1] = handed + 1
    BY <2>1, <2>2, AppendElems
  <2>4. handed' - Len(incoming') = handed - Len(incoming)
    BY <2>1, <2>2, <2>3
  <2>5. \A id, p : Carries(id, p, handed) => Carries(id, p, handed')
    BY <2>1, <2>2 DEF Carries
  <2>6. Configured'
    BY <1>0, <2>1, <2>4 DEF Configured
  <2>7. Waiting'
    <3>1. Len(incoming') <= handed'
      BY <1>0, <2>1, <2>2, <2>3 DEF Waiting
    <3>2. ASSUME NEW i \in 1 .. Len(incoming) + 1
          PROVE  incoming'[i] = handed - Len(incoming) + i
      <4>1. CASE i \in 1 .. Len(incoming)
        BY <1>0, <2>3, <4>1 DEF Waiting
      <4>2. CASE i = Len(incoming) + 1
        BY <2>2, <2>3, <4>2
      <4> QED BY <2>2, <4>1, <4>2
    <3> QED BY <2>3, <2>4, <3>1, <3>2 DEF Waiting
  <2>8. Executed'
    BY <1>0, <1>1, <2>1, <2>2, Types DEF Executed, devVars
  <2>9. Queued'
    <3>1. handed' - Len(returned') <= MaxOutstanding
      BY <1>1, <2>1, <2>2, Types, Constants
    <3> QED BY <1>0, <1>1, <2>1, <2>4, <3>1 DEF Queued
  <2>10. InFlight'
    BY <1>0, <1>1, <2>1, <2>5 DEF InFlight, Named
  <2>11. Rewriting'
    BY <1>0, <1>1, <2>5 DEF Rewriting
  <2>12. OnWire'
    BY <1>0, <2>1, <2>5 DEF OnWire
  <2> QED BY <1>2, <2>6, <2>7, <2>8, <2>9, <2>10, <2>11, <2>12 DEF Live
<1>4. CASE receive
  <2>1. PICK i \in Deliverable(responses) :
          replies' = Append(replies, responses[i]) /\ responses' = Without(responses, i)
    BY <1>4 DEF receive
  <2>2. i \in 1 .. Len(responses) /\ responses[i] \in Response /\ replies \in Seq(Response)
    BY DeliverableType, Types
  <2>3. \A k \in 1 .. Len(responses') : \E j \in 1 .. Len(responses) : responses'[k] = responses[j]
    BY <2>1, <2>2, ResponseLeaves, Zenon
  <2>4. \A k \in 1 .. Len(replies') :
          replies'[k] = responses[i] \/ \E j \in 1 .. Len(replies) : replies'[k] = replies[j]
    BY <2>1, <2>2, AppendElems
  <2>5. UNCHANGED <<h, incoming, statuses, config, handed, requests>>
    BY <1>4 DEF receive
  <2>6. Waiting' /\ Executed' /\ Queued' /\ InFlight' /\ Rewriting'
    BY <1>0, <1>1, <2>5 DEF Waiting, Executed, Queued, Queues, InFlight, Rewriting, devVars
  <2>7. OnWire'
    <3>1. \A k \in 1 .. Len(responses') :
            responses'[k].id # 0 => Carries(responses'[k].id, responses'[k].pkt, handed)
      BY <1>0, <2>3 DEF OnWire
    <3>2. \A k \in 1 .. Len(replies') :
            replies'[k].id # 0 => Carries(replies'[k].id, replies'[k].pkt, handed)
      BY <1>0, <2>2, <2>4 DEF OnWire
    <3> QED BY <1>0, <2>5, <3>1, <3>2 DEF OnWire
  <2>8. Configured'
    <3>1. ~h.configured => \A k \in 1 .. Len(responses') :
            responses'[k].id = 0 => responses'[k].st.nextid = StartID
      BY <1>0, <2>3 DEF Configured
    <3>2. ~h.configured => \A k \in 1 .. Len(replies') :
            replies'[k].id = 0 => replies'[k].st.nextid = StartID
      BY <1>0, <2>2, <2>4 DEF Configured
    <3> QED BY <1>0, <2>5, <3>1, <3>2 DEF Configured
  <2> QED BY <1>2, <2>6, <2>7, <2>8 DEF Live
<1>5. CASE ConfigRequest
  <2>1. /\ config = "request" /\ config' = "await" /\ requests' = Append(requests, newStatusPacket)
        /\ UNCHANGED <<h, incoming, replies, statuses, handed, responses>>
    BY <1>5 DEF ConfigRequest
  <2>2. newStatusPacket \in Request /\ newStatusPacket.ptype # control
    BY Constants DEF newStatusPacket, Request, control, status, resend
  <2>3. \A k \in 1 .. Len(requests') :
          requests'[k] = newStatusPacket \/ \E j \in 1 .. Len(requests) : requests'[k] = requests[j]
    BY <2>1, <2>2, AppendElems, Types
  <2>4. OnWire'
    <3>1. \A k \in 1 .. Len(requests') :
            requests'[k].ptype = control => Carries(requests'[k].id, requests'[k].pkt, handed)
      BY <1>0, <2>2, <2>3 DEF OnWire
    <3> QED BY <1>0, <2>1, <3>1 DEF OnWire
  <2>5. Waiting' /\ Executed' /\ Queued' /\ InFlight' /\ Rewriting'
    BY <1>0, <1>1, <2>1 DEF Waiting, Executed, Queued, Queues, InFlight, Rewriting, devVars
  <2>6. Configured'
    BY <1>0, <2>1 DEF Configured
  <2> QED BY <1>2, <2>4, <2>5, <2>6 DEF Live
<1>6. CASE ConfigStatus
  <2>1. /\ config = "await" /\ config' = "done" /\ statuses # <<>>
        /\ h' = [h EXCEPT !.nextID = Head(statuses).nextid, !.configured = TRUE]
        /\ UNCHANGED <<incoming, replies, handed, requests, responses>>
    BY <1>6 DEF ConfigStatus, wireVars
  <2>2. /\ h'.nextID = Head(statuses).nextid /\ h'.configured = TRUE
        /\ h'.tosend = h.tosend /\ h'.flying = h.flying /\ h'.replied = h.replied
        /\ h'.queuedids = h.queuedids /\ h'.flyingids = h.flyingids
    BY <2>1, Types DEF HWRecord
  <2>3. ~h.configured
    BY <1>0, <2>1 DEF Configured
  <2>4. Head(statuses).nextid = StartID
    <3>1. 1 \in 1 .. Len(statuses) /\ Head(statuses) = statuses[1]
      BY <2>1, Types, TailElems
    <3> QED BY <1>0, <2>3, <3>1 DEF Configured
  <2>5. handed - Len(incoming) + 1 = 1
    BY <1>0, <2>3, Types DEF Configured, Waiting
  <2>6. Configured'
    BY <2>1, <2>2, <2>4, <2>5, IdFirst DEF Configured
  <2>7. Waiting' /\ Executed' /\ Rewriting' /\ OnWire'
    BY <1>0, <1>1, <2>1 DEF Waiting, Executed, Rewriting, OnWire, devVars
  <2>8. Queued'
    <3>1. handed' = handed /\ incoming' = incoming /\ returned' = returned
      BY <1>1, <2>1
    <3> QED BY <1>0, <2>2, <3>1 DEF Queued, Queues
  <2>9. InFlight'
    <3>1. handed' = handed /\ answer' = answer
      BY <1>1, <2>1
    <3> QED BY <1>0, <2>2, <3>1 DEF InFlight
  <2> QED BY <1>2, <2>6, <2>7, <2>8, <2>9 DEF Live
<1> QED BY <1>3, <1>4, <1>5, <1>6

\* The packet that has waited longest joins the end of the queue under its id.
LEMMA EnqueueKeeps ==
  ASSUME Regime, NEW s \in HWRecord, NEW r \in Nat, NEW t \in 0 .. NPackets - 1,
         Queues(s, r, t), s.nextID = Id(t + 1), ~s.panicked,
         ~enqueue(s, t + 1).panicked
  PROVE  LET u == enqueue(s, t + 1)
         IN  /\ Queues(u, r, t + 1)
             /\ u.nextID = Id(t + 2) /\ u.configured = s.configured
             /\ u.flying = s.flying /\ u.replied = s.replied
<1> DEFINE u   == enqueue(s, t + 1)
           ids == Append(s.queuedids, s.nextID)
           tos == [s.tosend EXCEPT ![s.nextID] = t + 1]
           f   == Len(s.flyingids)
           q   == Len(s.queuedids)
<1>1. /\ s.queuedids \in Seq(UInt16) /\ s.nextID \in UInt16 /\ f \in Nat /\ q \in Nat
      /\ DOMAIN s.tosend = UInt16
  BY Fields
<1>2. nextid(s) = [s EXCEPT !.nextID = succ(s.nextID)]
  BY DEF nextid
<1>3. ~(s.nextID = 0 \/ Len(s.queuedids) = QueuedMax)
  <2> SUFFICES ASSUME s.nextID = 0 \/ Len(s.queuedids) = QueuedMax PROVE FALSE
    OBVIOUS
  <2>1. enqueue(s, t + 1) = [[s EXCEPT !.nextID = succ(s.nextID)] EXCEPT !.panicked = TRUE]
    BY <1>2 DEF enqueue
  <2> QED BY <2>1 DEF HWRecord
<1>4. u = [[s EXCEPT !.nextID = succ(s.nextID)] EXCEPT !.tosend = tos, !.queuedids = ids]
  <2>1. u = [nextid(s) EXCEPT !.tosend[s.nextID] = t + 1,
                              !.queuedids = Append(@, s.nextID)]
    BY <1>3 DEF enqueue
  <2>2. nextid(s).tosend = s.tosend /\ nextid(s).queuedids = s.queuedids
    BY <1>2 DEF HWRecord
  <2> QED BY <1>2, <2>1, <2>2
<1>5. /\ u.nextID = succ(s.nextID) /\ u.configured = s.configured
      /\ u.flying = s.flying /\ u.replied = s.replied
      /\ u.tosend = tos /\ u.queuedids = ids /\ u.flyingids = s.flyingids
  <2> HIDE DEF u, tos, ids
  <2> QED BY <1>4 DEF HWRecord
<1>6. u.nextID = Id(t + 2)
  <2>1. t + 1 \in 1 .. NPackets + 1 /\ (t + 1) + 1 = t + 2
    BY Constants
  <2> QED BY <1>5, <2>1, IdSucc
<1>7. /\ r + f + q = t
      /\ \A i \in 1 .. f : s.flyingids[i] = Id(r + i)
      /\ \A i \in 1 .. q : /\ s.queuedids[i] = Id(r + f + i)
                           /\ s.tosend[s.queuedids[i]] = r + f + i
  BY DEF Queues
<1> HIDE DEF f, q
<1>8. /\ Len(ids) = q + 1
      /\ \A k \in 1 .. q : ids[k] = s.queuedids[k]
      /\ ids[q + 1] = s.nextID
  BY <1>1, AppendElems DEF q
<1>9. ASSUME NEW i \in 1 .. q
      PROVE  tos[s.queuedids[i]] = r + f + i
  <2>1. r + f + i \in 1 .. NPackets + 1 /\ t + 1 \in 1 .. NPackets + 1 /\ r + f + i # t + 1
    <3>1. i \in Int /\ 1 <= i /\ i <= q
      BY <1>1
    <3> QED BY <1>1, <1>7, <3>1, Constants
  <2>2. s.queuedids[i] # s.nextID
    <3> SUFFICES ASSUME Id(r + f + i) = Id(t + 1) PROVE FALSE
      BY <1>7
    <3> QED BY <2>1, IdInjective
  <2>3. s.queuedids[i] \in UInt16
    BY <1>1 DEF q
  <2> QED BY <1>1, <1>7, <2>2, <2>3
<1>10. tos[s.nextID] = t + 1
  BY <1>1
<1> HIDE DEF ids, tos, u
<1>11. Queues(u, r, t + 1)
  <2>1. r + f + (q + 1) = t + 1
    BY <1>1, <1>7
  <2>2. ASSUME NEW i \in 1 .. q + 1
        PROVE  ids[i] = Id(r + f + i) /\ tos[ids[i]] = r + f + i
    <3>1. CASE i \in 1 .. q
      BY <1>7, <1>8, <1>9, <3>1
    <3>2. CASE i = q + 1
      <4>1. r + f + i = t + 1
        BY <1>1, <1>7, <3>2
      <4> QED BY <1>8, <1>10, <3>2, <4>1
    <3> QED BY <1>1, <3>1, <3>2
  <2> QED BY <1>5, <1>7, <1>8, <2>1, <2>2 DEF Queues, f, q
<1> QED BY <1>5, <1>6, <1>11 DEF u

\* A burst joins the wire.
LEMMA BurstJoins ==
  ASSUME TypeOK, OnWire, NEW b \in Seq(Request),
         \A i \in 1 .. Len(b) : Carries(b[i].id, b[i].pkt, handed)
  PROVE  \A i \in 1 .. Len(requests \o b) :
           (requests \o b)[i].ptype = control =>
             Carries((requests \o b)[i].id, (requests \o b)[i].pkt, handed)
<1>1. requests \in Seq(Request) /\ b \in Seq(Request)
  BY Types
<1>2. \A k \in 1 .. Len(requests \o b) :
         \/ \E j \in 1 .. Len(requests) : (requests \o b)[k] = requests[j]
         \/ \E j \in 1 .. Len(b) : (requests \o b)[k] = b[j]
  <2> DEFINE q == requests
  <2>1. q \in Seq(Request)
    BY <1>1
  <2> HIDE DEF q
  <2>2. \A k \in 1 .. Len(q \o b) :
           \/ \E j \in 1 .. Len(q) : (q \o b)[k] = q[j]
           \/ \E j \in 1 .. Len(b) : (q \o b)[k] = b[j]
    BY <1>1, <2>1, ConcatElems, SMTT(60)
  <2> QED BY <2>2 DEF q
<1>3. ASSUME NEW k \in 1 .. Len(requests \o b), (requests \o b)[k].ptype = control
      PROVE  Carries((requests \o b)[k].id, (requests \o b)[k].pkt, handed)
  <2> DEFINE e == (requests \o b)[k]
  <2>1. \/ \E j \in 1 .. Len(requests) : e = requests[j]
        \/ \E j \in 1 .. Len(b) : e = b[j]
    BY <1>2
  <2>2. e.ptype = control
    BY <1>3
  <2> HIDE DEF e
  <2>3. Carries(e.id, e.pkt, handed)
    BY <2>1, <2>2 DEF OnWire
  <2> QED BY <2>3 DEF e
<1> QED BY <1>3

\* Run takes the packet that has waited longest: it is the next one.
LEMMA HeadWaiting ==
  ASSUME TypeOK, Live, incoming # <<>>
  PROVE  LET t == handed - Len(incoming)
         IN  /\ t \in 0 .. NPackets - 1 /\ t + 1 \in 1 .. handed
             /\ Head(incoming) = t + 1
             /\ Len(Tail(incoming)) = Len(incoming) - 1
             /\ Tail(incoming) \in Seq(Packets)
             /\ \A i \in 1 .. Len(Tail(incoming)) : Tail(incoming)[i] = t + 1 + i
<1> DEFINE t == handed - Len(incoming)
           k == Len(incoming)
<1>1. /\ k \in Nat /\ k > 0 /\ Head(incoming) = incoming[1] /\ 1 \in 1 .. k
      /\ Len(Tail(incoming)) = k - 1 /\ Tail(incoming) \in Seq(Packets)
      /\ \A i \in 1 .. Len(Tail(incoming)) :
           Tail(incoming)[i] = incoming[i + 1] /\ i + 1 \in 1 .. k
  BY Types, TailElems
<1>2. k <= handed /\ \A i \in 1 .. k : incoming[i] = t + i
  BY DEF Live, Waiting
<1>3. handed \in 0 .. NPackets /\ t = handed - k
  BY Types
<1> HIDE DEF t, k
<1>4. t \in 0 .. NPackets - 1 /\ t + 1 \in 1 .. handed
  BY <1>1, <1>2, <1>3, Constants
<1>5. Head(incoming) = t + 1
  BY <1>1, <1>2
<1>6. ASSUME NEW i \in 1 .. Len(Tail(incoming))
      PROVE  Tail(incoming)[i] = t + 1 + i
  <2>1. Tail(incoming)[i] = t + (i + 1) /\ i \in Int
    BY <1>1, <1>2
  <2> QED BY <2>1, <1>4
<1> QED BY <1>1, <1>4, <1>5, <1>6 DEF t, k

\* A packet from the users gets its id, joins the queue and may be sent.
LEMMA RunIncomingInv ==
  ASSUME Regime, TypeOK, Safe, Live, ~h.panicked, RunIncoming
  PROVE  Safe' /\ (~h'.panicked => Live')
<1> DEFINE t == handed - Len(incoming)
           r == Len(returned)
           s == enqueue(h, Head(incoming))
<1>0. Configured /\ Waiting /\ Executed /\ Queued /\ InFlight /\ Rewriting /\ OnWire
  BY DEF Live
<1>1. /\ incoming # <<>> /\ incoming' = Tail(incoming)
      /\ UNCHANGED <<replies, statuses, config, lost, handed, answer, returned>>
      /\ UNCHANGED <<responses, expects, accepted, answered>>
  BY DEF RunIncoming, devVars
<1>2. Safe'
  BY <1>1 DEF Safe, ExecutedOnce, InOrder, OwnReply
<1>3. CASE s.panicked
  <2>1. h' = s
    BY <1>3, IncomingSends
  <2> QED BY <1>2, <1>3, <2>1
<1>4. CASE ~s.panicked
  <2>1. h' = sendnext(s) /\ requests' = requests \o Outgoing(s)
    BY <1>4, IncomingSends
  <2>2. /\ t \in 0 .. NPackets - 1 /\ t + 1 \in 1 .. handed /\ Head(incoming) = t + 1
        /\ Len(incoming') = Len(incoming) - 1
        /\ \A i \in 1 .. Len(incoming') : incoming'[i] = t + 1 + i
    BY <1>1, HeadWaiting
  <2>3. handed \in 0 .. NPackets /\ r \in Nat /\ h \in HWRecord /\ Len(incoming) \in Nat
    BY Types
  <2>4. h.configured /\ h.nextID = Id(t + 1)
    <3>1. handed # 0
      BY <2>2, <2>3
    <3> QED BY <1>0, <3>1 DEF Configured
  <2>5. Queues(h, r, t) /\ handed - r <= MaxOutstanding
    BY <1>0 DEF Queued
  <2>6. t = handed - Len(incoming) /\ s = enqueue(h, t + 1)
    BY <2>2
  <2> HIDE DEF t, r, s
  <2>7. /\ Queues(s, r, t + 1)
        /\ s.nextID = Id(t + 2) /\ s.configured = h.configured
        /\ s.flying = h.flying /\ s.replied = h.replied
    BY <1>4, <2>2, <2>3, <2>4, <2>5, <2>6, EnqueueKeeps
  <2>8. s \in HWRecord
    <3>1. t + 1 \in Packets
      BY <2>2, <2>3, Constants DEF Packets
    <3> QED BY <2>3, <2>6, <3>1, EnqueueType
  <2>9. t + 1 \in 0 .. NPackets /\ handed \in t + 1 .. NPackets /\ (t + 1) - r <= MaxOutstanding
    BY <2>2, <2>3, <2>5, Constants
  <2>10. Named(s.flying, handed)
    BY <1>0, <2>7 DEF InFlight
  <2>11. /\ Queues(sendnext(s), r, t + 1)
         /\ Named(sendnext(s).flying, handed)
         /\ sendnext(s).nextID = s.nextID /\ sendnext(s).configured = s.configured
         /\ sendnext(s).replied = s.replied
         /\ \A i \in 1 .. Len(Outgoing(s)) :
              Carries(Outgoing(s)[i].id, Outgoing(s)[i].pkt, handed)
    BY <2>3, <2>7, <2>8, <2>9, <2>10, SendnextKeeps
  <2>12. handed' - Len(incoming') = t + 1 /\ handed' - Len(incoming') + 1 = t + 2
    BY <1>1, <2>2, <2>3, <2>6
  <2>13. Configured'
    BY <1>0, <1>1, <2>1, <2>4, <2>7, <2>11, <2>12 DEF Configured
  <2>14. Waiting'
    BY <1>1, <2>2, <2>3, <2>6, <2>12 DEF Waiting
  <2>15. Executed' /\ Rewriting'
    BY <1>0, <1>1 DEF Executed, Rewriting
  <2>16. Queued'
    BY <1>1, <2>1, <2>5, <2>11, <2>12 DEF Queued, r
  <2>17. InFlight'
    BY <1>0, <1>1, <2>1, <2>7, <2>11 DEF InFlight
  <2>18. OnWire'
    <3>1. Outgoing(s) \in Seq(Request)
      BY <2>8, OutgoingType
    <3>2. \A i \in 1 .. Len(requests') :
            requests'[i].ptype = control => Carries(requests'[i].id, requests'[i].pkt, handed)
      BY <1>0, <2>1, <2>11, <3>1, BurstJoins
    <3> QED BY <1>0, <1>1, <3>2 DEF OnWire
  <2> QED BY <1>2, <2>13, <2>14, <2>15, <2>16, <2>17, <2>18 DEF Live
<1> QED BY <1>3, <1>4

\* What is behind the first datagram in h.replies was there before.
LEMMA ReplyTaken ==
  ASSUME TypeOK, Live, replies # <<>>
  PROVE  /\ Head(replies) \in Response
         /\ Head(replies).id # 0 => Carries(Head(replies).id, Head(replies).pkt, handed)
         /\ ~h.configured /\ Head(replies).id = 0 => Head(replies).st.nextid = StartID
         /\ \A i \in 1 .. Len(Tail(replies)) :
              Tail(replies)[i].id # 0 =>
                Carries(Tail(replies)[i].id, Tail(replies)[i].pkt, handed)
         /\ ~h.configured => \A i \in 1 .. Len(Tail(replies)) :
              Tail(replies)[i].id = 0 => Tail(replies)[i].st.nextid = StartID
<1>1. replies \in Seq(Response)
  BY Types
<1>2. /\ Head(replies) = replies[1] /\ 1 \in 1 .. Len(replies)
      /\ \A k \in 1 .. Len(Tail(replies)) :
           Tail(replies)[k] = replies[k + 1] /\ k + 1 \in 1 .. Len(replies)
  BY <1>1, TailElems
<1>3. Head(replies) \in Response
  BY <1>1, <1>2
<1>4. \A i \in 1 .. Len(replies) :
        replies[i].id # 0 => Carries(replies[i].id, replies[i].pkt, handed)
  BY DEF Live, OnWire
<1>5. ~h.configured => \A i \in 1 .. Len(replies) :
        replies[i].id = 0 => replies[i].st.nextid = StartID
  BY DEF Live, Configured
<1>6. Head(replies).id # 0 => Carries(Head(replies).id, Head(replies).pkt, handed)
  BY <1>2, <1>4
<1>7. ~h.configured /\ Head(replies).id = 0 => Head(replies).st.nextid = StartID
  BY <1>2, <1>5
<1>8. ASSUME NEW i \in 1 .. Len(Tail(replies))
      PROVE  /\ Tail(replies)[i].id # 0 =>
                  Carries(Tail(replies)[i].id, Tail(replies)[i].pkt, handed)
             /\ ~h.configured => (Tail(replies)[i].id = 0 => Tail(replies)[i].st.nextid = StartID)
  BY <1>2, <1>4, <1>5
<1> QED BY <1>3, <1>6, <1>7, <1>8

\* A status reply is passed on.
LEMMA RunStatusInv ==
  ASSUME Regime, TypeOK, Safe, Live, RunStatus
  PROVE  Safe' /\ Live'
<1>0. Configured /\ Waiting /\ Executed /\ Queued /\ InFlight /\ Rewriting /\ OnWire
  BY DEF Live
<1>1. /\ replies # <<>> /\ Head(replies).id = 0 /\ replies' = Tail(replies)
      /\ statuses' = Append(statuses, Head(replies).st)
      /\ UNCHANGED <<h, incoming, config, lost, handed, answer, returned>>
      /\ UNCHANGED <<requests, responses, expects, accepted, answered>>
  BY DEF RunStatus, wireVars, devVars
<1>2. Safe' /\ Waiting' /\ Executed' /\ Queued' /\ InFlight' /\ Rewriting'
  BY <1>0, <1>1 DEF Safe, ExecutedOnce, InOrder, OwnReply, Waiting, Executed, Queued, Queues,
                    InFlight, Rewriting
<1>3. OnWire'
  BY <1>0, <1>1, ReplyTaken DEF OnWire
<1>4. ~h.configured =>
        /\ \A i \in 1 .. Len(statuses') : statuses'[i].nextid = StartID
        /\ \A i \in 1 .. Len(replies') : replies'[i].id = 0 => replies'[i].st.nextid = StartID
  <2> SUFFICES ASSUME ~h.configured
               PROVE  /\ \A i \in 1 .. Len(statuses') : statuses'[i].nextid = StartID
                      /\ \A i \in 1 .. Len(replies') :
                           replies'[i].id = 0 => replies'[i].st.nextid = StartID
    OBVIOUS
  <2> DEFINE st == Head(replies).st
  <2>1. st \in targetstatus /\ st.nextid = StartID
    BY <1>1, ReplyTaken DEF Response
  <2>2. \A i \in 1 .. Len(statuses) : statuses[i].nextid = StartID
    BY <1>0 DEF Configured
  <2>3. statuses \in Seq(targetstatus)
    BY Types
  <2>4. statuses' = Append(statuses, st)
    BY <1>1
  <2> HIDE DEF st
  <2>5. \A k \in 1 .. Len(Append(statuses, st)) :
          \/ Append(statuses, st)[k] = st
          \/ \E j \in 1 .. Len(statuses) : Append(statuses, st)[k] = statuses[j]
    BY <2>1, <2>3, AppendElems
  <2>6. \A i \in 1 .. Len(statuses') : statuses'[i].nextid = StartID
    BY <2>1, <2>2, <2>4, <2>5
  <2> QED BY <1>1, <2>6, ReplyTaken
<1>5. Configured'
  BY <1>0, <1>1, <1>4 DEF Configured
<1> QED BY <1>2, <1>3, <1>5 DEF Live

\* A reply nobody waits for is dropped, or fatal; the report changes nothing.
LEMMA RunOtherInv ==
  ASSUME Regime, TypeOK, Safe, Live, RunUnmatched \/ RunReport
  PROVE  Safe' /\ Live'
<1>0. Configured /\ Waiting /\ Executed /\ Queued /\ InFlight /\ Rewriting /\ OnWire
  BY DEF Live
<1>1. /\ UNCHANGED <<incoming, statuses, config, lost, handed, answer, returned>>
      /\ UNCHANGED <<requests, responses, expects, accepted, answered>>
  BY DEF RunUnmatched, RunReport, wireVars, devVars
<1>2. Safe' /\ Waiting' /\ Executed' /\ Rewriting'
  BY <1>0, <1>1 DEF Safe, ExecutedOnce, InOrder, OwnReply, Waiting, Executed, Rewriting
<1>3. /\ h'.nextID = h.nextID /\ h'.configured = h.configured
      /\ h'.tosend = h.tosend /\ h'.flying = h.flying /\ h'.replied = h.replied
      /\ h'.queuedids = h.queuedids /\ h'.flyingids = h.flyingids
  <2>1. CASE RunUnmatched
    <3> DEFINE b == Head(replies).id # h.resent
    <3>1. h' = [h EXCEPT !.panicked = b] /\ h \in HWRecord
      BY <2>1, Types DEF RunUnmatched
    <3> HIDE DEF b
    <3> QED BY <3>1 DEF HWRecord
  <2>2. CASE RunReport
    BY <2>2 DEF RunReport
  <2> QED BY <2>1, <2>2
<1>4. Queued'
  BY <1>0, <1>1, <1>3 DEF Queued, Queues
<1>5. InFlight'
  BY <1>0, <1>1, <1>3 DEF InFlight
<1>6. CASE RunUnmatched
  <2>1. replies # <<>> /\ replies' = Tail(replies)
    BY <1>6 DEF RunUnmatched
  <2>2. OnWire'
    BY <1>0, <1>1, <2>1, ReplyTaken DEF OnWire
  <2>3. Configured'
    BY <1>0, <1>1, <1>3, <2>1, ReplyTaken DEF Configured
  <2> QED BY <1>2, <1>4, <1>5, <2>2, <2>3 DEF Live
<1>7. CASE RunReport
  <2>1. replies' = replies
    BY <1>7 DEF RunReport
  <2>2. OnWire'
    BY <1>0, <1>1, <2>1 DEF OnWire
  <2>3. Configured'
    BY <1>0, <1>1, <1>3, <2>1 DEF Configured
  <2> QED BY <1>2, <1>4, <1>5, <2>2, <2>3 DEF Live
<1> QED BY <1>6, <1>7


\* A reply goes to the packet that has its id, and the packets at the head of
\* flyingids that have theirs go back to the users.
LEMMA RunReplyInv ==
  ASSUME Regime, TypeOK, Safe, Live, RunReply
  PROVE  Safe' /\ Live'
<1> DEFINE rep == Head(replies)
           req == h.flying[rep.id]
           r   == Len(returned)
           m   == handed - Len(incoming)
           After(l, o) ==
             LET v == [l EXCEPT !.replied[rep.id] = req]
             IN  /\ requests' = requests \o o
                 /\ \E n \in 0 .. Len(v.flyingids) :
                      /\ Returns(v, n)
                      /\ h' = returnreply(v, n)
                      /\ returned' = returned \o Handback(v, n)
<1>s. PICK s \in Landings(h, rep.id) : After(sendnext(s), Outgoing(s))
  BY ReplySends, Zenon
<1> DEFINE u   == sendnext(s)
           rp  == [u.replied EXCEPT ![rep.id] = req]
           t   == [u EXCEPT !.replied = rp]
<1>0. Configured /\ Waiting /\ Executed /\ Queued /\ InFlight /\ Rewriting /\ OnWire
  BY DEF Live
<1>1. /\ replies # <<>> /\ replies' = Tail(replies) /\ rep.id # 0 /\ req # NoPacket
      /\ requests' = requests \o Outgoing(s)
      /\ answer' = [answer EXCEPT ![req] = IF answer[req] = NoPacket THEN rep.pkt ELSE answer[req]]
      /\ UNCHANGED <<incoming, statuses, config, lost, handed>>
      /\ UNCHANGED <<responses, expects, accepted, answered>>
  BY <1>s DEF RunReply, devVars
<1>2. PICK n \in 0 .. Len(t.flyingids) :
        Returns(t, n) /\ h' = returnreply(t, n) /\ returned' = returned \o Handback(t, n)
  BY <1>s
<1> HIDE DEF After
<1>3. /\ rep \in Response /\ Carries(rep.id, rep.pkt, handed)
      /\ rep.id \in UInt16 /\ handed \in 0 .. NPackets
  <2>1. rep \in Response /\ Carries(rep.id, rep.pkt, handed)
    BY <1>1, ReplyTaken
  <2> QED BY <2>1, Types DEF Response
<1>4. Carries(rep.id, req, handed)
  BY <1>0, <1>1, <1>3 DEF InFlight, Named
<1>5. h \in HWRecord /\ r \in Nat /\ Len(incoming) \in Nat /\ answer \in [Packets -> Packets \cup {NoPacket}]
  BY Types
<1>6. m \in 0 .. NPackets /\ handed \in m .. NPackets /\ m - r <= MaxOutstanding /\ Queues(h, r, m)
  <2>1. Len(incoming) <= handed /\ Queues(h, r, m) /\ handed - r <= MaxOutstanding
    BY <1>0 DEF Waiting, Queued
  <2> QED BY <1>3, <1>5, <2>1, Constants
<1>7. s \in HWRecord
  BY <1>3, <1>5, <1>s, LandingsType
<1>8. /\ s.nextID = h.nextID /\ s.configured = h.configured
      /\ s.tosend = h.tosend /\ s.flying = [h.flying EXCEPT ![rep.id] = NoPacket]
      /\ s.replied = h.replied
      /\ s.queuedids = h.queuedids /\ s.flyingids = h.flyingids
      /\ s.panicked = h.panicked
  <2> HIDE DEF rep
  <2> QED BY <1>3, <1>5, <1>s, LandingsKeeps
<1>9. Named(h.replied, handed) /\ Named(h.flying, handed)
  BY <1>0 DEF InFlight
<1> HIDE DEF rep, m, r
<1>10. DOMAIN h.flying = UInt16 /\ DOMAIN h.replied = UInt16
  BY <1>5, Fields
<1>11. req = rep.pkt /\ req \in 1 .. handed /\ req \in Packets
  <2> HIDE DEF req
  <2>1. req \in 1 .. handed /\ rep.pkt \in 1 .. handed /\ Id(req) = Id(rep.pkt)
    BY <1>3, <1>4 DEF Carries
  <2>2. req \in 1 .. NPackets + 1 /\ rep.pkt \in 1 .. NPackets + 1 /\ req \in Packets
    BY <1>3, <2>1, Constants DEF Packets
  <2>3. req = rep.pkt
    BY <2>1, <2>2, IdInjective
  <2> QED BY <2>1, <2>2, <2>3
<1> HIDE DEF req
<1>12. Queues(s, r, m)
  BY <1>6, <1>8 DEF Queues
<1>13. Named(s.flying, handed)
  BY <1>3, <1>8, <1>9, <1>10 DEF Named
<1>14. /\ Queues(u, r, m) /\ Named(u.flying, handed)
       /\ u.nextID = s.nextID /\ u.configured = s.configured /\ u.replied = s.replied
       /\ \A i \in 1 .. Len(Outgoing(s)) : Carries(Outgoing(s)[i].id, Outgoing(s)[i].pkt, handed)
  BY <1>5, <1>6, <1>7, <1>12, <1>13, SendnextKeeps
<1>15. u \in HWRecord /\ Outgoing(s) \in Seq(Request)
  BY <1>7, SendnextType, OutgoingType
<1> HIDE DEF u
<1>16. /\ rp \in [UInt16 -> Packets \cup {NoPacket}]
       /\ rp[rep.id] = req
       /\ \A id \in UInt16 : id # rep.id => rp[id] = h.replied[id]
  BY <1>3, <1>8, <1>11, <1>14, <1>15, Fields
<1> HIDE DEF rp
<1>17. /\ t \in HWRecord
       /\ t.nextID = u.nextID /\ t.configured = u.configured /\ t.flying = u.flying
       /\ t.tosend = u.tosend /\ t.replied = rp
       /\ t.queuedids = u.queuedids /\ t.flyingids = u.flyingids
  BY <1>15, <1>16 DEF HWRecord
<1> HIDE DEF t
<1>18. Queues(t, r, m)
  BY <1>14, <1>17 DEF Queues
<1>19. Named(t.replied, handed)
  BY <1>4, <1>9, <1>16, <1>17 DEF Named
<1>20. /\ Queues(h', r + n, m) /\ Named(h'.replied, handed)
       /\ \A id \in UInt16 : h'.replied[id] \in {t.replied[id], NoPacket}
       /\ h'.nextID = t.nextID /\ h'.configured = t.configured /\ h'.flying = t.flying
       /\ Len(Handback(t, n)) = n
       /\ \A i \in 1 .. n : /\ Handback(t, n)[i] = r + i
                            /\ \E id \in UInt16 : t.replied[id] = r + i
  <2>1. h' = returnreply(t, n) /\ Returns(t, n) /\ n \in 0 .. Len(t.flyingids)
    BY <1>2
  <2>2. r \in Nat /\ m \in 0 .. NPackets /\ handed \in m .. NPackets /\ t \in HWRecord
    BY <1>5, <1>6, <1>17
  <2> QED BY <1>18, <1>19, <2>1, <2>2, ReturnreplyKeeps, Zenon
<1>21. Handback(t, n) \in Seq(Packets)
  BY <1>2, <1>17, ReturnreplyType
<1>22. /\ answer'[req] = req
       /\ \A p \in Packets : p # req => answer'[p] = answer[p]
  <2>1. answer[req] \in {req, NoPacket}
    BY <1>11 DEF Safe, OwnReply
  <2> QED BY <1>1, <1>5, <1>11, <2>1
<1>23. \A id \in UInt16 : t.replied[id] # NoPacket => answer'[t.replied[id]] # NoPacket
  <2> SUFFICES ASSUME NEW id \in UInt16, rp[id] # NoPacket
               PROVE  answer'[rp[id]] # NoPacket
    BY <1>17
  <2>1. CASE rp[id] = req
    BY <1>11, <1>22, <2>1, Constants
  <2>2. CASE rp[id] # req
    <3>1. rp[id] = h.replied[id] /\ rp[id] \in Packets
      BY <1>16, <2>2
    <3>2. answer[h.replied[id]] # NoPacket
      BY <1>0, <3>1 DEF InFlight
    <3> QED BY <1>22, <2>2, <3>1, <3>2
  <2> QED BY <2>1, <2>2
<1>24. /\ Len(returned') = r + n
       /\ \A i \in 1 .. r : returned'[i] = returned[i]
       /\ \A i \in 1 .. n : returned'[r + i] = r + i
  <2> DEFINE hb == Handback(t, n)
  <2>1. returned \in Seq(Packets) /\ hb \in Seq(Packets) /\ Len(hb) = n
    BY <1>20, <1>21, Types
  <2>2. \A i \in 1 .. n : hb[i] = r + i
    BY <1>20
  <2>3. returned' = returned \o hb
    BY <1>2
  <2> HIDE DEF hb
  <2>4. /\ Len(returned \o hb) = Len(returned) + Len(hb)
        /\ \A i \in 1 .. Len(returned) : (returned \o hb)[i] = returned[i]
        /\ \A i \in 1 .. Len(hb) : (returned \o hb)[Len(returned) + i] = hb[i]
    BY <2>1
  <2> QED BY <2>1, <2>2, <2>3, <2>4 DEF r
<1>25. n \in Nat
  BY <1>17, Fields
<1>26. ASSUME NEW i \in 1 .. r + n
       PROVE  \/ i \in 1 .. r
              \/ \E j \in 1 .. n : i = r + j
  <2>1. CASE i > r
    <3>1. i - r \in 1 .. n /\ i = r + (i - r)
      BY <1>5, <1>25, <2>1
    <3> QED BY <3>1
  <2> QED BY <1>5, <2>1
<1>27. InOrder'
  <2>1. \A i \in 1 .. r : returned[i] = i
    BY DEF Safe, InOrder, r
  <2> QED BY <1>24, <1>26, <2>1 DEF InOrder
<1>28. OwnReply'
  <2>1. ASSUME NEW p \in Packets PROVE answer'[p] \in {p, NoPacket}
    <3>1. answer[p] \in {p, NoPacket}
      BY DEF Safe, OwnReply
    <3> QED BY <1>22, <3>1
  <2>2. ASSUME NEW i \in 1 .. r PROVE answer'[returned'[i]] # NoPacket
    <3>1. returned[i] \in Packets /\ answer[returned[i]] # NoPacket
      BY Types DEF Safe, OwnReply, r
    <3> QED BY <1>11, <1>22, <1>24, <3>1, Constants
  <2>3. ASSUME NEW i \in 1 .. n PROVE answer'[returned'[r + i]] # NoPacket
    <3>1. PICK id \in UInt16 : t.replied[id] = r + i
      BY <1>20
    <3>2. r + i # NoPacket
      BY <1>5 DEF NoPacket
    <3> QED BY <1>23, <1>24, <3>1, <3>2
  <2>4. ASSUME NEW i \in 1 .. r + n PROVE answer'[returned'[i]] # NoPacket
    BY <1>26, <2>2, <2>3
  <2> QED BY <1>24, <2>1, <2>4 DEF OwnReply
<1>29. ExecutedOnce' /\ Waiting' /\ Executed' /\ Rewriting'
  BY <1>0, <1>1 DEF Safe, ExecutedOnce, Waiting, Executed, Rewriting
<1>30. Configured'
  BY <1>0, <1>1, <1>8, <1>14, <1>17, <1>20, ReplyTaken DEF Configured
<1>31. Queued'
  <2>1. handed' - Len(incoming') = m
    BY <1>1 DEF m
  <2>2. handed - (r + n) <= MaxOutstanding
    <3>1. handed - r <= MaxOutstanding
      BY <1>0 DEF Queued, r
    <3> QED BY <1>3, <1>5, <1>25, <3>1, Constants
  <2> QED BY <1>1, <1>20, <1>24, <2>1, <2>2 DEF Queued
<1>32. InFlight'
  <2>1. Named(h'.flying, handed)
    BY <1>14, <1>17, <1>20
  <2>2. ASSUME NEW id \in UInt16, h'.replied[id] # NoPacket
        PROVE  answer'[h'.replied[id]] # NoPacket
    BY <1>20, <1>23, <2>2
  <2> QED BY <1>1, <1>20, <2>1, <2>2 DEF InFlight
<1>33. OnWire'
  <2>1. \A i \in 1 .. Len(requests') :
          requests'[i].ptype = control => Carries(requests'[i].id, requests'[i].pkt, handed)
    BY <1>0, <1>1, <1>14, <1>15, BurstJoins
  <2> QED BY <1>0, <1>1, <2>1, ReplyTaken DEF OnWire
<1> QED BY <1>27, <1>28, <1>29, <1>30, <1>31, <1>32, <1>33 DEF Safe, Live


\* The steps of Run apart from the timeout.
LEMMA RunInv ==
  ASSUME Regime, TypeOK, Safe, Live, ~h.panicked, Run
  PROVE  Safe' /\ (~h'.panicked => Live')
BY RunIncomingInv, RunStatusInv, RunReplyInv, RunOtherInv DEF Run

\* Nothing the invariant speaks of differs between h and u.
Keeps(u) ==
  /\ u.nextID = h.nextID /\ u.configured = h.configured
  /\ u.tosend = h.tosend /\ u.flying = h.flying /\ u.replied = h.replied
  /\ u.queuedids = h.queuedids /\ u.flyingids = h.flyingids

\* A request that is no control packet, or one that goes by its id, joins the wire.
LEMMA RequestJoins ==
  ASSUME TypeOK, OnWire, NEW q \in Request,
         q.ptype = control => Carries(q.id, q.pkt, handed)
  PROVE  \A i \in 1 .. Len(Append(requests, q)) :
           Append(requests, q)[i].ptype = control =>
             Carries(Append(requests, q)[i].id, Append(requests, q)[i].pkt, handed)
<1>1. requests \in Seq(Request)
  BY Types
<1>2. \A k \in 1 .. Len(Append(requests, q)) :
        \/ Append(requests, q)[k] = q
        \/ \E j \in 1 .. Len(requests) : Append(requests, q)[k] = requests[j]
  BY <1>1, AppendElems
<1> QED BY <1>2 DEF OnWire

\* A handlelost goroutine that does not hold a packet satisfies Rewriting.
LEMMA MovesOn ==
  ASSUME TypeOK, Rewriting, NEW g \in Handlers, handed' = handed,
         NEW v, v.pc # "readd", lost' = [lost EXCEPT ![g] = v]
  PROVE  Rewriting'
<1>1. DOMAIN lost = Handlers
  BY DEF TypeOK, HWTypeOK
<1>2. \A k \in Handlers : lost'[k] = IF k = g THEN v ELSE lost[k]
  BY <1>1
<1> QED BY <1>2 DEF Rewriting

\* The timeout of Run and the steps of handlelost.
LEMMA HandlelostInv ==
  ASSUME Regime, TypeOK, Safe, Live, NEW g \in Handlers,
         RunTimeout(g) \/ handlelost(g)
  PROVE  Safe' /\ Live'
<1> DEFINE r == Len(returned)
           m == handed - Len(incoming)
           Carried == \A i \in 1 .. Len(requests') :
             requests'[i].ptype = control => Carries(requests'[i].id, requests'[i].pkt, handed)
           Started == ~h.configured =>
             \A i \in 1 .. Len(statuses') : statuses'[i].nextid = StartID
           Sound(u) == /\ u.nextID = h.nextID /\ u.configured = h.configured
                       /\ u.replied = h.replied /\ Queues(u, r, m) /\ Named(u.flying, handed)
<1>0. Configured /\ Waiting /\ Executed /\ Queued /\ InFlight /\ Rewriting /\ OnWire
  BY DEF Live
<1>1. /\ UNCHANGED <<responses, expects, accepted, answered>>
      /\ UNCHANGED <<incoming, replies, config, handed, answer, returned>>
  BY DEF RunTimeout, handlelost, LostStop, LostRequest, LostStatus, LostSent,
         LostResend, LostRewrite, LostReadd, LostFinish, wireVars, devVars
<1>2. SUFFICES Sound(h') /\ Rewriting' /\ Carried /\ Started
  <2>1. Safe' /\ Waiting' /\ Executed'
    BY <1>0, <1>1 DEF Safe, ExecutedOnce, InOrder, OwnReply, Waiting, Executed
  <2>2. Configured'
    BY <1>0, <1>1, <1>2 DEF Configured
  <2>3. Queued'
    BY <1>0, <1>1, <1>2 DEF Queued
  <2>4. InFlight'
    BY <1>0, <1>1, <1>2 DEF InFlight
  <2>5. OnWire'
    BY <1>0, <1>1, <1>2 DEF OnWire
  <2> QED BY <1>2, <2>1, <2>2, <2>3, <2>4, <2>5 DEF Live
<1>3. ASSUME Keeps(h') PROVE Sound(h')
  <2>1. Queues(h, r, m) /\ Named(h.flying, handed)
    BY <1>0 DEF Queued, InFlight
  <2> QED BY <1>3, <2>1 DEF Keeps, Queues
<1>4. h \in HWRecord /\ lost \in [Handlers -> LostRecord] /\ lost[g] \in LostRecord
  BY DEF TypeOK, HWTypeOK, LostRecord
<1>5. ASSUME requests' = requests PROVE Carried
  BY <1>0, <1>5 DEF OnWire
<1>6. ASSUME statuses' = statuses PROVE Started
  BY <1>0, <1>6 DEF Configured
<1>7. ASSUME NEW pc, pc # "readd", lost' = [lost EXCEPT ![g].pc = pc]
      PROVE  Rewriting'
  <2> DEFINE v == [lost[g] EXCEPT !.pc = pc]
  <2>1. lost' = [lost EXCEPT ![g] = v] /\ v.pc = pc
    BY <1>4, <1>7 DEF LostRecord
  <2> HIDE DEF v
  <2> QED BY <1>0, <1>1, <1>7, <2>1, MovesOn
<1> HIDE DEF Carried, Started, Sound, r, m
<1>8. CASE RunTimeout(g)
  <2>1. Keeps(h')
    <3>1. CASE watched = Current
      <4> DEFINE t == [h.timedout EXCEPT !.tick = FALSE]
      <4>1. h' = [h EXCEPT !.timedout = t]
        BY <1>8, <3>1 DEF RunTimeout
      <4> HIDE DEF t
      <4> QED BY <1>4, <4>1 DEF HWRecord, Keeps
    <3>2. CASE watched # Current
      BY <1>8, <3>2 DEF RunTimeout, Keeps
    <3> QED BY <3>1, <3>2
  <2>2. requests' = requests /\ statuses' = statuses /\ lost' = [lost EXCEPT ![g].pc = "stop"]
    BY <1>8 DEF RunTimeout, wireVars
  <2> QED BY <1>3, <1>5, <1>6, <1>7, <2>1, <2>2
<1>9. CASE LostStop(g)
  <2>1. Keeps(h')
    <3> DEFINE t == Stop(h.timedout)
    <3>1. h' = [h EXCEPT !.timedout = t]
      BY <1>9 DEF LostStop
    <3> HIDE DEF t
    <3> QED BY <1>4, <3>1 DEF HWRecord, Keeps
  <2>2. requests' = requests /\ statuses' = statuses /\ lost' = [lost EXCEPT ![g].pc = "request"]
    BY <1>9 DEF LostStop, wireVars
  <2> QED BY <1>3, <1>5, <1>6, <1>7, <2>1, <2>2
<1>10. CASE LostRequest(g)
  <2>1. Keeps(h')
    BY <1>4, <1>10 DEF LostRequest, HWRecord, Keeps
  <2>2. /\ requests' = Append(requests, newStatusPacket) /\ statuses' = statuses
        /\ lost' = [lost EXCEPT ![g].pc = "await"]
    BY <1>10 DEF LostRequest
  <2>3. newStatusPacket \in Request /\ newStatusPacket.ptype # control
    BY Constants DEF newStatusPacket, Request, control, status, resend
  <2>4. Carried
    BY <1>0, <2>2, <2>3, RequestJoins DEF Carried
  <2> QED BY <1>3, <1>6, <1>7, <2>1, <2>2, <2>4
<1>11. CASE LostStatus(g)
  <2>1. Keeps(h')
    BY <1>11 DEF LostStatus, Keeps
  <2>2. statuses # <<>> /\ statuses' = Tail(statuses) /\ requests' = requests
    BY <1>11 DEF LostStatus, wireVars
  <2>3. Started
    <3>1. \A k \in 1 .. Len(Tail(statuses)) :
             Tail(statuses)[k] = statuses[k + 1] /\ k + 1 \in 1 .. Len(statuses)
      BY <2>2, Types, TailElems
    <3> QED BY <1>0, <2>2, <3>1 DEF Started, Configured
  <2>4. Rewriting'
    <3> DEFINE b == h.timeoutid \in Head(statuses).received
               v == [idle EXCEPT !.pc = "sent", !.sent = Head(statuses).sent,
                                 !.packetreceived = b]
    <3>1. lost' = [lost EXCEPT ![g] = v]
      BY <1>11 DEF LostStatus
    <3>2. v.pc # "readd"
      BY DEF idle
    <3> HIDE DEF v
    <3> QED BY <1>0, <1>1, <3>1, <3>2, MovesOn
  <2> QED BY <1>3, <1>5, <2>1, <2>2, <2>3, <2>4
<1>16. CASE LostSent(g)
  <2>1. Keeps(h')
    <3> DEFINE b == lost[g].packetreceived /\ ~(h.timeoutid \in lost[g].sent)
    <3>1. h' = [h EXCEPT !.panicked = b]
      BY <1>16 DEF LostSent
    <3> HIDE DEF b
    <3> QED BY <1>4, <3>1 DEF HWRecord, Keeps
  <2>2. statuses' = statuses /\ requests' = requests
    BY <1>16 DEF LostSent, wireVars
  <2>3. Rewriting'
    <3> DEFINE pc == IF h.timeoutid \in lost[g].sent THEN "resend" ELSE "rewrite"
               v  == [idle EXCEPT !.pc = pc]
    <3>1. lost' = [lost EXCEPT ![g] = v]
      BY <1>16 DEF LostSent
    <3>2. v.pc # "readd"
      BY DEF idle
    <3> HIDE DEF v
    <3> QED BY <1>0, <1>1, <3>1, <3>2, MovesOn
  <2> QED BY <1>3, <1>5, <1>6, <2>1, <2>2, <2>3
<1>12. CASE LostResend(g)
  <2> DEFINE u == [h EXCEPT !.resent = h.timeoutid]
  <2>1. h' = updatetimeout(u)
    BY <1>12 DEF LostResend, Store
  <2>2. u \in HWRecord /\ Keeps(u)
    <3>1. h.timeoutid \in UInt16
      BY <1>4, Fields
    <3> QED BY <1>4, <3>1 DEF HWRecord, Keeps
  <2> HIDE DEF u
  <2>3. Keeps(h')
    BY <2>1, <2>2, UpdatetimeoutKeeps DEF Keeps
  <2>4. /\ requests' = Append(requests, newResendPacket(h.timeoutid)) /\ statuses' = statuses
        /\ lost' = [lost EXCEPT ![g].pc = "finish"]
    BY <1>12 DEF LostResend
  <2>5. /\ newResendPacket(h.timeoutid) \in Request
        /\ newResendPacket(h.timeoutid).ptype # control
    <3>1. h.timeoutid \in UInt16
      BY <1>4, Fields
    <3> QED BY <3>1, Constants DEF newResendPacket, Request, control, status, resend
  <2>6. Carried
    BY <1>0, <2>4, <2>5, RequestJoins DEF Carried
  <2> QED BY <1>3, <1>6, <1>7, <2>3, <2>4, <2>6
<1>13. CASE LostRewrite(g)
  <2> DEFINE id   == resendid(g)
             pack == h.flying[id]
  <2>1. id \in UInt16 /\ pack \in Packets \cup {NoPacket}
    <3>1. h.timeoutid \in UInt16 /\ h.flying \in [UInt16 -> Packets \cup {NoPacket}]
      BY <1>4, Fields
    <3>2. lost[g].id \in UInt16
      BY <1>4 DEF LostRecord
    <3> QED BY <3>1, <3>2 DEF resendid
  <2>2. pack # NoPacket => Carries(id, pack, handed)
    <3>1. Named(h.flying, handed)
      BY <1>0 DEF InFlight
    <3> HIDE DEF id
    <3> QED BY <2>1, <3>1 DEF Named
  <2>3. statuses' = statuses
    BY <1>13 DEF LostRewrite
  <2>4. \/ /\ pack # NoPacket
           /\ requests' = Append(requests, controlPacket(id, pack))
           /\ lost' = [lost EXCEPT ![g] = [idle EXCEPT !.pc = "readd", !.id = id, !.pack = pack]]
           /\ h' = h
        \/ /\ h' = updatetimeout(h) \/ h' = h
           /\ lost' = [lost EXCEPT ![g].pc = "finish"]
           /\ requests' = requests
    BY <1>13 DEF LostRewrite, Store
  <2> HIDE DEF id, pack
  <2>5. CASE /\ pack # NoPacket
             /\ requests' = Append(requests, controlPacket(id, pack))
             /\ lost' = [lost EXCEPT ![g] = [idle EXCEPT !.pc = "readd", !.id = id, !.pack = pack]]
             /\ h' = h
    <3>1. controlPacket(id, pack) \in Request /\ Carries(id, pack, handed)
      BY <2>1, <2>2, <2>5 DEF controlPacket, Request
    <3>2. Carried
      BY <1>0, <2>5, <3>1, RequestJoins DEF Carried, controlPacket
    <3>3. Rewriting'
      <4> DEFINE v == [idle EXCEPT !.pc = "readd", !.id = id, !.pack = pack]
      <4>1. v.id = id /\ v.pack = pack
        BY DEF idle
      <4>2. lost' = [lost EXCEPT ![g] = v]
        BY <2>5
      <4> HIDE DEF v
      <4>3. \A k \in Handlers : lost'[k] = IF k = g THEN v ELSE lost[k]
        BY <1>4, <4>2
      <4> QED BY <1>0, <1>1, <3>1, <4>1, <4>3 DEF Rewriting
    <3>4. Keeps(h')
      BY <2>5 DEF Keeps
    <3> QED BY <1>3, <1>6, <2>3, <3>2, <3>3, <3>4
  <2>6. CASE /\ h' = updatetimeout(h) \/ h' = h
             /\ lost' = [lost EXCEPT ![g].pc = "finish"]
             /\ requests' = requests
    <3>1. Keeps(h')
      BY <1>4, <2>6, UpdatetimeoutKeeps DEF Keeps
    <3> QED BY <1>3, <1>5, <1>6, <1>7, <2>3, <2>6, <3>1
  <2> QED BY <2>4, <2>5, <2>6
<1>14. CASE LostReadd(g)
  <2> DEFINE id  == lost[g].id
             fly == [h.flying EXCEPT ![id] = lost[g].pack]
             old == h.aged \ {id}
             v   == [idle EXCEPT !.pc = "rewrite", !.id = succ(id), !.resentpack = TRUE]
  <2>1. /\ h' = [h EXCEPT !.flying = fly, !.aged = old]
        /\ lost' = [lost EXCEPT ![g] = v]
        /\ requests' = requests /\ statuses' = statuses
    BY <1>14 DEF LostReadd, wireVars
  <2>2. Carries(id, lost[g].pack, handed)
    BY <1>0, <1>14 DEF Rewriting, LostReadd
  <2>3. Named(fly, handed)
    <3>1. Named(h.flying, handed) /\ DOMAIN h.flying = UInt16
      BY <1>0, <1>4, Fields DEF InFlight
    <3> HIDE DEF id
    <3> QED BY <2>2, <3>1 DEF Named
  <2>4. v.pc # "readd"
    BY DEF idle
  <2> HIDE DEF fly, old, v
  <2>5. Rewriting'
    BY <1>0, <1>1, <2>1, <2>4, MovesOn
  <2>6. /\ h'.nextID = h.nextID /\ h'.configured = h.configured
        /\ h'.tosend = h.tosend /\ h'.flying = fly /\ h'.replied = h.replied
        /\ h'.queuedids = h.queuedids /\ h'.flyingids = h.flyingids
    BY <1>4, <2>1 DEF HWRecord
  <2>7. Sound(h')
    <3>1. Queues(h, r, m)
      BY <1>0 DEF Queued, r, m
    <3> QED BY <2>3, <2>6, <3>1 DEF Sound, Queues
  <2> QED BY <1>5, <1>6, <2>1, <2>5, <2>7
<1>15. CASE LostFinish(g)
  <2> DEFINE s == [h EXCEPT !.handlinglost = FALSE]
  <2>1. /\ h' = sendnext(s) /\ requests' = requests \o Outgoing(s)
        /\ lost' = [lost EXCEPT ![g] = idle] /\ statuses' = statuses
    BY <1>15, FinishSends DEF LostFinish, Store
  <2>2. s \in HWRecord /\ Keeps(s)
    BY <1>4 DEF HWRecord, Keeps
  <2> HIDE DEF s
  <2>3. /\ m \in 0 .. NPackets /\ handed \in m .. NPackets /\ r \in Nat
        /\ m - r <= MaxOutstanding
    <3>1. Len(incoming) <= handed /\ handed - Len(returned) <= MaxOutstanding
      BY <1>0 DEF Waiting, Queued
    <3> QED BY <3>1, Types, Constants DEF m, r
  <2>4. Queues(s, r, m) /\ Named(s.flying, handed)
    <3>1. Queues(h, r, m) /\ Named(h.flying, handed)
      BY <1>0 DEF Queued, InFlight, r, m
    <3> QED BY <2>2, <3>1 DEF Keeps, Queues
  <2>5. /\ Queues(sendnext(s), r, m) /\ Named(sendnext(s).flying, handed)
        /\ sendnext(s).nextID = s.nextID /\ sendnext(s).configured = s.configured
        /\ sendnext(s).replied = s.replied
        /\ \A i \in 1 .. Len(Outgoing(s)) :
             Carries(Outgoing(s)[i].id, Outgoing(s)[i].pkt, handed)
    BY <2>2, <2>3, <2>4, SendnextKeeps
  <2>6. Sound(h')
    BY <2>1, <2>2, <2>5 DEF Sound, Keeps
  <2>7. Carried
    <3>1. Outgoing(s) \in Seq(Request)
      BY <2>2, OutgoingType
    <3> QED BY <1>0, <2>1, <2>5, <3>1, BurstJoins DEF Carried
  <2>8. Rewriting'
    <3>1. idle.pc # "readd"
      BY DEF idle
    <3> QED BY <1>0, <1>1, <2>1, <3>1, MovesOn
  <2> QED BY <1>6, <2>1, <2>6, <2>7, <2>8
<1> QED BY <1>8, <1>9, <1>10, <1>11, <1>12, <1>13, <1>14, <1>15, <1>16
   DEF handlelost

-----------------------------------------------------------------------------
(* The theorems.                                                           *)

\* Every step keeps the invariant.
LEMMA InvStep == ASSUME Regime PROVE IInv /\ [Next]_vars => IInv'
<1> SUFFICES ASSUME IInv, [Next]_vars PROVE IInv'
  OBVIOUS
<1>1. TypeOK'
  BY TypeStep DEF IInv
<1>2. CASE Next
  <2>1. TypeOK /\ Safe /\ Live /\ ~h.panicked
    BY <1>2 DEF IInv, Next
  <2>2. CASE HWNext
    <3>1. CASE Send \/ receive \/ ConfigRequest \/ ConfigStatus
      BY <1>1, <2>1, <3>1, ClientInv DEF IInv
    <3>2. CASE Run
      BY <1>1, <2>1, <3>2, RunInv DEF IInv
    <3>3. CASE \E g \in Handlers : RunTimeout(g) \/ handlelost(g)
      BY <1>1, <2>1, <3>3, HandlelostInv DEF IInv
    <3> QED BY <2>2, <3>1, <3>2, <3>3, NoWritePanics DEF HWNext
  <2>3. CASE DeviceNext /\ UNCHANGED <<hwVars, netVars>>
    BY <1>1, <2>1, <2>3, DeviceInv DEF IInv
  <2>4. CASE Network \/ Tick \/ TickWatched
    BY <1>1, <2>1, <2>4, NetworkInv DEF IInv
  <2> QED BY <1>2, <2>2, <2>3, <2>4 DEF Next
<1>3. CASE UNCHANGED vars
  BY <1>3 DEF vars, wireVars, devVars, hwVars, netVars, IInv, TypeOK, WireTypeOK,
              DeviceTypeOK, HWTypeOK, Safe, ExecutedOnce, InOrder, OwnReply, Live,
              Configured, Waiting, Executed, Queued, InFlight, Rewriting, OnWire
<1> QED BY <1>2, <1>3

\* The inductive invariant holds whatever the network and the timeouts do.
LEMMA Invariance == ASSUME Regime PROVE Spec => []IInv
BY InitInv, InvStep, PTL DEF Spec

\* handlelost may write a packet any number of times and the network may copy,
\* reorder and lose it: the device executes packets once each, in the order in
\* which the users handed them over.
THEOREM ExecutionCorrect == ASSUME Regime PROVE Spec => []ExecutedOnce
<1>1. IInv => ExecutedOnce
  BY DEF IInv, Safe
<1> QED BY <1>1, Invariance, PTL

\* However replies arrive, returnreply hands packets back in order, none of
\* them twice and none left out.
THEOREM ReturnCorrect == ASSUME Regime PROVE Spec => []InOrder
<1>1. IInv => InOrder
  BY DEF IInv, Safe
<1> QED BY <1>1, Invariance, PTL

\* A reply is only ever parsed into the packet it answers, and no packet is
\* handed back without its reply, late and repeated replies included.
THEOREM ReplyCorrect == ASSUME Regime PROVE Spec => []OwnReply
<1>1. IInv => OwnReply
  BY DEF IInv, Safe
<1> QED BY <1>1, Invariance, PTL
=============================================================================
