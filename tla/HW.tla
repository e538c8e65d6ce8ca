--------------------------------- MODULE HW ---------------------------------
(***************************************************************************)
(* The hw type of hw.go: one instance per device.  Its goroutines are      *)
(*   Run           the select loop: one action per case, each the whole    *)
(*                 case (the handlers do not interleave with each other),  *)
(*   receive       reads datagrams from the connection into h.replies,     *)
(*   ConfigDevice  asks the device for its status once, at start-up,       *)
(*   handlelost    started by Run at every tick of h.timedout; it shares   *)
(*                 h with Run without a lock, so each stretch of it that   *)
(*                 touches shared state is an action of its own.           *)
(* The struct is the record h with the code's field names; the methods     *)
(* that change it are operators from hw records to hw records.             *)
(***************************************************************************)
EXTENDS Device

CONSTANTS
  MaxFlight,       \* hw.maxflight: 4
  QueuedMax,       \* capacity of queuedids: 256
  FlyingMax,       \* capacity of flyingids: 32
  IncomingCap,     \* capacity of h.incoming: 100
  RepliesCap,      \* capacity of h.replies: 100
  StatusesCap,     \* capacity of h.statuses: 10
  Handlers,        \* handlelost goroutines that may live at once (bound)
  MaxOutstanding,  \* packets the users have handed over and not got back
  EarlySend,       \* whether users send before ConfigDevice has finished
  WriteErrors      \* whether conn.Write may fail

ASSUME HWAssumption ==
  /\ {MaxFlight, QueuedMax, FlyingMax} \subseteq Nat \ {0}
  /\ {IncomingCap, RepliesCap, StatusesCap} \subseteq Nat \ {0}
  /\ MaxOutstanding \in Nat \ {0}
  /\ {EarlySend, WriteErrors} \subseteq BOOLEAN

VARIABLES
  h,          \* the hw struct
  watched,    \* the ticker Run's select is blocked on
  incoming,   \* channel h.incoming: packets from preparepackets
  replies,    \* channel h.replies: datagrams from receive
  statuses,   \* channel h.statuses: parsed status replies
  config,     \* where ConfigDevice is: "request", "await" or "done"
  lost,       \* where each handlelost is, and its local variables
  handed,     \* how many packets the users have handed over
  answer,     \* packet.replies: the packet whose reply was parsed into it
  returned    \* packets whose send() has been called, in order

hwVars == <<h, watched, incoming, replies, statuses, config, lost,
            handed, answer, returned>>

-----------------------------------------------------------------------------
(* time.Ticker: "on" with a period of waittime or what is left of it, "due" *)
(* with the 1 us updatetimeout picks for a packet that is overdue, "long"  *)
(* with the 10000 s of the first ticker.  tick is the tick waiting in      *)
(* channel C, which Stop does not remove.                                  *)

Ticker        == [run : {"off", "on", "due", "long"}, tick : BOOLEAN]
NewTicker(dt) == [run |-> dt, tick |-> FALSE]
Stop(t)       == [t EXCEPT !.run = "off"]

\* Run's select evaluated h.timedout.C before it blocked: it keeps waiting on
\* that ticker if another goroutine then stores a new one in h.timedout.
Current  == [run |-> "current", tick |-> FALSE]
Watching == IF watched = Current THEN h.timedout ELSE watched

-----------------------------------------------------------------------------
(* Packet logs and id logs.  A packetlog is a map from ids to packets kept *)
(* by its own goroutine: a total function, NoPacket where there is none.   *)
(* An idlog is its sorted() sequence (see IDLog).                          *)

EmptyLog == [id \in UInt16 |-> NoPacket]
Logged(log) == {id \in UInt16 : log[id] # NoPacket}

Least(a, b) == IF a < b THEN a ELSE b

HWRecord ==
  [nextID       : UInt16,
   configured   : BOOLEAN,
   tosend       : [UInt16 -> Packets \cup {NoPacket}],
   flying       : [UInt16 -> Packets \cup {NoPacket}],
   replied      : [UInt16 -> Packets \cup {NoPacket}],
   queuedids    : Seq(UInt16),
   flyingids    : Seq(UInt16),
   inflight     : Int,
   timedout     : Ticker,
   timeoutid    : UInt16,
   aged         : SUBSET UInt16,   \* sent at least waittime ago (packet.sent)
   handlinglost : BOOLEAN,
   resent       : UInt16,
   panicked     : BOOLEAN]         \* the process has died

\* newhw and init.
newhw ==
  [nextID |-> 1, configured |-> FALSE,
   tosend |-> EmptyLog, flying |-> EmptyLog, replied |-> EmptyLog,
   queuedids |-> <<>>, flyingids |-> <<>>, inflight |-> 0,
   timedout |-> NewTicker("long"), timeoutid |-> 0, aged |-> {},
   handlinglost |-> FALSE, resent |-> 0, panicked |-> FALSE]

\* Mutant of nextid: no wrap-around.
nextidUnwrapped(s) == [s EXCEPT !.nextID = @ + 1]
\* Mutant of nextid: the id is not used up.
nextidStuck(s) == s

\* nextid(): the id after 65535 is 1.
nextid(s) == [s EXCEPT !.nextID = succ(@)]

-----------------------------------------------------------------------------
(* updatetimeout: time the second oldest id in flight, or stop timing.     *)

Retimes(s) == s.inflight > 0 /\ Len(s.flyingids) > 1

updatetimeout(s) ==
  LET first == s.flyingids[2]   \* secondoldest()
      overdue == s.flying[first] # NoPacket /\ first \in s.aged
  IN  CASE Retimes(s) ->
             [s EXCEPT !.timedout = NewTicker(IF overdue THEN "due" ELSE "on"),
                       !.timeoutid = first]
        [] s.inflight > 0 /\ ~Retimes(s) -> s
        [] s.inflight <= 0 -> [s EXCEPT !.timedout = Stop(@)]

-----------------------------------------------------------------------------
(* sendnext: move packets from the queue into the free flight slots.       *)

\* How many packets one call sends: the loop ends when the slots are used or
\* when queuedids is empty (the error it then returns is ignored).
Burst(s) ==
  IF s.handlinglost \/ Logged(s.tosend) = {} \/ s.inflight >= MaxFlight THEN 0
  ELSE Least(MaxFlight - s.inflight, Len(s.queuedids))

\* The datagrams it writes.
Outgoing(s) ==
  [i \in 1 .. Burst(s) |->
     controlPacket(s.queuedids[i], s.tosend[s.queuedids[i]])]

\* Mutant of Arms: the first packet in flight starts no ticker.
ArmsLate(s) == 2 - s.inflight \in 1 .. Burst(s)

\* The packet that makes inflight 1 starts the ticker, if there is one.
Arms(s) == 1 - s.inflight \in 1 .. Burst(s)

sendnext(s) ==
  LET n     == Burst(s)
      batch == SubSeq(s.queuedids, 1, n)
      out   == {batch[i] : i \in 1 .. n}
  IN  [s EXCEPT
        !.queuedids = SubSeq(@, n + 1, Len(@)),
        !.tosend    = [id \in UInt16 |-> IF id \in out THEN NoPacket ELSE @[id]],
        !.flying    = [id \in UInt16 |-> IF id \in out THEN s.tosend[id] ELSE @[id]],
        \* flyingids.add fails on a full log and its error is ignored
        !.flyingids = SubSeq(@ \o batch, 1, Least(FlyingMax, Len(@) + n)),
        !.inflight  = @ + n,
        !.aged      = @ \ out,
        !.timedout  = IF Arms(s) THEN NewTicker("on") ELSE @,
        !.timeoutid = IF Arms(s) THEN batch[1 - s.inflight] ELSE @,
        \* an id that is queued but not in tosend yields a nil packet
        !.panicked  = @ \/ \E i \in 1 .. n : \/ s.tosend[batch[i]] = NoPacket
                                             \/ \E j \in 1 .. i - 1 : batch[j] = batch[i]]

\* s with the first n packets of its queue only.
Queuing(s, n) == [s EXCEPT !.queuedids = SubSeq(@, 1, n)]

\* The calls whose write of packet n + 1 fails (a nil packet panics before).
Failing(s) ==
  {n \in 0 .. Burst(s) - 1 : WriteErrors /\ ~sendnext(Queuing(s, n + 1)).panicked}

\* That packet is not queued any more and does not fly: it is forgotten.
Abort(s, n) ==
  [sendnext(Queuing(s, n)) EXCEPT
     !.queuedids = SubSeq(s.queuedids, n + 2, Len(s.queuedids)),
     !.tosend[s.queuedids[n + 1]] = NoPacket]

\* What a call of sendnext may do.  Nobody looks at the error it returns.
Sendings(s) ==
  {[hw |-> sendnext(s), out |-> Outgoing(s), arms |-> Arms(s)]} \cup
  {[hw |-> Abort(s, n), out |-> Outgoing(Queuing(s, n)),
    arms |-> Arms(Queuing(s, n))] : n \in Failing(s)}

-----------------------------------------------------------------------------
(* returnreply: hand back the replied packets at the head of flyingids.    *)

\* The loop hands back exactly the first n ids of flyingids.
Returns(s, n) ==
  LET Replied(i) == /\ s.replied[s.flyingids[i]] # NoPacket
                    /\ \A j \in 1 .. i - 1 : s.flyingids[j] # s.flyingids[i]
  IN  /\ \A i \in 1 .. n : Replied(i)
      /\ n < Len(s.flyingids) => ~Replied(n + 1)

Handback(s, n) == [i \in 1 .. n |-> s.replied[s.flyingids[i]]]

\* Mutant of returnreply: the replies that still have to wait go as well.
returnreplyAll(s, n) ==
  [s EXCEPT !.flyingids = SubSeq(@, n + 1, Len(@)), !.replied = EmptyLog]

returnreply(s, n) ==
  LET gone == {s.flyingids[i] : i \in 1 .. n}
  IN  [s EXCEPT
        !.flyingids = SubSeq(@, n + 1, Len(@)),
        !.replied   = [id \in UInt16 |-> IF id \in gone THEN NoPacket ELSE @[id]]]

-----------------------------------------------------------------------------
(* Initial state and types.                                                *)

idle == [pc |-> "idle", id |-> 0, pack |-> NoPacket, resentpack |-> FALSE,
         packetreceived |-> FALSE, sent |-> {}]

HWInit ==
  /\ h = newhw
  /\ watched = Current
  /\ incoming = <<>>
  /\ replies = <<>>
  /\ statuses = <<>>
  /\ config = "request"
  /\ lost = [g \in Handlers |-> idle]
  /\ handed = 0
  /\ answer = [p \in Packets |-> NoPacket]
  /\ returned = <<>>

HWTypeOK ==
  /\ h \in HWRecord
  /\ watched \in Ticker \cup {Current}
  /\ incoming \in Seq(Packets)
  /\ replies \in Seq(Response)
  /\ statuses \in Seq(targetstatus)
  /\ config \in {"request", "await", "done"}
  /\ lost \in [Handlers ->
       [pc : {"idle", "stop", "request", "await", "sent", "resend", "rewrite",
              "readd", "finish"},
        id : UInt16, pack : Packets \cup {NoPacket}, resentpack : BOOLEAN,
        packetreceived : BOOLEAN, sent : SUBSET UInt16]]
  /\ handed \in 0 .. NPackets
  /\ answer \in [Packets -> Packets \cup {NoPacket}]
  /\ returned \in Seq(Packets)

-----------------------------------------------------------------------------
(* The users: preparepackets puts their packets into h.incoming.           *)

Send ==
  /\ handed < NPackets
  /\ EarlySend \/ h.configured
  /\ handed - Len(returned) < MaxOutstanding
  /\ Len(incoming) < IncomingCap
  /\ handed' = handed + 1
  /\ incoming' = Append(incoming, handed + 1)
  /\ UNCHANGED <<h, watched, replies, statuses, config, lost, answer, returned>>
  /\ UNCHANGED <<wireVars, devVars>>

-----------------------------------------------------------------------------
(* receive: datagrams into h.replies, waiting while that is full.          *)

receive ==
  /\ Len(replies) < RepliesCap
  /\ \E i \in Deliverable(responses) :
       /\ replies' = Append(replies, responses[i])
       /\ responses' = Without(responses, i)
  /\ UNCHANGED <<h, watched, incoming, statuses, config, lost, handed, answer,
                 returned>>
  /\ UNCHANGED <<requests, devVars>>

-----------------------------------------------------------------------------
(* ConfigDevice: ask for the status and take the next id from the reply.   *)

\* Mutant of ConfigRequest: asks twice.
ConfigRequestTwice ==
  /\ config = "request"
  /\ config' = "await"
  /\ requests' = requests \o <<newStatusPacket, newStatusPacket>>
  /\ UNCHANGED <<h, watched, incoming, replies, statuses, lost, handed, answer,
                 returned>>
  /\ UNCHANGED <<responses, devVars>>

ConfigRequest ==
  /\ config = "request"
  /\ config' = "await"
  /\ requests' = Append(requests, newStatusPacket)
  /\ UNCHANGED <<h, watched, incoming, replies, statuses, lost, handed, answer,
                 returned>>
  /\ UNCHANGED <<responses, devVars>>

ConfigStatus ==
  /\ config = "await"
  /\ statuses # <<>>
  /\ config' = "done"
  /\ statuses' = Tail(statuses)
  /\ h' = [h EXCEPT !.nextID = Head(statuses).nextid, !.configured = TRUE]
  /\ UNCHANGED <<watched, incoming, replies, lost, handed, answer, returned>>
  /\ UNCHANGED <<wireVars, devVars>>

-----------------------------------------------------------------------------
(* Run: the cases of the select.  A status that does not fit the channel   *)
(* is kept as its element StatusesCap + 1: Run is blocked sending it.      *)

Running == Len(statuses) <= StatusesCap

\* Mutant of enqueue: the packet jumps the queue.
enqueueFirst(s, p) ==
  IF s.nextID = 0 \/ Len(s.queuedids) = QueuedMax
  THEN [nextid(s) EXCEPT !.panicked = TRUE]
  ELSE [nextid(s) EXCEPT !.tosend[s.nextID] = p,
                         !.queuedids = <<s.nextID>> \o @]

\* The packet gets the next id and joins the queue; a full queue panics.
enqueue(s, p) ==
  IF s.nextID = 0 \/ Len(s.queuedids) = QueuedMax
  THEN [nextid(s) EXCEPT !.panicked = TRUE]
  ELSE [nextid(s) EXCEPT !.tosend[s.nextID] = p,
                         !.queuedids = Append(@, s.nextID)]

RunIncoming ==
  /\ Running
  /\ incoming # <<>>
  /\ incoming' = Tail(incoming)
  /\ LET s == enqueue(h, Head(incoming))
     IN  IF s.panicked
         THEN h' = s /\ UNCHANGED requests
         ELSE \E c \in Sendings(s) : h' = c.hw /\ requests' = requests \o c.out
  /\ watched' = Current
  /\ UNCHANGED <<replies, statuses, config, lost, handed, answer, returned>>
  /\ UNCHANGED <<responses, devVars>>

\* Id 0 is a status reply: it is passed on to whoever waits for one.
RunStatus ==
  /\ Running
  /\ replies # <<>> /\ Head(replies).id = 0
  /\ replies' = Tail(replies)
  /\ statuses' = Append(statuses, Head(replies).st)
  /\ watched' = Current
  /\ UNCHANGED <<h, incoming, config, lost, handed, answer, returned>>
  /\ UNCHANGED <<wireVars, devVars>>

\* Mutant of land: the timeout is left running when the oldest packet is answered.
landUntimed(s, id) == [s EXCEPT !.inflight = @ - 1, !.flying[id] = NoPacket]

\* Mutant of land: only the oldest packet frees its slot.
landOldest(s, id) ==
  LET oldest == s.flyingids # <<>> /\ s.flyingids[1] = id
      freed  == [s EXCEPT !.inflight = @ - 1]
      timed  == IF oldest THEN updatetimeout([freed EXCEPT !.timedout = Stop(@)]) ELSE s
  IN  [timed EXCEPT !.flying[id] = NoPacket]

\* The slot of id is free: stop or move the timeout if id was the oldest.
land(s, id) ==
  LET freed  == [s EXCEPT !.inflight = @ - 1]
      oldest == s.flyingids # <<>> /\ s.flyingids[1] = id
      timed  == IF oldest THEN updatetimeout([freed EXCEPT !.timedout = Stop(@)])
                ELSE freed
  IN  [timed EXCEPT !.flying[id] = NoPacket]

\* oldest() of an empty log is whatever its slot held last, and may be id, too:
\* then the ticker is stopped.
Landings(s, id) ==
  {land(s, id)} \cup
  IF s.flyingids = <<>> THEN {[land(s, id) EXCEPT !.timedout = Stop(@)]} ELSE {}

\* A reply to a packet in flight.
RunReply ==
  /\ Running
  /\ replies # <<>>
  /\ LET rep == Head(replies)
         req == h.flying[rep.id]
     IN  /\ rep.id # 0
         /\ req # NoPacket
         \* parse appends to packet.replies, send() uses the first ones
         /\ answer' = [answer EXCEPT ![req] = IF @ = NoPacket THEN rep.pkt ELSE @]
         /\ \E s \in Landings(h, rep.id) : \E c \in Sendings(s) :
              LET t == [c.hw EXCEPT !.replied[rep.id] = req]
              IN  /\ requests' = requests \o c.out
                  /\ \E n \in 0 .. Len(t.flyingids) :
                       /\ Returns(t, n)
                       /\ h' = returnreply(t, n)
                       /\ returned' = returned \o Handback(t, n)
  /\ replies' = Tail(replies)
  /\ watched' = Current
  /\ UNCHANGED <<incoming, statuses, config, lost, handed>>
  /\ UNCHANGED <<responses, devVars>>

\* A reply to no packet in flight is fatal unless handlelost asked for it.
RunUnmatched ==
  /\ Running
  /\ replies # <<>>
  /\ Head(replies).id # 0
  /\ h.flying[Head(replies).id] = NoPacket
  /\ h' = [h EXCEPT !.panicked = Head(replies).id # h.resent]
  /\ replies' = Tail(replies)
  /\ watched' = Current
  /\ UNCHANGED <<incoming, statuses, config, lost, handed, answer, returned>>
  /\ UNCHANGED <<wireVars, devVars>>

\* A tick of the ticker the select waits on starts handlelost.
RunTimeout(g) ==
  /\ Running
  /\ Watching.tick
  /\ lost[g].pc = "idle"
  /\ h' = IF watched = Current THEN [h EXCEPT !.timedout.tick = FALSE] ELSE h
  /\ watched' = Current
  /\ lost' = [lost EXCEPT ![g].pc = "stop"]
  /\ UNCHANGED <<incoming, replies, statuses, config, handed, answer, returned>>
  /\ UNCHANGED <<wireVars, devVars>>

\* The report ticker: all that matters is that select evaluates h.timedout.
RunReport ==
  /\ Running
  /\ watched # Current
  /\ watched' = Current
  /\ UNCHANGED <<h, incoming, replies, statuses, config, lost, handed, answer,
                 returned>>
  /\ UNCHANGED <<wireVars, devVars>>

-----------------------------------------------------------------------------
(* handlelost.                                                             *)

\* handlelost stores new in h: Run keeps waiting on the ticker it knows.
Store(new, replaced) ==
  /\ h' = new
  /\ watched' = IF replaced /\ watched = Current THEN h.timedout ELSE watched

LostStop(g) ==
  /\ lost[g].pc = "stop"
  /\ h' = [h EXCEPT !.timedout = Stop(@)]
  /\ lost' = [lost EXCEPT ![g].pc = "request"]
  /\ UNCHANGED <<watched, incoming, replies, statuses, config, handed, answer,
                 returned>>
  /\ UNCHANGED <<wireVars, devVars>>

LostRequest(g) ==
  /\ lost[g].pc = "request"
  /\ h' = [h EXCEPT !.handlinglost = TRUE]
  /\ requests' = Append(requests, newStatusPacket)
  /\ lost' = [lost EXCEPT ![g].pc = "await"]
  /\ UNCHANGED <<watched, incoming, replies, statuses, config, handed, answer,
                 returned>>
  /\ UNCHANGED <<responses, devVars>>

\* The status says whether h.timeoutid, as it is by now, was received.
LostStatus(g) ==
  /\ lost[g].pc = "await"
  /\ statuses # <<>>
  /\ statuses' = Tail(statuses)
  /\ lost' = [lost EXCEPT ![g] =
       [idle EXCEPT !.pc = "sent", !.sent = Head(statuses).sent,
                    !.packetreceived = h.timeoutid \in Head(statuses).received]]
  /\ UNCHANGED <<h, watched, incoming, replies, config, handed, answer, returned>>
  /\ UNCHANGED <<wireVars, devVars>>

\* Mutant of LostSent: panics without looking at the replies sent.
LostSentHasty(g) ==
  /\ lost[g].pc = "sent"
  /\ h' = [h EXCEPT !.panicked = lost[g].packetreceived]
  /\ lost' = [lost EXCEPT ![g] = [idle EXCEPT !.pc = "rewrite"]]
  /\ UNCHANGED <<watched, incoming, replies, statuses, config, handed, answer,
                 returned>>
  /\ UNCHANGED <<wireVars, devVars>>

\* And whether h.timeoutid, which Run may have moved meanwhile, was sent.
LostSent(g) ==
  /\ lost[g].pc = "sent"
  /\ LET packetsent == h.timeoutid \in lost[g].sent
     IN  /\ h' = [h EXCEPT !.panicked = lost[g].packetreceived /\ ~packetsent]
         /\ lost' = [lost EXCEPT ![g] =
                       [idle EXCEPT !.pc = IF packetsent THEN "resend" ELSE "rewrite"]]
  /\ UNCHANGED <<watched, incoming, replies, statuses, config, handed, answer,
                 returned>>
  /\ UNCHANGED <<wireVars, devVars>>

\* Sent by the device: ask for the reply again.
LostResend(g) ==
  /\ lost[g].pc = "resend"
  /\ requests' = Append(requests, newResendPacket(h.timeoutid))
  /\ Store(updatetimeout([h EXCEPT !.resent = h.timeoutid]), Retimes(h))
  /\ lost' = [lost EXCEPT ![g].pc = "finish"]
  /\ UNCHANGED <<incoming, replies, statuses, config, handed, answer, returned>>
  /\ UNCHANGED <<responses, devVars>>

\* The loop of rewrites starts with h.timeoutid.
resendid(g) == IF lost[g].resentpack THEN lost[g].id ELSE h.timeoutid

\* Not received: write it and the ids after it again while they are flying.
LostRewrite(g) ==
  /\ lost[g].pc = "rewrite"
  /\ LET id   == resendid(g)
         pack == h.flying[id]
     IN  \/ /\ pack # NoPacket
            /\ requests' = Append(requests, controlPacket(id, pack))
            /\ lost' = [lost EXCEPT ![g] = [idle EXCEPT !.pc = "readd", !.id = id,
                                                        !.pack = pack]]
            /\ UNCHANGED <<h, watched>>
         \/ /\ pack = NoPacket
            /\ IF lost[g].resentpack
               THEN Store(updatetimeout(h), Retimes(h))
               ELSE UNCHANGED <<h, watched>>
            /\ lost' = [lost EXCEPT ![g].pc = "finish"]
            /\ UNCHANGED requests
  /\ UNCHANGED <<incoming, replies, statuses, config, handed, answer, returned>>
  /\ UNCHANGED <<responses, devVars>>

\* The second half of the loop body, after Run may have seen the reply.
LostReadd(g) ==
  /\ lost[g].pc = "readd"
  /\ LET id == lost[g].id
     IN  /\ h' = [h EXCEPT !.flying[id] = lost[g].pack, !.aged = @ \ {id}]
         /\ lost' = [lost EXCEPT ![g] = [idle EXCEPT !.pc = "rewrite", !.id = succ(id),
                                                     !.resentpack = TRUE]]
  /\ UNCHANGED <<watched, incoming, replies, statuses, config, handed, answer,
                 returned>>
  /\ UNCHANGED <<wireVars, devVars>>

\* Mutant of LostFinish: handlinglost stays set.
LostFinishHolding(g) ==
  /\ lost[g].pc = "finish"
  /\ lost' = [lost EXCEPT ![g] = idle]
  /\ UNCHANGED <<h, watched, incoming, replies, statuses, config, handed, answer,
                 returned>>
  /\ UNCHANGED <<wireVars, devVars>>

LostFinish(g) ==
  /\ lost[g].pc = "finish"
  /\ LET s == [h EXCEPT !.handlinglost = FALSE]
     IN  \E c \in Sendings(s) :
           /\ Store(c.hw, c.arms)
           /\ requests' = requests \o c.out
  /\ lost' = [lost EXCEPT ![g] = idle]
  /\ UNCHANGED <<incoming, replies, statuses, config, handed, answer, returned>>
  /\ UNCHANGED <<responses, devVars>>

\* Other writes that fail are fatal: of a status or resend request, or again of
\* a packet that was lost.
WritePanics ==
  /\ WriteErrors
  /\ \/ config = "request"
     \/ \E g \in Handlers :
          \/ lost[g].pc \in {"request", "resend"}
          \/ lost[g].pc = "rewrite" /\ h.flying[resendid(g)] # NoPacket
  /\ h' = [h EXCEPT !.panicked = TRUE]
  /\ UNCHANGED <<watched, incoming, replies, statuses, config, lost, handed, answer,
                 returned>>
  /\ UNCHANGED <<wireVars, devVars>>

-----------------------------------------------------------------------------
Run == RunIncoming \/ RunStatus \/ RunReply \/ RunUnmatched \/ RunReport

handlelost(g) ==
  \/ LostStop(g) \/ LostRequest(g) \/ LostStatus(g) \/ LostSent(g) \/ LostResend(g)
  \/ LostRewrite(g) \/ LostReadd(g) \/ LostFinish(g)

HWNext ==
  \/ Send \/ receive \/ ConfigRequest \/ ConfigStatus \/ Run
  \/ \E g \in Handlers : RunTimeout(g) \/ handlelost(g)
  \/ WritePanics
=============================================================================
