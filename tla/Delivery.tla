------------------------------ MODULE Delivery ------------------------------
(***************************************************************************)
(* From a user's call to the end of its channel: the operations of         *)
(* target.go that make a request and wait for its responses, the rendez-   *)
(* vous with preparepackets, and packet.parse and packet.send of           *)
(* transaction.go, which hw.Run executes for every reply.                  *)
(*                                                                         *)
(* How requests are cut into packets is the subject of Packer; here every  *)
(* cut that keeps Packer's Contiguous is possible.  Between h.incoming and *)
(* the reply the packets are a queue, which is what ReliableLink promises. *)
(* All channels but h.incoming are unbuffered: a send and its receive are  *)
(* one step, and until then the sender waits.                              *)
(***************************************************************************)
EXTENDS Codec, SequencesExt

CONSTANTS
  NUsers,        \* goroutines that use the target
  Menu,          \* Menu[u][k]: what the k-th call of user u may be (bound)
  Addr,          \* Addr[r]: where the registers of request r begin
  MaxWords,      \* the longest request, in words (bound)
  MaxTransactions,   \* transactions a packet has room for (see Packer)
  MaxErrors,     \* how many transactions the device fails (bound)
  IncomingCap    \* capacity of h.incoming: 100

Users    == 1 .. NUsers
Requests == UNION {{u} \X DOMAIN Menu[u] : u \in Users}

\* A call of Read, Write, RMWbits, RMWsum, MaskedWrite (an RMWbits) or ReadB,
\* which returns the channel ("later"), or of a ...Now operation, which waits:
\* ReadNow and WriteNow for all responses ("range"), MaskedWriteNow for one
\* ("one").  MaskedReadNow is ReadNow of one word.
Call == [tid : typeID, nwords : 0 .. MaxWords, byteslice : BOOLEAN,
         waits : {"later", "range", "one"}]

\* The largest word in a register (bound: TLC's integers end at 2^31 - 1).
MaxValue == 2147483647

\* Word counts are uint8 values and transaction ids have 12 bits.
ASSUME DeliveryAssumption ==
  /\ NUsers \in Nat \ {0}
  /\ MaxWords \in 1 .. 255
  /\ MaxTransactions \in 1 .. MaxTransactionID + 1
  /\ Addr \in [Requests -> 0 .. MaxValue - MaxWords]
  /\ IncomingCap \in Nat \ {0}
  /\ MaxErrors \in Nat
  /\ Menu \in [Users -> Seq(SUBSET Call)]
  /\ \A r \in Requests : \A c \in Menu[r[1]][r[2]] :
       /\ c.tid \in rmws => c.nwords = 1
       /\ c.waits = "one" => c.tid \in rmws

VARIABLES
  pc,         \* where each user is: "idle" (in its own code), "enqueue" and
              \* "dispatch" (sending to t.requests), "range" (receiving)
  made,       \* the calls each user has made
  cur,        \* the request whose channel it receives from
  due,        \* it has dispatched all it has requested
  returned,   \* requests whose user has done with the channel
  packs,      \* preparepackets: packets that wait for a dispatch
  req,        \* the request it is splitting and the words left of it
  tohw,       \* packets of a dispatch it has not put into h.incoming yet
  incoming,   \* h.incoming
  flying,     \* packets hw has taken and not returned, oldest first
  run,        \* hw.Run: "select", "parse", "send", or dead: "panic", "spin"
  data,       \* the bytes of the reply that are not parsed yet
  order,      \* its byte order as parse found it in the header
  errors,     \* how many transactions the device has failed
  replies,    \* p.replies of the oldest packet, less those sent
  tosend,     \* its transactions, less those answered
  got,        \* the responses received on each channel, with their transactions
  closed      \* channels that are closed

userVars == <<pc, made, cur, due, returned>>
prepVars == <<packs, req, tohw>>
runVars  == <<run, data, order, replies, tosend>>
chanVars == <<got, closed>>
vars     == <<userVars, prepVars, incoming, flying, runVars, errors, chanVars>>

-----------------------------------------------------------------------------
(* Requests, transactions and responses.                                   *)

call(r) == made[r[1]][r[2]]
newest(u) == <<u, Len(made[u])>>

NoReq == [r |-> <<0, 0>>, left |-> 0]

\* newrequesttransaction: words of request r from offset index on.
transaction == [r : Requests, words : 0 .. MaxWords, index : 0 .. MaxWords,
                closechan : BOOLEAN]

\* The words that answer a transaction: the value of a register is its address.
Wanted(t) ==
  IF call(t.r).tid \in writes THEN <<>>
  ELSE [j \in 1 .. t.words |-> Addr[t.r] + IF call(t.r).tid = read THEN t.index + j - 1 ELSE 0]

\* The bytes of the transaction headers that packet.add writes.
outheader(id, words, tid) ==
  encodeTransaction([version |-> protocolversion, id |-> id, words |-> words, tid |-> tid,
                     code |-> Request], defaultorder)

Response == [err : BOOLEAN, code : 0 .. 15, data : Seq(Nat)]

errorResponse(code) == [err |-> TRUE, code |-> code, data |-> <<>>]

-----------------------------------------------------------------------------
(* The device: it answers the transactions of a packet in order, each with *)
(* its header and, on success, the words asked for.  After an error it may *)
(* leave the others out.                                                   *)

\* The header comes back with the information code in its last four bits.
inheader(h, code, o) ==
  LET b == Ordered(h, defaultorder)
  IN  Ordered(<<b[1], b[2], b[3], (b[4] \div 16) * 16 + code>>, o)

wordBytes(w, o) ==
  Ordered(<<w \div 16777216, (w \div 65536) % 256, (w \div 256) % 256, w % 256>>, o)

\* Words one after the other.
wordsBytes(ws, o) ==
  [j \in 1 .. 4 * Len(ws) |-> wordBytes(ws[((j - 1) \div 4) + 1], o)[((j - 1) % 4) + 1]]

answer(t, id, code, o) ==
  inheader(outheader(id, t.words, call(t.r).tid), code, o) \o
  wordsBytes(IF code = Success THEN Wanted(t) ELSE <<>>, o)

\* The answers to the transactions ts, as many as there are codes.
answers(ts, codes, o) ==
  LET from[i \in 1 .. Len(codes) + 1] ==
        IF i > Len(codes) THEN <<>> ELSE answer(ts[i], i - 1, codes[i], o) \o from[i + 1]
  IN  from[1]

Failures(codes) == Cardinality({i \in 1 .. Len(codes) : codes[i] # Success})

Outcomes(n) ==
  {codes \in UNION {[1 .. m -> {Success, BusReadError}] : m \in 0 .. n} :
     /\ errors + Failures(codes) <= MaxErrors
     /\ Len(codes) < n => Len(codes) > 0 /\ codes[Len(codes)] # Success}

-----------------------------------------------------------------------------
(* The users.                                                              *)

\* A user makes a request: the channel is new, the request goes to enqueue.
MakeRequest(u) ==
  /\ pc[u] = "idle"
  /\ Len(made[u]) < Len(Menu[u])
  /\ \E c \in Menu[u][Len(made[u]) + 1] : made' = [made EXCEPT ![u] = Append(@, c)]
  /\ pc' = [pc EXCEPT ![u] = "enqueue"]
  /\ due' = [due EXCEPT ![u] = FALSE]
  /\ UNCHANGED <<cur, returned, prepVars, incoming, flying, runVars, errors, chanVars>>

\* preparepackets is at its select.
Selecting == req = NoReq /\ tohw = <<>>

\* Mutant of split: a request for no words goes into the loop, too.
splitAlways(r) == [r |-> r, left |-> call(r).nwords]

\* The loops of preparepackets have nothing to do for a request of no words.
split(r) == IF call(r).nwords = 0 THEN NoReq ELSE [r |-> r, left |-> call(r).nwords]

\* Its rendezvous with a user in enqueue.  With no packet there it makes one.
Enqueue(u) ==
  /\ pc[u] = "enqueue"
  /\ Selecting
  /\ pc' = [pc EXCEPT ![u] = IF call(newest(u)).waits = "later" THEN "idle" ELSE "dispatch"]
  /\ req' = split(newest(u))
  /\ packs' = IF packs = <<>> THEN <<<<>>>> ELSE packs
  /\ UNCHANGED <<made, cur, due, returned, tohw, incoming, flying, runVars, errors, chanVars>>

\* A turn of its loops: a chunk goes into the last packet, or into a new one.
Split(n, new) ==
  /\ req # NoReq /\ n <= req.left
  /\ call(req.r).tid \in rmws => n = req.left
  /\ IF new THEN packs[Len(packs)] # <<>> ELSE Len(packs[Len(packs)]) < MaxTransactions
  /\ LET t  == [r |-> req.r, words |-> n, index |-> call(req.r).nwords - req.left,
                closechan |-> n = req.left]
         ps == IF new THEN Append(packs, <<>>) ELSE packs
     IN  packs' = [ps EXCEPT ![Len(ps)] = Append(@, t)]
  /\ req' = IF n = req.left THEN NoReq ELSE [req EXCEPT !.left = @ - n]
  /\ UNCHANGED <<userVars, tohw, incoming, flying, runVars, errors, chanVars>>

\* A user calls Dispatch for the requests it has made.
CallDispatch(u) ==
  /\ pc[u] = "idle"
  /\ made[u] # <<>> /\ ~due[u]
  /\ pc' = [pc EXCEPT ![u] = "dispatch"]
  /\ UNCHANGED <<made, cur, due, returned, prepVars, incoming, flying, runVars, errors, chanVars>>

\* preparepackets takes the dispatch request, and Dispatch returns.  A ...Now
\* operation goes on with the channel of its request.
Dispatch(u) ==
  /\ pc[u] = "dispatch"
  /\ Selecting
  /\ LET now == call(newest(u)).waits # "later" /\ newest(u) \notin returned
     IN  /\ pc' = [pc EXCEPT ![u] = IF now THEN "range" ELSE "idle"]
         /\ cur' = [cur EXCEPT ![u] = IF now THEN newest(u) ELSE @]
  /\ due' = [due EXCEPT ![u] = TRUE]
  /\ tohw' = packs
  /\ packs' = <<>>
  /\ UNCHANGED <<made, returned, req, incoming, flying, runVars, errors, chanVars>>

\* t.hw.incoming <- p: preparepackets waits while h.incoming is full.
PutIncoming ==
  /\ tohw # <<>>
  /\ Len(incoming) < IncomingCap
  /\ incoming' = Append(incoming, Head(tohw))
  /\ tohw' = Tail(tohw)
  /\ UNCHANGED <<userVars, packs, req, flying, runVars, errors, chanVars>>

\* A user begins to receive from one of its channels.
Receive(u, r) ==
  /\ pc[u] = "idle" /\ due[u]
  /\ r[1] = u /\ r[2] <= Len(made[u]) /\ r \notin returned
  /\ pc' = [pc EXCEPT ![u] = "range"]
  /\ cur' = [cur EXCEPT ![u] = r]
  /\ UNCHANGED <<made, due, returned, prepVars, incoming, flying, runVars, errors, chanVars>>

-----------------------------------------------------------------------------
(* hw.Run.                                                                 *)

\* case pack := <-h.incoming.
TakeIncoming ==
  /\ run = "select"
  /\ incoming # <<>>
  /\ flying' = Append(flying, Head(incoming))
  /\ incoming' = Tail(incoming)
  /\ UNCHANGED <<userVars, prepVars, runVars, errors, chanVars>>

\* case rep := <-h.replies: the reply to the oldest packet, and the header part
\* of parse.  A reply with a bad header fails all transactions.
Reply ==
  /\ run = "select"
  /\ flying # <<>>
  /\ \E codes \in Outcomes(Len(Head(flying))), o \in ByteOrder :
     \E d \in {encodePacket([version |-> protocolversion, pid |-> 1, ptype |-> control,
                             order |-> o]) \o answers(Head(flying), codes, o)} :
       /\ data' = IF badPacketHeader(d) THEN <<>> ELSE SubSeq(d, 5, Len(d))
       /\ order' = IF badPacketHeader(d) THEN order ELSE decodePacket(d).order
       /\ errors' = errors + Failures(codes)
  /\ run' = "parse"
  /\ replies' = <<>>
  /\ tosend' = Head(flying)
  /\ flying' = Tail(flying)
  /\ UNCHANGED <<userVars, prepVars, incoming, chanVars>>

\* How many words follow the header of a successful reply.
payload(th) == IF th.tid \in reads THEN th.words ELSE IF th.tid \in rmws THEN 1 ELSE 0

\* Mutant of skipped: the words are skipped after an error, too.
skippedAlways(th) == 4 + 4 * payload(th)

\* The bytes parse takes off the reply: after an error, the header alone.
skipped(th) == IF th.code = Success THEN 4 + 4 * payload(th) ELSE 4

\* A turn of parse's loop.  A rest too short for a header is never taken off the
\* reply, a wrong transaction id panics, and so does a payload cut short.
ParseTransaction ==
  /\ run = "parse" /\ data # <<>>
  /\ IF Len(data) < 4 THEN run' = "spin" /\ UNCHANGED <<data, replies>>
     ELSE \E th \in {decodeTransaction(data, order)} :
       LET t  == tosend[th.id + 1]
           w  == SubSeq(data, 5, skipped(th))
           rs == IF th.code # Success THEN errorResponse(th.code)
                 ELSE [err |-> FALSE, code |-> Success,
                       data |-> IF call(t.r).byteslice THEN w ELSE bytes2uint32s(w, order)]
       IN  IF th.id >= Len(tosend) \/ skipped(th) > Len(data)
           THEN run' = "panic" /\ UNCHANGED <<data, replies>>
           ELSE /\ data' = SubSeq(data, skipped(th) + 1, Len(data))
                /\ replies' = Append(replies, rs)
                /\ UNCHANGED run
  /\ UNCHANGED <<userVars, prepVars, incoming, flying, order, tosend, errors, chanVars>>

\* "Did not receive sufficient bytes."
missing == [i \in 1 .. Len(tosend) - Len(replies) |-> errorResponse(Insufficient)]

\* The end of parse; packet.send begins.
ParseEnd ==
  /\ run = "parse" /\ data = <<>>
  /\ replies' = replies \o missing
  /\ run' = IF tosend = <<>> THEN "select" ELSE "send"
  /\ order' = defaultorder   \* a local of parse
  /\ UNCHANGED <<userVars, prepVars, incoming, flying, data, tosend, errors, chanVars>>

\* Mutant of closes: the channel is closed with the first transaction.
closesFirst(t) == t.index = 0

\* Mutant of closes: only a request that was not split has its channel closed.
closesUnsplit(t) == t.closechan /\ t.index = 0

closes(t) == t.closechan

\* Mutant of returns: ReadNow returns with the first response.
returnsFirst(c, resp, close) == c.waits # "later" \/ close

\* The user is done: a loop over the channel ends when it is closed, ReadNow and
\* WriteNow return at an error, MaskedWriteNow reads one response.
returns(c, resp, close) ==
  \/ close
  \/ c.waits = "one"
  \/ c.waits = "range" /\ resp.err

\* tr.resp <- p.replies[i] meets the user's receive, close(tr.resp) follows; an
\* index past p.replies panics.  After the last one Run selects again.
Send ==
  /\ run = "send"
  /\ LET t == Head(tosend)
         u == t.r[1]
         e == returns(call(t.r), Head(replies), closes(t))
     IN  /\ replies # <<>> => pc[u] = "range" /\ cur[u] = t.r
         /\ IF replies = <<>> THEN UNCHANGED <<got, closed, returned, pc>>
            ELSE /\ got' = [got EXCEPT ![t.r] = Append(@, [t |-> t, resp |-> Head(replies)])]
                 /\ closed' = IF closes(t) THEN closed \cup {t.r} ELSE closed
                 /\ returned' = IF e THEN returned \cup {t.r} ELSE returned
                 /\ pc' = IF e THEN [pc EXCEPT ![u] = "idle"] ELSE pc
  /\ run' = IF replies = <<>> THEN "panic" ELSE IF Len(tosend) = 1 THEN "select" ELSE "send"
  /\ tosend' = Tail(tosend)
  /\ replies' = IF replies = <<>> THEN <<>> ELSE Tail(replies)
  /\ UNCHANGED <<made, cur, due, prepVars, incoming, flying, data, order, errors>>

-----------------------------------------------------------------------------
Init ==
  /\ pc = [u \in Users |-> "idle"]
  /\ made = [u \in Users |-> <<>>]
  /\ cur = [u \in Users |-> <<u, 1>>]
  /\ due = [u \in Users |-> TRUE]
  /\ returned = {}
  /\ packs = <<>> /\ req = NoReq /\ tohw = <<>>
  /\ incoming = <<>> /\ flying = <<>>
  /\ run = "select" /\ data = <<>> /\ order = defaultorder
  /\ errors = 0
  /\ replies = <<>> /\ tosend = <<>>
  /\ got = [r \in Requests |-> <<>>]
  /\ closed = {}

\* What a user goes on with once it has made a request.
UserStep(u) ==
  \/ Enqueue(u)
  \/ CallDispatch(u)
  \/ Dispatch(u)
  \/ \E r \in Requests : Receive(u, r)

Prepare == PutIncoming \/ \E n \in 1 .. MaxWords, new \in BOOLEAN : Split(n, new)

Run ==
  \/ TakeIncoming
  \/ ParseTransaction
  \/ ParseEnd
  \/ Send

Next ==
  \/ \E u \in Users : MakeRequest(u) \/ UserStep(u)
  \/ Prepare
  \/ Run
  \/ Reply

Spec == Init /\ [][Next]_vars

\* The goroutines go on when they can, the device answers, and a user sees to
\* the requests it has made: it dispatches them and receives.  The last conjunct
\* is weak fairness of Reply, which is possible where it is false and after
\* which it is true.
FairSpec ==
  /\ Spec
  /\ \A u \in Users : WF_vars(UserStep(u))
  /\ WF_vars(Prepare)
  /\ WF_vars(Run)
  /\ []<>(run # "select" \/ flying = <<>>)

-----------------------------------------------------------------------------
(* Properties.                                                             *)

\* The type invariant.
TypeOK ==
  /\ pc \in [Users -> {"idle", "enqueue", "dispatch", "range"}]
  /\ made \in [Users -> Seq(Call)] /\ \A u \in Users : Len(made[u]) <= Len(Menu[u])
  /\ cur \in [Users -> Users \X Nat]
  /\ due \in [Users -> BOOLEAN]
  /\ returned \subseteq Requests /\ closed \subseteq Requests
  /\ packs \in Seq(Seq(transaction)) /\ tohw \in Seq(Seq(transaction))
  /\ incoming \in Seq(Seq(transaction)) /\ Len(incoming) <= IncomingCap
  /\ flying \in Seq(Seq(transaction)) /\ tosend \in Seq(transaction)
  /\ req \in [r : Requests, left : 1 .. MaxWords] \cup {NoReq}
  /\ run \in {"select", "parse", "send", "panic", "spin"}
  /\ data \in Seq(Byte) /\ order \in ByteOrder
  /\ errors \in 0 .. MaxErrors
  /\ replies \in Seq(Response)
  /\ got \in [Requests -> Seq([t : transaction, resp : Response])]

\* What came back on a channel answers its own request, in order and with no
\* gap: each response has the words of its transaction (as bytes for ReadB), or
\* an error, whatever the others in the packet got and in whichever byte order.
OwnResponses ==
  \A r \in Requests : \A i \in 1 .. Len(got[r]) :
    LET t == got[r][i].t
        d == got[r][i].resp.data
    IN  /\ t.r = r
        /\ t.index = IF i = 1 THEN 0 ELSE got[r][i - 1].t.index + got[r][i - 1].t.words
        /\ ~got[r][i].resp.err =>
             IF call(r).byteslice THEN \E o \in ByteOrder : d = wordsBytes(Wanted(t), o)
             ELSE d = Wanted(t)

\* The transactions of a request that have not been answered.
Unanswered(r) ==
  {t \in UNION {ToSet(p) : p \in ToSet(packs \o tohw \o incoming \o flying) \cup {tosend}} :
     t.r = r}

\* A channel is closed once all words are answered for, and nothing is left to
\* be sent on it: a send on a closed channel, or closing it again, panics.
ClosedAfterLast ==
  \A r \in closed :
    /\ Unanswered(r) = {} /\ req.r # r
    /\ got[r] # <<>>
    /\ got[r][Len(got[r])].t.index + got[r][Len(got[r])].t.words = call(r).nwords

\* An operation that returns no error has all its words: one that read fewer
\* would return data it did not get.
Complete ==
  \A r \in returned :
    (\A i \in 1 .. Len(got[r]) : ~got[r][i].resp.err) =>
      /\ got[r] # <<>>
      /\ got[r][Len(got[r])].t.index + got[r][Len(got[r])].t.words = call(r).nwords

\* parse takes every reply apart to its end and send has a reply for every
\* transaction: Run neither panics nor loops for ever.
RunAlive == run \notin {"panic", "spin"}

\* Run is sending on the channel of r.
SendingTo(r) == run = "send" /\ Head(tosend).r = r

\* The three ways in which Run waits for a user that never receives: it returned
\* at an error, it receives from another of its channels, or it waits for
\* preparepackets, which waits for room in h.incoming, which Run would make.
Abandoned(r) == r \in returned
WrongOrder(r) == pc[r[1]] = "range" /\ cur[r[1]] # r
Circular(r) ==
  /\ pc[r[1]] \in {"enqueue", "dispatch"}
  /\ tohw # <<>> /\ Len(incoming) = IncomingCap

Jam == \E r \in Requests : SendingTo(r) /\ (Abandoned(r) \/ WrongOrder(r) \/ Circular(r))

\* A request for at least a word is answered to its end unless the client jams:
\* there is no fourth way to hang, and other users' errors, dispatches and
\* requests for no words (whose channels are never closed) do no harm.
Served ==
  \A r \in Requests :
    (Len(made[r[1]]) >= r[2] /\ made[r[1]][r[2]].nwords > 0) ~> (r \in returned \/ Jam)

\* What hw.go says of h.incoming: it is buffered so that users are not blocked
\* waiting for packets to be sent.  That no user is blocked for ever is the least
\* it can mean.
NotBlocked ==
  \A u \in Users : pc[u] \in {"enqueue", "dispatch"} ~> pc[u] \in {"idle", "range"}
=============================================================================
