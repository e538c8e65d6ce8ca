------------------------------- MODULE Packer -------------------------------
(***************************************************************************)
(* Target.preparepackets of target.go and packet.add of transaction.go:    *)
(* the goroutine that splits the users' requests into transactions and     *)
(* packs these into control packets.  Each turn of its loops is an action; *)
(* packs is local to it, so nobody sees a packet that is half filled.      *)
(*                                                                         *)
(* Lengths count 32-bit words; a packet is its lengths and the number of   *)
(* its transactions, which add appends to the history variable trail.      *)
(***************************************************************************)
EXTENDS Integers, Sequences

CONSTANTS
  Size,       \* words in a datagram, (MaxPacketSize - 28) / 4: 368
  MaxWords,   \* the largest uint8, the type of a transaction's word count: 255
  MaxReq,     \* the longest request of the users, in words (bound)
  NRequests   \* how many requests they make (bound)

\* Below 5 words no packet can hold the header and an RMWbits transaction.
ASSUME PackerAssumption ==
  /\ Size \in Nat /\ Size >= 5
  /\ MaxWords \in Nat \ {0}
  /\ MaxReq \in Nat \ {0}
  /\ NRequests \in Nat \ {0}

VARIABLES
  packs,     \* packets prepared and not dispatched yet
  req,       \* the request being split and how far that is
  sent,      \* packets put into h.incoming
  trail,     \* all transactions added to packets, in order
  taken,     \* requests taken from t.requests
  failed     \* a packet.add has returned an error

vars == <<packs, req, sent, trail, taken, failed>>

reads  == {"read", "readnoninc"}
writes == {"write", "writenoninc"}
rmws   == {"rmwbits", "rmwsum"}
typeID == reads \cup writes \cup rmws

Incrementing == {"read", "write"}

-----------------------------------------------------------------------------
(* transaction.go: packets.                                                *)

emptypacket == [reqlen |-> 1, resplen |-> 1, transactions |-> 0]

Packet == [reqlen : Nat, resplen : Nat, transactions : Nat]

reqspace(p)  == Size - p.reqlen
respspace(p) == Size - p.resplen

\* Words of a transaction (header, address, input) and of the reply to it.
reqwords(t)  == CASE t.typeid \in reads -> 2
                  [] t.typeid \in writes -> t.words + 2
                  [] t.typeid = "rmwbits" -> 4
                  [] t.typeid = "rmwsum" -> 3
respwords(t) == CASE t.typeid \in reads -> t.words + 1
                  [] t.typeid \in writes -> 1
                  [] t.typeid \in rmws -> 2

\* add's check: for a read it adds 1 to a uint8.
insufficient(p, t) ==
  \/ reqspace(p) < reqwords(t)
  \/ respspace(p) < IF t.typeid \in reads THEN (t.words + 1) % (MaxWords + 1)
                    ELSE respwords(t)

grown(p, t) == [reqlen       |-> p.reqlen + reqwords(t),
                resplen      |-> p.resplen + respwords(t),
                transactions |-> p.transactions + 1]

-----------------------------------------------------------------------------
(* target.go: preparepackets.                                              *)

NoReq == [typeid |-> "none", nwords |-> 0, index |-> 0, addr |-> 0]

\* index counts the words already in transactions, addr how far the address
\* has been moved; nwords is what is left.
UsrRequest == [typeid : typeID, nwords : 0 .. MaxReq, index : 0 .. MaxReq,
               addr : 0 .. MaxReq]

Transaction == [req : 1 .. NRequests, typeid : typeID, words : 0 .. MaxWords,
                index : 0 .. MaxReq, addr : 0 .. MaxReq, final : BOOLEAN]

\* p.add(t) for the last packet of ps: an error leaves the packet as it is.
add(ps, t) ==
  LET last == Len(ps)
      bad  == insufficient(ps[last], t)
  IN  /\ packs' = IF bad THEN ps ELSE [ps EXCEPT ![last] = grown(ps[last], t)]
      /\ trail' = IF bad THEN trail ELSE Append(trail, t)
      /\ failed' = (failed \/ bad)

\* The packets, with a new one behind them if the last one has no room.
WithRoom(ps, reqneed, respneed) ==
  IF reqspace(ps[Len(ps)]) < reqneed \/ respspace(ps[Len(ps)]) < respneed
  THEN Append(ps, emptypacket) ELSE ps

\* Mutant of chunk: the word count is not limited to a uint8.
chunkUnlimited(room, nwords) == IF room > nwords THEN nwords ELSE room

\* How many words go into the next transaction.
chunk(room, nwords) ==
  LET n == IF room > nwords THEN nwords ELSE room
  IN  IF n > MaxWords THEN MaxWords ELSE n

\* A request is taken from the channel.  If there is no packet yet one is made.
Take(typeid, n) ==
  /\ req = NoReq
  /\ taken < NRequests
  /\ taken' = taken + 1
  /\ req' = [typeid |-> typeid, nwords |-> n, index |-> 0, addr |-> 0]
  /\ packs' = IF packs = <<>> THEN <<emptypacket>> ELSE packs
  /\ UNCHANGED <<sent, trail, failed>>

\* The transaction that carries the next n words of the request.
next(n) == [req |-> taken, typeid |-> req.typeid, words |-> n, index |-> req.index,
            addr |-> req.addr, final |-> req.nwords = n]

\* Mutant of rest: the address of a readnoninc moves as well.
restMoving(n) == [req EXCEPT !.nwords = @ - n, !.index = @ + n, !.addr = @ + n]

\* What is left of the request after it.
rest(n) == [req EXCEPT !.nwords = @ - n, !.index = @ + n,
                       !.addr = IF req.typeid \in Incrementing THEN @ + n ELSE @]

\* Mutant of SplitRead: room for the data alone makes do.
SplitReadTight ==
  /\ req.typeid \in reads /\ req.nwords > 0
  /\ LET ps == WithRoom(packs, 2, 1)
         n  == chunk(respspace(ps[Len(ps)]), req.nwords)
     IN  add(ps, next(n)) /\ req' = rest(n)
  /\ UNCHANGED <<sent, taken>>

\* A turn of the loop for reads.
SplitRead ==
  /\ req.typeid \in reads /\ req.nwords > 0
  /\ LET ps == WithRoom(packs, 2, 2)
         n  == chunk(respspace(ps[Len(ps)]) - 1, req.nwords)
     IN  add(ps, next(n)) /\ req' = rest(n)
  /\ UNCHANGED <<sent, taken>>

\* A turn of the loop for writes.
SplitWrite ==
  /\ req.typeid \in writes /\ req.nwords > 0
  /\ LET ps == WithRoom(packs, 3, 1)
         n  == chunk(reqspace(ps[Len(ps)]) - 2, req.nwords)
     IN  add(ps, next(n)) /\ req' = rest(n)
  /\ UNCHANGED <<sent, taken>>

\* A read-modify-write is not split: it is one transaction of one word.
AddRMW ==
  /\ req.typeid \in rmws /\ req.nwords > 0
  /\ add(WithRoom(packs, IF req.typeid = "rmwbits" THEN 4 ELSE 3, 2), next(1))
  /\ req' = rest(1)
  /\ UNCHANGED <<sent, taken>>

\* Mutant of Done: a request for no words is never done with.
DoneNonEmpty ==
  /\ req # NoReq /\ req.nwords = 0 /\ req.index > 0
  /\ req' = NoReq
  /\ UNCHANGED <<packs, sent, trail, taken, failed>>

\* The case is over and the goroutine selects again.
Done ==
  /\ req # NoReq /\ req.nwords = 0
  /\ req' = NoReq
  /\ UNCHANGED <<packs, sent, trail, taken, failed>>

\* The dispatch request: all packets go to hw.
Dispatch ==
  /\ req = NoReq
  /\ packs # <<>>
  /\ sent' = sent \o packs
  /\ packs' = <<>>
  /\ UNCHANGED <<req, trail, taken, failed>>

-----------------------------------------------------------------------------
Init ==
  /\ packs = <<>>
  /\ req = NoReq
  /\ sent = <<>>
  /\ trail = <<>>
  /\ taken = 0
  /\ failed = FALSE

Split == SplitRead \/ SplitWrite \/ AddRMW \/ Done

Next ==
  \/ \E typeid \in reads \cup writes, n \in 0 .. MaxReq : Take(typeid, n)
  \/ \E typeid \in rmws : Take(typeid, 1)
  \/ Split
  \/ Dispatch

Spec == Init /\ [][Next]_vars

\* The goroutine goes on with the request it has taken.
FairSpec == Spec /\ WF_vars(Split)

-----------------------------------------------------------------------------
(* Properties.                                                             *)

\* The type invariant; word counts stay within a uint8.
TypeOK ==
  /\ packs \in Seq(Packet)
  /\ req \in UsrRequest \cup {NoReq}
  /\ sent \in Seq(Packet)
  /\ trail \in Seq(Transaction)
  /\ taken \in 0 .. NRequests
  /\ failed \in BOOLEAN

\* Neither a packet nor the reply to it outgrows a datagram, although add
\* checks a read of MaxWords words against (MaxWords + 1) % 2^8 = 0, and a
\* packet has fewer transactions than half its words (their ids have 12 bits).
Fits(p) ==
  /\ p.reqlen <= Size
  /\ p.resplen <= Size
  /\ 2 * p.transactions < p.reqlen

PacketsFit ==
  /\ \A i \in 1 .. Len(packs) : Fits(packs[i])
  /\ \A i \in 1 .. Len(sent) : Fits(sent[i])

\* add never refuses a transaction: preparepackets ignores the error for reads
\* and read-modify-writes, whose users would wait for ever, and panics for writes.
AddAccepts == ~failed

\* The transactions of a request are consecutive, each continues where the one
\* before it ended, and the last one and no other closes the user's channel;
\* addresses advance with the words unless the register is not incrementing.
InSequence(t, i) ==
  /\ t.index = IF i = 1 \/ trail[i - 1].final THEN 0
               ELSE trail[i - 1].index + trail[i - 1].words
  /\ (i > 1 /\ ~trail[i - 1].final) => trail[i - 1].req = t.req
  /\ (i > 1 /\ trail[i - 1].final) => trail[i - 1].req < t.req
  /\ t.addr = IF t.typeid \in Incrementing THEN t.index ELSE 0

Contiguous == \A i \in 1 .. Len(trail) : InSequence(trail[i], i)

\* The goroutine finishes every request: no loop runs for ever.
Finishes == (req # NoReq) ~> (req = NoReq)
=============================================================================
