---------------------------- MODULE PackerProofs ----------------------------
(***************************************************************************)
(* preparepackets never builds a packet that does not fit into a datagram, *)
(* never has a transaction refused and splits requests without gaps, for   *)
(* every packet size of at least 5 words, every width of the word count    *)
(* and requests of every length.                                           *)
(***************************************************************************)
EXTENDS Packer, TLAPS

\* What links the request being split to the last transaction of the trail.
Linked ==
  LET last == trail[Len(trail)]
  IN  IF req = NoReq \/ req.index = 0
      THEN trail = <<>> \/ (last.final /\ last.req <= taken
                            /\ (req # NoReq => last.req < taken))
      ELSE /\ trail # <<>>
           /\ last.req = taken
           /\ last.index + last.words = req.index
           /\ last.final <=> req.nwords = 0

\* The request itself, while there is one.
Pending ==
  req # NoReq =>
    /\ packs # <<>>
    /\ taken > 0
    /\ req.index + req.nwords <= MaxReq
    /\ req.typeid \in rmws => req.nwords <= 1
    /\ req.addr = IF req.typeid \in Incrementing THEN req.index ELSE 0

\* The inductive invariant.
IInv ==
  /\ TypeOK /\ PacketsFit /\ AddAccepts /\ Contiguous
  /\ Linked /\ Pending

-----------------------------------------------------------------------------
\* A list of packets that preparepackets may hold.
Good(ps) == ps \in Seq(Packet) /\ \A i \in 1 .. Len(ps) : Fits(ps[i])

\* A new packet fits, and has room for any single transaction of few words.
LEMMA EmptyFits ==
  /\ emptypacket \in Packet
  /\ Fits(emptypacket)
  /\ reqspace(emptypacket) >= 4
  /\ respspace(emptypacket) >= 4
BY PackerAssumption DEF emptypacket, Packet, Fits, reqspace, respspace

\* WithRoom makes the room it is asked for.
LEMMA RoomMade ==
  ASSUME NEW ps, Good(ps), ps # <<>>, NEW a \in 0 .. 4, NEW b \in 0 .. 4
  PROVE  LET qs == WithRoom(ps, a, b)
         IN  /\ Good(qs)
             /\ qs # <<>>
             /\ reqspace(qs[Len(qs)]) >= a
             /\ respspace(qs[Len(qs)]) >= b
<1> DEFINE qs == WithRoom(ps, a, b)
<1>1. /\ Len(ps) \in Nat \ {0}
      /\ ps[Len(ps)] \in Packet
      /\ Size \in Nat
  BY PackerAssumption DEF Good
<1>2. reqspace(ps[Len(ps)]) \in Int /\ respspace(ps[Len(ps)]) \in Int
  BY <1>1 DEF Packet, reqspace, respspace
<1>3. CASE reqspace(ps[Len(ps)]) < a \/ respspace(ps[Len(ps)]) < b
  <2>1. qs = Append(ps, emptypacket)
    BY <1>3 DEF WithRoom
  <2>2. /\ Len(qs) = Len(ps) + 1
        /\ qs[Len(qs)] = emptypacket
        /\ qs \in Seq(Packet)
        /\ \A i \in 1 .. Len(ps) : qs[i] = ps[i]
    BY <1>1, <2>1, EmptyFits DEF Good
  <2>3. \A i \in 1 .. Len(qs) : Fits(qs[i])
    <3> TAKE i \in 1 .. Len(qs)
    <3>1. CASE i = Len(qs)
      BY <2>2, <3>1, EmptyFits
    <3>2. CASE i \in 1 .. Len(ps)
      BY <2>2, <3>2 DEF Good
    <3> QED BY <1>1, <2>2, <3>1, <3>2
  <2>4. reqspace(emptypacket) \in Int /\ respspace(emptypacket) \in Int
    BY <1>1, EmptyFits DEF Packet, reqspace, respspace
  <2> HIDE DEF qs
  <2>5. /\ reqspace(qs[Len(qs)]) >= a
        /\ respspace(qs[Len(qs)]) >= b
    BY <2>2, <2>4, EmptyFits
  <2>6. Good(qs) /\ qs # <<>>
    BY <1>1, <2>2, <2>3 DEF Good
  <2> QED BY <2>5, <2>6 DEF qs
<1>4. CASE ~(reqspace(ps[Len(ps)]) < a \/ respspace(ps[Len(ps)]) < b)
  <2>1. qs = ps
    BY <1>4 DEF WithRoom
  <2>2. reqspace(ps[Len(ps)]) >= a /\ respspace(ps[Len(ps)]) >= b
    BY <1>2, <1>4
  <2> QED BY <2>1, <2>2
<1> QED BY <1>3, <1>4

\* add's check of a read, done in a uint8, is never stricter than it should be.
LEMMA Mod ==
  ASSUME NEW a \in Nat, NEW m \in Nat \ {0}, a <= m
  PROVE  a % m <= a /\ a % m \in Nat
<1>1. CASE a < m
  BY <1>1
<1>2. CASE a = m
  BY <1>2
<1> QED BY <1>1, <1>2

\* A transaction for which there is room is accepted, and the packet fits.
LEMMA Accepted ==
  ASSUME NEW p \in Packet, Fits(p), NEW t \in Transaction,
         reqwords(t) <= reqspace(p), respwords(t) <= respspace(p)
  PROVE  /\ ~insufficient(p, t)
         /\ grown(p, t) \in Packet
         /\ Fits(grown(p, t))
<1>1. /\ t.typeid \in typeID
      /\ t.words \in 0 .. MaxWords
      /\ MaxWords \in Nat \ {0}
      /\ Size \in Nat
      /\ p.reqlen \in Nat /\ p.resplen \in Nat /\ p.transactions \in Nat
  BY PackerAssumption DEF Transaction, Packet
<1>2. reqwords(t) \in Nat /\ reqwords(t) >= 2 /\ respwords(t) \in Nat
  BY <1>1 DEF reqwords, respwords, typeID, reads, writes, rmws
<1>3. t.typeid \in reads => respwords(t) = t.words + 1
  BY DEF respwords, reads, writes, rmws
<1>4. (t.words + 1) % (MaxWords + 1) <= t.words + 1 /\ (t.words + 1) % (MaxWords + 1) \in Nat
  <2>1. t.words + 1 \in Nat /\ MaxWords + 1 \in Nat \ {0} /\ t.words + 1 <= MaxWords + 1
    BY <1>1
  <2> QED BY <2>1, Mod
<1>5. reqspace(p) \in Int /\ respspace(p) \in Int
  BY <1>1 DEF reqspace, respspace
<1>6. ~insufficient(p, t)
  <2>1. CASE t.typeid \in reads
    <3>1. (t.words + 1) % (MaxWords + 1) <= respspace(p)
      BY <1>1, <1>3, <1>4, <1>5, <2>1
    <3> QED BY <1>2, <1>4, <1>5, <2>1, <3>1 DEF insufficient
  <2>2. CASE t.typeid \notin reads
    BY <1>2, <1>5, <2>2 DEF insufficient
  <2> QED BY <2>1, <2>2
<1>7. grown(p, t) \in Packet
  BY <1>1, <1>2 DEF grown, Packet
<1>8. Fits(grown(p, t))
  BY <1>1, <1>2 DEF grown, Fits, reqspace, respspace
<1> QED BY <1>6, <1>7, <1>8

-----------------------------------------------------------------------------
\* One turn of a loop: n words of the request go into a packet that has room.
LEMMA Turn ==
  ASSUME IInv, req # NoReq, NEW n \in 1 .. MaxWords, n <= req.nwords,
         NEW ps, Good(ps), ps # <<>>,
         reqwords(next(n)) <= reqspace(ps[Len(ps)]),
         respwords(next(n)) <= respspace(ps[Len(ps)]),
         add(ps, next(n)), req' = rest(n), UNCHANGED <<sent, taken>>
  PROVE  IInv'
<1> DEFINE t == next(n)
           last == Len(ps)
<1>1. /\ req \in UsrRequest
      /\ packs \in Seq(Packet) /\ sent \in Seq(Packet) /\ trail \in Seq(Transaction)
      /\ taken \in 0 .. NRequests
      /\ failed = FALSE
      /\ MaxWords \in Nat \ {0} /\ MaxReq \in Nat \ {0} /\ NRequests \in Nat \ {0}
  BY PackerAssumption DEF IInv, TypeOK, AddAccepts
<1>2. /\ req.typeid \in typeID
      /\ req.nwords \in 0 .. MaxReq /\ req.index \in 0 .. MaxReq
      /\ req.addr \in 0 .. MaxReq
      /\ req = [typeid |-> req.typeid, nwords |-> req.nwords, index |-> req.index,
                addr |-> req.addr]
  BY <1>1 DEF UsrRequest
<1>3. /\ taken \in 1 .. NRequests
      /\ req.index + req.nwords <= MaxReq
      /\ req.typeid \in rmws => req.nwords <= 1
      /\ req.addr = IF req.typeid \in Incrementing THEN req.index ELSE 0
  BY <1>1 DEF IInv, Pending
<1>4. t \in Transaction
  BY <1>1, <1>2, <1>3 DEF next, Transaction
<1>5. ps \in Seq(Packet) /\ last \in 1 .. Len(ps) /\ ps[last] \in Packet /\ Fits(ps[last])
  BY DEF Good
<1>6. /\ ~insufficient(ps[last], t)
      /\ grown(ps[last], t) \in Packet
      /\ Fits(grown(ps[last], t))
  BY <1>4, <1>5, Accepted
<1>7. /\ packs' = [ps EXCEPT ![last] = grown(ps[last], t)]
      /\ trail' = Append(trail, t)
      /\ failed' = FALSE
  BY <1>1, <1>6 DEF add
<1>8. /\ req' = [typeid |-> req.typeid, nwords |-> req.nwords - n,
                 index |-> req.index + n,
                 addr |-> IF req.typeid \in Incrementing THEN req.addr + n ELSE req.addr]
      /\ req' \in UsrRequest
      /\ req' # NoReq
  <2>1. req' = [typeid |-> req.typeid, nwords |-> req.nwords - n,
                index |-> req.index + n,
                addr |-> IF req.typeid \in Incrementing THEN req.addr + n ELSE req.addr]
    BY <1>2 DEF rest
  <2>2. req' \in UsrRequest
    BY <1>1, <1>2, <1>3, <2>1 DEF UsrRequest
  <2>3. req' # NoReq
    BY <1>2, <2>1 DEF NoReq, typeID, reads, writes, rmws
  <2> QED BY <2>1, <2>2, <2>3
<1>9. packs' \in Seq(Packet) /\ packs' # <<>> /\ \A i \in 1 .. Len(packs') : Fits(packs'[i])
  BY <1>5, <1>6, <1>7 DEF Good
<1>10. TypeOK'
  <2>1. trail' \in Seq(Transaction)
    BY <1>1, <1>4, <1>7
  <2> QED BY <1>1, <1>7, <1>8, <1>9, <2>1 DEF TypeOK
<1>11. PacketsFit' /\ AddAccepts'
  BY <1>7, <1>9 DEF PacketsFit, AddAccepts, IInv
<1>12. /\ t.index = req.index /\ t.words = n /\ t.addr = req.addr /\ t.req = taken
       /\ t.typeid = req.typeid /\ t.final = (req.nwords = n)
  BY DEF next
<1>13. /\ Len(trail') = Len(trail) + 1
       /\ trail'[Len(trail')] = t
       /\ \A i \in 1 .. Len(trail) : trail'[i] = trail[i]
       /\ Len(trail) \in Nat
  BY <1>1, <1>4, <1>7
<1>14. Linked'
  <2>1. req'.index # 0 /\ req'.index = t.index + t.words
    BY <1>2, <1>8, <1>12
  <2>2. trail' # <<>>
    BY <1>13
  <2>3. t.final <=> req'.nwords = 0
    <3>1. (req.nwords = n) <=> (req'.nwords = 0)
      BY <1>2, <1>8
    <3> QED BY <1>12, <3>1, Zenon
  <2> QED BY <1>8, <1>12, <1>13, <2>1, <2>2, <2>3 DEF Linked
<1>15. Pending'
  BY <1>2, <1>3, <1>8, <1>9 DEF Pending
<1>16. Contiguous'
  <2> SUFFICES ASSUME NEW i \in 1 .. Len(trail')
               PROVE  InSequence(trail[i], i)'
    BY DEF Contiguous
  <2>1. CASE i \in 1 .. Len(trail)
    <3>1. trail'[i] = trail[i] /\ (i > 1 => trail'[i - 1] = trail[i - 1])
      BY <1>13, <2>1
    <3>2. InSequence(trail[i], i)
      BY <2>1 DEF IInv, Contiguous
    <3> QED BY <2>1, <3>1, <3>2 DEF InSequence
  <2>2. CASE i = Len(trail) + 1
    <3>1. trail'[i] = t /\ (i > 1 => trail'[i - 1] = trail[Len(trail)])
      BY <1>13, <2>2
    <3>2. i = 1 <=> trail = <<>>
      BY <1>1, <2>2
    <3>3. t.addr = IF t.typeid \in Incrementing THEN t.index ELSE 0
      BY <1>3, <1>12
    <3>4. CASE i = 1
      <4>1. req.index = 0
        BY <3>2, <3>4 DEF IInv, Linked
      <4> QED BY <1>12, <3>1, <3>3, <3>4, <4>1 DEF InSequence
    <3>5. CASE i > 1
      <4> DEFINE l == trail[Len(trail)]
      <4>1. l \in Transaction
        BY <1>1, <1>13, <2>2, <3>5
      <4>2. CASE req.index = 0
        <5>1. l.final /\ l.req < taken
          BY <3>2, <3>5, <4>2 DEF IInv, Linked
        <5> QED BY <1>12, <3>1, <3>3, <3>5, <4>2, <5>1 DEF InSequence
      <4>3. CASE req.index # 0
        <5>1. l.req = taken /\ l.index + l.words = req.index /\ ~l.final
          BY <1>2, <4>3 DEF IInv, Linked
        <5> QED BY <1>12, <3>1, <3>3, <3>5, <5>1 DEF InSequence
      <4> QED BY <4>2, <4>3
    <3> QED BY <1>13, <2>2, <3>4, <3>5
  <2> QED BY <1>13, <2>1, <2>2
<1> QED BY <1>10, <1>11, <1>14, <1>15, <1>16 DEF IInv

\* chunk takes at least one word, and no more than is left, than there is room
\* for and than a uint8 holds.
LEMMA ChunkBounds ==
  ASSUME NEW room \in Int, room >= 1, NEW nwords \in Nat, nwords >= 1
  PROVE  /\ chunk(room, nwords) \in 1 .. MaxWords
         /\ chunk(room, nwords) <= nwords
         /\ chunk(room, nwords) <= room
BY PackerAssumption DEF chunk

-----------------------------------------------------------------------------
\* The invariant is inductive.
LEMMA Inductive == IInv /\ [Next]_vars => IInv'
<1> SUFFICES ASSUME IInv, [Next]_vars PROVE IInv'
  OBVIOUS
<1>1. /\ packs \in Seq(Packet) /\ sent \in Seq(Packet) /\ trail \in Seq(Transaction)
      /\ req \in UsrRequest \cup {NoReq}
      /\ taken \in 0 .. NRequests
      /\ Size \in Nat /\ MaxWords \in Nat \ {0} /\ MaxReq \in Nat \ {0}
  BY PackerAssumption DEF IInv, TypeOK
<1>2. Good(packs)
  BY <1>1 DEF Good, IInv, PacketsFit
<1>3. req # NoReq => packs # <<>> /\ req \in UsrRequest
  BY <1>1 DEF IInv, Pending
<1>4. "none" \notin typeID /\ NoReq.typeid = "none"
  BY DEF typeID, reads, writes, rmws, NoReq
<1>5. CASE SplitRead
  <2> DEFINE ps == WithRoom(packs, 2, 2)
             room == respspace(ps[Len(ps)]) - 1
             n == chunk(room, req.nwords)
  <2>1. req # NoReq /\ req.nwords \in Nat /\ req.nwords >= 1 /\ req.typeid \in reads
    <3>1. req.typeid \in reads /\ req.nwords > 0
      BY <1>5 DEF SplitRead
    <3>2. req # NoReq
      BY <1>4, <3>1 DEF typeID
    <3> QED BY <1>3, <3>1, <3>2 DEF UsrRequest
  <2>2. /\ Good(ps) /\ ps # <<>>
        /\ reqspace(ps[Len(ps)]) >= 2 /\ respspace(ps[Len(ps)]) >= 2
    BY <1>2, <1>3, <2>1, RoomMade
  <2>3. ps[Len(ps)] \in Packet
    BY <2>2 DEF Good
  <2>4. room \in Int /\ room >= 1 /\ respspace(ps[Len(ps)]) = room + 1
    <3>1. respspace(ps[Len(ps)]) \in Int
      BY <1>1, <2>3 DEF respspace, Packet
    <3> QED BY <2>2, <3>1
  <2>5. n \in 1 .. MaxWords /\ n <= req.nwords /\ n <= room
    BY <2>1, <2>4, ChunkBounds
  <2>6. add(ps, next(n)) /\ req' = rest(n) /\ UNCHANGED <<sent, taken>>
    BY <1>5 DEF SplitRead
  <2>7. reqwords(next(n)) = 2 /\ respwords(next(n)) = n + 1
    BY <2>1 DEF reqwords, respwords, next, reads, writes, rmws
  <2> HIDE DEF n, room, ps
  <2>8. respwords(next(n)) <= respspace(ps[Len(ps)])
    BY <1>1, <2>4, <2>5, <2>7
  <2> QED BY <2>1, <2>2, <2>5, <2>6, <2>7, <2>8, Turn
<1>6. CASE SplitWrite
  <2> DEFINE ps == WithRoom(packs, 3, 1)
             room == reqspace(ps[Len(ps)]) - 2
             n == chunk(room, req.nwords)
  <2>1. req # NoReq /\ req.nwords \in Nat /\ req.nwords >= 1 /\ req.typeid \in writes
    <3>1. req.typeid \in writes /\ req.nwords > 0
      BY <1>6 DEF SplitWrite
    <3>2. req # NoReq
      BY <1>4, <3>1 DEF typeID
    <3> QED BY <1>3, <3>1, <3>2 DEF UsrRequest
  <2>2. /\ Good(ps) /\ ps # <<>>
        /\ reqspace(ps[Len(ps)]) >= 3 /\ respspace(ps[Len(ps)]) >= 1
    BY <1>2, <1>3, <2>1, RoomMade
  <2>3. ps[Len(ps)] \in Packet
    BY <2>2 DEF Good
  <2>4. room \in Int /\ room >= 1 /\ reqspace(ps[Len(ps)]) = room + 2
    <3>1. reqspace(ps[Len(ps)]) \in Int
      BY <1>1, <2>3 DEF reqspace, Packet
    <3> QED BY <2>2, <3>1
  <2>5. n \in 1 .. MaxWords /\ n <= req.nwords /\ n <= room
    BY <2>1, <2>4, ChunkBounds
  <2>6. add(ps, next(n)) /\ req' = rest(n) /\ UNCHANGED <<sent, taken>>
    BY <1>6 DEF SplitWrite
  <2>7. reqwords(next(n)) = n + 2 /\ respwords(next(n)) = 1
    BY <2>1 DEF reqwords, respwords, next, reads, writes, rmws
  <2> HIDE DEF n, room, ps
  <2>8. reqwords(next(n)) <= reqspace(ps[Len(ps)])
    BY <1>1, <2>4, <2>5, <2>7
  <2> QED BY <2>1, <2>2, <2>5, <2>6, <2>7, <2>8, Turn
<1>7. CASE AddRMW
  <2> DEFINE need == IF req.typeid = "rmwbits" THEN 4 ELSE 3
  <2>1. req # NoReq /\ req.nwords \in Nat /\ req.nwords >= 1 /\ req.typeid \in rmws
    BY <1>1, <1>3, <1>4, <1>7 DEF AddRMW, typeID, UsrRequest
  <2>2. need \in 0 .. 4
    OBVIOUS
  <2>5. reqwords(next(1)) = need /\ respwords(next(1)) = 2
    BY <2>1 DEF reqwords, respwords, next, reads, writes, rmws
  <2>6. add(WithRoom(packs, need, 2), next(1)) /\ req' = rest(1) /\ UNCHANGED <<sent, taken>>
    BY <1>7 DEF AddRMW
  <2> HIDE DEF need
  <2> DEFINE ps == WithRoom(packs, need, 2)
  <2>3. /\ Good(ps) /\ ps # <<>>
        /\ reqspace(ps[Len(ps)]) >= need /\ respspace(ps[Len(ps)]) >= 2
    <3>1. PICK a \in 0 .. 4 : a = need
      BY <2>2
    <3>2. LET qs == WithRoom(packs, a, 2)
          IN  /\ Good(qs) /\ qs # <<>>
              /\ reqspace(qs[Len(qs)]) >= a /\ respspace(qs[Len(qs)]) >= 2
      <4>1. packs # <<>> /\ 2 \in 0 .. 4
        BY <1>3, <2>1
      <4> QED BY <1>2, <4>1, RoomMade, Zenon
    <3> QED BY <3>1, <3>2
  <2>4. add(ps, next(1))
    BY <2>6
  <2> HIDE DEF ps
  <2> QED BY <1>1, <2>1, <2>2, <2>3, <2>4, <2>5, <2>6, Turn
<1>8. CASE Done
  <2>1. TypeOK' /\ PacketsFit' /\ AddAccepts' /\ Contiguous' /\ Pending'
    BY <1>1, <1>8 DEF Done, IInv, TypeOK, PacketsFit, AddAccepts, Contiguous, InSequence,
       Pending
  <2>2. Linked'
    <3>1. req # NoReq /\ req.nwords = 0 /\ req' = NoReq /\ trail' = trail /\ taken' = taken
      BY <1>8 DEF Done
    <3>2. trail = <<>> \/ (trail[Len(trail)].final /\ trail[Len(trail)].req <= taken)
      BY <1>1, <3>1 DEF IInv, Linked
    <3> QED BY <3>1, <3>2 DEF Linked
  <2> QED BY <2>1, <2>2 DEF IInv
<1>9. CASE Dispatch
  <2>1. sent' = sent \o packs /\ packs' = <<>> /\ req' = NoReq /\ req = NoReq
        /\ UNCHANGED <<trail, taken, failed>>
    BY <1>9 DEF Dispatch
  <2>2. sent' \in Seq(Packet) /\ \A i \in 1 .. Len(sent') : Fits(sent'[i])
    <3>1. \A i \in 1 .. Len(sent') :
            sent'[i] = IF i <= Len(sent) THEN sent[i] ELSE packs[i - Len(sent)]
      BY <1>1, <2>1
    <3>2. Len(sent') = Len(sent) + Len(packs) /\ sent' \in Seq(Packet)
      BY <1>1, <2>1
    <3>3. \A i \in 1 .. Len(sent') : Fits(sent'[i])
      <4> TAKE i \in 1 .. Len(sent')
      <4>1. CASE i <= Len(sent)
        BY <1>1, <3>1, <4>1 DEF IInv, PacketsFit
      <4>2. CASE i > Len(sent)
        <5>1. i - Len(sent) \in 1 .. Len(packs)
          BY <1>1, <3>2, <4>2
        <5>2. sent'[i] = packs[i - Len(sent)]
          BY <1>1, <3>1, <4>2
        <5> QED BY <1>2, <5>1, <5>2 DEF Good
      <4> QED BY <1>1, <4>1, <4>2
    <3> QED BY <3>2, <3>3
  <2>3. TypeOK' /\ PacketsFit'
    BY <1>1, <2>1, <2>2 DEF TypeOK, PacketsFit, IInv
  <2>4. AddAccepts' /\ Contiguous' /\ Pending' /\ Linked'
    BY <2>1 DEF IInv, AddAccepts, Contiguous, InSequence, Pending, Linked
  <2> QED BY <2>3, <2>4 DEF IInv
<1>10. ASSUME NEW typeid \in typeID, NEW n \in 0 .. MaxReq, Take(typeid, n),
              typeid \in rmws => n = 1
       PROVE  IInv'
  <2>1. /\ req = NoReq /\ taken' = taken + 1 /\ taken < NRequests
        /\ req' = [typeid |-> typeid, nwords |-> n, index |-> 0, addr |-> 0]
        /\ packs' = IF packs = <<>> THEN <<emptypacket>> ELSE packs
        /\ UNCHANGED <<sent, trail, failed>>
    BY <1>10 DEF Take
  <2>2. req' \in UsrRequest /\ req' # NoReq
    BY <1>1, <1>4, <2>1 DEF UsrRequest, NoReq
  <2>3. packs' # <<>> /\ Good(packs')
    <3>1. CASE packs = <<>>
      BY <2>1, <3>1, EmptyFits DEF Good
    <3>2. CASE packs # <<>>
      BY <1>2, <2>1, <3>2
    <3> QED BY <3>1, <3>2
  <2>4. TypeOK' /\ PacketsFit' /\ AddAccepts' /\ Contiguous'
    <3>1. TypeOK'
      <4>1. failed' \in BOOLEAN
        BY <2>1, Zenon DEF TypeOK, IInv
      <4>2. taken' \in 0 .. NRequests
        BY <1>1, <2>1, PackerAssumption
      <4> QED BY <1>1, <2>1, <2>2, <2>3, <4>1, <4>2 DEF Good, TypeOK
    <3>2. PacketsFit'
      BY <2>1, <2>3 DEF Good, PacketsFit, IInv
    <3>3. AddAccepts' /\ Contiguous'
      BY <2>1 DEF AddAccepts, Contiguous, InSequence, IInv
    <3> QED BY <3>1, <3>2, <3>3
  <2>5. Pending'
    BY <1>1, <1>10, <2>1, <2>2, <2>3 DEF Pending
  <2>6. Linked'
    <3>1. req'.index = 0
      BY <2>1
    <3>2. trail = <<>> \/ (trail[Len(trail)].final /\ trail[Len(trail)].req <= taken)
      BY <2>1 DEF IInv, Linked
    <3>3. trail # <<>> => trail[Len(trail)] \in Transaction
      BY <1>1
    <3>4. trail # <<>> => trail[Len(trail)].req \in Nat
      BY <3>3 DEF Transaction
    <3>5. trail # <<>> => trail[Len(trail)].req < taken' /\ trail[Len(trail)].req <= taken'
      BY <1>1, <2>1, <3>2, <3>4
    <3> QED BY <2>1, <3>1, <3>2, <3>5 DEF Linked
  <2> QED BY <2>4, <2>5, <2>6 DEF IInv
<1>11. CASE UNCHANGED vars
  BY <1>11 DEF vars, IInv, TypeOK, PacketsFit, AddAccepts, Contiguous, InSequence,
     Linked, Pending
<1>12. reads \subseteq typeID /\ writes \subseteq typeID /\ rmws \subseteq typeID
       /\ (reads \cup writes) \cap rmws = {}
  BY DEF typeID, reads, writes, rmws
<1> QED
  BY <1>1, <1>5, <1>6, <1>7, <1>8, <1>9, <1>10, <1>11, <1>12 DEF Next, Split

\* The invariant holds in every state.
LEMMA Invariance == Spec => []IInv
<1>1. Init => IInv
  <2> SUFFICES ASSUME Init PROVE IInv
    OBVIOUS
  <2>1. TypeOK
    <3>1. failed \in BOOLEAN
      BY Zenon DEF Init
    <3> QED BY <3>1, PackerAssumption DEF Init, TypeOK
  <2>2. PacketsFit /\ AddAccepts /\ Contiguous
    BY DEF Init, PacketsFit, AddAccepts, Contiguous
  <2>3. Linked /\ Pending
    BY DEF Init, Linked, Pending
  <2> QED BY <2>1, <2>2, <2>3 DEF IInv
<1> QED BY <1>1, Inductive, PTL DEF Spec

\* The word counts of transactions are uint8 values and the lengths of packets
\* stay in their range: no arithmetic of preparepackets leaves its type.
THEOREM TypeCorrect == Spec => []TypeOK
<1>1. IInv => TypeOK
  BY DEF IInv
<1> QED BY <1>1, Invariance, PTL

\* No packet and no reply to one outgrows a datagram.
THEOREM PacketsAlwaysFit == Spec => []PacketsFit
<1>1. IInv => PacketsFit
  BY DEF IInv
<1> QED BY <1>1, Invariance, PTL

\* packet.add never refuses a transaction that preparepackets made.
THEOREM AddNeverFails == Spec => []AddAccepts
<1>1. IInv => AddAccepts
  BY DEF IInv
<1> QED BY <1>1, Invariance, PTL

\* Requests are split without gaps or overlaps, and closed exactly once.
THEOREM SplitContiguously == Spec => []Contiguous
<1>1. IInv => Contiguous
  BY DEF IInv
<1> QED BY <1>1, Invariance, PTL
=============================================================================
