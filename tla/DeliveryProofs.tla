--------------------------- MODULE DeliveryProofs ---------------------------
(***************************************************************************)
(* Proofs about Delivery, for any users, menus of calls, packet sizes,     *)
(* capacity of h.incoming and number of errors.                            *)
(*                                                                         *)
(* The bytes come first: decoding undoes encoding in both byte orders, and *)
(* what packet.parse reads out of the device's reply is what the device    *)
(* wrote into it.  Then the line: tosend, flying, incoming, tohw and       *)
(* packs, end to end, hold the transactions that are not answered, and     *)
(* every step adds at its end, takes from its front or leaves it alone.    *)
(* The invariant says that the transactions of a request stand in it in    *)
(* the order of their words, beginning where the channel's history ends    *)
(* and ending where preparepackets goes on; and that what is left of a     *)
(* reply is the answers that are not parsed.                               *)
(***************************************************************************)
EXTENDS Delivery, TLAPS, FiniteSetTheorems, SequenceTheorems, WellFoundedInduction

-----------------------------------------------------------------------------
(* Headers, for every header.  The arithmetic is done on numbers first and *)
(* the records are put together afterwards.                                *)

\* Reversing the bytes of a word twice gives the word back.
LEMMA OrderedTwice ==
  ASSUME NEW b1, NEW b2, NEW b3, NEW b4, NEW o
  PROVE  Ordered(Ordered(<<b1, b2, b3, b4>>, o), o) = <<b1, b2, b3, b4>>
  BY DEF Ordered

\* transactionheader.decode after transactionheader.encode gives the header
\* back, whatever the byte order: 12-bit ids, 8-bit word counts, 4-bit types
\* and codes survive the shifts and masks.
THEOREM TransactionHeaderRoundTrip ==
  ASSUME NEW th \in transactionheader, NEW o \in ByteOrder
  PROVE  decodeTransaction(encodeTransaction(th, o), o) = th
<1> DEFINE b1 == ((th.version * 16) % 256) + ((th.id \div 256) % 16)
           b2 == th.id % 256
           b3 == th.words
           b4 == ((th.tid * 16) % 256) + th.code
<1>1. /\ th.version \in 0 .. 15 /\ th.id \in 0 .. MaxTransactionID
      /\ th.tid \in 0 .. 15 /\ th.code \in 0 .. 15
      /\ th = [version |-> th.version, id |-> th.id, words |-> th.words,
               tid |-> th.tid, code |-> th.code]
  BY DEF transactionheader
<1>2. PICK v \in Int : v = th.version /\ 0 <= v /\ v <= 15
  BY <1>1
<1>3. PICK n \in Int : n = th.id /\ 0 <= n /\ n <= 4095
  <2>1. MaxTransactionID \in Int
    BY DEF MaxTransactionID
  <2>2. th.id \in 0 .. MaxTransactionID
    BY <1>1
  <2>3. th.id \in Int /\ 0 <= th.id /\ th.id <= MaxTransactionID
    BY <2>1, <2>2
  <2> QED
    BY <2>3 DEF MaxTransactionID
<1>4. PICK t \in Int, c \in Int : /\ t = th.tid /\ 0 <= t /\ t <= 15
                                  /\ c = th.code /\ 0 <= c /\ c <= 15
  BY <1>1
<1>a. (v * 16) % 256 = v * 16 /\ (t * 16) % 256 = t * 16
  BY <1>2, <1>4
<1>b. (n \div 256) % 16 = n \div 256 /\ 0 <= n \div 256 /\ n \div 256 <= 15
  BY <1>3
<1>c. (v * 16 + n \div 256) \div 16 = v /\ (v * 16 + n \div 256) % 16 = n \div 256
  BY <1>2, <1>3, <1>b
<1>d. (n % 256) + (n \div 256) * 256 = n
  BY <1>3
<1>e. (t * 16 + c) \div 16 = t /\ (t * 16 + c) % 16 = c
  BY <1>4
<1>f. b1 = v * 16 + n \div 256 /\ b2 = n % 256 /\ b4 = t * 16 + c
  BY <1>2, <1>3, <1>4, <1>a, <1>b
<1>5. encodeTransaction(th, o) = Ordered(<<b1, b2, b3, b4>>, o)
  BY DEF encodeTransaction
<1> HIDE DEF b1, b2, b3, b4
<1>6. Ordered(encodeTransaction(th, o), o) = <<b1, b2, b3, b4>>
  BY <1>5, OrderedTwice
<1>7. decodeTransaction(encodeTransaction(th, o), o)
        = [version |-> b1 \div 16, id |-> b2 + (b1 % 16) * 256, words |-> b3,
           tid |-> b4 \div 16, code |-> b4 % 16]
  BY <1>6 DEF decodeTransaction
<1>8. b1 \div 16 = v /\ b2 + (b1 % 16) * 256 = n /\ b4 \div 16 = t /\ b4 % 16 = c
  BY <1>c, <1>d, <1>e, <1>f
<1> QED
  BY <1>1, <1>2, <1>3, <1>4, <1>7, <1>8 DEF b3

\* packetheader.decode finds the byte order in which packetheader.encode wrote
\* a version 2 header, never takes one order for the other, and gives the
\* packet id and the type back.
THEOREM PacketHeaderRoundTrip ==
  ASSUME NEW h \in packetheader, h.version = protocolversion
  PROVE  ~badPacketHeader(encodePacket(h)) /\ decodePacket(encodePacket(h)) = h
<1> DEFINE b2 == h.pid \div 256
           b3 == h.pid % 256
           b4 == 240 + h.ptype
           e  == encodePacket(h)
<1>0. /\ h.pid \in UInt16 /\ h.ptype \in 0 .. 15 /\ h.order \in ByteOrder
      /\ h = [version |-> h.version, pid |-> h.pid, ptype |-> h.ptype, order |-> h.order]
  BY DEF packetheader
<1>1. h.pid \in Nat /\ h.version = 2
  <2>1. h.pid \in 0 .. MaxUInt16
    BY <1>0, Zenon DEF UInt16
  <2>2. h.pid \in Nat
    <3>1. MaxUInt16 \in Int
      BY DEF MaxUInt16
    <3> QED
      BY <2>1, <3>1
  <2>3. h.version = 2
    BY Zenon DEF protocolversion
  <2> QED
    BY <2>2, <2>3
<1>2. /\ h.pid \in Nat /\ h.ptype \in Nat /\ h.ptype <= 15
      /\ h.order \in ByteOrder /\ h.version = 2
  BY <1>0, <1>1
<1>3. b2 * 256 + b3 = h.pid
  BY <1>2
<1>4. b4 \div 16 = 15 /\ b4 % 16 = h.ptype /\ b4 # 32
  BY <1>2
<1>5. (h.version * 16) % 256 = 32
  BY <1>2
<1>6. e = Ordered(<<32, b2, b3, b4>>, h.order)
  BY <1>5 DEF encodePacket
<1> HIDE DEF b2, b3, b4, e
<1>7. Ordered(e, h.order) = <<32, b2, b3, b4>>
  BY <1>6, OrderedTwice
<1>8. orderOf(e) = h.order /\ Len(e) = 4
  <2>1. CASE h.order = BigEndian
    <3>1. e = <<32, b2, b3, b4>>
      BY <2>1, <1>6 DEF Ordered
    <3>2. e[1] = 32 /\ e[4] = b4 /\ Len(e) = 4
      BY <3>1
    <3> HIDE DEF b4, e
    <3> QED
      BY <3>2, <2>1, <1>4 DEF orderOf, protocolversion
  <2>2. CASE h.order = LittleEndian
    <3>1. e = <<b4, b3, b2, 32>>
      BY <2>2, <1>6 DEF Ordered, BigEndian, LittleEndian, InvalidOrder
    <3>2. e[1] = b4 /\ e[4] = 32 /\ Len(e) = 4
      BY <3>1
    <3> QED
      BY <3>2, <2>2, <1>4 DEF orderOf, protocolversion
  <2> QED
    BY <2>1, <2>2, <1>2 DEF ByteOrder
<1>9. ~badPacketHeader(e)
  BY <1>2, <1>8 DEF badPacketHeader, ByteOrder, BigEndian, LittleEndian, InvalidOrder
<1>10. decodePacket(e) = [version |-> 2, pid |-> b2 * 256 + b3, ptype |-> b4 % 16,
                          order |-> h.order]
  BY <1>7, <1>8 DEF decodePacket, protocolversion
<1> QED
  BY <1>0, <1>1, <1>3, <1>4, <1>9, <1>10 DEF e

-----------------------------------------------------------------------------
(* What the requests and the packets are made of.                          *)

\* The constants.
LEMMA Constants ==
  /\ NUsers \in Nat \ {0} /\ MaxWords \in 1 .. 255 /\ MaxTransactions \in 1 .. 4096
  /\ IncomingCap \in Nat \ {0} /\ MaxErrors \in Nat
  /\ Menu \in [Users -> Seq(SUBSET Call)]
  /\ Addr \in [Requests -> 0 .. MaxValue - MaxWords] /\ MaxValue \in Nat /\ MaxValue > 255
BY DeliveryAssumption, SMT DEF MaxTransactionID, MaxValue

\* A request is a user and the number of its call.
LEMMA RequestFacts ==
  ASSUME NEW r \in Requests
  PROVE  /\ r = <<r[1], r[2]>> /\ r[1] \in Users /\ r[2] \in 1 .. Len(Menu[r[1]])
         /\ r # NoReq.r
<1>1. PICK u \in Users : r \in {u} \X DOMAIN Menu[u]
  BY DEF Requests
<1>2. Menu[u] \in Seq(SUBSET Call)
  BY Constants
<1>3. DOMAIN Menu[u] = 1 .. Len(Menu[u])
  BY <1>2
<1>4. r = <<r[1], r[2]>> /\ r[1] = u /\ r[2] \in 1 .. Len(Menu[u])
  BY <1>1, <1>3
<1> QED BY <1>4 DEF NoReq, Users

\* And the other way round.
LEMMA RequestMade ==
  ASSUME NEW u \in Users, NEW k \in 1 .. Len(Menu[u])
  PROVE  <<u, k>> \in Requests
<1>1. Menu[u] \in Seq(SUBSET Call)
  BY Constants
<1>2. k \in DOMAIN Menu[u]
  BY <1>1
<1> QED BY <1>2 DEF Requests

-----------------------------------------------------------------------------
(* Bytes.                                                                  *)

\* Where the elements of two joined sequences are.
LEMMA Joined ==
  ASSUME NEW S, NEW a \in Seq(S), NEW b \in Seq(S)
  PROVE  /\ a \o b \in Seq(S)
         /\ Len(a \o b) = Len(a) + Len(b)
         /\ \A i \in 1 .. Len(a) : (a \o b)[i] = a[i]
         /\ \A i \in 1 .. Len(b) : (a \o b)[Len(a) + i] = b[i]
OBVIOUS

\* What comes after the fourth byte does not matter to the header.
LEMMA HeaderFirst ==
  ASSUME NEW b \in Seq(Byte), Len(b) = 4, NEW x \in Seq(Byte), NEW o
  PROVE  /\ decodeTransaction(b \o x, o) = decodeTransaction(b, o)
         /\ orderOf(b \o x) = orderOf(b)
         /\ decodePacket(b \o x).order = decodePacket(b).order
         /\ Len(b \o x) = 4 + Len(x)
<1> DEFINE d == b \o x
<1>1. d[1] = b[1] /\ d[2] = b[2] /\ d[3] = b[3] /\ d[4] = b[4] /\ Len(d) = 4 + Len(x)
  <2>1. Len(d) = Len(b) + Len(x) /\ \A i \in 1 .. Len(b) : d[i] = b[i]
    <3>1. b \in Seq(Byte) /\ x \in Seq(Byte)
      OBVIOUS
    <3>2. \A S : \A u, v \in Seq(S) :
            Len(u \o v) = Len(u) + Len(v) /\ \A i \in 1 .. Len(u) : (u \o v)[i] = u[i]
      BY Joined
    <3> QED BY <3>1, <3>2, Zenon
  <2>2. {1, 2, 3, 4} \subseteq 1 .. Len(b)
    OBVIOUS
  <2> HIDE DEF d
  <2> QED BY <2>1, <2>2
<1> HIDE DEF d
<1>2. orderOf(d) = orderOf(b)
  BY <1>1 DEF orderOf
<1>3. decodePacket(d).order = decodePacket(b).order
  BY <1>2 DEF decodePacket
<1>4. decodeTransaction(d, o) = decodeTransaction(b, o)
  <2>1. /\ Ordered(d, o)[1] = Ordered(b, o)[1] /\ Ordered(d, o)[2] = Ordered(b, o)[2]
        /\ Ordered(d, o)[3] = Ordered(b, o)[3] /\ Ordered(d, o)[4] = Ordered(b, o)[4]
    BY <1>1 DEF Ordered
  <2> QED BY <2>1 DEF decodeTransaction
<1> QED BY <1>1, <1>2, <1>3, <1>4 DEF d

\* Four bytes stay four bytes in either order.
LEMMA OrderedBytes ==
  ASSUME NEW b1 \in Byte, NEW b2 \in Byte, NEW b3 \in Byte, NEW b4 \in Byte, NEW o
  PROVE  /\ Ordered(<<b1, b2, b3, b4>>, o) \in Seq(Byte)
         /\ Len(Ordered(<<b1, b2, b3, b4>>, o)) = 4
BY DEF Ordered

\* The device's header is the one of the request but for the information code.
LEMMA HeaderBack ==
  ASSUME NEW id \in 0 .. MaxTransactionID, NEW words \in Byte, NEW tid \in typeID,
         NEW code \in {Success, BusReadError}, NEW o \in ByteOrder
  PROVE  LET b == inheader(outheader(id, words, tid), code, o)
         IN  /\ b \in Seq(Byte) /\ Len(b) = 4
             /\ decodeTransaction(b, o) = [version |-> protocolversion, id |-> id,
                  words |-> words, tid |-> tid, code |-> code]
<1> DEFINE th == [version |-> protocolversion, id |-> id, words |-> words, tid |-> tid,
                  code |-> code]
           b1 == ((protocolversion * 16) % 256) + ((id \div 256) % 16)
           b2 == id % 256
           q4 == ((tid * 16) % 256) + Request
           b4 == ((tid * 16) % 256) + code
<1>1. /\ tid \in 0 .. 15 /\ code \in 0 .. 15
      /\ id \in Nat /\ id <= 4095
  BY DEF typeID, reads, writes, rmws, read, write, readnoninc, writenoninc, rmwbits,
         rmwsum, Success, BusReadError, MaxTransactionID
<1>2. th \in transactionheader
  BY <1>1 DEF transactionheader, protocolversion
<1>3. outheader(id, words, tid) = Ordered(<<b1, b2, words, q4>>, defaultorder)
  BY DEF outheader, encodeTransaction
<1>4. b1 \in Byte /\ b2 \in Byte /\ b4 \in Byte /\ (q4 \div 16) * 16 + code = b4
  <2>1. b1 \in Byte /\ b2 \in Byte
    BY <1>1 DEF protocolversion, Byte
  <2>2. (tid * 16) % 256 = tid * 16
    BY <1>1
  <2>3. b4 \in Byte
    BY <1>1, <2>2 DEF Byte
  <2>4. q4 = tid * 16 + 15
    BY <2>2 DEF Request
  <2>5. q4 \div 16 = tid
    BY <1>1, <2>4
  <2>6. b4 = tid * 16 + code
    BY <2>2
  <2> HIDE DEF q4, b4
  <2>7. (q4 \div 16) * 16 + code = b4
    BY <2>5, <2>6
  <2> QED BY <2>1, <2>3, <2>7
<1> HIDE DEF b1, b2, b4, q4
<1>5. Ordered(outheader(id, words, tid), defaultorder) = <<b1, b2, words, q4>>
  BY <1>3, OrderedTwice
<1>6. inheader(outheader(id, words, tid), code, o) = Ordered(<<b1, b2, words, b4>>, o)
  BY <1>4, <1>5 DEF inheader
<1>7. encodeTransaction(th, o) = Ordered(<<b1, b2, words, b4>>, o)
  BY DEF encodeTransaction, b1, b2, b4
<1>8. decodeTransaction(encodeTransaction(th, o), o) = th
  BY <1>2, TransactionHeaderRoundTrip
<1> QED BY <1>4, <1>6, <1>7, <1>8, OrderedBytes

\* The words the model tells apart.
Value == 0 .. MaxValue

\* A word is read as it was written.
LEMMA WordBack ==
  ASSUME NEW w \in Value, NEW o \in ByteOrder
  PROVE  /\ wordBytes(w, o) \in Seq(Byte) /\ Len(wordBytes(w, o)) = 4
         /\ uint32(wordBytes(w, o), o) = w
<1> DEFINE b1 == w \div 16777216
           b2 == (w \div 65536) % 256
           b3 == (w \div 256) % 256
           b4 == w % 256
<1>1. w \in Nat /\ w <= 2147483647
  <2>1. MaxValue \in Nat /\ MaxValue <= 2147483647
    BY SMT DEF MaxValue
  <2>2. w \in 0 .. MaxValue
    BY DEF Value
  <2> QED BY <2>1, <2>2, SMT
<1>2. b1 \in Byte /\ b2 \in Byte /\ b3 \in Byte /\ b4 \in Byte
  BY <1>1, SMT DEF Byte
<1>3. b1 * 16777216 + b2 * 65536 + b3 * 256 + b4 = w
  BY <1>1, SMT
<1>4. wordBytes(w, o) = Ordered(<<b1, b2, b3, b4>>, o)
  BY SMT DEF wordBytes
<1> HIDE DEF b1, b2, b3, b4
<1>5. Ordered(wordBytes(w, o), o) = <<b1, b2, b3, b4>>
  BY <1>4, OrderedTwice, SMT
<1> QED BY <1>2, <1>3, <1>4, <1>5, OrderedBytes, SMT DEF uint32

\* So are words one after the other.
LEMMA WordsBack ==
  ASSUME NEW ws \in Seq(Value), NEW o \in ByteOrder
  PROVE  /\ wordsBytes(ws, o) \in Seq(Byte) /\ Len(wordsBytes(ws, o)) = 4 * Len(ws)
         /\ bytes2uint32s(wordsBytes(ws, o), o) = ws
<1> DEFINE n == Len(ws)
           b == wordsBytes(ws, o)
           B(i) == wordBytes(ws[i], o)
<1>1. n \in Nat
  OBVIOUS
<1>2. \A i \in 1 .. n : B(i) \in Seq(Byte) /\ Len(B(i)) = 4 /\ uint32(B(i), o) = ws[i]
  BY WordBack
<1>3. b = [j \in 1 .. 4 * n |-> B(((j - 1) \div 4) + 1)[((j - 1) % 4) + 1]]
  BY DEF wordsBytes
<1> HIDE DEF B, b
<1>4. ASSUME NEW j \in 1 .. 4 * n
      PROVE  b[j] \in Byte
  <2>1. ((j - 1) \div 4) + 1 \in 1 .. n /\ ((j - 1) % 4) + 1 \in 1 .. 4
    BY <1>1
  <2> QED BY <1>2, <1>3, <2>1
<1>5. b \in Seq(Byte) /\ Len(b) = 4 * n
  BY <1>1, <1>3, <1>4
<1>6. ASSUME NEW i \in 1 .. n
      PROVE  SubSeq(b, 4 * i - 3, 4 * i) = B(i)
  <2> DEFINE s == SubSeq(b, 4 * i - 3, 4 * i)
  <2>1. 4 * i - 3 \in 1 .. 4 * n /\ 4 * i \in 1 .. 4 * n /\ Len(s) = 4 /\ s \in Seq(Byte)
    BY <1>1, <1>5
  <2>2. ASSUME NEW k \in 1 .. 4 PROVE s[k] = B(i)[k]
    <3> DEFINE j == 4 * i - 4 + k
               a == ((j - 1) \div 4) + 1
               c == ((j - 1) % 4) + 1
    <3>1. s[k] = b[j]
      BY <1>1, <1>5, <2>1
    <3>2. j \in 1 .. 4 * n /\ a = i /\ c = k
      BY <1>1
    <3> HIDE DEF j
    <3>3. b[j] = B(a)[c]
      BY <1>3, <3>2
    <3> HIDE DEF a, c
    <3> QED BY <3>1, <3>2, <3>3
  <2> HIDE DEF s
  <2>3. B(i) \in Seq(Byte) /\ Len(B(i)) = Len(s)
    BY <1>2, <2>1
  <2>4. \A k \in 1 .. Len(s) : s[k] = B(i)[k]
    BY <2>1, <2>2
  <2>5. s = B(i)
    BY <2>1, <2>3, <2>4, SeqEqual
  <2> QED BY <2>5 DEF s
<1>7. Len(b) \div 4 = n
  BY <1>1, <1>5
<1>8. bytes2uint32s(b, o) = [i \in 1 .. n |-> ws[i]]
  BY <1>2, <1>6, <1>7 DEF bytes2uint32s
<1> QED BY <1>5, <1>8 DEF b

\* What is left when the first part is taken off.
LEMMA AfterFirst ==
  ASSUME NEW S, NEW a \in Seq(S), NEW b \in Seq(S)
  PROVE  SubSeq(a \o b, Len(a) + 1, Len(a \o b)) = b
<1> DEFINE c == a \o b
           n == Len(a)
           m == Len(b)
           s == SubSeq(c, n + 1, n + m)
<1>1. /\ n \in Nat /\ m \in Nat /\ c \in Seq(S) /\ Len(c) = n + m
      /\ \A i \in 1 .. m : c[n + i] = b[i]
  BY Joined
<1> HIDE DEF c, n, m
<1>2. s \in Seq(S) /\ Len(s) = m /\ \A i \in 1 .. m : s[i] = c[n + i]
  BY <1>1
<1> HIDE DEF s
<1>3. Len(s) = Len(b) /\ \A i \in 1 .. Len(s) : s[i] = b[i]
  BY <1>1, <1>2 DEF m
<1>4. s = b
  BY <1>2, <1>3, SeqEqual
<1> QED BY <1>1, <1>4 DEF s, c, n

\* The part between the first and the last one.
LEMMA Middle ==
  ASSUME NEW S, NEW a \in Seq(S), NEW w \in Seq(S), NEW x \in Seq(S)
  PROVE  SubSeq((a \o w) \o x, Len(a) + 1, Len(a) + Len(w)) = w
<1> DEFINE c == a \o w
           d == c \o x
           n == Len(a)
           m == Len(w)
           s == SubSeq(d, n + 1, n + m)
<1>1. c \in Seq(S) /\ Len(c) = n + m /\ \A i \in 1 .. m : c[n + i] = w[i]
  BY Joined
<1> HIDE DEF c
<1>2. /\ d \in Seq(S) /\ Len(d) = Len(c) + Len(x)
      /\ \A i \in 1 .. Len(c) : d[i] = c[i]
  <2>1. c \in Seq(S)
    BY <1>1
  <2> QED BY <2>1, Joined
<1>3. n \in Nat /\ m \in Nat /\ Len(x) \in Nat
  OBVIOUS
<1> HIDE DEF d, n, m
<1>4. s \in Seq(S) /\ Len(s) = m /\ \A i \in 1 .. m : s[i] = d[n + i]
  BY <1>1, <1>2, <1>3
<1> HIDE DEF s
<1>5. \A i \in 1 .. m : n + i \in 1 .. n + m
  BY <1>3
<1>6. Len(s) = Len(w) /\ \A i \in 1 .. Len(s) : s[i] = w[i]
  BY <1>1, <1>2, <1>4, <1>5 DEF m
<1>7. s = w
  BY <1>4, <1>6, SeqEqual
<1> QED BY <1>7 DEF s, d, c, n, m

\* What is known of a transaction: its request was made, it has its words within
\* the request, and a read-modify-write has one.
Sound(t) ==
  /\ t \in transaction /\ call(t.r) \in Call
  /\ t.index + t.words <= MaxWords
  /\ call(t.r).tid \in rmws => t.words = 1

\* A transaction's word count fits its header.
LEMMA SoundWords ==
  ASSUME NEW t, Sound(t)
  PROVE  t.words \in Byte /\ t.words \in Nat /\ call(t.r).tid \in typeID
<1>1. t.words \in 0 .. MaxWords /\ call(t.r).tid \in typeID
  BY DEF Sound, transaction, Call
<1>2. MaxWords \in 1 .. 255
  BY Constants
<1> QED BY <1>1, <1>2 DEF Byte

\* The device answers with words.
LEMMA WantedWords ==
  ASSUME NEW t, Sound(t)
  PROVE  /\ Wanted(t) \in Seq(Value)
         /\ Len(Wanted(t)) = IF call(t.r).tid \in writes THEN 0 ELSE t.words
<1>1. /\ t.r \in Requests /\ t.words \in 0 .. MaxWords /\ t.index \in 0 .. MaxWords
      /\ t.index + t.words <= MaxWords
  BY DEF Sound, transaction
<1>2. Addr[t.r] \in 0 .. MaxValue - MaxWords /\ MaxValue \in Nat /\ MaxWords \in Nat
  BY <1>1, Constants
<1>3. CASE call(t.r).tid \in writes
  BY <1>3 DEF Wanted
<1>4. CASE call(t.r).tid \notin writes
  <2> DEFINE v(j) == Addr[t.r] + IF call(t.r).tid = read THEN t.index + j - 1 ELSE 0
  <2>1. \A j \in 1 .. t.words : v(j) \in Value
    BY <1>1, <1>2 DEF Value
  <2>2. Wanted(t) = [j \in 1 .. t.words |-> v(j)]
    BY <1>4 DEF Wanted
  <2> HIDE DEF v
  <2> QED BY <1>1, <1>2, <1>4, <2>1, <2>2
<1> QED BY <1>3, <1>4

\* parse finds the answer to transaction t in front of the rest x of the reply.
Taken(d, t, id, code, o, x) ==
  LET th == decodeTransaction(d, o)
  IN  /\ d \in Seq(Byte) /\ Len(d) >= 4
      /\ th.id = id /\ th.code = code /\ skipped(th) \in 4 .. Len(d)
      /\ SubSeq(d, skipped(th) + 1, Len(d)) = x
      /\ code = Success => SubSeq(d, 5, skipped(th)) = wordsBytes(Wanted(t), o)

\* It takes it off the reply, all of it and nothing of the next one, and finds
\* the words.
LEMMA Answering ==
  ASSUME NEW t, Sound(t), NEW id \in 0 .. MaxTransactionID,
         NEW code \in {Success, BusReadError}, NEW o \in ByteOrder, NEW x \in Seq(Byte)
  PROVE  Taken(answer(t, id, code, o) \o x, t, id, code, o, x)
<1> DEFINE b  == inheader(outheader(id, t.words, call(t.r).tid), code, o)
           ws == IF code = Success THEN Wanted(t) ELSE <<>>
           w  == wordsBytes(ws, o)
           a  == answer(t, id, code, o)
           d  == a \o x
           th == decodeTransaction(d, o)
<1>1. t.words \in Byte /\ t.words \in Nat /\ call(t.r).tid \in typeID
  BY SoundWords
<1>2. /\ b \in Seq(Byte) /\ Len(b) = 4
      /\ decodeTransaction(b, o) = [version |-> protocolversion, id |-> id,
           words |-> t.words, tid |-> call(t.r).tid, code |-> code]
  BY <1>1, HeaderBack
<1>3. a = b \o w
  BY DEF answer
<1>4. ws \in Seq(Value)
  BY WantedWords
<1>5. w \in Seq(Byte) /\ Len(w) = 4 * Len(ws)
  BY <1>4, WordsBack
<1> HIDE DEF b, ws, w
<1>6. a \in Seq(Byte) /\ Len(a) = 4 + Len(w)
  <2>1. b \in Seq(Byte) /\ w \in Seq(Byte)
    BY <1>2, <1>5
  <2>2. b \o w \in Seq(Byte) /\ Len(b \o w) = Len(b) + Len(w)
    BY <2>1, Joined
  <2> QED BY <1>2, <1>3, <2>2
<1> HIDE DEF a
<1>7. d \in Seq(Byte) /\ Len(d) = Len(a) + Len(x)
  BY <1>6, Joined
<1>8. th = decodeTransaction(b, o)
  <2>1. d = b \o (w \o x)
    <3>1. b \in Seq(Byte) /\ w \in Seq(Byte)
      BY <1>2, <1>5
    <3>2. (b \o w) \o x = b \o (w \o x)
      BY <3>1, ConcatAssociative
    <3> QED BY <1>3, <3>2
  <2>2. w \o x \in Seq(Byte)
    BY <1>5, Joined
  <2> HIDE DEF d
  <2> QED BY <1>2, <2>1, <2>2, HeaderFirst
<1> HIDE DEF d, th
<1>9. th.id = id /\ th.code = code /\ th.words = t.words /\ th.tid = call(t.r).tid
  BY <1>2, <1>8
<1>10. skipped(th) = Len(a)
  <2>1. CASE code = Success
    <3>1. Len(ws) = IF call(t.r).tid \in writes THEN 0 ELSE t.words
      BY <2>1, WantedWords DEF ws
    <3>2. payload(th) = Len(ws)
      BY <1>1, <1>9, <3>1 DEF payload, Sound, typeID, reads, writes, rmws, read, write,
                             readnoninc, writenoninc, rmwbits, rmwsum
    <3> QED BY <1>5, <1>6, <1>9, <2>1, <3>2 DEF skipped
  <2>2. CASE code # Success
    <3>1. Len(ws) = 0
      BY <2>2 DEF ws
    <3> QED BY <1>5, <1>6, <1>9, <2>2, <3>1 DEF skipped
  <2> QED BY <2>1, <2>2
<1>11. Len(w) \in Nat /\ Len(x) \in Nat
  BY <1>5
<1>12. skipped(th) \in 4 .. Len(d) /\ Len(d) >= 4
  BY <1>6, <1>7, <1>10, <1>11
<1>13. SubSeq(d, skipped(th) + 1, Len(d)) = x
  BY <1>6, <1>10, AfterFirst DEF d
<1>14. SubSeq(d, 5, skipped(th)) = w
  <2>1. b \in Seq(Byte) /\ w \in Seq(Byte)
    BY <1>2, <1>5
  <2>2. SubSeq((b \o w) \o x, Len(b) + 1, Len(b) + Len(w)) = w
    BY <2>1, Middle
  <2> QED BY <1>2, <1>3, <1>6, <1>10, <2>2 DEF d
<1>15. code = Success => w = wordsBytes(Wanted(t), o)
  BY DEF w, ws
<1> QED BY <1>7, <1>9, <1>12, <1>13, <1>14, <1>15 DEF Taken, d, th, a

-----------------------------------------------------------------------------
(* The reply of the device, from the i-th answer on.                       *)

\* Induction up to n, for a set.
LEMMA UpTo ==
  ASSUME NEW n \in Nat, NEW T, 0 \in T, \A m \in 0 .. n - 1 : m \in T => m + 1 \in T
  PROVE  0 .. n \subseteq T
<1> DEFINE bad == (0 .. n) \ T
<1> SUFFICES ASSUME bad # {} PROVE FALSE
  OBVIOUS
<1>1. bad \subseteq Nat
  OBVIOUS
<1>2. PICK m \in bad : \A j \in bad : ~(<<j, m>> \in OpToRel(<, Nat))
  BY <1>1, NatLessThanWellFounded, WFMin
<1>3. m \in 0 .. n /\ m \notin T /\ m # 0
  OBVIOUS
<1>4. m - 1 \in 0 .. n - 1 /\ m - 1 < m /\ (m - 1) + 1 = m /\ m \in Nat /\ m - 1 \in Nat
  BY <1>3
<1>5. m - 1 \in T
  <2> SUFFICES ASSUME m - 1 \notin T PROVE FALSE
    OBVIOUS
  <2>1. m - 1 \in bad
    BY <1>4
  <2>2. <<m - 1, m>> \in OpToRel(<, Nat)
    BY <1>4 DEF OpToRel
  <2> QED BY <1>2, <2>1, <2>2
<1>6. (m - 1) + 1 \in T
  BY <1>4, <1>5
<1> QED BY <1>3, <1>4, <1>6

\* f[i] is what is left of the reply when i - 1 answers have been taken off it.
Layout(f, ts, codes, o) ==
  /\ f \in [1 .. Len(codes) + 1 -> Seq(Byte)]
  /\ f[Len(codes) + 1] = <<>>
  /\ \A i \in 1 .. Len(codes) : f[i] = answer(ts[i], i - 1, codes[i], o) \o f[i + 1]

\* The ids of the transactions of a packet fit their header.
LEMMA TransactionIds ==
  ASSUME NEW n \in Nat, n <= MaxTransactions, NEW i \in 1 .. n
  PROVE  i - 1 \in 0 .. MaxTransactionID
<1>1. MaxTransactions \in 1 .. 4096
  BY Constants
<1> QED BY <1>1 DEF MaxTransactionID

\* The answers of the device are laid out like that.
LEMMA AnswersLaidOut ==
  ASSUME NEW ts, NEW codes \in Seq({Success, BusReadError}), NEW o \in ByteOrder,
         Len(codes) <= MaxTransactions, \A i \in 1 .. Len(codes) : Sound(ts[i])
  PROVE  \E f : Layout(f, ts, codes, o) /\ answers(ts, codes, o) = f[1]
<1> DEFINE n == Len(codes)
           A(i) == answer(ts[i], i - 1, codes[i], o)
           Step(g, i) == IF i > n THEN <<>> ELSE A(i) \o g[i + 1]
           Rec(g, k) == g = [i \in k .. n + 1 |-> Step(g, i)]
           f == CHOOSE g : Rec(g, 1)
<1>1. n \in Nat
  OBVIOUS
<1>2. answers(ts, codes, o) = f[1]
  BY DEF answers
<1>3. ASSUME NEW i \in 1 .. n, NEW x \in Seq(Byte) PROVE A(i) \o x \in Seq(Byte)
  <2>1. i - 1 \in 0 .. MaxTransactionID
    <3>1. MaxTransactions \in 1 .. 4096 /\ n <= MaxTransactions
      BY Constants
    <3> HIDE DEF n
    <3> QED BY <1>1, <3>1, TransactionIds
  <2>2. Sound(ts[i]) /\ codes[i] \in {Success, BusReadError}
    OBVIOUS
  <2> QED BY <2>1, <2>2, Answering DEF Taken
<1> HIDE DEF n, A
<1>4. \E g : Rec(g, 1)
  <2> DEFINE T == {m \in 0 .. n : \E g : Rec(g, n + 1 - m)}
  <2>1. 0 \in T
    <3> DEFINE g == [i \in n + 1 .. n + 1 |-> <<>>]
    <3>1. \A i \in n + 1 .. n + 1 : i > n
      BY <1>1
    <3>2. g = [i \in n + 1 .. n + 1 |-> Step(g, i)]
      BY <3>1
    <3>3. \E e : Rec(e, n + 1)
      BY <3>2
    <3> QED BY <1>1, <3>3
  <2>2. ASSUME NEW m \in 0 .. n - 1, m \in T PROVE m + 1 \in T
    <3> DEFINE k == n + 1 - m
    <3>1. PICK g : Rec(g, k)
      BY <2>2
    <3>2. k \in 2 .. n + 1 /\ n + 1 - (m + 1) = k - 1 /\ k - 1 \in 1 .. n /\ m + 1 \in 0 .. n
      BY <1>1
    <3> HIDE DEF k
    <3> DEFINE e == [i \in k - 1 .. n + 1 |-> IF i = k - 1 THEN A(i) \o g[i + 1] ELSE g[i]]
    <3>3. ASSUME NEW i \in k - 1 .. n + 1 PROVE e[i] = Step(e, i)
      <4>1. CASE i = k - 1
        <5>1. k \in k - 1 .. n + 1 /\ k # k - 1 /\ i + 1 = k /\ ~(i > n)
          BY <1>1, <3>2, <4>1
        <5>2. e[i] = A(i) \o g[k] /\ e[k] = g[k]
          BY <4>1, <5>1
        <5> HIDE DEF e
        <5> QED BY <5>1, <5>2
      <4>2. CASE i # k - 1
        <5>1. i \in k .. n + 1
          BY <1>1, <3>2, <4>2
        <5>2. e[i] = g[i]
          BY <4>2
        <5>3. g[i] = Step(g, i)
          BY <3>1, <5>1
        <5>4. CASE i > n
          BY <5>2, <5>3, <5>4
        <5>5. CASE ~(i > n)
          <6>1. i + 1 \in k - 1 .. n + 1 /\ i + 1 # k - 1
            BY <1>1, <3>2, <5>1, <5>5
          <6>2. e[i + 1] = g[i + 1]
            BY <6>1
          <6> HIDE DEF e
          <6> QED BY <5>2, <5>3, <5>5, <6>2
        <5> QED BY <5>4, <5>5
      <4> QED BY <4>1, <4>2
    <3>4. e = [i \in k - 1 .. n + 1 |-> Step(e, i)]
      <4>1. e = [i \in k - 1 .. n + 1 |-> e[i]]
        OBVIOUS
      <4> HIDE DEF e
      <4> QED BY <3>3, <4>1
    <3>5. \E y : Rec(y, k - 1)
      <4> HIDE DEF e
      <4> QED BY <3>4
    <3> HIDE DEF Rec
    <3> QED BY <3>2, <3>5
  <2> HIDE DEF T
  <2>3. n \in T
    <3>1. 0 .. n \subseteq T
      BY <1>1, <2>1, <2>2, UpTo
    <3> QED BY <1>1, <3>1
  <2>4. n + 1 - n = 1
    BY <1>1
  <2> HIDE DEF Rec
  <2> QED BY <2>3, <2>4 DEF T
<1>5. Rec(f, 1)
  <2> HIDE DEF Rec
  <2> QED BY <1>4
<1> HIDE DEF f
<1>6. /\ f = [i \in 1 .. n + 1 |-> f[i]]
      /\ f[n + 1] = <<>>
      /\ \A i \in 1 .. n : f[i] = A(i) \o f[i + 1]
  <2>1. \A i \in 1 .. n + 1 : f[i] = Step(f, i)
    BY <1>5
  <2>2. f = [i \in 1 .. n + 1 |-> f[i]]
    BY <1>5, <2>1
  <2>3. n + 1 \in 1 .. n + 1 /\ n + 1 > n /\ \A i \in 1 .. n : i \in 1 .. n + 1 /\ ~(i > n)
    BY <1>1
  <2> QED BY <2>1, <2>2, <2>3
<1>7. \A i \in 1 .. n + 1 : f[i] \in Seq(Byte)
  <2> DEFINE T == {m \in 0 .. n : f[n + 1 - m] \in Seq(Byte)}
  <2>1. 0 \in T
    <3>1. n + 1 - 0 = n + 1 /\ 0 \in 0 .. n
      BY <1>1
    <3>2. f[n + 1] \in Seq(Byte)
      <4>1. f[n + 1] = <<>>
        BY <1>6
      <4> QED BY <4>1
    <3> QED BY <3>1, <3>2
  <2>2. ASSUME NEW m \in 0 .. n - 1, m \in T PROVE m + 1 \in T
    <3> DEFINE k == n + 1 - m
    <3>1. k - 1 \in 1 .. n /\ (k - 1) + 1 = k /\ n + 1 - (m + 1) = k - 1 /\ m + 1 \in 0 .. n
      BY <1>1
    <3>2. f[k] \in Seq(Byte)
      BY <2>2
    <3> HIDE DEF k
    <3>3. f[k - 1] \in Seq(Byte)
      BY <1>3, <1>6, <3>1, <3>2
    <3> QED BY <3>1, <3>3
  <2> HIDE DEF T
  <2>3. 0 .. n \subseteq T
    BY <1>1, <2>1, <2>2, UpTo
  <2> SUFFICES ASSUME NEW i \in 1 .. n + 1 PROVE f[i] \in Seq(Byte)
    OBVIOUS
  <2>4. n + 1 - i \in 0 .. n /\ n + 1 - (n + 1 - i) = i
    BY <1>1
  <2>5. n + 1 - i \in T
    BY <2>3, <2>4
  <2> QED BY <2>4, <2>5 DEF T
<1>8. Layout(f, ts, codes, o)
  BY <1>6, <1>7 DEF Layout, n, A
<1> QED BY <1>2, <1>8

-----------------------------------------------------------------------------
(* The packets on their way, from the one being answered to the one being  *)
(* filled: what parse and send work on, tosend, and the others in line.    *)

Line == (flying \o incoming) \o (tohw \o packs)

Packet(ts, ln, i) == IF i = 0 THEN ts ELSE ln[i]

\* Transaction t has not been answered.
Waits(t, ts, ln) ==
  \E i \in 0 .. Len(ln) : \E j \in 1 .. Len(Packet(ts, ln, i)) : Packet(ts, ln, i)[j] = t

\* Where the words of a transaction end within its request.
End(t) == t.index + t.words

\* The transactions of a request are on their way in the order of its words.
InTurn(ts, ln) ==
  \A i, k \in 0 .. Len(ln) :
    \A j \in 1 .. Len(Packet(ts, ln, i)), l \in 1 .. Len(Packet(ts, ln, k)) :
      /\ i < k \/ (i = k /\ j < l)
      /\ Packet(ts, ln, i)[j].r = Packet(ts, ln, k)[l].r
      => End(Packet(ts, ln, i)[j]) <= Packet(ts, ln, k)[l].index

\* No packet has more transactions than it has room for.
Sized(ts, ln) == \A i \in 0 .. Len(ln) : Len(Packet(ts, ln, i)) <= MaxTransactions

\* The head of a queue goes to the end of the queue in front of it.
LEMMA Handover ==
  ASSUME NEW S, NEW a \in Seq(S), NEW b \in Seq(S), b # <<>>
  PROVE  Append(a, Head(b)) \o Tail(b) = a \o b
<1> DEFINE x == Head(b)
           t == Tail(b)
<1>1. x \in S /\ t \in Seq(S) /\ <<x>> \in Seq(S) /\ b = <<x>> \o t
  OBVIOUS
<1> HIDE DEF x, t
<1>2. (a \o <<x>>) \o t = a \o (<<x>> \o t)
  BY <1>1, ConcatAssociative
<1>3. Append(a, x) = a \o <<x>>
  BY <1>1, AppendIsConcat
<1> QED BY <1>1, <1>2, <1>3 DEF x, t

\* The head of two joined queues is that of the first.
LEMMA TailJoined ==
  ASSUME NEW S, NEW a \in Seq(S), NEW b \in Seq(S), a # <<>>
  PROVE  Head(a \o b) = Head(a) /\ Tail(a \o b) = Tail(a) \o b /\ a \o b # <<>>
<1> DEFINE x == Head(a)
           t == Tail(a)
           c == t \o b
<1>1. x \in S /\ t \in Seq(S) /\ <<x>> \in Seq(S) /\ a = <<x>> \o t
  OBVIOUS
<1>2. c \in Seq(S)
  BY <1>1
<1> HIDE DEF x, t
<1>3. a \o b = <<x>> \o c
  BY <1>1, ConcatAssociative
<1> HIDE DEF c
<1>4. Head(<<x>> \o c) = x /\ Tail(<<x>> \o c) = c /\ <<x>> \o c # <<>>
  BY <1>1, <1>2
<1> QED BY <1>3, <1>4 DEF x, t, c

\* The last element of two joined queues is that of the second.
LEMMA LastJoined ==
  ASSUME NEW S, NEW a \in Seq(S), NEW b \in Seq(S), NEW x \in S
  PROVE  /\ a \o Append(b, x) = Append(a \o b, x)
         /\ b # <<>> => /\ (a \o b)[Len(a \o b)] = b[Len(b)] /\ a \o b # <<>>
                        /\ a \o [b EXCEPT ![Len(b)] = x]
                             = [(a \o b) EXCEPT ![Len(a \o b)] = x]
<1>1. a \o Append(b, x) = Append(a \o b, x)
  <2>1. <<x>> \in Seq(S) /\ a \o b \in Seq(S)
    OBVIOUS
  <2>2. a \o (b \o <<x>>) = (a \o b) \o <<x>>
    BY <2>1, ConcatAssociative
  <2> QED BY <2>1, <2>2, AppendIsConcat
<1>2. ASSUME b # <<>>
      PROVE  /\ (a \o b)[Len(a \o b)] = b[Len(b)] /\ a \o b # <<>>
             /\ a \o [b EXCEPT ![Len(b)] = x] = [(a \o b) EXCEPT ![Len(a \o b)] = x]
  <2> DEFINE n == Len(a)
             m == Len(b)
             c == a \o b
             e == [b EXCEPT ![m] = x]
             d == a \o e
             f == [c EXCEPT ![n + m] = x]
  <2>1. n \in Nat /\ m \in Nat \ {0}
    BY <1>2
  <2>2. e \in Seq(S) /\ Len(e) = m /\ \A i \in 1 .. m : e[i] = IF i = m THEN x ELSE b[i]
    BY <2>1, ExceptSeq
  <2>3. /\ c \in Seq(S) /\ Len(c) = n + m
        /\ \A i \in 1 .. n : c[i] = a[i]
        /\ \A i \in 1 .. m : c[n + i] = b[i]
    BY Joined
  <2> HIDE DEF e
  <2>4. e \in Seq(S)
    BY <2>2
  <2>5. /\ d \in Seq(S) /\ Len(d) = n + Len(e)
        /\ \A i \in 1 .. n : d[i] = a[i]
        /\ \A i \in 1 .. Len(e) : d[n + i] = e[i]
    BY <2>4, Joined
  <2> HIDE DEF n, m, c, d
  <2>6. /\ f \in Seq(S) /\ Len(f) = n + m
        /\ \A i \in 1 .. n + m : f[i] = IF i = n + m THEN x ELSE c[i]
    BY <2>1, <2>3
  <2> HIDE DEF f
  <2>7. ASSUME NEW i \in 1 .. Len(d) PROVE d[i] = f[i]
    <3>1. i \in 1 .. n + m
      BY <2>2, <2>5
    <3>2. CASE i <= n
      <4>1. i \in 1 .. n /\ i # n + m
        BY <2>1, <3>1, <3>2
      <4> QED BY <2>3, <2>5, <2>6, <3>1, <4>1
    <3>3. CASE i > n
      <4>1. i - n \in 1 .. m /\ n + (i - n) = i /\ (i - n = m <=> i = n + m)
        BY <2>1, <3>1, <3>3
      <4>2. d[i] = e[i - n] /\ c[i] = b[i - n]
        BY <2>2, <2>3, <2>5, <4>1
      <4> QED BY <2>2, <2>6, <3>1, <4>1, <4>2
    <3> QED BY <2>1, <3>1, <3>2, <3>3
  <2>8. d = f
    BY <2>2, <2>5, <2>6, <2>7, SeqEqual
  <2>9. c[n + m] = b[m] /\ c # <<>>
    <3>1. m \in 1 .. m /\ n + m # 0
      BY <2>1
    <3>2. c # <<>>
      BY <2>3, <3>1
    <3> QED BY <2>3, <3>1, <3>2
  <2> QED BY <2>3, <2>8, <2>9 DEF c, d, e, f, n, m
<1> QED BY <1>1, <1>2

\* preparepackets begins a packet: nothing waits in it yet.
LEMMA PacketBegun ==
  ASSUME NEW ts \in Seq(transaction), NEW ln \in Seq(Seq(transaction))
  PROVE  LET new == Append(ln, <<>>)
         IN  /\ \A x : Waits(x, ts, new) <=> Waits(x, ts, ln)
             /\ InTurn(ts, ln) => InTurn(ts, new)
             /\ Sized(ts, ln) => Sized(ts, new)
<1> DEFINE new == Append(ln, <<>>)
           n == Len(ln)
<1>1. n \in Nat /\ Len(new) = n + 1
  OBVIOUS
<1>2. \A i \in 0 .. n : Packet(ts, new, i) = Packet(ts, ln, i)
  BY DEF Packet
<1>3. Len(Packet(ts, new, n + 1)) = 0
  BY <1>1 DEF Packet
<1>4. \A i \in 0 .. n + 1 : i \in 0 .. n \/ i = n + 1
  BY <1>1
<1>5. \A i \in 0 .. n : i \in 0 .. n + 1
  BY <1>1
<1>6. \A j : j \notin 1 .. 0
  OBVIOUS
<1>7. MaxTransactions \in Nat /\ 0 <= MaxTransactions
  BY Constants
<1> HIDE DEF new, n
<1>8. \A x : Waits(x, ts, new) <=> Waits(x, ts, ln)
  BY <1>1, <1>2, <1>3, <1>4, <1>5, <1>6 DEF Waits, n
<1>9. InTurn(ts, ln) => InTurn(ts, new)
  BY <1>1, <1>2, <1>3, <1>4, <1>5, <1>6 DEF InTurn, n
<1>10. Sized(ts, ln) => Sized(ts, new)
  BY <1>1, <1>2, <1>3, <1>4, <1>7 DEF Sized, n
<1> QED BY <1>8, <1>9, <1>10 DEF new

\* Run starts on the reply to the first packet in line.
LEMMA PacketStarted ==
  ASSUME NEW ln \in Seq(Seq(transaction)), ln # <<>>
  PROVE  /\ \A x : Waits(x, Head(ln), Tail(ln)) <=> Waits(x, <<>>, ln)
         /\ InTurn(<<>>, ln) => InTurn(Head(ln), Tail(ln))
         /\ Sized(<<>>, ln) => Sized(Head(ln), Tail(ln))
<1> DEFINE n == Len(ln)
           new == Tail(ln)
           P(i) == Packet(<<>>, ln, i)
           Q(i) == Packet(Head(ln), new, i)
<1>1. n \in Nat \ {0} /\ Len(new) = n - 1
  OBVIOUS
<1>2. \A i \in 0 .. n - 1 : Q(i) = P(i + 1)
  <2> SUFFICES ASSUME NEW i \in 0 .. n - 1 PROVE Q(i) = P(i + 1)
    OBVIOUS
  <2>1. i + 1 # 0 /\ i + 1 \in 1 .. n
    BY <1>1
  <2>2. CASE i = 0
    BY <2>1, <2>2 DEF Packet
  <2>3. CASE i # 0
    <3>1. i \in 1 .. n - 1
      BY <1>1, <2>3
    <3>2. new[i] = ln[i + 1]
      BY <3>1
    <3> QED BY <2>1, <2>3, <3>2 DEF Packet
  <2> QED BY <2>2, <2>3
<1>3. Len(P(0)) = 0
  BY DEF Packet
<1>4. \A i \in 0 .. n : i = 0 \/ (i - 1 \in 0 .. n - 1 /\ (i - 1) + 1 = i)
  BY <1>1
<1>5. \A i \in 0 .. n - 1 : i + 1 \in 0 .. n
  BY <1>1
<1>6. \A j : j \notin 1 .. 0
  OBVIOUS
<1>7. /\ \A x : Waits(x, <<>>, ln) <=> \E i \in 0 .. n : \E j \in 1 .. Len(P(i)) : P(i)[j] = x
      /\ \A x : Waits(x, Head(ln), new)
                  <=> \E i \in 0 .. n - 1 : \E j \in 1 .. Len(Q(i)) : Q(i)[j] = x
  BY <1>1 DEF Waits
<1>8. ASSUME InTurn(<<>>, ln) PROVE InTurn(Head(ln), new)
  <2> SUFFICES ASSUME NEW i \in 0 .. n - 1, NEW k \in 0 .. n - 1,
                      NEW j \in 1 .. Len(Q(i)), NEW l \in 1 .. Len(Q(k)),
                      i < k \/ (i = k /\ j < l), Q(i)[j].r = Q(k)[l].r
               PROVE  End(Q(i)[j]) <= Q(k)[l].index
    BY <1>1 DEF InTurn
  <2>1. Q(i) = P(i + 1) /\ Q(k) = P(k + 1)
    BY <1>2
  <2>2. i + 1 < k + 1 \/ (i + 1 = k + 1 /\ j < l)
    BY <1>1
  <2>3. i + 1 \in 0 .. n /\ k + 1 \in 0 .. n
    BY <1>1
  <2> QED BY <1>8, <2>1, <2>2, <2>3 DEF InTurn
<1>9. Sized(<<>>, ln) => Sized(Head(ln), new)
  BY <1>1, <1>2, <1>5 DEF Sized
<1> HIDE DEF P, Q, n, new
<1>10. \A x : Waits(x, Head(ln), new) <=> Waits(x, <<>>, ln)
  BY <1>2, <1>3, <1>4, <1>5, <1>6, <1>7
<1> QED BY <1>8, <1>9, <1>10 DEF new

\* preparepackets adds transaction t to the last packet in line, or in a new one.
Adds(ln, t, new) ==
  \/ new = Append(ln, <<t>>)
  \/ /\ ln # <<>> /\ Len(ln[Len(ln)]) < MaxTransactions
     /\ new = [ln EXCEPT ![Len(ln)] = Append(@, t)]

\* Its place is the q-th of packet p, the last; the others keep theirs.
Place(ts, ln, t, new, p, q) ==
  /\ p \in Nat /\ q \in Nat \ {0}
  /\ p \in 0 .. Len(new) /\ Len(Packet(ts, new, p)) = q
  /\ Packet(ts, new, p)[q] = t
  /\ Len(new) \in Nat /\ p = Len(new) /\ q <= MaxTransactions
  /\ \A i \in 0 .. Len(ln) : i \in 0 .. Len(new)
  /\ \A i \in 0 .. Len(new) : i # p =>
       i \in 0 .. Len(ln) /\ Packet(ts, new, i) = Packet(ts, ln, i)
  /\ \A j \in 1 .. q - 1 : /\ p \in 0 .. Len(ln) /\ j \in 1 .. Len(Packet(ts, ln, p))
                           /\ Packet(ts, new, p)[j] = Packet(ts, ln, p)[j]
  /\ p \in 0 .. Len(ln) => Len(Packet(ts, ln, p)) = q - 1

\* It has such a place.
LEMMA PlaceAdded ==
  ASSUME NEW ts \in Seq(transaction), NEW ln \in Seq(Seq(transaction)),
         NEW t \in transaction, NEW new, Adds(ln, t, new)
  PROVE  \E p, q : Place(ts, ln, t, new, p, q)
<1> DEFINE n == Len(ln)
<1>0. n \in Nat /\ MaxTransactions \in Nat /\ MaxTransactions >= 1
  BY Constants
<1>1. CASE new = Append(ln, <<t>>)
  <2>1. /\ Len(new) = n + 1 /\ new[n + 1] = <<t>>
        /\ \A i \in 1 .. n : new[i] = ln[i]
    BY <1>1
  <2> HIDE DEF n
  <2>2. Packet(ts, new, n + 1) = <<t>>
    BY <1>0, <2>1 DEF Packet
  <2>3. Len(<<t>>) = 1 /\ <<t>>[1] = t
    OBVIOUS
  <2>4. ASSUME NEW i \in 0 .. n + 1, i # n + 1
        PROVE  i \in 0 .. n /\ Packet(ts, new, i) = Packet(ts, ln, i)
    <3>1. i \in 0 .. n /\ (i # 0 => i \in 1 .. n)
      BY <1>0, <2>4
    <3> QED BY <2>1, <3>1 DEF Packet
  <2>5. n + 1 \in Nat /\ n + 1 \in 0 .. n + 1 /\ n + 1 \notin 0 .. n /\ 1 .. 1 - 1 = {}
        /\ \A i \in 0 .. n : i \in 0 .. n + 1
    BY <1>0
  <2>6. Place(ts, ln, t, new, n + 1, 1)
    BY <1>0, <2>1, <2>2, <2>3, <2>4, <2>5 DEF n, Place
  <2> QED BY <2>6
<1>2. CASE /\ ln # <<>> /\ Len(ln[n]) < MaxTransactions
           /\ new = [ln EXCEPT ![n] = Append(ln[n], t)]
  <2> DEFINE q == Len(ln[n]) + 1
  <2>1. n \in 1 .. n /\ n # 0 /\ n \in 0 .. n
    BY <1>0, <1>2
  <2>2. ln[n] \in Seq(transaction)
    BY <2>1
  <2>3. /\ q \in Nat \ {0} /\ Len(Append(ln[n], t)) = q /\ Append(ln[n], t)[q] = t
        /\ \A j \in 1 .. q - 1 : j \in 1 .. Len(ln[n]) /\ Append(ln[n], t)[j] = ln[n][j]
        /\ Append(ln[n], t) \in Seq(transaction)
    BY <2>2
  <2>4. /\ Len(new) = n /\ new[n] = Append(ln[n], t)
        /\ \A i \in 1 .. n : i # n => new[i] = ln[i]
    BY <1>2, <2>1, <2>3, ExceptSeq
  <2>5. q <= MaxTransactions /\ q - 1 = Len(ln[n])
    BY <1>0, <1>2, <2>2
  <2> HIDE DEF n, q
  <2>6. Packet(ts, new, n) = Append(ln[n], t) /\ Packet(ts, ln, n) = ln[n]
    BY <2>1, <2>4 DEF Packet
  <2>7. ASSUME NEW i \in 0 .. n, i # n
        PROVE  Packet(ts, new, i) = Packet(ts, ln, i)
    <3>1. i # 0 => i \in 1 .. n
      BY <1>0
    <3> QED BY <2>4, <2>7, <3>1 DEF Packet
  <2>8. Place(ts, ln, t, new, n, q)
    BY <1>0, <2>1, <2>3, <2>4, <2>5, <2>6, <2>7 DEF n, Place
  <2> QED BY <2>8
<1> QED BY <1>1, <1>2 DEF Adds

\* A transaction joins those that wait, behind those of its request.
LEMMA TransactionAdded ==
  ASSUME NEW ts \in Seq(transaction), NEW ln \in Seq(Seq(transaction)),
         NEW t \in transaction, NEW new, Adds(ln, t, new)
  PROVE  /\ \A x : Waits(x, ts, new) <=> Waits(x, ts, ln) \/ x = t
         /\ (InTurn(ts, ln) /\ \A x : Waits(x, ts, ln) /\ x.r = t.r => End(x) <= t.index)
              => InTurn(ts, new)
         /\ Sized(ts, ln) => Sized(ts, new)
<1> DEFINE n == Len(ln)
           m == Len(new)
           P(i) == Packet(ts, ln, i)
           Q(i) == Packet(ts, new, i)
<1>0. PICK p, q : Place(ts, ln, t, new, p, q)
  BY PlaceAdded
<1>1. /\ p \in Nat /\ q \in Nat \ {0}
      /\ p \in 0 .. m /\ Len(Q(p)) = q /\ Q(p)[q] = t
      /\ m \in Nat /\ p = m /\ q <= MaxTransactions
      /\ \A i \in 0 .. n : i \in 0 .. m
      /\ \A i \in 0 .. m : i # p => i \in 0 .. n /\ Q(i) = P(i)
      /\ \A j \in 1 .. q - 1 : p \in 0 .. n /\ j \in 1 .. Len(P(p)) /\ Q(p)[j] = P(p)[j]
      /\ p \in 0 .. n => Len(P(p)) = q - 1
  BY <1>0 DEF Place
<1>2. /\ \A x : Waits(x, ts, ln) <=> \E i \in 0 .. n : \E j \in 1 .. Len(P(i)) : P(i)[j] = x
      /\ \A x : Waits(x, ts, new) <=> \E i \in 0 .. m : \E j \in 1 .. Len(Q(i)) : Q(i)[j] = x
  BY DEF Waits
<1>3. /\ InTurn(ts, ln) <=>
           \A i, k \in 0 .. n : \A j \in 1 .. Len(P(i)), l \in 1 .. Len(P(k)) :
             (i < k \/ (i = k /\ j < l)) /\ P(i)[j].r = P(k)[l].r => End(P(i)[j]) <= P(k)[l].index
      /\ InTurn(ts, new) <=>
           \A i, k \in 0 .. m : \A j \in 1 .. Len(Q(i)), l \in 1 .. Len(Q(k)) :
             (i < k \/ (i = k /\ j < l)) /\ Q(i)[j].r = Q(k)[l].r => End(Q(i)[j]) <= Q(k)[l].index
  BY DEF InTurn
<1>4. /\ Sized(ts, ln) <=> \A i \in 0 .. n : Len(P(i)) <= MaxTransactions
      /\ Sized(ts, new) <=> \A i \in 0 .. m : Len(Q(i)) <= MaxTransactions
  BY DEF Sized
<1> HIDE DEF n, m, P, Q
<1>5. ASSUME NEW i \in 0 .. m, NEW j \in 1 .. Len(Q(i))
      PROVE  \/ i = p /\ j = q
             \/ i \in 0 .. n /\ j \in 1 .. Len(P(i)) /\ Q(i)[j] = P(i)[j]
  <2>1. CASE i # p
    BY <1>1, <2>1
  <2>2. CASE i = p /\ j # q
    <3>1. j \in 1 .. q - 1
      BY <1>1, <2>2
    <3> QED BY <1>1, <2>2, <3>1
  <2> QED BY <2>1, <2>2
<1>6. ASSUME NEW i \in 0 .. n, NEW j \in 1 .. Len(P(i))
      PROVE  i \in 0 .. m /\ j \in 1 .. Len(Q(i)) /\ Q(i)[j] = P(i)[j]
  <2>1. CASE i # p
    BY <1>1, <2>1
  <2>2. CASE i = p
    <3>1. Len(P(p)) = q - 1
      BY <1>1, <2>2
    <3>2. j \in 1 .. q - 1 /\ j \in 1 .. q
      BY <1>1, <2>2, <3>1
    <3> QED BY <1>1, <2>2, <3>2
  <2> QED BY <2>1, <2>2
<1>7. q \in 1 .. Len(Q(p))
  BY <1>1
<1>8. ASSUME NEW x PROVE Waits(x, ts, new) <=> Waits(x, ts, ln) \/ x = t
  <2>1. ASSUME Waits(x, ts, new) PROVE Waits(x, ts, ln) \/ x = t
    BY <1>1, <1>2, <1>5, <2>1
  <2>2. ASSUME Waits(x, ts, ln) PROVE Waits(x, ts, new)
    BY <1>2, <1>6, <2>2
  <2>3. Waits(t, ts, new)
    BY <1>1, <1>2, <1>7
  <2> QED BY <2>1, <2>2, <2>3
<1>9. ASSUME InTurn(ts, ln), \A x : Waits(x, ts, ln) /\ x.r = t.r => End(x) <= t.index
      PROVE  InTurn(ts, new)
  <2> SUFFICES ASSUME NEW i \in 0 .. m, NEW k \in 0 .. m,
                      NEW j \in 1 .. Len(Q(i)), NEW l \in 1 .. Len(Q(k)),
                      i < k \/ (i = k /\ j < l), Q(i)[j].r = Q(k)[l].r
               PROVE  End(Q(i)[j]) <= Q(k)[l].index
    BY <1>3
  <2>1. ~(i = p /\ j = q)
    BY <1>1
  <2>2. i \in 0 .. n /\ j \in 1 .. Len(P(i)) /\ Q(i)[j] = P(i)[j]
    BY <1>5, <2>1
  <2>3. CASE k = p /\ l = q
    <3>1. Q(k)[l] = t
      BY <1>1, <2>3
    <3>2. Waits(P(i)[j], ts, ln)
      BY <1>2, <2>2
    <3> QED BY <1>9, <2>2, <3>1, <3>2
  <2>4. CASE ~(k = p /\ l = q)
    <3>1. k \in 0 .. n /\ l \in 1 .. Len(P(k)) /\ Q(k)[l] = P(k)[l]
      BY <1>5, <2>4
    <3> QED BY <1>3, <1>9, <2>2, <3>1
  <2> QED BY <2>3, <2>4
<1>10. ASSUME Sized(ts, ln) PROVE Sized(ts, new)
  BY <1>1, <1>4, <1>10
<1> QED BY <1>8, <1>9, <1>10

\* send answers the first transaction of the packet: it is the first of all, and
\* those of its request that are left come after it.
LEMMA TransactionSent ==
  ASSUME NEW ts \in Seq(transaction), ts # <<>>, NEW ln \in Seq(Seq(transaction))
  PROVE  /\ \A x : Waits(x, ts, ln) <=> Waits(x, Tail(ts), ln) \/ x = Head(ts)
         /\ InTurn(ts, ln) => /\ InTurn(Tail(ts), ln)
                              /\ \A x : Waits(x, Tail(ts), ln) /\ x.r = Head(ts).r
                                          => End(Head(ts)) <= x.index
         /\ Sized(ts, ln) => Sized(Tail(ts), ln)
<1> DEFINE n == Len(ln)
           c == Len(ts)
           P(i) == Packet(ts, ln, i)
           Q(i) == Packet(Tail(ts), ln, i)
<1>0. n \in Nat /\ c \in Nat \ {0}
  OBVIOUS
<1>1. /\ Len(P(0)) = c /\ Len(Q(0)) = c - 1 /\ P(0)[1] = Head(ts)
      /\ \A j \in 1 .. c - 1 : Q(0)[j] = P(0)[j + 1]
  BY DEF Packet
<1>2. \A i \in 0 .. n : i # 0 => Q(i) = P(i)
  BY DEF Packet
<1>3. /\ \A x : Waits(x, ts, ln) <=> \E i \in 0 .. n : \E j \in 1 .. Len(P(i)) : P(i)[j] = x
      /\ \A x : Waits(x, Tail(ts), ln)
                  <=> \E i \in 0 .. n : \E j \in 1 .. Len(Q(i)) : Q(i)[j] = x
  BY DEF Waits
<1>4. /\ InTurn(ts, ln) <=>
           \A i, k \in 0 .. n : \A j \in 1 .. Len(P(i)), l \in 1 .. Len(P(k)) :
             (i < k \/ (i = k /\ j < l)) /\ P(i)[j].r = P(k)[l].r => End(P(i)[j]) <= P(k)[l].index
      /\ InTurn(Tail(ts), ln) <=>
           \A i, k \in 0 .. n : \A j \in 1 .. Len(Q(i)), l \in 1 .. Len(Q(k)) :
             (i < k \/ (i = k /\ j < l)) /\ Q(i)[j].r = Q(k)[l].r => End(Q(i)[j]) <= Q(k)[l].index
  BY DEF InTurn
<1>5. /\ Sized(ts, ln) <=> \A i \in 0 .. n : Len(P(i)) <= MaxTransactions
      /\ Sized(Tail(ts), ln) <=> \A i \in 0 .. n : Len(Q(i)) <= MaxTransactions
  BY DEF Sized
<1>6. MaxTransactions \in Nat
  BY Constants
<1> DEFINE old(i, j) == IF i = 0 THEN j + 1 ELSE j
<1>7. \A i \in 0 .. n : Len(P(i)) \in Nat /\ Len(Q(i)) \in Nat
  <2>1. \A i \in 1 .. n : ln[i] \in Seq(transaction)
    OBVIOUS
  <2>2. \A i \in 0 .. n : i # 0 => i \in 1 .. n
    BY <1>0
  <2> QED BY <1>0, <1>1, <1>2, <2>1, <2>2 DEF Packet
<1> HIDE DEF n, c, P, Q
<1>8. ASSUME NEW i \in 0 .. n, NEW j \in 1 .. Len(Q(i))
      PROVE  /\ old(i, j) \in 1 .. Len(P(i)) /\ Q(i)[j] = P(i)[old(i, j)]
             /\ ~(i = 0 /\ old(i, j) = 1) /\ j \in Nat /\ i \in Nat
  BY <1>0, <1>1, <1>2, <1>7
<1>9. ASSUME NEW i \in 0 .. n, NEW j \in 1 .. Len(P(i)), ~(i = 0 /\ j = 1)
      PROVE  \E l \in 1 .. Len(Q(i)) : Q(i)[l] = P(i)[j]
  <2>1. CASE i = 0
    <3>1. j - 1 \in 1 .. c - 1 /\ (j - 1) + 1 = j
      BY <1>0, <1>1, <1>9, <2>1
    <3> QED BY <1>1, <2>1, <3>1
  <2>2. CASE i # 0
    BY <1>2, <2>2
  <2> QED BY <2>1, <2>2
<1>10. 0 \in 0 .. n /\ 1 \in 1 .. Len(P(0))
  BY <1>0, <1>1
<1>11. ASSUME NEW x PROVE Waits(x, ts, ln) <=> Waits(x, Tail(ts), ln) \/ x = Head(ts)
  <2>1. ASSUME Waits(x, Tail(ts), ln) PROVE Waits(x, ts, ln)
    <3>1. PICK i \in 0 .. n : \E j \in 1 .. Len(Q(i)) : Q(i)[j] = x
      BY <1>3, <2>1
    <3>2. PICK j \in 1 .. Len(Q(i)) : Q(i)[j] = x
      BY <3>1
    <3>3. old(i, j) \in 1 .. Len(P(i)) /\ P(i)[old(i, j)] = x
      BY <1>8, <3>2
    <3> HIDE DEF old
    <3> QED BY <1>3, <3>3
  <2>2. ASSUME Waits(x, ts, ln) PROVE Waits(x, Tail(ts), ln) \/ x = Head(ts)
    <3>0. PICK i \in 0 .. n : \E j \in 1 .. Len(P(i)) : P(i)[j] = x
      BY <1>3, <2>2
    <3>1. PICK j \in 1 .. Len(P(i)) : P(i)[j] = x
      BY <3>0
    <3>2. CASE i = 0 /\ j = 1
      BY <1>1, <3>1, <3>2
    <3>3. CASE ~(i = 0 /\ j = 1)
      BY <1>3, <1>9, <3>1, <3>3
    <3> QED BY <3>2, <3>3
  <2>3. Waits(Head(ts), ts, ln)
    BY <1>1, <1>3, <1>10
  <2> QED BY <2>1, <2>2, <2>3
<1>12. ASSUME InTurn(ts, ln) PROVE InTurn(Tail(ts), ln)
  <2> SUFFICES ASSUME NEW i \in 0 .. n, NEW k \in 0 .. n,
                      NEW j \in 1 .. Len(Q(i)), NEW l \in 1 .. Len(Q(k)),
                      i < k \/ (i = k /\ j < l), Q(i)[j].r = Q(k)[l].r
               PROVE  End(Q(i)[j]) <= Q(k)[l].index
    BY <1>4
  <2>1. /\ old(i, j) \in 1 .. Len(P(i)) /\ Q(i)[j] = P(i)[old(i, j)]
        /\ old(k, l) \in 1 .. Len(P(k)) /\ Q(k)[l] = P(k)[old(k, l)]
    BY <1>8
  <2>2. i < k \/ (i = k /\ old(i, j) < old(k, l))
    BY <1>8
  <2> QED BY <1>4, <1>12, <2>1, <2>2
<1>13. ASSUME InTurn(ts, ln), NEW x, Waits(x, Tail(ts), ln), x.r = Head(ts).r
       PROVE  End(Head(ts)) <= x.index
  <2>0. PICK i \in 0 .. n : \E j \in 1 .. Len(Q(i)) : Q(i)[j] = x
    BY <1>3, <1>13
  <2>1. PICK j \in 1 .. Len(Q(i)) : Q(i)[j] = x
    BY <2>0
  <2>2. old(i, j) \in 1 .. Len(P(i)) /\ P(i)[old(i, j)] = x /\ ~(i = 0 /\ old(i, j) = 1)
    BY <1>8, <2>1
  <2>3. 0 < i \/ (0 = i /\ 1 < old(i, j))
    BY <1>0, <1>8, <2>1, <2>2
  <2> QED BY <1>1, <1>4, <1>10, <1>13, <2>2, <2>3
<1>14. ASSUME Sized(ts, ln) PROVE Sized(Tail(ts), ln)
  BY <1>0, <1>1, <1>2, <1>5, <1>6, <1>7, <1>10, <1>14
<1> QED BY <1>11, <1>12, <1>13, <1>14

-----------------------------------------------------------------------------
(* What the steps do to the line.                                          *)

\* The queues joined are a line of packets.
LEMMA LineTyped ==
  ASSUME TypeOK
  PROVE  /\ Line \in Seq(Seq(transaction)) /\ tosend \in Seq(transaction)
         /\ flying \o incoming \in Seq(Seq(transaction))
         /\ tohw \o packs \in Seq(Seq(transaction))
<1>1. /\ flying \in Seq(Seq(transaction)) /\ incoming \in Seq(Seq(transaction))
      /\ tohw \in Seq(Seq(transaction)) /\ packs \in Seq(Seq(transaction))
      /\ tosend \in Seq(transaction)
  BY DEF TypeOK
<1>2. flying \o incoming \in Seq(Seq(transaction)) /\ tohw \o packs \in Seq(Seq(transaction))
  BY <1>1, ConcatProperties
<1>3. (flying \o incoming) \o (tohw \o packs) \in Seq(Seq(transaction))
  BY <1>2, ConcatProperties
<1> QED BY <1>1, <1>2, <1>3 DEF Line

\* What waits in such a line is a transaction, in some packet.
LEMMA WaitsTyped ==
  ASSUME NEW ts \in Seq(transaction), NEW ln \in Seq(Seq(transaction)), NEW t,
         Waits(t, ts, ln)
  PROVE  t \in transaction
<1>1. PICK i \in 0 .. Len(ln) : \E j \in 1 .. Len(Packet(ts, ln, i)) : Packet(ts, ln, i)[j] = t
  BY DEF Waits
<1>2. Packet(ts, ln, i) \in Seq(transaction)
  <2>1. CASE i = 0
    BY <2>1 DEF Packet
  <2>2. CASE i # 0
    <3>1. i \in 1 .. Len(ln)
      BY <2>2
    <3> QED BY <2>2, <3>1 DEF Packet
  <2> QED BY <2>1, <2>2
<1> QED BY <1>1, <1>2, ElementOfSeq

\* A packet that moves on from queue to queue keeps its place in line.
LEMMA MovesOn ==
  ASSUME TypeOK, PutIncoming \/ TakeIncoming \/ \E u \in Users : Dispatch(u)
  PROVE  Line' = Line /\ tosend' = tosend
<1>1. /\ flying \in Seq(Seq(transaction)) /\ incoming \in Seq(Seq(transaction))
      /\ tohw \in Seq(Seq(transaction)) /\ packs \in Seq(Seq(transaction))
  BY DEF TypeOK
<1>2. CASE PutIncoming
  <2> DEFINE a == flying \o incoming
             b == tohw \o packs
  <2>1. a \in Seq(Seq(transaction)) /\ b \in Seq(Seq(transaction))
    BY LineTyped
  <2>2. /\ tohw # <<>> /\ incoming' = Append(incoming, Head(tohw)) /\ tohw' = Tail(tohw)
        /\ flying' = flying /\ packs' = packs /\ tosend' = tosend
    BY <1>2 DEF PutIncoming, runVars
  <2>3. Head(b) = Head(tohw) /\ Tail(b) = Tail(tohw) \o packs /\ b # <<>>
    BY <1>1, <2>2, TailJoined
  <2>4. Head(tohw) \in Seq(transaction)
    BY <1>1, <2>2
  <2>5. flying \o Append(incoming, Head(tohw)) = Append(a, Head(tohw))
    BY <1>1, <2>4, LastJoined
  <2> HIDE DEF a, b
  <2>6. Append(a, Head(b)) \o Tail(b) = a \o b
    BY <2>1, <2>3, Handover
  <2> QED BY <2>2, <2>3, <2>5, <2>6 DEF Line, a, b
<1>3. CASE TakeIncoming
  <2>1. /\ incoming # <<>> /\ flying' = Append(flying, Head(incoming))
        /\ incoming' = Tail(incoming) /\ tohw' = tohw /\ packs' = packs /\ tosend' = tosend
    BY <1>3 DEF TakeIncoming, prepVars, runVars
  <2>2. Append(flying, Head(incoming)) \o Tail(incoming) = flying \o incoming
    BY <1>1, <2>1, Handover
  <2> QED BY <2>1, <2>2 DEF Line
<1>4. CASE \E u \in Users : Dispatch(u)
  <2>1. /\ tohw = <<>> /\ tohw' = packs /\ packs' = <<>>
        /\ flying' = flying /\ incoming' = incoming /\ tosend' = tosend
    BY <1>4 DEF Dispatch, Selecting, runVars
  <2>2. <<>> \o packs = packs /\ packs \o <<>> = packs
    BY <1>1, ConcatEmptySeq
  <2> QED BY <2>1, <2>2 DEF Line
<1> QED BY <1>2, <1>3, <1>4

\* A request that arrives may begin a packet.
LEMMA EnqueueLine ==
  ASSUME TypeOK, NEW u \in Users, Enqueue(u)
  PROVE  (Line' = Line \/ Line' = Append(Line, <<>>)) /\ tosend' = tosend
<1>1. /\ tohw = <<>> /\ tohw' = <<>> /\ flying' = flying /\ incoming' = incoming
      /\ tosend' = tosend /\ packs' = IF packs = <<>> THEN <<<<>>>> ELSE packs
  BY DEF Enqueue, Selecting, runVars
<1>2. CASE packs # <<>>
  BY <1>1, <1>2 DEF Line
<1>3. CASE packs = <<>>
  <2> DEFINE a == flying \o incoming
  <2>1. a \in Seq(Seq(transaction)) /\ <<>> \in Seq(transaction)
    BY LineTyped
  <2>2. a \o Append(<<>>, <<>>) = Append(a \o <<>>, <<>>)
    <3>1. <<>> \in Seq(Seq(transaction))
      OBVIOUS
    <3> HIDE DEF a
    <3> QED BY <2>1, <3>1, LastJoined
  <2>3. <<>> \o <<>> = <<>> /\ <<>> \o <<<<>>>> = Append(<<>>, <<>>)
    OBVIOUS
  <2> QED BY <1>1, <1>3, <2>2, <2>3 DEF Line, a
<1> QED BY <1>1, <1>2, <1>3

\* The transaction that Split makes.
Chunk(n) == [r |-> req.r, words |-> n, index |-> call(req.r).nwords - req.left,
             closechan |-> n = req.left]

\* It comes last in line.
LEMMA SplitLine ==
  ASSUME TypeOK, NEW n, NEW new \in BOOLEAN, Split(n, new), packs # <<>>,
         Chunk(n) \in transaction
  PROVE  Adds(Line, Chunk(n), Line') /\ tosend' = tosend
<1> DEFINE a  == flying \o incoming
           m  == Len(packs)
           b  == tohw \o packs
           t  == Chunk(n)
           Q  == Seq(transaction)
<1>1. /\ tohw' = tohw /\ flying' = flying /\ incoming' = incoming /\ tosend' = tosend
      /\ new => packs' = [Append(packs, <<>>) EXCEPT ![Len(Append(packs, <<>>))] = Append(@, t)]
      /\ ~new => Len(packs[m]) < MaxTransactions /\ packs' = [packs EXCEPT ![m] = Append(@, t)]
  BY DEF Split, Chunk, runVars
<1>2. a \in Seq(Q) /\ b \in Seq(Q) /\ tohw \in Seq(Q) /\ packs \in Seq(Q) /\ <<t>> \in Q
  BY LineTyped DEF TypeOK
<1> HIDE DEF a, t
<1>3. CASE new
  <2>1. packs' = Append(packs, <<t>>)
    <3> DEFINE c == Append(packs, <<>>)
               k == Len(packs) + 1
    <3>1. <<>> \in Q /\ k \in Nat
      BY <1>2
    <3>2. c \in Seq(Q) /\ Len(c) = k /\ c[k] = <<>> /\ k \in 1 .. Len(c)
      BY <1>2, <3>1
    <3>3. packs' = [c EXCEPT ![k] = <<t>>]
      <4>1. packs' = [c EXCEPT ![Len(c)] = Append(@, t)]
        BY <1>1, <1>3
      <4> HIDE DEF c, k
      <4>2. packs' = [c EXCEPT ![k] = Append(<<>>, t)]
        BY <3>2, <4>1
      <4> QED BY <4>2
    <3>4. <<t>> \in Q
      BY <1>2
    <3>5. packs' \in Seq(Q) /\ Len(packs') = k
          /\ \A j \in 1 .. k : packs'[j] = IF j = k THEN <<t>> ELSE c[j]
      <4> HIDE DEF c, k, Q
      <4> QED BY <3>2, <3>3, <3>4, ExceptSeq
    <3>6. Append(packs, <<t>>) \in Seq(Q) /\ Len(Append(packs, <<t>>)) = k
          /\ \A j \in 1 .. k : Append(packs, <<t>>)[j] = IF j = k THEN <<t>> ELSE c[j]
      BY <1>2
    <3> QED BY <3>5, <3>6, SeqEqual
  <2>2. tohw \o Append(packs, <<t>>) = Append(b, <<t>>)
    BY <1>2, LastJoined
  <2> HIDE DEF b, Q
  <2>3. a \o Append(b, <<t>>) = Append(a \o b, <<t>>)
    <3>1. a \in Seq(Q) /\ b \in Seq(Q) /\ <<t>> \in Q
      BY <1>2
    <3> QED BY <3>1, LastJoined
  <2> QED BY <1>1, <2>1, <2>2, <2>3 DEF Adds, Line, a, b, t
<1>4. CASE ~new
  <2> DEFINE y == Append(packs[m], t)
  <2>1. m \in 1 .. m /\ packs[m] \in Q
    BY <1>2
  <2>2. y \in Q
    <3>1. t \in transaction
      BY DEF t
    <3> QED BY <2>1, <3>1
  <2>3. packs' = [packs EXCEPT ![m] = y] /\ Len(packs[m]) < MaxTransactions
    BY <1>1, <1>4
  <2> HIDE DEF y
  <2>4. /\ b[Len(b)] = packs[m] /\ b # <<>>
        /\ tohw \o [packs EXCEPT ![m] = y] = [b EXCEPT ![Len(b)] = y]
    BY <1>2, <2>2, LastJoined
  <2> HIDE DEF b, Q
  <2>5. /\ (a \o b)[Len(a \o b)] = b[Len(b)] /\ a \o b # <<>>
        /\ a \o [b EXCEPT ![Len(b)] = y] = [(a \o b) EXCEPT ![Len(a \o b)] = y]
    <3>1. a \in Seq(Q) /\ b \in Seq(Q) /\ y \in Q /\ b # <<>>
      BY <1>2, <2>2, <2>4
    <3> QED BY <3>1, LastJoined
  <2>6. Line = a \o b /\ Line' = [(a \o b) EXCEPT ![Len(a \o b)] = y]
    BY <1>1, <2>3, <2>4, <2>5 DEF Line, a, b
  <2>7. Line # <<>> /\ Line[Len(Line)] = packs[m] /\ Line' = [Line EXCEPT ![Len(Line)] = y]
    BY <2>4, <2>5, <2>6
  <2> QED BY <1>1, <2>3, <2>7 DEF Adds, y, t
<1> QED BY <1>3, <1>4

\* Run takes the reply to the first packet in line.
LEMMA ReplyLine ==
  ASSUME TypeOK, Reply
  PROVE  Line # <<>> /\ tosend' = Head(Line) /\ Line' = Tail(Line) /\ Head(flying) = Head(Line)
<1> DEFINE a == flying \o incoming
           b == tohw \o packs
<1>1. /\ flying # <<>> /\ flying' = Tail(flying) /\ tosend' = Head(flying)
      /\ incoming' = incoming /\ tohw' = tohw /\ packs' = packs
  BY DEF Reply, prepVars
<1>2. /\ flying \in Seq(Seq(transaction)) /\ incoming \in Seq(Seq(transaction))
      /\ a \in Seq(Seq(transaction)) /\ b \in Seq(Seq(transaction))
  BY LineTyped DEF TypeOK
<1>3. Head(a) = Head(flying) /\ Tail(a) = Tail(flying) \o incoming /\ a # <<>>
  BY <1>1, <1>2, TailJoined
<1> HIDE DEF a, b
<1>4. Head(a \o b) = Head(a) /\ Tail(a \o b) = Tail(a) \o b /\ a \o b # <<>>
  BY <1>2, <1>3, TailJoined
<1> QED BY <1>1, <1>3, <1>4 DEF Line, a, b

-----------------------------------------------------------------------------
(* The inductive invariant.                                                *)

Waiting(t) == Waits(t, tosend, Line)

\* preparepackets has not seen request r yet.
Unborn(r) ==
  \/ Len(made[r[1]]) < r[2]
  \/ pc[r[1]] = "enqueue" /\ r[2] = Len(made[r[1]])

\* How many words of request r have been answered for.
Done(r) == IF got[r] = <<>> THEN 0 ELSE End(got[r][Len(got[r])].t)

\* Transaction t is a part of its request, and closes the channel if it is the
\* last one.
Cut(t) ==
  /\ ~Unborn(t.r)
  /\ 1 <= t.words /\ End(t) <= call(t.r).nwords
  /\ t.closechan <=> End(t) = call(t.r).nwords

\* The words of r before the i-th are answered for or on their way.
Reached(r, i) ==
  /\ Done(r) <= i
  /\ Done(r) = i \/ \E x : Waiting(x) /\ x.r = r /\ End(x) = i

\* The rest of the request that preparepackets is splitting.
Rest ==
  LET i == call(req.r).nwords - req.left
  IN  /\ ~Unborn(req.r) /\ req.r \notin closed
      /\ 0 <= i /\ Reached(req.r, i)
      /\ \A t : Waiting(t) /\ t.r = req.r => End(t) <= i

\* A response is the one to its transaction.
Right(t, resp) ==
  ~resp.err => IF call(t.r).byteslice
               THEN \E o \in ByteOrder : resp.data = wordsBytes(Wanted(t), o)
               ELSE resp.data = Wanted(t)

\* Where the goroutines are.
Control ==
  /\ \A u \in Users : \A k \in 1 .. Len(made[u]) : made[u][k] \in Menu[u][k]
  /\ \A u \in Users : /\ pc[u] = "range" => /\ cur[u] \in Requests /\ cur[u][1] = u
                                            /\ cur[u] \notin returned
                      /\ pc[u] \in {"enqueue", "dispatch"} => made[u] # <<>>
  /\ run = "select" => tosend = <<>>
  /\ run = "send" => tosend # <<>> /\ Len(replies) = Len(tosend)
  /\ req # NoReq => packs # <<>>

\* Every request is on its way without a gap, in the order of its words.
Turns ==
  /\ Sized(tosend, Line) /\ InTurn(tosend, Line)
  /\ \A t : Waiting(t) => Cut(t) /\ Reached(t.r, t.index) /\ t.r \notin closed
  /\ req # NoReq => Rest
  /\ \A r \in Requests : Unborn(r) => got[r] = <<>> /\ r \notin returned /\ r \notin closed

\* What users have got.
History ==
  /\ \A r \in Requests : \A i \in 1 .. Len(got[r]) :
       /\ got[r][i].t.r = r
       /\ got[r][i].t.index = IF i = 1 THEN 0 ELSE End(got[r][i - 1].t)
       /\ Right(got[r][i].t, got[r][i].resp)
  /\ \A r \in closed : got[r] # <<>> /\ Done(r) = call(r).nwords
  /\ \A r \in returned :
       got[r] # <<>> /\ (\/ \E i \in 1 .. Len(got[r]) : got[r][i].resp.err
                         \/ Done(r) = call(r).nwords)

\* The rest of the reply is the answers that have not been parsed.
Parsed(codes, f) ==
  /\ codes \in Seq({Success, BusReadError}) /\ Len(codes) <= Len(tosend)
  /\ Len(replies) <= Len(codes)
  /\ Layout(f, tosend, codes, order) /\ data = f[Len(replies) + 1]
  /\ \A i \in 1 .. Len(replies) : Right(tosend[i], replies[i])

Replies ==
  /\ run = "parse" => \E codes, f : Parsed(codes, f)
  /\ run = "send" => \A i \in 1 .. Len(tosend) : Right(tosend[i], replies[i])

IInv == TypeOK /\ RunAlive /\ Control /\ Turns /\ History /\ Replies

\* The calls preparepackets has seen stay what they are.
Kept == \A r \in Requests : ~Unborn(r) => ~Unborn(r)' /\ call(r)' = call(r)

\* A request that preparepackets has seen has a call, one of the menu.
LEMMA BornFacts ==
  ASSUME TypeOK, Control, NEW r \in Requests, ~Unborn(r)
  PROVE  /\ r[1] \in Users /\ r[2] \in 1 .. Len(made[r[1]]) /\ call(r) \in Call
         /\ call(r).nwords \in 0 .. MaxWords
         /\ call(r).tid \in rmws => call(r).nwords = 1
         /\ call(r).waits = "one" => call(r).tid \in rmws
<1>1. r[1] \in Users /\ r[2] \in 1 .. Len(Menu[r[1]])
  BY RequestFacts
<1>2. made[r[1]] \in Seq(Call)
  BY <1>1 DEF TypeOK
<1>3. r[2] \in 1 .. Len(made[r[1]])
  BY <1>1, <1>2 DEF Unborn
<1>4. call(r) \in Call
  BY <1>2, <1>3 DEF call
<1>5. call(r) \in Menu[r[1]][r[2]]
  BY <1>1, <1>3 DEF Control, call
<1> QED BY <1>1, <1>3, <1>4, <1>5, DeliveryAssumption DEF Call

\* A transaction that waits is sound.
LEMMA WaitingSound ==
  ASSUME TypeOK, Control, Turns, NEW t, Waiting(t)
  PROVE  /\ Sound(t) /\ t \in transaction /\ t.r \in Requests
         /\ t.index \in Nat /\ t.words \in Nat
<1>1. t \in transaction
  BY LineTyped, WaitsTyped DEF Waiting
<1>2. t.r \in Requests /\ t.words \in 0 .. MaxWords /\ t.index \in 0 .. MaxWords
  BY <1>1 DEF transaction
<1>3. Cut(t)
  BY DEF Turns
<1>4. /\ call(t.r) \in Call /\ call(t.r).nwords \in 0 .. MaxWords
      /\ call(t.r).tid \in rmws => call(t.r).nwords = 1
  BY <1>2, <1>3, BornFacts DEF Cut
<1>5. MaxWords \in Nat
  BY Constants
<1>6. t.index + t.words <= call(t.r).nwords /\ 1 <= t.words
  BY <1>3 DEF Cut, End
<1> QED BY <1>1, <1>2, <1>4, <1>5, <1>6 DEF Sound

\* Where users are matters little to requests.
LEMMA CallsKept ==
  ASSUME TypeOK, made' = made, \A u \in Users : pc'[u] = "enqueue" <=> pc[u] = "enqueue"
  PROVE  Kept
<1> SUFFICES ASSUME NEW r \in Requests
             PROVE  (Unborn(r)' <=> Unborn(r)) /\ call(r)' = call(r)
  BY DEF Kept
<1>1. r[1] \in Users
  BY RequestFacts
<1> QED BY <1>1 DEF Unborn, call

\* A new request is not seen yet.
LEMMA MakeRequestKept ==
  ASSUME TypeOK, NEW u \in Users, MakeRequest(u)
  PROVE  Kept
<1> SUFFICES ASSUME NEW r \in Requests
             PROVE  (Unborn(r)' <=> Unborn(r)) /\ (~Unborn(r) => call(r)' = call(r))
  BY DEF Kept
<1>1. r[1] \in Users /\ r[2] \in Nat
  BY RequestFacts
<1>2. PICK c : made' = [made EXCEPT ![u] = Append(@, c)]
  BY DEF MakeRequest
<1>3. pc[u] = "idle" /\ pc' = [pc EXCEPT ![u] = "enqueue"]
  BY DEF MakeRequest
<1>4. made[u] \in Seq(Call) /\ pc[u] # "enqueue"
  BY <1>3 DEF TypeOK
<1>5. /\ Len(made'[u]) = Len(made[u]) + 1 /\ pc'[u] = "enqueue"
      /\ \A k \in 1 .. Len(made[u]) : made'[u][k] = made[u][k]
      /\ \A v \in Users : v # u => made'[v] = made[v] /\ pc'[v] = pc[v]
  BY <1>2, <1>3, <1>4 DEF TypeOK
<1>6. CASE r[1] = u
  <2>1. Unborn(r) <=> Len(made[u]) < r[2]
    BY <1>4, <1>6 DEF Unborn
  <2>2. Unborn(r)' <=> Len(made[u]) + 1 < r[2] \/ r[2] = Len(made[u]) + 1
    BY <1>5, <1>6 DEF Unborn
  <2>3. r[2] # 0
    BY RequestFacts
  <2>4. ~(Len(made[u]) < r[2]) => r[2] \in 1 .. Len(made[u])
    BY <1>1, <1>4, <2>3
  <2> QED BY <1>1, <1>4, <1>5, <1>6, <2>1, <2>2, <2>4 DEF call
<1>7. CASE r[1] # u
  BY <1>1, <1>5, <1>7 DEF Unborn, call
<1> QED BY <1>6, <1>7

\* Enqueue is where preparepackets sees it.
LEMMA EnqueueKept ==
  ASSUME TypeOK, NEW u \in Users, Enqueue(u)
  PROVE  Kept
<1>1. /\ made' = made /\ pc[u] = "enqueue" /\ pc'[u] # "enqueue"
      /\ \A v \in Users : v # u => pc'[v] = pc[v]
  BY DEF Enqueue, TypeOK
<1>2. ASSUME NEW r \in Requests, ~Unborn(r) PROVE ~Unborn(r)' /\ call(r)' = call(r)
  <2>1. r[1] \in Users
    BY RequestFacts
  <2> QED BY <1>1, <1>2, <2>1 DEF Unborn, call
<1> QED BY <1>2 DEF Kept

\* A response stays right.
LEMMA RightKept ==
  ASSUME NEW t, NEW resp, call(t.r)' = call(t.r), Right(t, resp)
  PROVE  Right(t, resp)'
BY DEF Right, Wanted

\* Steps that leave the transactions as they are, and the channels.
LEMMA TurnsKept ==
  ASSUME TypeOK, Control, Turns, Kept, got' = got, closed' = closed, returned' = returned,
         req' \in {req, NoReq} \/ Rest',
         \A x : Waits(x, tosend', Line') <=> Waits(x, tosend, Line),
         InTurn(tosend', Line'), Sized(tosend', Line')
  PROVE  Turns'
<1>1. \A x : Waiting(x)' <=> Waiting(x)
  BY DEF Waiting
<1>2. \A r : Done(r)' = Done(r)
  BY DEF Done
<1>3. \A r, i : Reached(r, i) => Reached(r, i)'
  BY <1>1, <1>2 DEF Reached
<1>4. ASSUME NEW t, Waiting(t)'
      PROVE  Cut(t)' /\ Reached(t.r, t.index)' /\ t.r \notin closed'
  <2>1. Waiting(t)
    BY <1>1, <1>4
  <2>2. Cut(t) /\ Reached(t.r, t.index) /\ t.r \notin closed
    BY <2>1 DEF Turns
  <2>3. t.r \in Requests
    BY <2>1, WaitingSound
  <2>4. ~Unborn(t.r)' /\ call(t.r)' = call(t.r)
    BY <2>2, <2>3 DEF Kept, Cut
  <2> QED BY <1>3, <2>2, <2>4 DEF Cut
<1>5. ASSUME req' # NoReq, req' = req PROVE Rest'
  <2>1. Rest /\ req.r \in Requests
    BY <1>5 DEF Turns, TypeOK
  <2>2. ~Unborn(req.r)' /\ call(req.r)' = call(req.r)
    BY <1>5, <2>1 DEF Kept, Rest
  <2> QED BY <1>1, <1>3, <1>5, <2>1, <2>2 DEF Rest
<1>6. ASSUME NEW r \in Requests, Unborn(r)'
      PROVE  got'[r] = <<>> /\ r \notin returned' /\ r \notin closed'
  BY <1>6 DEF Kept, Turns
<1>7. Turns' = ( /\ Sized(tosend', Line') /\ InTurn(tosend', Line')
                 /\ \A t : Waiting(t)' => Cut(t)' /\ Reached(t.r, t.index)' /\ t.r \notin closed'
                 /\ req' # NoReq => Rest'
                 /\ \A r \in Requests : Unborn(r)' => /\ got'[r] = <<>> /\ r \notin returned'
                                                      /\ r \notin closed')
  BY DEF Turns
<1> QED BY <1>4, <1>5, <1>6, <1>7

\* Steps that leave the channels as they are.
LEMMA HistoryKept ==
  ASSUME TypeOK, Turns, History, Kept, got' = got, closed' = closed, returned' = returned
  PROVE  History'
<1>1. \A r : Done(r)' = Done(r)
  BY DEF Done
<1>2. ASSUME NEW r \in Requests, got[r] # <<>> PROVE call(r)' = call(r)
  BY <1>2 DEF Turns, Kept
<1>3. ASSUME NEW r \in Requests, NEW i \in 1 .. Len(got[r])
      PROVE  got[r] # <<>>
  OBVIOUS
<1>4. ASSUME NEW r \in Requests, NEW i \in 1 .. Len(got[r])
      PROVE  Right(got[r][i].t, got[r][i].resp)'
  <2>1. got[r][i].t.r = r /\ Right(got[r][i].t, got[r][i].resp)
    BY DEF History
  <2>2. call(r)' = call(r)
    BY <1>2, <1>3
  <2> DEFINE a == got[r][i].t
             b == got[r][i].resp
  <2>3. a.r = r /\ Right(a, b) /\ a' = a /\ b' = b
    BY <2>1
  <2> QED BY <2>2, <2>3 DEF Right, Wanted
<1>5. returned \subseteq Requests /\ closed \subseteq Requests
  BY DEF TypeOK
<1> QED BY <1>1, <1>2, <1>4, <1>5 DEF History

\* What Run has before it waits.
LEMMA TosendWaits ==
  ASSUME TypeOK, NEW i \in 1 .. Len(tosend)
  PROVE  Waiting(tosend[i])
<1>1. Line \in Seq(Seq(transaction))
  BY LineTyped
<1>2. 0 \in 0 .. Len(Line)
  BY <1>1
<1>3. Packet(tosend, Line, 0) = tosend
  BY DEF Packet
<1> QED BY <1>2, <1>3 DEF Waiting, Waits

\* The answers to the transactions that Run has before it stay what they are.
LEMMA RepliesKept ==
  ASSUME TypeOK, Control, Turns, Replies, Kept, UNCHANGED runVars
  PROVE  Replies'
<1>1. UNCHANGED <<run, data, order, replies, tosend>>
  BY DEF runVars
<1>2. ASSUME NEW t, Waiting(t) PROVE made'[t.r[1]][t.r[2]] = made[t.r[1]][t.r[2]]
  <2>1. t.r \in Requests /\ ~Unborn(t.r)
    BY <1>2, WaitingSound DEF Turns, Cut
  <2> QED BY <2>1 DEF Kept, call
<1>3. \A i \in 1 .. Len(tosend) :
        made'[tosend[i].r[1]][tosend[i].r[2]] = made[tosend[i].r[1]][tosend[i].r[2]]
  BY <1>2, TosendWaits
<1>4. ASSUME NEW i \in 1 .. Len(tosend), Right(tosend[i], replies[i])
      PROVE  Right(tosend[i], replies[i])'
  BY <1>1, <1>3, <1>4 DEF Right, Wanted, call
<1>5. ASSUME NEW i \in 1 .. Len(tosend), NEW id, NEW code
      PROVE  answer(tosend[i], id, code, order)' = answer(tosend[i], id, code, order)
  BY <1>1, <1>3 DEF answer, Wanted, call
<1>6. ASSUME NEW codes, NEW f, Parsed(codes, f) PROVE Parsed(codes, f)'
  <2>1. /\ codes \in Seq({Success, BusReadError}) /\ Len(codes) <= Len(tosend)
        /\ Len(replies) <= Len(codes)
        /\ Layout(f, tosend, codes, order) /\ data = f[Len(replies) + 1]
        /\ \A i \in 1 .. Len(replies) : Right(tosend[i], replies[i])
    BY <1>6 DEF Parsed
  <2>2. /\ Len(tosend) \in Nat /\ Len(replies) \in Nat /\ Len(codes) \in Nat
    BY <2>1 DEF TypeOK
  <2>3. \A i \in 1 .. Len(replies) : i \in 1 .. Len(tosend)
    BY <2>1, <2>2
  <2>4. \A i \in 1 .. Len(codes) : i \in 1 .. Len(tosend)
    BY <2>1, <2>2
  <2>5. Layout(f, tosend, codes, order)'
    BY <1>5, <2>1, <2>4 DEF Layout
  <2> QED BY <1>1, <1>4, <2>1, <2>3, <2>5 DEF Parsed
<1> QED BY <1>1, <1>4, <1>6 DEF Replies

\* Steps that leave the line, the channels and Run alone.
LEMMA QuietStep ==
  ASSUME IInv, Kept, Line' = Line,
         UNCHANGED <<returned, req, runVars, chanVars>>
  PROVE  Turns' /\ History' /\ Replies' /\ RunAlive'
<1>1. got' = got /\ closed' = closed /\ tosend' = tosend /\ run' = run
      /\ req' = req /\ returned' = returned
  BY DEF chanVars, runVars
<1>2. Turns'
  BY <1>1, TurnsKept DEF IInv, Turns
<1>3. History'
  BY <1>1, HistoryKept DEF IInv
<1>4. Replies'
  BY <1>1, RepliesKept DEF IInv
<1> QED BY <1>1, <1>2, <1>3, <1>4 DEF IInv, RunAlive

\* A user makes a request.
LEMMA MakeRequestStep ==
  ASSUME IInv, NEW u \in Users, MakeRequest(u)
  PROVE  IInv'
<1>1. Line' = Line /\ UNCHANGED <<returned, req, runVars, chanVars>>
  BY DEF MakeRequest, Line, prepVars
<1>2. Kept
  BY MakeRequestKept DEF IInv
<1>3. PICK c \in Menu[u][Len(made[u]) + 1] : made' = [made EXCEPT ![u] = Append(@, c)]
  BY DEF MakeRequest
<1>4. /\ pc[u] = "idle" /\ pc' = [pc EXCEPT ![u] = "enqueue"]
      /\ due' = [due EXCEPT ![u] = FALSE] /\ Len(made[u]) < Len(Menu[u])
      /\ UNCHANGED <<cur, returned, prepVars, incoming, flying, runVars, errors, chanVars>>
  BY DEF MakeRequest
<1>5. made \in [Users -> Seq(Call)] /\ \A v \in Users : Len(made[v]) <= Len(Menu[v])
  BY DEF IInv, TypeOK
<1>6. Menu[u] \in Seq(SUBSET Call)
  BY Constants
<1>7. Len(made[u]) + 1 \in 1 .. Len(Menu[u]) /\ c \in Call
  <2>1. Len(made[u]) + 1 \in 1 .. Len(Menu[u])
    BY <1>4, <1>5, <1>6
  <2> QED BY <1>6, <2>1
<1>8. /\ Append(made[u], c) \in Seq(Call) /\ Len(Append(made[u], c)) = Len(made[u]) + 1
      /\ Append(made[u], c)[Len(made[u]) + 1] = c
      /\ \A k \in 1 .. Len(made[u]) : Append(made[u], c)[k] = made[u][k]
  BY <1>5, <1>7
<1>9. made' \in [Users -> Seq(Call)] /\ \A v \in Users : Len(made'[v]) <= Len(Menu[v])
  BY <1>3, <1>4, <1>5, <1>7, <1>8
<1>10. TypeOK'
  BY <1>4, <1>9 DEF IInv, TypeOK, prepVars, runVars, chanVars
<1>11. ASSUME NEW v \in Users, NEW k \in 1 .. Len(made'[v])
       PROVE  made'[v][k] \in Menu[v][k]
  <2>1. CASE v # u
    <3>1. made'[v] = made[v]
      BY <1>3, <1>5, <2>1
    <3> QED BY <3>1 DEF IInv, Control
  <2>2. CASE v = u
    <3>1. made'[v] = Append(made[u], c)
      BY <1>3, <1>5, <2>2
    <3>2. k = Len(made[u]) + 1 \/ k \in 1 .. Len(made[u])
      BY <1>5, <1>8, <3>1
    <3> QED BY <1>8, <2>2, <3>1, <3>2 DEF IInv, Control
  <2> QED BY <2>1, <2>2
<1>12. ASSUME NEW v \in Users
       PROVE  /\ pc'[v] = "range" => /\ cur'[v] \in Requests /\ cur'[v][1] = v
                                     /\ cur'[v] \notin returned'
              /\ pc'[v] \in {"enqueue", "dispatch"} => made'[v] # <<>>
  <2>1. CASE v = u
    <3>1. made'[v] # <<>>
      BY <1>3, <1>5, <1>7, <2>1
    <3> QED BY <1>4, <2>1, <3>1 DEF IInv, TypeOK
  <2>2. CASE v # u
    <3>1. made'[v] = made[v] /\ pc'[v] = pc[v] /\ cur' = cur /\ returned' = returned
      BY <1>3, <1>4, <1>5, <2>2 DEF IInv, TypeOK
    <3> QED BY <3>1 DEF IInv, Control
  <2> QED BY <2>1, <2>2
<1>13. Control'
  BY <1>4, <1>11, <1>12 DEF IInv, Control, prepVars, runVars
<1> QED BY <1>1, <1>2, <1>10, <1>13, QuietStep DEF IInv

\* The number of a call that was made is one of the menu.
LEMMA NewestMade ==
  ASSUME TypeOK, NEW u \in Users, made[u] # <<>>
  PROVE  newest(u) \in Requests /\ newest(u)[1] = u /\ newest(u)[2] = Len(made[u])
<1>1. made[u] \in Seq(Call) /\ Len(made[u]) <= Len(Menu[u]) /\ Menu[u] \in Seq(SUBSET Call)
  BY Constants DEF TypeOK
<1>2. Len(made[u]) \in 1 .. Len(Menu[u])
  BY <1>1
<1> QED BY <1>2, RequestMade DEF newest

\* A user goes on to Dispatch.
LEMMA CallDispatchStep ==
  ASSUME IInv, NEW u \in Users, CallDispatch(u)
  PROVE  IInv'
<1>1. /\ pc[u] = "idle" /\ made[u] # <<>> /\ pc' = [pc EXCEPT ![u] = "dispatch"]
      /\ UNCHANGED <<made, cur, due, returned, prepVars, incoming, flying, runVars, errors,
                     chanVars>>
  BY DEF CallDispatch
<1>2. pc \in [Users -> {"idle", "enqueue", "dispatch", "range"}]
  BY DEF IInv, TypeOK
<1>3. /\ pc'[u] = "dispatch" /\ \A v \in Users : v # u => pc'[v] = pc[v]
      /\ pc' \in [Users -> {"idle", "enqueue", "dispatch", "range"}]
  BY <1>1, <1>2
<1>4. Line' = Line /\ UNCHANGED <<returned, req, runVars, chanVars>>
  BY <1>1 DEF Line, prepVars
<1>5. Kept
  BY <1>1, <1>3, CallsKept DEF IInv
<1>6. TypeOK'
  BY <1>1, <1>3 DEF IInv, TypeOK, prepVars, runVars, chanVars
<1>7. Control'
  BY <1>1, <1>3 DEF IInv, Control, prepVars, runVars
<1> QED BY <1>4, <1>5, <1>6, <1>7, QuietStep DEF IInv

\* A user begins to receive.
LEMMA ReceiveStep ==
  ASSUME IInv, NEW u \in Users, NEW r \in Requests, Receive(u, r)
  PROVE  IInv'
<1>1. /\ pc[u] = "idle" /\ pc' = [pc EXCEPT ![u] = "range"] /\ cur' = [cur EXCEPT ![u] = r]
      /\ r[1] = u /\ r \notin returned
      /\ UNCHANGED <<made, due, returned, prepVars, incoming, flying, runVars, errors, chanVars>>
  BY DEF Receive
<1>2. /\ pc \in [Users -> {"idle", "enqueue", "dispatch", "range"}]
      /\ cur \in [Users -> Users \X Nat] /\ r \in Users \X Nat
  <2>1. r = <<r[1], r[2]>> /\ r[1] \in Users /\ r[2] \in Nat
    BY RequestFacts
  <2> QED BY <2>1 DEF IInv, TypeOK
<1>3. /\ pc'[u] = "range" /\ \A v \in Users : v # u => pc'[v] = pc[v] /\ cur'[v] = cur[v]
      /\ cur'[u] = r /\ cur' \in [Users -> Users \X Nat]
      /\ pc' \in [Users -> {"idle", "enqueue", "dispatch", "range"}]
  BY <1>1, <1>2
<1>4. Line' = Line /\ UNCHANGED <<returned, req, runVars, chanVars>>
  BY <1>1 DEF Line, prepVars
<1>5. Kept
  BY <1>1, <1>3, CallsKept DEF IInv
<1>6. TypeOK'
  BY <1>1, <1>3 DEF IInv, TypeOK, prepVars, runVars, chanVars
<1>7. Control'
  BY <1>1, <1>3 DEF IInv, Control, prepVars, runVars
<1> QED BY <1>4, <1>5, <1>6, <1>7, QuietStep DEF IInv

\* preparepackets takes a dispatch request.
LEMMA DispatchStep ==
  ASSUME IInv, NEW u \in Users, Dispatch(u)
  PROVE  IInv'
<1> DEFINE now == call(newest(u)).waits # "later" /\ newest(u) \notin returned
<1>1. /\ pc[u] = "dispatch" /\ pc' = [pc EXCEPT ![u] = IF now THEN "range" ELSE "idle"]
      /\ cur' = [cur EXCEPT ![u] = IF now THEN newest(u) ELSE cur[u]]
      /\ due' = [due EXCEPT ![u] = TRUE] /\ tohw' = packs /\ packs' = <<>> /\ req = NoReq
      /\ UNCHANGED <<made, returned, req, incoming, flying, runVars, errors, chanVars>>
  BY DEF Dispatch, Selecting
<1>2. /\ pc \in [Users -> {"idle", "enqueue", "dispatch", "range"}]
      /\ cur \in [Users -> Users \X Nat] /\ made[u] # <<>>
  BY <1>1 DEF IInv, TypeOK, Control
<1>3. newest(u) \in Requests /\ newest(u)[1] = u /\ newest(u) \in Users \X Nat
  <2>1. newest(u) \in Requests /\ newest(u)[1] = u
    BY <1>2, NewestMade DEF IInv
  <2>2. newest(u) = <<newest(u)[1], newest(u)[2]>> /\ newest(u)[2] \in Nat
    BY <2>1, RequestFacts
  <2> QED BY <2>1, <2>2
<1> HIDE DEF now
<1>4. /\ pc'[u] \in {"range", "idle"} /\ (pc'[u] = "range" => now /\ cur'[u] = newest(u))
      /\ \A v \in Users : v # u => pc'[v] = pc[v] /\ cur'[v] = cur[v]
      /\ cur' \in [Users -> Users \X Nat]
      /\ pc' \in [Users -> {"idle", "enqueue", "dispatch", "range"}]
  BY <1>1, <1>2, <1>3
<1>5. Line' = Line
  BY MovesOn DEF IInv
<1>6. Kept
  BY <1>1, <1>4, CallsKept DEF IInv
<1>7. TypeOK'
  <2>1. due' \in [Users -> BOOLEAN] /\ packs' \in Seq(Seq(transaction))
    BY <1>1 DEF IInv, TypeOK
  <2> QED BY <1>1, <1>4, <2>1 DEF IInv, TypeOK, runVars, chanVars
<1>8. Control'
  BY <1>1, <1>3, <1>4 DEF IInv, Control, runVars, now
<1> QED BY <1>1, <1>5, <1>6, <1>7, <1>8, QuietStep DEF IInv

\* A packet goes into h.incoming, or hw takes it from there.
LEMMA MovesOnStep ==
  ASSUME IInv, PutIncoming \/ TakeIncoming
  PROVE  IInv'
<1>1. Line' = Line
  BY MovesOn DEF IInv
<1>2. UNCHANGED <<userVars, packs, req, runVars, errors, chanVars>>
  BY DEF PutIncoming, TakeIncoming, prepVars
<1>3. Kept
  BY <1>2, CallsKept DEF IInv, userVars
<1>4. /\ flying \in Seq(Seq(transaction)) /\ incoming \in Seq(Seq(transaction))
      /\ tohw \in Seq(Seq(transaction)) /\ Len(incoming) <= IncomingCap
      /\ IncomingCap \in Nat
  BY Constants DEF IInv, TypeOK
<1>5. /\ flying' \in Seq(Seq(transaction)) /\ incoming' \in Seq(Seq(transaction))
      /\ tohw' \in Seq(Seq(transaction)) /\ Len(incoming') <= IncomingCap
  <2>1. CASE PutIncoming
    BY <1>4, <2>1 DEF PutIncoming
  <2>2. CASE TakeIncoming
    BY <1>4, <2>2 DEF TakeIncoming, prepVars
  <2> QED BY <2>1, <2>2
<1>6. TypeOK'
  BY <1>2, <1>5 DEF IInv, TypeOK, userVars, runVars, chanVars
<1>7. Control'
  BY <1>2 DEF IInv, Control, userVars, runVars
<1> QED BY <1>1, <1>2, <1>3, <1>6, <1>7, QuietStep DEF IInv, userVars

\* preparepackets receives a request: all of it is still to be sent.
LEMMA EnqueueStep ==
  ASSUME IInv, NEW u \in Users, Enqueue(u)
  PROVE  IInv'
<1> DEFINE r == newest(u)
           n == call(r).nwords
<1>1. /\ pc[u] = "enqueue" /\ req = NoReq
      /\ pc' = [pc EXCEPT ![u] = IF call(r).waits = "later" THEN "idle" ELSE "dispatch"]
      /\ req' = IF n = 0 THEN NoReq ELSE [r |-> r, left |-> n]
      /\ packs' = IF packs = <<>> THEN <<<<>>>> ELSE packs
      /\ UNCHANGED <<made, cur, due, returned, tohw, incoming, flying, runVars, errors, chanVars>>
  BY DEF Enqueue, Selecting, split
<1>2. /\ pc \in [Users -> {"idle", "enqueue", "dispatch", "range"}] /\ made[u] # <<>>
      /\ made[u] \in Seq(Call)
  BY <1>1 DEF IInv, TypeOK, Control
<1>3. r \in Requests /\ r[1] = u /\ r[2] = Len(made[u]) /\ Unborn(r)
  <2>1. r \in Requests /\ r[1] = u /\ r[2] = Len(made[u])
    BY <1>2, NewestMade DEF IInv
  <2> QED BY <1>1, <2>1 DEF Unborn
<1>4. call(r) \in Call /\ n \in 0 .. MaxWords /\ MaxWords \in Nat
  <2>1. Len(made[u]) \in 1 .. Len(made[u])
    BY <1>2
  <2>2. call(r) \in Call
    BY <1>2, <1>3, <2>1 DEF call
  <2> QED BY <2>2, Constants DEF Call
<1> HIDE DEF r, n
<1>5. /\ pc'[u] \in {"idle", "dispatch"} /\ \A v \in Users : v # u => pc'[v] = pc[v]
      /\ pc' \in [Users -> {"idle", "enqueue", "dispatch", "range"}]
  BY <1>1, <1>2
<1>6. packs' \in Seq(Seq(transaction)) /\ packs' # <<>>
  <2>1. packs \in Seq(Seq(transaction))
    BY DEF IInv, TypeOK
  <2>2. <<<<>>>> \in Seq(Seq(transaction)) /\ <<<<>>>> # <<>>
    OBVIOUS
  <2> QED BY <1>1, <2>1, <2>2
<1>7. TypeOK'
  <2>1. req' \in [r : Requests, left : 1 .. MaxWords] \cup {NoReq}
    BY <1>1, <1>3, <1>4
  <2> QED BY <1>1, <1>5, <1>6, <2>1 DEF IInv, TypeOK, runVars, chanVars
<1>8. Control'
  BY <1>1, <1>2, <1>5, <1>6 DEF IInv, Control, runVars
<1>9. Kept
  BY EnqueueKept DEF IInv
<1>10. /\ \A x : Waits(x, tosend', Line') <=> Waits(x, tosend, Line)
       /\ InTurn(tosend', Line') /\ Sized(tosend', Line')
  <2>1. InTurn(tosend, Line) /\ Sized(tosend, Line)
    BY DEF IInv, Turns
  <2>2. tosend \in Seq(transaction) /\ Line \in Seq(Seq(transaction))
    BY LineTyped DEF IInv
  <2>3. (Line' = Line \/ Line' = Append(Line, <<>>)) /\ tosend' = tosend
    BY EnqueueLine DEF IInv
  <2>4. CASE Line' = Append(Line, <<>>)
    <3> DEFINE new == Append(Line, <<>>)
    <3>1. /\ \A x : Waits(x, tosend, new) <=> Waits(x, tosend, Line)
          /\ InTurn(tosend, new) /\ Sized(tosend, new)
      BY <2>1, <2>2, PacketBegun
    <3> HIDE DEF new
    <3> QED BY <2>3, <2>4, <3>1 DEF new
  <2> QED BY <2>1, <2>3, <2>4
<1>11. ASSUME req' # NoReq PROVE Rest'
  <2>1. req'.r = r /\ req'.left = n
    BY <1>1, <1>11
  <2>2. call(req.r)' = call(r)
    BY <1>1, <2>1 DEF call
  <2>3. ~Unborn(req.r)'
    BY <1>1, <1>2, <1>3, <1>5, <2>1 DEF Unborn
  <2>4. got[r] = <<>> /\ r \notin closed
    BY <1>3 DEF IInv, Turns
  <2>5. \A t : Waiting(t)' => t.r # r
    <3>1. \A t : Waiting(t)' => Waiting(t)
      BY <1>10 DEF Waiting
    <3> QED BY <1>3, <3>1 DEF IInv, Turns, Cut
  <2>6. Done(req.r)' = 0 /\ req'.r \notin closed'
    BY <1>1, <2>1, <2>4 DEF Done, chanVars
  <2>7. (call(req.r).nwords - req.left)' = 0
    BY <1>4, <2>1, <2>2 DEF n
  <2>8. Reached(req.r, call(req.r).nwords - req.left)'
    BY <2>6, <2>7 DEF Reached
  <2> QED BY <2>1, <2>3, <2>5, <2>6, <2>7, <2>8 DEF Rest
<1>12. UNCHANGED runVars /\ got' = got /\ closed' = closed /\ returned' = returned /\ run' = run
  BY <1>1 DEF runVars, chanVars
<1>13. Turns'
  BY <1>9, <1>10, <1>11, <1>12, TurnsKept DEF IInv
<1>14. History' /\ Replies'
  BY <1>9, <1>12, HistoryKept, RepliesKept DEF IInv
<1> QED BY <1>7, <1>8, <1>12, <1>13, <1>14 DEF IInv, RunAlive

\* A count of words.
LEMMA DoneNat ==
  ASSUME TypeOK, NEW r \in Requests
  PROVE  Done(r) \in Nat /\ got[r] \in Seq([t : transaction, resp : Response])
<1> DEFINE n == Len(got[r])
<1>1. got[r] \in Seq([t : transaction, resp : Response])
  BY DEF TypeOK
<1>2. MaxWords \in Nat
  BY Constants
<1>3. CASE got[r] = <<>>
  BY <1>1, <1>3 DEF Done
<1>4. CASE got[r] # <<>>
  <2>1. n \in 1 .. n
    BY <1>1, <1>4
  <2>2. got[r][n] \in [t : transaction, resp : Response]
    BY <1>1, <2>1, ElementOfSeq
  <2>3. got[r][n].t.index \in 0 .. MaxWords /\ got[r][n].t.words \in 0 .. MaxWords
    BY <2>2 DEF transaction
  <2>4. End(got[r][n].t) \in Nat
    BY <1>2, <2>3 DEF End
  <2> QED BY <1>1, <1>4, <2>4 DEF Done
<1> QED BY <1>3, <1>4

\* preparepackets cuts the next transaction off a request.
LEMMA SplitStep ==
  ASSUME IInv, NEW n \in 1 .. MaxWords, NEW new \in BOOLEAN, Split(n, new)
  PROVE  IInv'
<1>1. PICK r, left, w : r = req.r /\ left = req.left /\ w = call(req.r).nwords
  OBVIOUS
<1>2. PICK t : t = Chunk(n)
  OBVIOUS
<1>3. /\ req # NoReq /\ n <= left /\ packs # <<>> /\ r \in Requests
      /\ left \in 1 .. MaxWords /\ MaxWords \in Nat
  <2>1. req # NoReq /\ n <= left
    BY <1>1 DEF Split
  <2>2. packs # <<>> /\ req \in [r : Requests, left : 1 .. MaxWords]
    BY <2>1 DEF IInv, TypeOK, Control
  <2>3. MaxWords \in Nat
    BY Constants
  <2> QED BY <1>1, <2>1, <2>2, <2>3
<1>4. /\ UNCHANGED <<userVars, tohw, incoming, flying, runVars, errors, chanVars>>
      /\ req' = IF n = left THEN NoReq ELSE [req EXCEPT !.left = left - n]
  BY <1>1 DEF Split
<1>5. UNCHANGED <<made, pc, cur, returned, got, closed, run, replies, tosend>>
  BY <1>4 DEF userVars, runVars, chanVars
<1>6. t.r = r /\ t.words = n /\ t.index = w - left /\ (t.closechan <=> n = left)
  BY <1>1, <1>2 DEF Chunk
<1>7. /\ ~Unborn(r) /\ r \notin closed /\ 0 <= w - left /\ Reached(r, w - left)
      /\ \A x : Waiting(x) /\ x.r = r => End(x) <= w - left
  BY <1>1, <1>3 DEF IInv, Turns, Rest
<1>8. w \in 0 .. MaxWords /\ w = call(r).nwords
  BY <1>1, <1>3, <1>7, BornFacts DEF IInv
<1>9. w - left \in 0 .. MaxWords /\ n \in Nat /\ left \in Nat /\ w \in Nat
  BY <1>3, <1>7, <1>8
<1>10. t \in transaction /\ t = Chunk(n)
  BY <1>1, <1>2, <1>3, <1>9 DEF Chunk, transaction
<1>11. Adds(Line, t, Line')
  BY <1>3, <1>10, SplitLine DEF IInv
<1>12. tosend \in Seq(transaction) /\ Line \in Seq(Seq(transaction))
  BY LineTyped DEF IInv
<1>13. InTurn(tosend, Line) /\ Sized(tosend, Line)
  BY DEF IInv, Turns
<1>14. /\ \A x : Waits(x, tosend, Line') <=> Waits(x, tosend, Line) \/ x = t
       /\ InTurn(tosend, Line') /\ Sized(tosend, Line')
  <2>1. \A x : Waits(x, tosend, Line) /\ x.r = t.r => End(x) <= t.index
    BY <1>6, <1>7 DEF Waiting
  <2> QED BY <1>10, <1>11, <1>12, <1>13, <2>1, TransactionAdded
<1>15. \A x : Waiting(x)' <=> Waiting(x) \/ x = t
  BY <1>5, <1>14 DEF Waiting
<1>16. /\ \A x : Done(x)' = Done(x)
       /\ \A x : Unborn(x)' <=> Unborn(x)
       /\ \A x : call(x)' = call(x)
  BY <1>5 DEF Done, Unborn, call
<1>17. \A x, i : Reached(x, i) => Reached(x, i)'
  BY <1>15, <1>16 DEF Reached
<1>18. End(t) = w - left + n /\ End(t) <= w /\ (t.closechan <=> End(t) = w)
  <2>1. End(t) = w - left + n
    BY <1>6 DEF End
  <2>2. w - left + n <= w /\ (n = left <=> w - left + n = w)
    BY <1>3, <1>9
  <2> QED BY <1>6, <2>1, <2>2
<1>19. Cut(t)'
  <2>1. ~Unborn(t.r)' /\ call(t.r)' = call(r)
    BY <1>6, <1>7, <1>16
  <2> QED BY <1>6, <1>8, <1>18, <2>1 DEF Cut
<1>20. ASSUME NEW x, Waiting(x)'
       PROVE  Cut(x)' /\ Reached(x.r, x.index)' /\ x.r \notin closed'
  <2>1. CASE x = t
    BY <1>5, <1>6, <1>7, <1>17, <1>19, <2>1
  <2>2. CASE x # t
    <3>1. Waiting(x)
      BY <1>15, <1>20, <2>2
    <3>2. Cut(x) /\ Reached(x.r, x.index) /\ x.r \notin closed
      BY <3>1 DEF IInv, Turns
    <3>3. Cut(x)'
      BY <1>16, <3>2 DEF Cut
    <3> QED BY <1>5, <1>17, <3>2, <3>3
  <2> QED BY <2>1, <2>2
<1>21. ASSUME req' # NoReq PROVE Rest'
  <2>1. n # left /\ req'.r = r /\ req'.left = left - n
    BY <1>1, <1>3, <1>4, <1>21 DEF IInv, TypeOK
  <2>2. call(req.r)' = call(r) /\ ~Unborn(req.r)' /\ req'.r \notin closed'
    BY <1>5, <1>7, <2>1 DEF call, Unborn
  <2>3. (call(req.r).nwords - req.left)' = w - left + n
    BY <1>8, <1>9, <2>1, <2>2
  <2>4. Done(r) <= w - left + n
    <3>1. Done(r) <= w - left
      BY <1>7 DEF Reached
    <3>2. Done(r) \in Nat
      BY <1>3, DoneNat DEF IInv
    <3> QED BY <1>9, <3>1, <3>2
  <2>5. Reached(r, w - left + n)'
    BY <1>6, <1>15, <1>16, <1>18, <2>4 DEF Reached
  <2>6. Reached(req.r, call(req.r).nwords - req.left)'
    BY <2>1, <2>3, <2>5 DEF Reached, Done
  <2>7. ASSUME NEW x, Waiting(x)', x.r = r PROVE End(x) <= w - left + n
    <3>1. CASE x = t
      BY <1>9, <1>18, <3>1
    <3>2. CASE x # t
      <4>1. Waiting(x) /\ End(x) <= w - left
        BY <1>7, <1>15, <2>7, <3>2
      <4>2. End(x) \in Nat
        BY <4>1, WaitingSound DEF IInv, End
      <4> QED BY <1>9, <4>1, <4>2
    <3> QED BY <3>1, <3>2
  <2>8. 0 <= w - left + n
    BY <1>7, <1>9
  <2> QED BY <2>1, <2>2, <2>3, <2>6, <2>7, <2>8 DEF Rest
<1>22. ASSUME NEW x \in Requests, Unborn(x)'
       PROVE  got'[x] = <<>> /\ x \notin returned' /\ x \notin closed'
  BY <1>5, <1>16, <1>22 DEF IInv, Turns
<1>23. Turns'
  BY <1>5, <1>14, <1>20, <1>21, <1>22 DEF Turns
<1>24. Kept
  BY <1>16 DEF Kept
<1>25. History' /\ Replies'
  BY <1>4, <1>5, <1>24, HistoryKept, RepliesKept DEF IInv
<1>26. packs' \in Seq(Seq(transaction)) /\ packs' # <<>>
  <2> DEFINE ps == IF new THEN Append(packs, <<>>) ELSE packs
  <2>1. packs \in Seq(Seq(transaction)) /\ <<>> \in Seq(transaction)
    BY DEF IInv, TypeOK
  <2>2. ps \in Seq(Seq(transaction)) /\ ps # <<>>
    BY <1>3, <2>1
  <2>3. packs' = [ps EXCEPT ![Len(ps)] = Append(ps[Len(ps)], t)]
    BY <1>10 DEF Split, Chunk
  <2> HIDE DEF ps
  <2>4. Len(ps) \in 1 .. Len(ps) /\ ps[Len(ps)] \in Seq(transaction)
    BY <2>2
  <2>5. Append(ps[Len(ps)], t) \in Seq(transaction)
    BY <1>10, <2>4
  <2>6. packs' \in Seq(Seq(transaction)) /\ Len(packs') = Len(ps)
    BY <2>2, <2>3, <2>4, <2>5, ExceptSeq
  <2> QED BY <2>4, <2>6
<1>27. req' \in [r : Requests, left : 1 .. MaxWords] \cup {NoReq}
  <2>1. req \in [r : Requests, left : 1 .. MaxWords]
    BY <1>3 DEF IInv, TypeOK
  <2>2. n # left => left - n \in 1 .. MaxWords
    BY <1>3, <1>9
  <2> QED BY <1>4, <2>1, <2>2
<1>28. TypeOK'
  BY <1>4, <1>26, <1>27 DEF IInv, TypeOK, userVars, runVars, chanVars
<1>29. Control'
  BY <1>5, <1>26 DEF IInv, Control
<1> QED BY <1>5, <1>23, <1>25, <1>28, <1>29 DEF IInv, RunAlive

-----------------------------------------------------------------------------
(* Run.                                                                    *)

\* Users and preparepackets go on while Run parses.
LEMMA RunQuiet ==
  ASSUME IInv, UNCHANGED <<userVars, prepVars, incoming, flying, tosend, chanVars>>
  PROVE  Turns' /\ History' /\ Kept /\ Line' = Line
<1>1. /\ made' = made /\ pc' = pc /\ got' = got /\ closed' = closed /\ returned' = returned
      /\ req' = req /\ tosend' = tosend
  BY DEF userVars, prepVars, chanVars
<1>2. Line' = Line
  BY DEF Line, prepVars
<1>3. Kept
  BY <1>1, CallsKept DEF IInv
<1> QED BY <1>1, <1>2, <1>3, TurnsKept, HistoryKept DEF IInv, Turns

\* The number of failed transactions.
LEMMA FailureCount ==
  ASSUME NEW codes \in Seq({Success, BusReadError})
  PROVE  Failures(codes) \in Nat
<1> DEFINE s == {i \in 1 .. Len(codes) : codes[i] # Success}
<1>1. IsFiniteSet(1 .. Len(codes))
  BY FS_Interval
<1>2. IsFiniteSet(s)
  BY <1>1, FS_Subset
<1>3. Cardinality(s) \in Nat
  BY <1>2, FS_CardinalityType
<1> QED BY <1>3 DEF Failures

\* A packet of the line has sound transactions and fits the ids.
LEMMA FirstInLine ==
  ASSUME IInv, Line # <<>>
  PROVE  /\ Head(Line) \in Seq(transaction) /\ Len(Head(Line)) <= MaxTransactions
         /\ \A i \in 1 .. Len(Head(Line)) : Sound(Head(Line)[i])
<1>1. Line \in Seq(Seq(transaction))
  BY LineTyped DEF IInv
<1>2. 1 \in 0 .. Len(Line) /\ 1 # 0 /\ Line[1] = Head(Line) /\ Head(Line) \in Seq(transaction)
  BY <1>1
<1>3. Packet(tosend, Line, 1) = Head(Line)
  BY <1>2 DEF Packet
<1>4. Len(Head(Line)) <= MaxTransactions
  BY <1>2, <1>3 DEF IInv, Turns, Sized
<1>5. \A i \in 1 .. Len(Head(Line)) : Waiting(Head(Line)[i])
  BY <1>2, <1>3 DEF Waiting, Waits
<1> QED BY <1>2, <1>4, <1>5, WaitingSound DEF IInv

\* The packet header of a reply.
LEMMA ReplyHeader ==
  ASSUME NEW o \in ByteOrder, NEW x \in Seq(Byte)
  PROVE  LET d == encodePacket([version |-> protocolversion, pid |-> 1, ptype |-> control,
                                order |-> o]) \o x
         IN  decodePacket(d).order = o /\ SubSeq(d, 5, Len(d)) = x
<1> DEFINE ph == [version |-> protocolversion, pid |-> 1, ptype |-> control, order |-> o]
           b == encodePacket(ph)
           d == b \o x
<1>1. ph \in packetheader /\ ph.version = protocolversion
  BY DEF packetheader, protocolversion, control, UInt16, MaxUInt16
<1>2. b = Ordered(<<32, 0, 1, 240>>, o)
  <2>1. (protocolversion * 16) % 256 = 32 /\ 1 \div 256 = 0 /\ 1 % 256 = 1
    BY DEF protocolversion
  <2>2. 240 + control = 240
    BY DEF control
  <2> QED BY <2>1, <2>2 DEF encodePacket
<1>3. b \in Seq(Byte) /\ Len(b) = 4
  <2>1. 32 \in Byte /\ 0 \in Byte /\ 1 \in Byte /\ 240 \in Byte
    BY DEF Byte
  <2> QED BY <1>2, <2>1, OrderedBytes
<1>4. decodePacket(b) = ph
  BY <1>1, PacketHeaderRoundTrip
<1> HIDE DEF b
<1>5. decodePacket(d).order = decodePacket(b).order
  BY <1>3, HeaderFirst
<1>6. SubSeq(d, Len(b) + 1, Len(d)) = x
  BY <1>3, AfterFirst
<1>7. SubSeq(d, 5, Len(d)) = x
  BY <1>3, <1>6
<1> QED BY <1>4, <1>5, <1>7 DEF b

\* A reply arrives: its rest is the answers, laid out one after the other.
LEMMA ReplyStep ==
  ASSUME IInv, Reply
  PROVE  IInv'
<1>1. PICK ts : ts = Head(flying)
  OBVIOUS
<1>2. Line # <<>> /\ tosend' = ts /\ Line' = Tail(Line) /\ ts = Head(Line)
  BY <1>1, ReplyLine DEF IInv
<1>3. /\ ts \in Seq(transaction) /\ Len(ts) <= MaxTransactions
      /\ \A i \in 1 .. Len(ts) : Sound(ts[i])
  BY <1>2, FirstInLine
<1>4. /\ run = "select" /\ run' = "parse" /\ replies' = <<>> /\ flying' = Tail(flying)
      /\ flying # <<>> /\ UNCHANGED <<userVars, prepVars, incoming, chanVars>>
  BY DEF Reply
<1>5. UNCHANGED <<made, pc, cur, due, returned, packs, req, tohw, got, closed>>
  BY <1>4 DEF userVars, prepVars, chanVars
<1>6. PICK codes \in Outcomes(Len(ts)), o \in ByteOrder :
        LET d == encodePacket([version |-> protocolversion, pid |-> 1, ptype |-> control,
                               order |-> o]) \o answers(ts, codes, o)
        IN  /\ data' = IF badPacketHeader(d) THEN <<>> ELSE SubSeq(d, 5, Len(d))
            /\ order' = IF badPacketHeader(d) THEN order ELSE decodePacket(d).order
            /\ errors' = errors + Failures(codes)
  BY <1>1 DEF Reply
<1>7. /\ codes \in Seq({Success, BusReadError}) /\ Len(codes) <= Len(ts)
      /\ errors + Failures(codes) <= MaxErrors
  <2>1. PICK m \in 0 .. Len(ts) : codes \in [1 .. m -> {Success, BusReadError}]
    BY DEF Outcomes
  <2>2. m \in Nat /\ m <= Len(ts)
    BY <1>3, <2>1
  <2>3. codes \in Seq({Success, BusReadError}) /\ Len(codes) = m
    BY <2>1, <2>2
  <2> QED BY <2>2, <2>3 DEF Outcomes
<1>8. errors' \in 0 .. MaxErrors
  <2>1. Failures(codes) \in Nat
    BY <1>7, FailureCount
  <2>2. errors \in 0 .. MaxErrors /\ MaxErrors \in Nat
    BY Constants DEF IInv, TypeOK
  <2> QED BY <1>6, <1>7, <2>1, <2>2
<1>9. Len(codes) <= MaxTransactions /\ \A i \in 1 .. Len(codes) : Sound(ts[i])
  <2>1. Len(codes) \in Nat /\ Len(ts) \in Nat /\ MaxTransactions \in Nat
    BY <1>3, <1>7, Constants
  <2> QED BY <1>3, <1>7, <2>1
<1>10. PICK f : Layout(f, ts, codes, o) /\ answers(ts, codes, o) = f[1]
  BY <1>7, <1>9, AnswersLaidOut
<1>11. f[1] \in Seq(Byte)
  <2>1. 1 \in 1 .. Len(codes) + 1
    BY <1>7
  <2> QED BY <1>10, <2>1 DEF Layout
<1>12. PICK d : d = encodePacket([version |-> protocolversion, pid |-> 1, ptype |-> control,
                                  order |-> o]) \o f[1]
  OBVIOUS
<1>13. decodePacket(d).order = o /\ SubSeq(d, 5, Len(d)) = f[1]
  BY <1>11, <1>12, ReplyHeader
<1>14. /\ data' = IF badPacketHeader(d) THEN <<>> ELSE f[1]
       /\ order' = IF badPacketHeader(d) THEN order ELSE o
  BY <1>6, <1>10, <1>12, <1>13
<1>15. data' \in Seq(Byte) /\ order' \in ByteOrder
  BY <1>11, <1>14 DEF IInv, TypeOK
<1>16. \E c, g : Parsed(c, g)'
  <2>1. ASSUME NEW c \in Seq({Success, BusReadError}), NEW g, NEW p,
               Len(c) <= Len(ts), Layout(g, ts, c, p), order' = p, data' = g[1]
        PROVE  Parsed(c, g)'
    <3>1. Layout(g, tosend, c, order)'
      BY <1>2, <1>5, <2>1 DEF Layout, answer, Wanted, call
    <3>2. Len(replies') = 0 /\ Len(c) \in Nat /\ 0 + 1 = 1 /\ 1 .. 0 = {}
      BY <1>4
    <3> QED BY <1>2, <2>1, <3>1, <3>2 DEF Parsed
  <2>2. CASE badPacketHeader(d)
    <3> DEFINE g == [i \in 1 .. 1 |-> <<>>]
               c == <<>>
    <3>1. c \in Seq({Success, BusReadError}) /\ Len(c) = 0 /\ Len(c) <= Len(ts)
      BY <1>3
    <3>2. g \in [1 .. 0 + 1 -> Seq(Byte)] /\ g[0 + 1] = <<>> /\ g[1] = <<>> /\ 1 .. 0 = {}
      OBVIOUS
    <3> HIDE DEF g, c
    <3>3. PICK p : p = order
      OBVIOUS
    <3>4. Layout(g, ts, c, p)
      BY <3>1, <3>2 DEF Layout
    <3>5. data' = g[1] /\ order' = p
      BY <1>14, <2>2, <3>2, <3>3
    <3>6. Parsed(c, g)'
      BY <2>1, <3>1, <3>4, <3>5
    <3> QED BY <3>6
  <2>3. CASE ~badPacketHeader(d)
    <3>1. data' = f[1] /\ order' = o
      BY <1>14, <2>3
    <3>2. Parsed(codes, f)'
      BY <1>7, <1>10, <2>1, <3>1
    <3> QED BY <3>2
  <2> QED BY <2>2, <2>3
<1>17. Replies' /\ RunAlive'
  BY <1>4, <1>16 DEF Replies, RunAlive
<1>18. Kept
  BY <1>5, CallsKept DEF IInv
<1>19. /\ \A x : Waits(x, tosend', Line') <=> Waits(x, tosend, Line)
       /\ InTurn(tosend', Line') /\ Sized(tosend', Line')
  <2>1. tosend = <<>> /\ InTurn(tosend, Line) /\ Sized(tosend, Line)
    BY <1>4 DEF IInv, Control, Turns
  <2>2. Line \in Seq(Seq(transaction))
    BY LineTyped DEF IInv
  <2> QED BY <1>2, <2>1, <2>2, PacketStarted
<1>20. Turns'
  BY <1>5, <1>18, <1>19, TurnsKept DEF IInv
<1>21. History'
  BY <1>5, <1>18, HistoryKept DEF IInv
<1>22. TypeOK'
  <2>1. flying' \in Seq(Seq(transaction)) /\ replies' \in Seq(Response)
    BY <1>4 DEF IInv, TypeOK
  <2> QED BY <1>2, <1>3, <1>4, <1>5, <1>8, <1>15, <2>1 DEF IInv, TypeOK
<1>23. Control'
  BY <1>4, <1>5 DEF IInv, Control
<1> QED BY <1>17, <1>20, <1>21, <1>22, <1>23 DEF IInv

\* A turn of parse finds the next answer whole, and the words of its transaction.
LEMMA ParseTransactionStep ==
  ASSUME IInv, ParseTransaction
  PROVE  IInv'
<1>1. /\ run = "parse" /\ data # <<>>
      /\ UNCHANGED <<userVars, prepVars, incoming, flying, order, tosend, errors, chanVars>>
  BY DEF ParseTransaction
<1>2. PICK codes, f : Parsed(codes, f)
  BY <1>1 DEF IInv, Replies
<1>3. PICK ts, o, d, n : ts = tosend /\ o = order /\ d = data /\ n = Len(replies)
  OBVIOUS
<1>4. /\ codes \in Seq({Success, BusReadError}) /\ Len(codes) <= Len(ts) /\ n <= Len(codes)
      /\ Layout(f, ts, codes, o) /\ d = f[n + 1]
      /\ \A i \in 1 .. n : Right(ts[i], replies[i])
  BY <1>2, <1>3 DEF Parsed
<1>5. /\ ts \in Seq(transaction) /\ o \in ByteOrder /\ replies \in Seq(Response)
      /\ n \in Nat /\ Len(codes) \in Nat /\ Len(ts) \in Nat
  BY <1>3, <1>4 DEF IInv, TypeOK
<1>6. n + 1 \in 1 .. Len(codes) /\ n + 1 \in 1 .. Len(ts)
  <2>1. n + 1 # Len(codes) + 1
    BY <1>1, <1>3, <1>4 DEF Layout
  <2> QED BY <1>4, <1>5, <2>1
<1>7. PICK t, code, x : t = ts[n + 1] /\ code = codes[n + 1] /\ x = f[n + 2]
  OBVIOUS
<1>8. /\ code \in {Success, BusReadError} /\ x \in Seq(Byte)
      /\ d = answer(t, n, code, o) \o x
  <2>1. (n + 1) - 1 = n /\ (n + 1) + 1 = n + 2 /\ n + 2 \in 1 .. Len(codes) + 1
    BY <1>5, <1>6
  <2>2. code \in {Success, BusReadError}
    BY <1>4, <1>6, <1>7
  <2>3. x \in Seq(Byte) /\ f[n + 1] = answer(ts[n + 1], (n + 1) - 1, codes[n + 1], o) \o f[(n + 1) + 1]
    BY <1>4, <1>6, <1>7, <2>1 DEF Layout
  <2> QED BY <1>4, <1>7, <2>1, <2>2, <2>3
<1>9. Sound(t) /\ t \in transaction
  BY <1>3, <1>6, <1>7, TosendWaits, WaitingSound DEF IInv
<1>10. n \in 0 .. MaxTransactionID
  <2>1. Len(ts) <= MaxTransactions
    <3>1. Sized(tosend, Line) /\ Line \in Seq(Seq(transaction))
      BY LineTyped DEF IInv, Turns
    <3>2. 0 \in 0 .. Len(Line) /\ Packet(tosend, Line, 0) = tosend
      BY <3>1 DEF Packet
    <3> QED BY <1>3, <3>1, <3>2 DEF Sized
  <2>2. (n + 1) - 1 \in 0 .. MaxTransactionID
    BY <1>5, <1>6, <2>1, TransactionIds
  <2>3. (n + 1) - 1 = n
    BY <1>5
  <2> QED BY <2>2, <2>3
<1>11. PICK th : th = decodeTransaction(d, o)
  OBVIOUS
<1>12. /\ d \in Seq(Byte) /\ Len(d) >= 4
       /\ th.id = n /\ th.code = code /\ skipped(th) \in 4 .. Len(d)
       /\ SubSeq(d, skipped(th) + 1, Len(d)) = x
       /\ code = Success => SubSeq(d, 5, skipped(th)) = wordsBytes(Wanted(t), o)
  <2>1. Taken(d, t, n, code, o, x)
    BY <1>5, <1>8, <1>9, <1>10, Answering
  <2> QED BY <1>11, <2>1 DEF Taken
<1> DEFINE w == SubSeq(d, 5, skipped(th))
           ok == [err |-> FALSE, code |-> Success,
                  data |-> IF call(t.r).byteslice THEN w ELSE bytes2uint32s(w, o)]
<1>13. PICK rs : rs = IF th.code # Success THEN errorResponse(th.code) ELSE ok
  OBVIOUS
<1>14. data' = x /\ replies' = Append(replies, rs) /\ run' = run
  <2>1. ~(Len(d) < 4) /\ ~(th.id >= Len(ts) \/ skipped(th) > Len(d)) /\ ts[th.id + 1] = t
    <3>1. Len(d) \in Nat /\ skipped(th) \in Nat
      BY <1>12
    <3> QED BY <1>5, <1>6, <1>7, <1>12, <3>1
  <2>2. IF Len(d) < 4 THEN run' = "spin" /\ UNCHANGED <<data, replies>>
        ELSE LET tt == ts[th.id + 1]
                 ww == SubSeq(d, 5, skipped(th))
                 rr == IF th.code # Success THEN errorResponse(th.code)
                       ELSE [err |-> FALSE, code |-> Success,
                             data |-> IF call(tt.r).byteslice THEN ww
                                      ELSE bytes2uint32s(ww, o)]
             IN  IF th.id >= Len(ts) \/ skipped(th) > Len(d)
                 THEN run' = "panic" /\ UNCHANGED <<data, replies>>
                 ELSE /\ data' = SubSeq(d, skipped(th) + 1, Len(d))
                      /\ replies' = Append(replies, rr)
                      /\ UNCHANGED run
    BY <1>3, <1>11 DEF ParseTransaction
  <2> QED BY <1>12, <1>13, <2>1, <2>2
<1>15. rs \in Response /\ Right(t, rs)
  <2>1. CASE code # Success
    <3>1. rs = [err |-> TRUE, code |-> code, data |-> <<>>]
      BY <1>12, <1>13, <2>1 DEF errorResponse
    <3>2. code \in 0 .. 15 /\ <<>> \in Seq(Nat)
      BY <1>8 DEF Success, BusReadError
    <3> QED BY <3>1, <3>2 DEF Response, Right
  <2>2. CASE code = Success
    <3>1. w = wordsBytes(Wanted(t), o) /\ Wanted(t) \in Seq(Value)
      BY <1>9, <1>12, <2>2, WantedWords
    <3>2. w \in Seq(Byte) /\ bytes2uint32s(w, o) = Wanted(t)
      BY <1>5, <3>1, WordsBack
    <3>3. rs = ok
      BY <1>12, <1>13, <2>2
    <3> HIDE DEF w
    <3>4. w \in Seq(Nat) /\ Wanted(t) \in Seq(Nat)
      <4>1. Byte \subseteq Nat /\ Value \subseteq Nat
        BY SMT DEF Byte, Value
      <4> QED BY <3>1, <3>2, <4>1, SeqMonotonic
    <3>5. Success \in 0 .. 15
      BY DEF Success
    <3>6. CASE call(t.r).byteslice
      BY <1>5, <3>1, <3>3, <3>4, <3>5, <3>6 DEF Response, Right
    <3>7. CASE ~call(t.r).byteslice
      BY <3>2, <3>3, <3>4, <3>5, <3>7 DEF Response, Right
    <3> QED BY <3>6, <3>7
  <2> QED BY <2>1, <2>2
<1>16. /\ replies' \in Seq(Response) /\ Len(replies') = n + 1 /\ replies'[n + 1] = rs
       /\ \A i \in 1 .. n : replies'[i] = replies[i]
  BY <1>3, <1>5, <1>14, <1>15
<1>17. UNCHANGED <<made, pc, cur, due, returned, packs, req, tohw, got, closed>>
  BY <1>1 DEF userVars, prepVars, chanVars
<1>18. Parsed(codes, f)'
  <2>1. tosend' = ts /\ order' = o /\ Len(replies') + 1 = n + 2 /\ Len(replies') <= Len(codes)
    BY <1>1, <1>3, <1>5, <1>6, <1>16
  <2>2. Layout(f, tosend, codes, order)'
    BY <1>4, <1>17, <2>1 DEF Layout, answer, Wanted, call
  <2>3. ASSUME NEW i \in 1 .. Len(replies') PROVE Right(tosend[i], replies[i])'
    <3>1. Right(ts[i], replies'[i])
      <4>1. i \in 1 .. n \/ i = n + 1
        BY <1>5, <1>16
      <4> QED BY <1>4, <1>7, <1>15, <1>16, <4>1
    <3> QED BY <1>17, <2>1, <3>1 DEF Right, Wanted, call
  <2> QED BY <1>4, <1>7, <1>14, <2>1, <2>2, <2>3 DEF Parsed
<1>19. Replies' /\ RunAlive'
  BY <1>1, <1>14, <1>18 DEF Replies, RunAlive
<1>20. Turns' /\ History'
  BY <1>1, RunQuiet
<1>21. TypeOK'
  BY <1>1, <1>8, <1>14, <1>16, <1>17 DEF IInv, TypeOK
<1>22. Control'
  BY <1>1, <1>14, <1>17 DEF IInv, Control
<1> QED BY <1>19, <1>20, <1>21, <1>22 DEF IInv

\* At its end there is a response to every transaction.
LEMMA ParseEndStep ==
  ASSUME IInv, ParseEnd
  PROVE  IInv'
<1>1. /\ run = "parse" /\ replies' = replies \o missing /\ order' = defaultorder
      /\ run' = IF tosend = <<>> THEN "select" ELSE "send"
      /\ UNCHANGED <<userVars, prepVars, incoming, flying, data, tosend, errors, chanVars>>
  BY DEF ParseEnd
<1>2. PICK codes, f : Parsed(codes, f)
  BY <1>1 DEF IInv, Replies
<1> DEFINE n == Len(replies)
           m == Len(tosend) - n
<1>3. /\ n \in Nat /\ Len(tosend) \in Nat /\ n <= Len(tosend) /\ replies \in Seq(Response)
      /\ \A i \in 1 .. n : Right(tosend[i], replies[i])
  <2>1. Len(codes) \in Nat /\ Len(codes) <= Len(tosend) /\ n <= Len(codes)
    BY <1>2 DEF Parsed
  <2>2. n \in Nat /\ Len(tosend) \in Nat /\ replies \in Seq(Response)
    BY DEF IInv, TypeOK
  <2> QED BY <1>2, <2>1, <2>2 DEF Parsed
<1>4. PICK e : e = errorResponse(Insufficient)
  OBVIOUS
<1>5. e \in Response /\ e.err
  <2>1. e = [err |-> TRUE, code |-> 14, data |-> <<>>]
    BY <1>4 DEF errorResponse, Insufficient
  <2>2. 14 \in 0 .. 15 /\ <<>> \in Seq(Nat)
    OBVIOUS
  <2> QED BY <2>1, <2>2 DEF Response
<1>6. missing \in Seq(Response) /\ Len(missing) = m /\ \A i \in 1 .. m : missing[i] = e
  <2>1. missing = [i \in 1 .. m |-> e]
    BY <1>4 DEF missing
  <2>2. m \in Nat
    BY <1>3
  <2> HIDE DEF m
  <2> QED BY <1>5, <2>1, <2>2
<1>7. /\ replies' \in Seq(Response) /\ Len(replies') = Len(tosend)
      /\ \A i \in 1 .. n : replies'[i] = replies[i]
      /\ \A i \in 1 .. m : replies'[n + i] = e
  <2>1. /\ replies' \in Seq(Response) /\ Len(replies') = n + Len(missing)
        /\ \A i \in 1 .. n : replies'[i] = replies[i]
        /\ \A i \in 1 .. Len(missing) : replies'[n + i] = missing[i]
    <3>1. replies \in Seq(Response) /\ missing \in Seq(Response)
      BY <1>3, <1>6
    <3> QED BY <1>1, <3>1, Joined
  <2>2. n + m = Len(tosend)
    BY <1>3
  <2> HIDE DEF n, m
  <2> QED BY <1>6, <2>1, <2>2
<1>8. UNCHANGED <<made, pc, cur, due, returned, packs, req, tohw, got, closed, tosend>>
  BY <1>1 DEF userVars, prepVars, chanVars
<1>9. ASSUME NEW i \in 1 .. Len(tosend) PROVE Right(tosend[i], replies[i])'
  <2>1. Right(tosend[i], replies'[i])
    <3>1. CASE i <= n
      BY <1>3, <1>7, <3>1
    <3>2. CASE i > n
      <4>1. i - n \in 1 .. m /\ n + (i - n) = i
        BY <1>3, <3>2
      <4> QED BY <1>5, <1>7, <4>1 DEF Right
    <3> QED BY <1>3, <3>1, <3>2
  <2> QED BY <1>8, <2>1 DEF Right, Wanted, call
<1>10. Replies' /\ RunAlive'
  BY <1>1, <1>8, <1>9 DEF Replies, RunAlive
<1>11. Turns' /\ History'
  BY <1>1, RunQuiet
<1>12. TypeOK'
  <2>1. order' \in ByteOrder
    BY <1>1 DEF defaultorder, ByteOrder
  <2> QED BY <1>1, <1>7, <1>8, <2>1 DEF IInv, TypeOK
<1>13. Control'
  BY <1>1, <1>7, <1>8 DEF IInv, Control
<1> QED BY <1>10, <1>11, <1>12, <1>13 DEF IInv

\* What send does, when there is a response for the transaction.
Sent(t, resp, e) ==
  /\ t = Head(tosend) /\ resp = Head(replies)
  /\ e <=> returns(call(t.r), resp, t.closechan)
  /\ pc[t.r[1]] = "range" /\ cur[t.r[1]] = t.r
  /\ got' = [got EXCEPT ![t.r] = Append(@, [t |-> t, resp |-> resp])]
  /\ closed' = IF t.closechan THEN closed \cup {t.r} ELSE closed
  /\ returned' = IF e THEN returned \cup {t.r} ELSE returned
  /\ pc' = IF e THEN [pc EXCEPT ![t.r[1]] = "idle"] ELSE pc
  /\ run' = IF Len(tosend) = 1 THEN "select" ELSE "send"
  /\ tosend' = Tail(tosend) /\ replies' = Tail(replies)
  /\ UNCHANGED <<made, cur, due, packs, req, tohw, incoming, flying, data, order, errors>>

\* There is one.
LEMMA SendSends ==
  ASSUME IInv, Send
  PROVE  /\ \E t, resp : \E e \in BOOLEAN : Sent(t, resp, e)
         /\ tosend # <<>> /\ replies # <<>> /\ run = "send"
<1>1. run = "send" /\ tosend # <<>> /\ Len(replies) = Len(tosend)
  BY DEF IInv, Control, Send
<1>2. replies # <<>>
  <2>1. tosend \in Seq(transaction) /\ replies \in Seq(Response)
    BY DEF IInv, TypeOK
  <2> QED BY <1>1, <2>1
<1>3. PICK t, resp : t = Head(tosend) /\ resp = Head(replies)
  OBVIOUS
<1>4. PICK e \in BOOLEAN : e <=> returns(call(t.r), resp, t.closechan)
  OBVIOUS
<1>5. Sent(t, resp, e)
  BY <1>2, <1>3, <1>4 DEF Sent, Send, closes, prepVars
<1> QED BY <1>1, <1>2, <1>5

\* The transaction that is answered is the first of its request, and takes its
\* place in the history of the channel.
LEMMA SentFirst ==
  ASSUME IInv, tosend # <<>>, NEW t, t = Head(tosend)
  PROVE  /\ t \in transaction /\ t.r \in Requests /\ Waiting(t) /\ Cut(t) /\ t.r \notin closed
         /\ t.index \in Nat /\ t.words \in Nat /\ End(t) \in Nat /\ t.index < End(t)
         /\ \A x : Waiting(x) <=> Waits(x, Tail(tosend), Line) \/ x = t
         /\ InTurn(Tail(tosend), Line) /\ Sized(Tail(tosend), Line)
         /\ \A x : Waits(x, Tail(tosend), Line) /\ x.r = t.r => End(t) <= x.index
         /\ Done(t.r) = t.index
<1>1. /\ tosend \in Seq(transaction) /\ Line \in Seq(Seq(transaction))
      /\ InTurn(tosend, Line) /\ Sized(tosend, Line)
  BY LineTyped DEF IInv, Turns
<1>2. /\ \A x : Waiting(x) <=> Waits(x, Tail(tosend), Line) \/ x = t
      /\ InTurn(Tail(tosend), Line) /\ Sized(Tail(tosend), Line)
      /\ \A x : Waits(x, Tail(tosend), Line) /\ x.r = t.r => End(t) <= x.index
  BY <1>1, TransactionSent DEF Waiting
<1>3. Waiting(t)
  BY <1>2
<1>4. t \in transaction /\ t.r \in Requests /\ t.index \in Nat /\ t.words \in Nat
  BY <1>3, WaitingSound DEF IInv
<1>5. Cut(t) /\ Reached(t.r, t.index) /\ t.r \notin closed
  BY <1>3 DEF IInv, Turns
<1>6. End(t) \in Nat /\ t.index < End(t)
  BY <1>4, <1>5 DEF Cut, End
<1>7. ASSUME NEW x, Waiting(x), x.r = t.r, End(x) = t.index PROVE FALSE
  <2>1. x # t
    BY <1>4, <1>6, <1>7
  <2>2. End(t) <= x.index
    BY <1>2, <1>7, <2>1
  <2>3. x.index \in Nat /\ x.words \in Nat
    BY <1>7, WaitingSound DEF IInv
  <2>4. x.index <= End(x)
    BY <2>3 DEF End
  <2> QED BY <1>4, <1>6, <1>7, <2>2, <2>3, <2>4
<1>8. Done(t.r) = t.index
  BY <1>5, <1>7 DEF Reached
<1> QED BY <1>2, <1>3, <1>4, <1>5, <1>6, <1>8

\* How the channels look after it.
LEMMA SentChannels ==
  ASSUME IInv, NEW t, NEW resp, NEW e, Sent(t, resp, e), t \in transaction,
         t.r \in Requests, resp \in Response
  PROVE  /\ got' \in [Requests -> Seq([t : transaction, resp : Response])]
         /\ \A r \in Requests : r # t.r => got'[r] = got[r]
         /\ Len(got'[t.r]) = Len(got[t.r]) + 1
         /\ got'[t.r][Len(got[t.r]) + 1].t = t
         /\ got'[t.r][Len(got[t.r]) + 1].resp = resp
         /\ \A i \in 1 .. Len(got[t.r]) : got'[t.r][i] = got[t.r][i]
         /\ got'[t.r] # <<>> /\ Len(got[t.r]) \in Nat
<1> DEFINE g == [t |-> t, resp |-> resp]
           G == [t : transaction, resp : Response]
<1>1. g \in G /\ g.t = t /\ g.resp = resp
  OBVIOUS
<1>2. got \in [Requests -> Seq(G)] /\ got' = [got EXCEPT ![t.r] = Append(got[t.r], g)]
  BY DEF IInv, TypeOK, Sent
<1> HIDE DEF g, G
<1>3. got[t.r] \in Seq(G)
  BY <1>2
<1>4. /\ Append(got[t.r], g) \in Seq(G) /\ Len(Append(got[t.r], g)) = Len(got[t.r]) + 1
      /\ Append(got[t.r], g)[Len(got[t.r]) + 1] = g
      /\ \A i \in 1 .. Len(got[t.r]) : Append(got[t.r], g)[i] = got[t.r][i]
      /\ Append(got[t.r], g) # <<>> /\ Len(got[t.r]) \in Nat
  BY <1>1, <1>3
<1>5. got'[t.r] = Append(got[t.r], g) /\ \A r \in Requests : r # t.r => got'[r] = got[r]
  BY <1>2
<1>6. got' \in [Requests -> Seq(G)]
  BY <1>2, <1>4
<1> QED BY <1>1, <1>4, <1>5, <1>6 DEF G

\* The others of its request have come closer to their turn.
LEMMA SendTurns ==
  ASSUME IInv, tosend # <<>>, NEW t, NEW resp \in Response, NEW e, Sent(t, resp, e)
  PROVE  Turns' /\ Kept /\ Done(t.r)' = End(t) /\ \A r \in Requests : r # t.r => Done(r)' = Done(r)
<1>1. t = Head(tosend)
  BY DEF Sent
<1>2. /\ t \in transaction /\ t.r \in Requests /\ Waiting(t) /\ Cut(t) /\ t.r \notin closed
      /\ t.index \in Nat /\ t.words \in Nat /\ End(t) \in Nat /\ t.index < End(t)
      /\ \A x : Waiting(x) <=> Waits(x, Tail(tosend), Line) \/ x = t
      /\ InTurn(Tail(tosend), Line) /\ Sized(Tail(tosend), Line)
      /\ \A x : Waits(x, Tail(tosend), Line) /\ x.r = t.r => End(t) <= x.index
      /\ Done(t.r) = t.index
  BY <1>1, SentFirst
<1>3. /\ \A r \in Requests : r # t.r => got'[r] = got[r]
      /\ Len(got'[t.r]) = Len(got[t.r]) + 1
      /\ got'[t.r][Len(got[t.r]) + 1].t = t
      /\ got'[t.r] # <<>>
  BY <1>2, SentChannels
<1>4. Done(t.r)' = End(t) /\ \A r \in Requests : r # t.r => Done(r)' = Done(r)
  BY <1>3 DEF Done
<1>5. made' = made /\ req' = req /\ cur' = cur /\ tosend' = Tail(tosend)
  BY DEF Sent
<1>6. Line' = Line
  BY DEF Sent, Line
<1>7. \A x : Waiting(x)' <=> Waits(x, Tail(tosend), Line)
  BY <1>5, <1>6 DEF Waiting
<1>8. \A u \in Users : pc'[u] = "enqueue" <=> pc[u] = "enqueue"
  BY DEF Sent, IInv, TypeOK
<1>9. Kept
  BY <1>5, <1>8, CallsKept DEF IInv
<1>10. ASSUME NEW r \in Requests, NEW i \in Nat, Reached(r, i), r = t.r => End(t) <= i
       PROVE  Reached(r, i)'
  <2>1. CASE r # t.r
    <3>1. \A x : Waiting(x) /\ x.r = r => Waiting(x)'
      BY <1>2, <1>7, <2>1
    <3> QED BY <1>4, <1>10, <2>1, <3>1 DEF Reached
  <2>2. CASE r = t.r
    <3>1. Done(r)' <= i /\ Done(r) # i
      BY <1>2, <1>4, <1>10, <2>2
    <3>2. PICK x : Waiting(x) /\ x.r = r /\ End(x) = i
      BY <1>10, <3>1 DEF Reached
    <3>3. x = t \/ Waiting(x)'
      BY <1>2, <1>7, <3>2
    <3> QED BY <1>4, <2>2, <3>1, <3>2, <3>3 DEF Reached
  <2> QED BY <2>1, <2>2
<1>11. closed' = IF t.closechan THEN closed \cup {t.r} ELSE closed
  BY DEF Sent
<1>12. t.closechan => End(t) = call(t.r).nwords
  BY <1>2 DEF Cut
<1>13. ASSUME NEW x, Waiting(x)'
       PROVE  Cut(x)' /\ Reached(x.r, x.index)' /\ x.r \notin closed'
  <2>1. Waiting(x) /\ (x.r = t.r => End(t) <= x.index)
    BY <1>2, <1>7, <1>13
  <2>2. Cut(x) /\ Reached(x.r, x.index) /\ x.r \notin closed
    BY <2>1 DEF IInv, Turns
  <2>3. x.r \in Requests /\ x.index \in Nat /\ x.words \in Nat
    BY <2>1, WaitingSound DEF IInv
  <2>4. Cut(x)'
    <3>1. ~Unborn(x.r)' /\ call(x.r)' = call(x.r)
      BY <1>9, <2>2, <2>3 DEF Kept, Cut
    <3> QED BY <2>2, <3>1 DEF Cut
  <2>5. Reached(x.r, x.index)'
    BY <1>10, <2>1, <2>2, <2>3
  <2>6. ASSUME t.closechan, x.r = t.r PROVE FALSE
    <3>1. End(t) <= x.index /\ End(x) <= call(t.r).nwords /\ 1 <= x.words
      BY <2>1, <2>2, <2>6 DEF Cut
    <3>2. x.index < End(x) /\ End(x) \in Nat
      BY <2>3, <3>1 DEF End
    <3>3. End(t) = call(t.r).nwords
      BY <1>12, <2>6
    <3> QED BY <1>2, <2>3, <3>1, <3>2, <3>3
  <2> QED BY <1>11, <2>2, <2>4, <2>5, <2>6
<1>14. ASSUME req' # NoReq PROVE Rest'
  <2>1. PICK r, i : r = req.r /\ i = call(req.r).nwords - req.left
    OBVIOUS
  <2>2. r \in Requests /\ req.left \in 1 .. MaxWords
    <3>1. req \in [r : Requests, left : 1 .. MaxWords]
      BY <1>5, <1>14 DEF IInv, TypeOK
    <3> QED BY <2>1, <3>1
  <2>3. /\ ~Unborn(r) /\ r \notin closed /\ 0 <= i /\ Reached(r, i)
        /\ \A x : Waiting(x) /\ x.r = r => End(x) <= i
    BY <1>5, <1>14, <2>1 DEF IInv, Turns, Rest
  <2>4. call(r).nwords \in 0 .. MaxWords /\ MaxWords \in Nat
    BY <2>2, <2>3, BornFacts, Constants DEF IInv
  <2>5. i \in Nat /\ i < call(r).nwords
    BY <2>1, <2>2, <2>3, <2>4
  <2>6. Reached(r, i)'
    BY <1>2, <1>10, <2>2, <2>3, <2>5
  <2>7. r \notin closed'
    <3>1. ASSUME t.closechan, t.r = r PROVE FALSE
      <4>1. End(t) = call(r).nwords /\ End(t) <= i
        BY <1>2, <1>12, <2>3, <3>1
      <4> QED BY <1>2, <2>5, <4>1
    <3> QED BY <1>11, <2>3, <3>1
  <2>8. req'.r = r /\ (call(req.r).nwords - req.left)' = i
    BY <1>5, <2>1 DEF call
  <2>9. ~Unborn(req.r)'
    <3>1. ~Unborn(r)'
      BY <1>9, <2>2, <2>3 DEF Kept
    <3> QED BY <2>8, <3>1 DEF Unborn
  <2>10. Reached(req.r, call(req.r).nwords - req.left)'
    BY <2>6, <2>8 DEF Reached, Done
  <2>11. \A x : Waiting(x)' /\ x.r = r => End(x) <= i
    BY <1>2, <1>7, <2>3
  <2> QED BY <2>3, <2>7, <2>8, <2>9, <2>10, <2>11 DEF Rest
<1>15. ASSUME NEW r \in Requests, Unborn(r)'
       PROVE  got'[r] = <<>> /\ r \notin returned' /\ r \notin closed'
  <2>1. Unborn(r)
    BY <1>9, <1>15 DEF Kept
  <2>2. r # t.r
    BY <1>2, <2>1 DEF Cut
  <2>3. got[r] = <<>> /\ r \notin returned /\ r \notin closed
    BY <2>1 DEF IInv, Turns
  <2> QED BY <1>3, <2>2, <2>3 DEF Sent
<1>16. Sized(tosend', Line') /\ InTurn(tosend', Line')
  BY <1>2, <1>5, <1>6
<1>17. Turns'
  BY <1>13, <1>14, <1>15, <1>16 DEF Turns
<1> QED BY <1>4, <1>9, <1>17

\* The response is the next one of its request, and the right one.
LEMMA SendHistory ==
  ASSUME IInv, tosend # <<>>, NEW t, NEW resp \in Response, NEW e \in BOOLEAN,
         Sent(t, resp, e), Right(t, resp)
  PROVE  History'
<1>1. t = Head(tosend) /\ made' = made
  BY DEF Sent
<1>2. /\ t \in transaction /\ t.r \in Requests /\ Cut(t) /\ Done(t.r) = t.index
      /\ t.index \in Nat /\ t.words \in Nat /\ End(t) \in Nat
  BY <1>1, SentFirst
<1>3. PICK m : m = Len(got[t.r])
  OBVIOUS
<1>4. /\ m \in Nat
      /\ \A r \in Requests : r # t.r => got'[r] = got[r]
      /\ Len(got'[t.r]) = m + 1
      /\ got'[t.r][m + 1].t = t
      /\ got'[t.r][m + 1].resp = resp
      /\ \A i \in 1 .. m : got'[t.r][i] = got[t.r][i]
      /\ got'[t.r] # <<>>
  BY <1>2, <1>3, SentChannels
<1>5. Done(t.r)' = End(t) /\ \A r \in Requests : r # t.r => Done(r)' = Done(r)
  BY SendTurns
<1>6. ASSUME NEW r \in Requests, NEW i \in 1 .. Len(got[r])
      PROVE  /\ got[r][i].t.r = r
             /\ got[r][i].t.index = IF i = 1 THEN 0 ELSE End(got[r][i - 1].t)
             /\ Right(got[r][i].t, got[r][i].resp)
  BY DEF IInv, History
<1>7. ASSUME NEW r \in Requests, NEW i \in 1 .. Len(got'[r])
      PROVE  /\ got'[r][i].t.r = r
             /\ got'[r][i].t.index = IF i = 1 THEN 0 ELSE End(got'[r][i - 1].t)
             /\ Right(got'[r][i].t, got'[r][i].resp)
  <2>1. CASE r # t.r
    BY <1>4, <1>6, <2>1
  <2>2. CASE r = t.r /\ i # m + 1
    <3>1. i \in 1 .. m /\ (i # 1 => i - 1 \in 1 .. m)
      BY <1>4, <2>2
    <3>2. got'[r][i] = got[r][i] /\ (i # 1 => got'[r][i - 1] = got[r][i - 1])
      BY <1>4, <2>2, <3>1
    <3>3. i \in 1 .. Len(got[r])
      BY <1>3, <2>2, <3>1
    <3>4. /\ got[r][i].t.r = r
          /\ got[r][i].t.index = IF i = 1 THEN 0 ELSE End(got[r][i - 1].t)
          /\ Right(got[r][i].t, got[r][i].resp)
      BY <1>6, <3>3
    <3> QED BY <3>2, <3>4
  <2>3. CASE r = t.r /\ i = m + 1
    <3>1. got'[r][i].t = t /\ got'[r][i].resp = resp
      BY <1>4, <2>3
    <3>2. t.index = IF i = 1 THEN 0 ELSE End(got'[r][i - 1].t)
      <4>0. got[t.r] \in Seq([t : transaction, resp : Response])
        BY <1>2, DoneNat DEF IInv
      <4>1. CASE m = 0
        <5>1. got[t.r] = <<>> /\ i = 1
          <6>1. got[t.r] # <<>> => Len(got[t.r]) # 0
            BY <4>0, EmptySeq
          <6>2. i = 1
            BY <2>3, <4>1
          <6> QED BY <1>3, <4>1, <6>1, <6>2
        <5> QED BY <1>2, <5>1 DEF Done
      <4>2. CASE m # 0
        <5>1. i # 1 /\ i - 1 = m /\ m \in 1 .. m
          BY <1>4, <2>3, <4>2
        <5>2. got[t.r] # <<>>
          BY <1>3, <4>0, <4>2
        <5>3. t.index = End(got[t.r][m].t)
          BY <1>2, <1>3, <5>2 DEF Done
        <5>4. got'[t.r][m] = got[t.r][m]
          BY <1>4, <5>1
        <5> QED BY <2>3, <5>1, <5>3, <5>4
      <4> QED BY <4>1, <4>2
    <3> QED BY <2>3, <3>1, <3>2
  <2> QED BY <2>1, <2>2, <2>3
<1>8. ASSUME NEW r \in Requests, NEW i \in 1 .. Len(got'[r])
      PROVE  Right(got[r][i].t, got[r][i].resp)'
  <2>1. PICK a, b : a = got'[r][i].t /\ b = got'[r][i].resp
    OBVIOUS
  <2>2. Right(a, b)
    BY <1>7, <2>1
  <2>3. Right(a, b)'
    BY <1>1, <2>2 DEF Right, Wanted, call
  <2> QED BY <2>1, <2>3 DEF Right, Wanted, call
<1>9. call(t.r).nwords \in Nat /\ (call(t.r).waits = "one" => call(t.r).nwords = 1)
  <2>1. /\ call(t.r).nwords \in 0 .. MaxWords
        /\ call(t.r).tid \in rmws => call(t.r).nwords = 1
        /\ call(t.r).waits = "one" => call(t.r).tid \in rmws
    BY <1>2, BornFacts DEF IInv, Cut
  <2>2. MaxWords \in Nat
    BY Constants
  <2> QED BY <2>1, <2>2
<1>10. ASSUME NEW r \in closed'
       PROVE  r \in Requests /\ got'[r] # <<>> /\ Done(r)' = call(r).nwords
  <2>1. CASE r # t.r
    <3>1. r \in closed /\ r \in Requests
      BY <1>10, <2>1 DEF Sent, IInv, TypeOK
    <3>2. got[r] # <<>> /\ Done(r) = call(r).nwords
      BY <3>1 DEF IInv, History
    <3> QED BY <1>4, <1>5, <2>1, <3>1, <3>2
  <2>2. CASE r = t.r
    <3>1. r \notin closed
      BY <1>1, <2>2, SentFirst
    <3>2. t.closechan
      BY <1>10, <3>1 DEF Sent
    <3>3. End(t) = call(t.r).nwords
      BY <1>2, <3>2 DEF Cut
    <3> QED BY <1>2, <1>4, <1>5, <2>2, <3>3
  <2> QED BY <2>1, <2>2
<1>11. ASSUME NEW r \in returned'
       PROVE  /\ r \in Requests /\ got'[r] # <<>>
              /\ \/ \E i \in 1 .. Len(got'[r]) : got'[r][i].resp.err
                 \/ Done(r)' = call(r).nwords
  <2>1. CASE r # t.r
    <3>1. r \in returned /\ r \in Requests
      BY <1>11, <2>1 DEF Sent, IInv, TypeOK
    <3>2. got[r] # <<>> /\ (\/ \E i \in 1 .. Len(got[r]) : got[r][i].resp.err
                            \/ Done(r) = call(r).nwords)
      BY <3>1 DEF IInv, History
    <3> QED BY <1>4, <1>5, <2>1, <3>1, <3>2
  <2>2. CASE r = t.r
    <3>1. r \notin returned
      <4>1. t.r[1] \in Users
        BY <1>2, RequestFacts
      <4>2. pc[t.r[1]] = "range" /\ cur[t.r[1]] = t.r
        BY DEF Sent
      <4> QED BY <2>2, <4>1, <4>2 DEF IInv, Control
    <3>2. e /\ returns(call(t.r), resp, t.closechan)
      BY <1>11, <3>1 DEF Sent
    <3>3. CASE t.closechan
      <4>1. End(t) = call(t.r).nwords
        BY <1>2, <3>3 DEF Cut
      <4> QED BY <1>2, <1>4, <1>5, <2>2, <4>1
    <3>4. CASE call(t.r).waits = "one"
      <4>1. 1 <= t.words /\ End(t) <= 1 /\ call(t.r).nwords = 1
        BY <1>2, <1>9, <3>4 DEF Cut
      <4>2. End(t) = call(t.r).nwords
        BY <1>2, <4>1 DEF End
      <4> QED BY <1>2, <1>4, <1>5, <2>2, <4>2
    <3>5. CASE resp.err
      <4>1. m + 1 \in 1 .. Len(got'[r]) /\ got'[r][m + 1].resp.err
        BY <1>4, <2>2, <3>5
      <4> QED BY <1>2, <1>4, <2>2, <4>1
    <3> QED BY <3>2, <3>3, <3>4, <3>5 DEF returns
  <2> QED BY <2>1, <2>2
<1>12. \A r : call(r)' = call(r)
  BY <1>1 DEF call
<1> QED BY <1>7, <1>8, <1>10, <1>11, <1>12 DEF History

\* send hands a response over.
LEMMA SendStep ==
  ASSUME IInv, Send
  PROVE  IInv'
<1>1. tosend # <<>> /\ replies # <<>> /\ run = "send"
  BY SendSends
<1>0. PICK t, resp : \E e \in BOOLEAN : Sent(t, resp, e)
  BY SendSends
<1>2. PICK e \in BOOLEAN : Sent(t, resp, e)
  BY <1>0
<1>3. /\ tosend \in Seq(transaction) /\ replies \in Seq(Response)
      /\ Len(replies) = Len(tosend)
      /\ \A i \in 1 .. Len(tosend) : Right(tosend[i], replies[i])
  BY <1>1 DEF IInv, TypeOK, Control, Replies
<1>4. /\ t = Head(tosend) /\ resp = Head(replies) /\ tosend' = Tail(tosend)
      /\ replies' = Tail(replies) /\ made' = made /\ cur' = cur
      /\ run' = IF Len(tosend) = 1 THEN "select" ELSE "send"
      /\ returned' = IF e THEN returned \cup {t.r} ELSE returned
      /\ pc' = IF e THEN [pc EXCEPT ![t.r[1]] = "idle"] ELSE pc
      /\ pc[t.r[1]] = "range" /\ cur[t.r[1]] = t.r
  BY <1>2 DEF Sent
<1>5. resp \in Response /\ Right(t, resp)
  <2>1. 1 \in 1 .. Len(tosend) /\ tosend[1] = t /\ replies[1] = resp /\ resp \in Response
    BY <1>1, <1>3, <1>4
  <2> QED BY <1>3, <2>1
<1>6. Turns' /\ Kept
  BY <1>1, <1>2, <1>5, SendTurns
<1>7. History'
  BY <1>1, <1>2, <1>5, SendHistory
<1>8. t.r \in Requests /\ t \in transaction /\ t.r[1] \in Users
  <2>1. t.r \in Requests /\ t \in transaction
    BY <1>1, <1>4, SentFirst
  <2> QED BY <2>1, RequestFacts
<1>9. /\ Len(tosend) \in Nat \ {0} /\ tosend' \in Seq(transaction) /\ replies' \in Seq(Response)
      /\ Len(tosend') = Len(tosend) - 1 /\ Len(replies') = Len(tosend) - 1
      /\ \A i \in 1 .. Len(tosend) - 1 : /\ i + 1 \in 1 .. Len(tosend)
                                         /\ tosend'[i] = tosend[i + 1]
                                         /\ replies'[i] = replies[i + 1]
  BY <1>1, <1>3, <1>4
<1>10. ASSUME NEW i \in 1 .. Len(tosend') PROVE Right(tosend[i], replies[i])'
  <2>1. Right(tosend'[i], replies'[i])
    BY <1>3, <1>9
  <2> QED BY <1>4, <2>1 DEF Right, Wanted, call
<1>11. Replies' /\ RunAlive'
  BY <1>4, <1>10 DEF Replies, RunAlive
<1>12. TypeOK'
  <2>1. got' \in [Requests -> Seq([t : transaction, resp : Response])]
    BY <1>2, <1>5, <1>8, SentChannels
  <2>2. pc' \in [Users -> {"idle", "enqueue", "dispatch", "range"}]
    BY <1>4, <1>8 DEF IInv, TypeOK
  <2>3. returned' \subseteq Requests /\ closed' \subseteq Requests
    BY <1>2, <1>4, <1>8 DEF IInv, TypeOK, Sent
  <2> QED BY <1>2, <1>4, <1>9, <2>1, <2>2, <2>3 DEF IInv, TypeOK, Sent
<1>13. ASSUME NEW v \in Users
       PROVE  /\ pc'[v] = "range" => /\ cur'[v] \in Requests /\ cur'[v][1] = v
                                     /\ cur'[v] \notin returned'
              /\ pc'[v] \in {"enqueue", "dispatch"} => made'[v] # <<>>
  <2>1. pc \in [Users -> {"idle", "enqueue", "dispatch", "range"}]
    BY DEF IInv, TypeOK
  <2>2. /\ pc[v] = "range" => cur[v] \in Requests /\ cur[v][1] = v /\ cur[v] \notin returned
        /\ pc[v] \in {"enqueue", "dispatch"} => made[v] # <<>>
    BY DEF IInv, Control
  <2>3. CASE v # t.r[1]
    <3>1. pc'[v] = pc[v]
      BY <1>4, <2>1, <2>3
    <3> QED BY <1>4, <2>2, <2>3, <3>1
  <2>4. CASE v = t.r[1] /\ e
    <3>1. pc'[v] = "idle"
      BY <1>4, <2>1, <2>4
    <3> QED BY <3>1
  <2>5. CASE v = t.r[1] /\ ~e
    BY <1>4, <2>2, <2>5
  <2> QED BY <2>3, <2>4, <2>5
<1>14. Control'
  <2>1. run' = "select" => tosend' = <<>>
    <3>1. Len(tosend) = 1 => tosend' = <<>>
      BY <1>3, <1>4
    <3> QED BY <1>4, <3>1
  <2>2. run' = "send" => tosend' # <<>> /\ Len(replies') = Len(tosend')
    <3>1. Len(tosend) # 1 => Len(tosend') # 0
      BY <1>9
    <3>2. Len(tosend') # 0 => tosend' # <<>>
      BY <1>9
    <3> QED BY <1>4, <1>9, <3>1, <3>2
  <2>3. req' = req /\ packs' = packs
    BY <1>2 DEF Sent
  <2> QED BY <1>4, <1>13, <2>1, <2>2, <2>3 DEF IInv, Control
<1> QED BY <1>6, <1>7, <1>11, <1>12, <1>14 DEF IInv

-----------------------------------------------------------------------------
(* The theorems.                                                           *)

\* Nothing has been asked for.
LEMMA InitIInv == Init => IInv
<1> SUFFICES ASSUME Init PROVE IInv
  OBVIOUS
<1>1. Line = <<>> /\ Len(Line) = 0
  BY DEF Init, Line
<1>2. TypeOK
  <2>1. IncomingCap \in Nat /\ MaxErrors \in Nat
    BY Constants
  <2>2. \A u \in Users : Len(<<>>) <= Len(Menu[u])
    <3>1. \A u \in Users : Menu[u] \in Seq(SUBSET Call)
      BY Constants
    <3> QED BY <3>1
  <2>3. \A u \in Users : <<u, 1>> \in Users \X Nat
    OBVIOUS
  <2>4. Len(<<>>) = 0 /\ <<>> \in Seq(Call) /\ <<>> \in Seq(Byte) /\ <<>> \in Seq(Response)
        /\ <<>> \in Seq(transaction) /\ <<>> \in Seq(Seq(transaction))
        /\ <<>> \in Seq([t : transaction, resp : Response])
    OBVIOUS
  <2>5. defaultorder \in ByteOrder
    BY DEF defaultorder, ByteOrder
  <2> QED BY <2>1, <2>2, <2>3, <2>4, <2>5 DEF Init, TypeOK
<1>3. \A x : ~Waits(x, tosend, Line)
  <2>1. ASSUME NEW x, Waits(x, tosend, Line) PROVE FALSE
    <3>1. PICK i \in 0 .. 0 : \E j \in 1 .. Len(Packet(tosend, Line, i)) :
                                Packet(tosend, Line, i)[j] = x
      BY <1>1, <2>1 DEF Waits
    <3>2. Packet(tosend, Line, i) = <<>>
      BY <3>1 DEF Packet, Init
    <3> QED BY <3>1, <3>2
  <2> QED BY <2>1
<1>4. InTurn(tosend, Line) /\ Sized(tosend, Line)
  <2>1. \A i \in 0 .. Len(Line) : Len(Packet(tosend, Line, i)) = 0
    BY <1>1 DEF Packet, Init
  <2>2. MaxTransactions \in Nat /\ 0 <= MaxTransactions /\ 1 .. 0 = {}
    BY Constants
  <2> QED BY <2>1, <2>2 DEF InTurn, Sized
<1>5. Turns
  BY <1>3, <1>4 DEF Turns, Waiting, Init
<1>6. Control /\ Replies /\ RunAlive
  BY DEF Init, Control, Replies, RunAlive
<1>7. History
  BY DEF Init, History
<1> QED BY <1>2, <1>5, <1>6, <1>7 DEF IInv

\* Every step keeps the invariant.
LEMMA StepIInv == IInv /\ [Next]_vars => IInv'
<1> SUFFICES ASSUME IInv, [Next]_vars PROVE IInv'
  OBVIOUS
<1>1. CASE \E u \in Users : MakeRequest(u) \/ UserStep(u)
  BY <1>1, MakeRequestStep, EnqueueStep, CallDispatchStep, DispatchStep, ReceiveStep DEF UserStep
<1>2. CASE Prepare
  BY <1>2, MovesOnStep, SplitStep DEF Prepare
<1>3. CASE Run
  BY <1>3, MovesOnStep, ParseTransactionStep, ParseEndStep, SendStep DEF Run
<1>4. CASE Reply
  BY <1>4, ReplyStep
<1>5. CASE UNCHANGED vars
  <2>1. UNCHANGED <<returned, req, runVars, chanVars>> /\ made' = made /\ pc' = pc
    BY <1>5 DEF vars, userVars, prepVars
  <2>2. Line' = Line
    BY <1>5 DEF vars, prepVars, Line
  <2>3. Kept
    BY <2>1, CallsKept DEF IInv
  <2>4. TypeOK'
    BY <1>5 DEF IInv, TypeOK, vars, userVars, prepVars, runVars, chanVars
  <2>5. Control'
    BY <1>5 DEF IInv, Control, vars, userVars, prepVars, runVars, chanVars
  <2> QED BY <2>1, <2>2, <2>3, <2>4, <2>5, QuietStep DEF IInv
<1> QED BY <1>1, <1>2, <1>3, <1>4, <1>5 DEF Next

\* A packet in one of the queues is in line.
LEMMA InLine ==
  ASSUME TypeOK, NEW p, p \in ToSet(packs \o tohw \o incoming \o flying) \cup {tosend}
  PROVE  p = tosend \/ \E i \in 1 .. Len(Line) : Line[i] = p
<1> DEFINE Q == Seq(transaction)
           In(s) == \E i \in 1 .. Len(s) : s[i] = p
<1>1. packs \in Seq(Q) /\ tohw \in Seq(Q) /\ incoming \in Seq(Q) /\ flying \in Seq(Q)
  BY DEF TypeOK
<1> HIDE DEF Q
<1>2. ASSUME NEW a \in Seq(Q), NEW b \in Seq(Q)
      PROVE  a \o b \in Seq(Q) /\ (In(a \o b) <=> In(a) \/ In(b))
  <2> DEFINE c == a \o b
             n == Len(a)
             m == Len(b)
  <2>1. /\ c \in Seq(Q) /\ Len(c) = n + m /\ n \in Nat /\ m \in Nat
        /\ \A i \in 1 .. n : c[i] = a[i]
        /\ \A i \in 1 .. m : c[n + i] = b[i]
    BY Joined
  <2> HIDE DEF c, n, m
  <2>2. ASSUME NEW i \in 1 .. n PROVE i \in 1 .. Len(c) /\ c[i] = a[i]
    BY <2>1
  <2>3. ASSUME NEW i \in 1 .. m PROVE n + i \in 1 .. Len(c) /\ c[n + i] = b[i]
    BY <2>1
  <2>4. ASSUME NEW i \in 1 .. Len(c)
        PROVE  \/ i \in 1 .. n /\ c[i] = a[i]
               \/ i - n \in 1 .. m /\ c[i] = b[i - n]
    <3>1. CASE i <= n
      BY <2>1, <3>1
    <3>2. CASE i > n
      <4>1. i - n \in 1 .. m /\ n + (i - n) = i
        BY <2>1, <3>2
      <4> QED BY <2>1, <4>1
    <3> QED BY <2>1, <3>1, <3>2
  <2>5. In(c) <=> (\E i \in 1 .. n : a[i] = p) \/ (\E i \in 1 .. m : b[i] = p)
    BY <2>2, <2>3, <2>4
  <2> QED BY <2>1, <2>5 DEF c, n, m
<1>3. \A s \in Seq(Q) : p \in ToSet(s) => In(s)
  BY DEF ToSet
<1> HIDE DEF In
<1>4. \A a, b \in Seq(Q) : a \o b \in Seq(Q) /\ (In(a \o b) <=> In(a) \/ In(b))
  BY <1>2
<1> SUFFICES ASSUME p \in ToSet(packs \o tohw \o incoming \o flying) PROVE In(Line)
  BY DEF In
<1>5. packs \o tohw \in Seq(Q) /\ (packs \o tohw) \o incoming \in Seq(Q)
  BY <1>1, <1>4
<1>6. In(packs) \/ In(tohw) \/ In(incoming) \/ In(flying)
  <2> DEFINE s == ((packs \o tohw) \o incoming) \o flying
  <2>1. s \in Seq(Q) /\ (In(s) <=> In((packs \o tohw) \o incoming) \/ In(flying))
    BY <1>1, <1>4, <1>5
  <2>2. In(s)
    BY <1>3, <2>1
  <2> QED BY <1>1, <1>4, <1>5, <2>1, <2>2
<1>7. flying \o incoming \in Seq(Q) /\ tohw \o packs \in Seq(Q)
  BY <1>1, <1>4
<1> QED BY <1>1, <1>4, <1>6, <1>7 DEF Line

\* The inductive invariant holds in every state.
LEMMA IInvHolds == Spec => []IInv
<1> QED BY InitIInv, StepIInv, PTL DEF Spec

\* The state of users, preparepackets and Run has its types in every state,
\* whatever users call, however requests are cut and whatever the device fails.
THEOREM DeliveryTypes == Spec => []TypeOK
<1>1. IInv => TypeOK
  BY DEF IInv
<1> QED BY <1>1, IInvHolds, PTL

\* Every response that Read, Write or a ...Now operation receives answers its own
\* request, in the order of its words and without a gap: packet.parse gives each
\* transaction of a packet its own words, in either byte order and after errors
\* of others, and packet.send hands them out in turn.
THEOREM ResponsesAreOwn == Spec => []OwnResponses
<1>1. IInv => OwnResponses
  BY DEF IInv, History, OwnResponses, Right, End
<1> QED BY <1>1, IInvHolds, PTL

\* packet.send closes a channel with the last response of its request: nothing
\* is ever sent on a closed channel, and none is closed twice.
THEOREM ClosingIsLast == Spec => []ClosedAfterLast
<1>1. ASSUME IInv PROVE ClosedAfterLast
  <2> SUFFICES ASSUME NEW r \in closed
               PROVE  /\ Unanswered(r) = {} /\ req.r # r
                      /\ got[r] # <<>>
                      /\ got[r][Len(got[r])].t.index + got[r][Len(got[r])].t.words = call(r).nwords
    BY DEF ClosedAfterLast
  <2>1. /\ r \in Requests /\ packs \in Seq(Seq(transaction)) /\ tohw \in Seq(Seq(transaction))
        /\ incoming \in Seq(Seq(transaction)) /\ flying \in Seq(Seq(transaction))
        /\ tosend \in Seq(transaction)
    BY <1>1 DEF IInv, TypeOK
  <2>2. got[r] # <<>> /\ Done(r) = call(r).nwords
    BY <1>1 DEF IInv, History
  <2>3. req.r # r
    <3>1. CASE req = NoReq
      BY <2>1, <3>1, RequestFacts
    <3>2. CASE req # NoReq
      BY <1>1, <3>2 DEF IInv, Turns, Rest
    <3> QED BY <3>1, <3>2
  <2>4. ASSUME NEW t \in Unanswered(r) PROVE FALSE
    <3>1. t.r = r
      BY DEF Unanswered
    <3>2. Waiting(t)
      <4>1. PICK p \in ToSet(packs \o tohw \o incoming \o flying) \cup {tosend} : t \in ToSet(p)
        BY DEF Unanswered
      <4>2. p = tosend \/ \E i \in 1 .. Len(Line) : Line[i] = p
        BY <1>1, <4>1, InLine DEF IInv
      <4>3. Line \in Seq(Seq(transaction))
        BY <1>1, LineTyped DEF IInv
      <4>4. PICK i \in 0 .. Len(Line) : Packet(tosend, Line, i) = p
        <5>1. CASE p = tosend
          <6>1. 0 \in 0 .. Len(Line)
            BY <4>3
          <6> QED BY <5>1, <6>1 DEF Packet
        <5>2. CASE p # tosend
          <6>1. PICK i \in 1 .. Len(Line) : Line[i] = p
            BY <4>2, <5>2
          <6>2. i \in 0 .. Len(Line) /\ i # 0
            BY <4>3, <6>1
          <6> QED BY <6>1, <6>2 DEF Packet
        <5> QED BY <5>1, <5>2
      <4>5. p \in Seq(transaction)
        BY <2>1, <4>2, <4>3
      <4>6. \E j \in 1 .. Len(p) : p[j] = t
        BY <4>1, <4>5 DEF ToSet
      <4> QED BY <4>4, <4>6 DEF Waiting, Waits
    <3> QED BY <1>1, <3>1, <3>2 DEF IInv, Turns
  <2> QED BY <2>2, <2>3, <2>4 DEF Done, End
<1> QED BY <1>1, IInvHolds, PTL

\* An operation that returns without an error has got all the words it asked
\* for: ReadNow, WriteNow, MaskedWriteNow and the loops over a channel never take
\* a part of the responses for all of them.
THEOREM ReturnsComplete == Spec => []Complete
<1>1. ASSUME IInv PROVE Complete
  BY <1>1 DEF IInv, History, Complete, Done, End
<1> QED BY <1>1, IInvHolds, PTL

\* packet.parse takes every reply apart to its end, finds no transaction id out of
\* range and no payload cut short, and packet.send has a reply for every
\* transaction: Run neither panics nor loops for ever.
THEOREM RunStaysAlive == Spec => []RunAlive
<1>1. IInv => RunAlive
  BY DEF IInv
<1> QED BY <1>1, IInvHolds, PTL
=============================================================================
