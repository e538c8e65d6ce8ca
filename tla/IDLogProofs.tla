---------------------------- MODULE IDLogProofs -----------------------------
(***************************************************************************)
(* The ring buffer of hw_stuff.go implements a bounded queue, for every    *)
(* capacity and every set of ids.                                          *)
(***************************************************************************)
EXTENDS IDLog, TLAPS

\* The slot arithmetic of add, remove and sorted without the division: an
\* index less than twice the capacity wraps around at most once.
LEMMA Wrap ==
  ASSUME NEW m \in Nat \ {0}, NEW a \in Nat, a < 2 * m
  PROVE  a % m = IF a < m THEN a ELSE a - m
<1>1. CASE a < m
  BY <1>1, SMT
<1>2. CASE a >= m
  BY <1>2, SMT
<1> QED BY <1>1, <1>2

\* remove moves first by one slot: the j-th slot after it is the one that was
\* j + 1 slots after it.
LEMMA WrapTwice ==
  ASSUME NEW m \in Nat \ {0}, NEW f \in 0 .. m - 1, NEW j \in 0 .. m - 1
  PROVE  (((f + 1) % m) + j) % m = (f + (j + 1)) % m
<1>1. PICK one \in Nat : one = (f + 1) % m /\ one = IF f + 1 < m THEN f + 1 ELSE 0
  <2>1. f + 1 \in Nat /\ f + 1 < 2 * m
    BY SMT
  <2>2. (f + 1) % m = IF f + 1 < m THEN f + 1 ELSE (f + 1) - m
    BY <2>1, Wrap
  <2> QED BY <2>2
<1>2. CASE f + 1 < m
  BY <1>1, <1>2
<1>3. CASE f + 1 = m
  <2>1. (one + j) % m = j
    <3>1. j \in Nat /\ j < 2 * m /\ j < m /\ one + j = j
      BY <1>1, <1>3
    <3> QED BY <3>1, Wrap
  <2>2. PICK b \in Nat : b = f + (j + 1) /\ b < 2 * m /\ b >= m /\ b - m = j
    BY <1>3
  <2>3. b % m = j
    BY <2>2, Wrap
  <2> QED BY <1>1, <2>1, <2>2, <2>3
<1> QED BY <1>2, <1>3

\* The index of a slot, in closed form, and that it lies inside the ids slice.
LEMMA Slot ==
  ASSUME TypeOK, NEW j \in 0 .. Max
  PROVE  /\ slot(log, j) = IF log.first + j < Max THEN log.first + j
                           ELSE log.first + j - Max
         /\ slot(log, j) \in 0 .. Max - 1
<1>1. /\ Max \in Nat \ {0}
      /\ log.first \in 0 .. Max - 1
  BY IDLogAssumption DEF TypeOK
<1>2. /\ log.first + j \in Nat
      /\ log.first + j < 2 * Max
  BY <1>1
<1>3. slot(log, j) = IF log.first + j < Max THEN log.first + j
                     ELSE log.first + j - Max
  BY <1>1, <1>2, Wrap DEF slot
<1> QED BY <1>1, <1>3

\* add appends to the contents of the log, and fails on 0 and on a full log.
LEMMA AddSorted ==
  ASSUME TypeOK, NEW id \in Ids, log' = add(log, id)
  PROVE  /\ TypeOK'
         /\ sorted(log)' = IF id = 0 \/ Len(sorted(log)) = Max THEN sorted(log)
                           ELSE Append(sorted(log), id)
<1>1. /\ Max \in Nat \ {0}
      /\ log.ids \in [0 .. Max - 1 -> Ids]
      /\ log.first \in 0 .. Max - 1
      /\ log.n \in 0 .. Max
      /\ log = [ids |-> log.ids, first |-> log.first, n |-> log.n]
  BY IDLogAssumption DEF TypeOK
<1>2. Len(sorted(log)) = log.n
  BY <1>1 DEF sorted
<1>3. CASE id = 0 \/ log.n = Max
  BY <1>2, <1>3 DEF add, TypeOK, sorted, slot
<1>4. CASE id # 0 /\ log.n # Max
  <2> DEFINE k == slot(log, log.n)
  <2>1. /\ k \in 0 .. Max - 1
        /\ k = IF log.first + log.n < Max THEN log.first + log.n
               ELSE log.first + log.n - Max
    BY <1>1, Slot
  <2>2. /\ log'.ids = [log.ids EXCEPT ![k] = id]
        /\ log'.first = log.first
        /\ log'.n = log.n + 1
        /\ log' = [ids |-> [log.ids EXCEPT ![k] = id], first |-> log.first, n |-> log.n + 1]
    BY <1>1, <1>4 DEF add
  <2>3. TypeOK'
    BY <1>1, <1>4, <2>1, <2>2 DEF TypeOK
  <2>4. ASSUME NEW j \in 0 .. Max - 1
        PROVE  slot(log, j)' = slot(log, j)
    BY <2>2 DEF slot
  <2>5. ASSUME NEW j \in 0 .. log.n - 1
        PROVE  log'.ids[slot(log, j)] = log.ids[slot(log, j)]
    <3>1. slot(log, j) = IF log.first + j < Max THEN log.first + j
                         ELSE log.first + j - Max
      BY <1>1, Slot
    <3>2. slot(log, j) # k /\ slot(log, j) \in 0 .. Max - 1
      <4> DEFINE f == log.first
                 n == log.n
                 sj == slot(log, j)
      <4>1. f \in 0 .. Max - 1 /\ n \in 0 .. Max - 1 /\ Max \in Nat \ {0} /\ j \in 0 .. n - 1
        BY <1>1, <1>4
      <4>2. /\ k = IF f + n < Max THEN f + n ELSE f + n - Max
            /\ sj = IF f + j < Max THEN f + j ELSE f + j - Max
        BY <2>1, <3>1
      <4> HIDE DEF f, n, sj, k
      <4>3. sj # k /\ sj \in 0 .. Max - 1
        BY <4>1, <4>2
      <4> QED BY <4>3 DEF sj
    <3> QED BY <1>1, <2>2, <3>2
  <2>6. log'.ids[k] = id
    BY <1>1, <2>1, <2>2
  <2>7. sorted(log)' = [j \in 1 .. log.n + 1 |-> log'.ids[slot(log, j - 1)]]
    <3>1. sorted(log)' = [j \in 1 .. log.n + 1 |-> log'.ids[slot(log, j - 1)']]
      BY <2>2 DEF sorted
    <3>2. \A j \in 1 .. log.n + 1 : slot(log, j - 1)' = slot(log, j - 1)
      BY <1>1, <1>4, <2>4
    <3> QED BY <3>1, <3>2
  <2>8. Append(sorted(log), id)
          = [j \in 1 .. log.n + 1 |-> IF j = log.n + 1 THEN id ELSE sorted(log)[j]]
    BY <1>1, <1>2 DEF sorted
  <2>9. \A j \in 1 .. log.n + 1 :
          log'.ids[slot(log, j - 1)] = IF j = log.n + 1 THEN id ELSE sorted(log)[j]
    <3> TAKE j \in 1 .. log.n + 1
    <3>1. CASE j = log.n + 1
      <4>1. j - 1 = log.n
        BY <1>1, <3>1
      <4> QED BY <2>6, <3>1, <4>1
    <3>2. CASE j \in 1 .. log.n
      <4>1. j - 1 \in 0 .. log.n - 1 /\ j # log.n + 1
        BY <1>1, <3>2
      <4>2. log'.ids[slot(log, j - 1)] = log.ids[slot(log, j - 1)]
        BY <2>5, <4>1
      <4>3. sorted(log)[j] = log.ids[slot(log, j - 1)]
        BY <3>2 DEF sorted
      <4> QED BY <4>1, <4>2, <4>3
    <3> QED BY <1>1, <3>1, <3>2
  <2> QED BY <1>2, <1>4, <2>3, <2>7, <2>8, <2>9
<1> QED BY <1>3, <1>4

\* remove drops the oldest id, and fails on an empty log.
LEMMA RemoveSorted ==
  ASSUME TypeOK, log' = remove(log)
  PROVE  /\ TypeOK'
         /\ sorted(log)' = IF sorted(log) = <<>> THEN sorted(log)
                           ELSE Tail(sorted(log))
<1>1. /\ Max \in Nat \ {0}
      /\ log.ids \in [0 .. Max - 1 -> Ids]
      /\ log.first \in 0 .. Max - 1
      /\ log.n \in 0 .. Max
      /\ log = [ids |-> log.ids, first |-> log.first, n |-> log.n]
  BY IDLogAssumption DEF TypeOK
<1>2. Len(sorted(log)) = log.n /\ sorted(log) \in Seq(Ids)
  <2>1. ASSUME NEW j \in 1 .. log.n PROVE log.ids[slot(log, j - 1)] \in Ids
    <3>1. j - 1 \in 0 .. Max
      BY <1>1
    <3>2. slot(log, j - 1) \in 0 .. Max - 1
      BY <3>1, Slot
    <3> QED BY <1>1, <3>2
  <2>2. sorted(log) \in [1 .. log.n -> Ids]
    BY <2>1 DEF sorted
  <2> QED BY <1>1, <2>2
<1>3. CASE log.n = 0
  BY <1>2, <1>3 DEF remove, TypeOK, sorted, slot
<1>4. CASE log.n # 0
  <2>1. /\ slot(log, 1) \in 0 .. Max - 1
        /\ slot(log, 1) = IF log.first + 1 < Max THEN log.first + 1
                          ELSE log.first + 1 - Max
    BY <1>1, Slot
  <2>2. log' = [ids |-> log.ids, first |-> slot(log, 1), n |-> log.n - 1]
    BY <1>1, <1>4 DEF remove
  <2>3. TypeOK'
    BY <1>1, <1>4, <2>1, <2>2 DEF TypeOK
  <2>4. ASSUME NEW j \in 0 .. log.n - 2
        PROVE  slot(log, j)' = slot(log, j + 1)
    <3>1. slot(log, j)' = (((log.first + 1) % Max) + j) % Max
      BY <2>2 DEF slot
    <3>2. slot(log, j + 1) = (log.first + (j + 1)) % Max
      BY DEF slot
    <3>3. j \in 0 .. Max - 1
      BY <1>1, <1>4
    <3> QED BY <1>1, <3>1, <3>2, <3>3, WrapTwice
  <2>5. sorted(log)' = [j \in 1 .. log.n - 1 |-> log.ids[slot(log, j)]]
    <3>1. sorted(log)' = [j \in 1 .. log.n - 1 |-> log.ids[slot(log, j - 1)']]
      BY <2>2 DEF sorted
    <3>2. \A j \in 1 .. log.n - 1 : slot(log, j - 1)' = slot(log, j)
      BY <1>1, <1>4, <2>4
    <3> QED BY <3>1, <3>2
  <2>6. Tail(sorted(log)) = [j \in 1 .. log.n - 1 |-> sorted(log)[j + 1]]
    BY <1>1, <1>2, <1>4
  <2>7. \A j \in 1 .. log.n - 1 : sorted(log)[j + 1] = log.ids[slot(log, j)]
    BY <1>1, <1>4 DEF sorted
  <2>8. sorted(log) # <<>>
    BY <1>2, <1>4
  <2> QED BY <2>3, <2>5, <2>6, <2>7, <2>8
<1> QED BY <1>3, <1>4

\* The indices of the ring buffer stay inside it.
THEOREM TypeCorrect == Spec => []TypeOK
<1>1. Init => TypeOK
  BY IDLogAssumption DEF Init, newIDLog, TypeOK
<1>2. TypeOK /\ [Next]_log => TypeOK'
  <2> SUFFICES ASSUME TypeOK, [Next]_log PROVE TypeOK'
    OBVIOUS
  <2>1. CASE Remove
    BY <2>1, RemoveSorted DEF Remove
  <2>2. ASSUME NEW id \in Ids, Add(id) PROVE TypeOK'
    BY <2>2, AddSorted DEF Add
  <2>3. CASE UNCHANGED log
    BY <2>3 DEF TypeOK
  <2> QED BY <2>1, <2>2, <2>3 DEF Next
<1> QED BY <1>1, <1>2, PTL DEF Spec

\* oldest() and secondoldest() are the first two ids in the log.
THEOREM FirstTwoCorrect == Spec => []FirstTwo
<1>1. TypeOK => FirstTwo
  <2> SUFFICES ASSUME TypeOK PROVE FirstTwo
    OBVIOUS
  <2>1. /\ Max \in Nat \ {0}
        /\ log.first \in 0 .. Max - 1
        /\ log.n \in 0 .. Max
    BY IDLogAssumption DEF TypeOK
  <2>2. Len(sorted(log)) = log.n
    BY <2>1 DEF sorted
  <2>3. log.n > 0 => sorted(log)[1] = log.ids[log.first]
    <3>1. slot(log, 0) = log.first
      BY <2>1, Slot
    <3>2. log.n > 0 => sorted(log)[1] = log.ids[slot(log, 1 - 1)]
      BY <2>1 DEF sorted
    <3> QED BY <3>1, <3>2
  <2>4. log.n > 1 => sorted(log)[2] = log.ids[slot(log, 1)]
    BY <2>1 DEF sorted
  <2> QED BY <2>1, <2>2, <2>3, <2>4 DEF FirstTwo, oldest, secondoldest
<1> QED BY <1>1, TypeCorrect, PTL

\* The ring buffer implements the bounded queue.
THEOREM Refinement == Spec => ImplementsFIFO
<1>1. Init => FIFO!FIFOInit
  BY IDLogAssumption DEF Init, newIDLog, FIFO!FIFOInit, sorted
<1>2. TypeOK /\ [Next]_log => [FIFO!FIFONext]_(sorted(log))
  <2> SUFFICES ASSUME TypeOK, [Next]_log PROVE [FIFO!FIFONext]_(sorted(log))
    OBVIOUS
  <2>1. CASE Remove
    BY <2>1, RemoveSorted DEF Remove, FIFO!FIFONext, FIFO!Take
  <2>2. ASSUME NEW id \in Ids, Add(id) PROVE FIFO!FIFONext
    BY <2>2, AddSorted DEF Add, FIFO!FIFONext, FIFO!Put
  <2>3. CASE UNCHANGED log
    BY <2>3 DEF sorted, slot
  <2> QED BY <2>1, <2>2, <2>3 DEF Next
<1> QED BY <1>1, <1>2, TypeCorrect, PTL DEF Spec, ImplementsFIFO, FIFO!FIFOSpec
=============================================================================
