------------------------------- MODULE IDLog --------------------------------
(***************************************************************************)
(* The idlog of hw_stuff.go: a ring buffer of max ids.  Module HW uses the *)
(* two idlogs of hw as the sequences sorted() returns; the refinement of   *)
(* BoundedFIFO justifies it.                                               *)
(***************************************************************************)
EXTENDS Integers, Sequences

CONSTANTS
  Max,    \* idlog.max: 256 for queuedids, 32 for flyingids
  Ids     \* the ids that may be added, 0 among them

ASSUME IDLogAssumption ==
  /\ Max \in Nat \ {0}
  /\ Ids \subseteq Nat
  /\ 0 \in Ids

VARIABLE log

\* The slot j places after first.
slot(i, j) == (i.first + j) % Max

newIDLog == [ids |-> [k \in 0 .. Max - 1 |-> 0], first |-> 0, n |-> 0]

\* Mutant of add: the capacity is not checked.
addUnchecked(i, id) ==
  IF id = 0 THEN i
  ELSE [i EXCEPT !.ids[slot(i, i.n)] = id, !.n = @ + 1]

\* add and remove return an error where they leave the log as it is.
add(i, id) ==
  IF id = 0 \/ i.n = Max THEN i
  ELSE [i EXCEPT !.ids[slot(i, i.n)] = id, !.n = @ + 1]

\* Mutant of remove: first runs past the end.
removeUnwrapped(i) ==
  IF i.n = 0 THEN i
  ELSE [i EXCEPT !.first = IF @ = Max - 1 THEN @ ELSE @ + 1, !.n = @ - 1]

remove(i) ==
  IF i.n = 0 THEN i
  ELSE [i EXCEPT !.first = slot(i, 1), !.n = @ - 1]

\* The id and whether there is one.
oldest(i)       == <<i.ids[i.first], i.n > 0>>

\* Mutant of secondoldest: answers for a log with one id.
secondoldestAlways(i) == <<i.ids[slot(i, 1)], i.n > 0>>

secondoldest(i) == <<i.ids[slot(i, 1)], i.n > 1>>

sorted(i) == [j \in 1 .. i.n |-> i.ids[slot(i, j - 1)]]

-----------------------------------------------------------------------------
Init == log = newIDLog

Add(id) == log' = add(log, id)
Remove  == log' = remove(log)

Next == Remove \/ \E id \in Ids : Add(id)
Spec == Init /\ [][Next]_log

-----------------------------------------------------------------------------
\* The indices stay inside the ids slice.
TypeOK ==
  log \in [ids : [0 .. Max - 1 -> Ids], first : 0 .. Max - 1, n : 0 .. Max]

\* oldest and secondoldest, which decide what returnreply hands back and which
\* packet updatetimeout times, are the first two elements of the log.
FirstTwo ==
  /\ oldest(log)[2] <=> Len(sorted(log)) > 0
  /\ oldest(log)[2] => oldest(log)[1] = sorted(log)[1]
  /\ secondoldest(log)[2] <=> Len(sorted(log)) > 1
  /\ secondoldest(log)[2] => secondoldest(log)[1] = sorted(log)[2]

FIFO == INSTANCE BoundedFIFO WITH queue <- sorted(log)

\* The ring buffer behaves as a bounded queue whatever it wraps around, and add
\* and remove change nothing where they return an error.
ImplementsFIFO == FIFO!FIFOSpec
=============================================================================
