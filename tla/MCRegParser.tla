---------------------------- MODULE MCRegParser -----------------------------
(***************************************************************************)
(* RegParser for TLC.                                                      *)
(***************************************************************************)
EXTENDS RegParser

\* A sum of addresses tells which they are.
MCAddrOf == [n \in 1 .. MaxNodes |-> (2 ^ n) % AddrSpace]

\* Masks with and without the lowest bit, in one piece and in two.
MCMaskOf == [i \in 1 .. MaxNodes |-> IF i = 1 THEN {0, 2} ELSE IF i = 2 THEN {1} ELSE {1, 2}]
=============================================================================
