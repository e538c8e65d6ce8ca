------------------------------- MODULE Masks --------------------------------
(***************************************************************************)
(* The masks of register.go and MaskedWrite of target.go.  A word of Width *)
(* bits is the set of the positions of its ones.                           *)
(***************************************************************************)
EXTENDS Integers

CONSTANT Width    \* bits of a word: 32

ASSUME WidthAssumption == Width \in Nat \ {0}

Bits == 0 .. Width - 1
Word == SUBSET Bits

ShiftLeft(w, n)  == {b \in Bits : b - n \in w}
ShiftRight(w, n) == {b \in Bits : b + n \in w}

msk == [value : Word, shift : Bits]

\* Mutant of lowest: the search begins with bit 1.
lowestFromOne(value) ==
  IF value \ {0} = {} THEN 0 ELSE CHOOSE i \in value \ {0} : \A j \in value \ {0} : i <= j

\* The lowest one of the mask, 0 if it has none.
lowest(value) == IF value = {} THEN 0 ELSE CHOOSE i \in value : \A j \in value : i <= j

newmask(value) == [value |-> value, shift |-> lowest(value)]

ReadMask(m, val) == ShiftRight(val \cap m.value, m.shift)

\* The two terms of the read-modify-write, which the device applies.
WriteMask(m, val) == [andterm |-> Bits \ m.value, orterm |-> ShiftLeft(val, m.shift) \cap m.value]

\* MaskedWrite has terms of its own: a value too large for the mask is not cut.
MaskedWrite(m, value) == [andterm |-> Bits \ m.value, orterm |-> ShiftLeft(value, m.shift)]

RMWbits(x, terms) == (x \cap terms.andterm) \cup terms.orterm

\* The values a mask has room for: with bit 0 at the lowest one of the mask they
\* stay inside it.
Fits(m, val) ==
  /\ val \in Word
  /\ \E l \in m.value : /\ \A j \in m.value : l <= j
                        /\ \A b \in val : b + l \in m.value
=============================================================================
