-------------------------- MODULE RegParserProofs ---------------------------
(***************************************************************************)
(* Masks of words of any width: what is written through a mask is read     *)
(* back, and nothing else changes.  The parser keeps its types, and all    *)
(* masks of all registers it finds are read as they are written; registers *)
(* have the names and the addresses of their nodes, and none of them, nor  *)
(* any of their masks, is lost, for documents of every size and layout.    *)
(***************************************************************************)
EXTENDS RegParser, WellFoundedInduction, FiniteSetTheorems, SequenceTheorems, TLAPS

-----------------------------------------------------------------------------
(* Masks.                                                                  *)

\* newmask's search ends at the lowest one: a mask that is not empty has one, and
\* shift is its position.
LEMMA LowestIsLeast ==
  ASSUME NEW value \in Word, value # {}
  PROVE  lowest(value) \in value /\ \A j \in value : lowest(value) <= j
<1>1. value \subseteq Nat
  BY WidthAssumption DEF Word, Bits
<1>2. PICK i \in value : \A j \in value : ~(<<j, i>> \in OpToRel(<, Nat))
  BY <1>1, NatLessThanWellFounded, WFMin
<1>3. \A j \in value : i <= j
  <2> SUFFICES ASSUME NEW j \in value, ~(i <= j) PROVE FALSE
    OBVIOUS
  <2>1. i \in Nat /\ j \in Nat /\ j < i
    BY <1>1
  <2>2. <<j, i>> \in OpToRel(<, Nat)
    BY <2>1 DEF OpToRel
  <2>. QED
    BY <1>2, <2>2
<1>. QED
  BY <1>3 DEF lowest

\* The terms of WriteMask and of MaskedWrite are the same for a value that fits.
LEMMA SameTerms ==
  ASSUME NEW value \in Word, NEW v, Fits(newmask(value), v)
  PROVE  /\ newmask(value).shift \in Nat
         /\ \A b \in v : b + newmask(value).shift \in value
         /\ ShiftLeft(v, newmask(value).shift) \subseteq value
         /\ WriteMask(newmask(value), v) = MaskedWrite(newmask(value), v)
<1> DEFINE s == lowest(value)
<1>1. value # {} /\ newmask(value).value = value /\ newmask(value).shift = s
  BY DEF Fits, newmask
<1>2. s \in value /\ \A j \in value : s <= j
  BY <1>1, LowestIsLeast
<1>3. value \subseteq Nat /\ s \in Nat
  <2>1. value \subseteq Nat
    BY WidthAssumption DEF Word, Bits
  <2>. QED
    BY <1>2, <2>1
<1>4. PICK l \in value : (\A j \in value : l <= j) /\ \A b \in v : b + l \in value
  BY <1>1 DEF Fits
<1>5. l = s
  BY <1>2, <1>3, <1>4
<1> HIDE DEF s
<1>6. ShiftLeft(v, s) \subseteq value
  <2> SUFFICES ASSUME NEW b \in Bits, b - s \in v PROVE b \in value
    BY DEF ShiftLeft
  <2>1. (b - s) + s \in value
    BY <1>4, <1>5
  <2>. QED
    BY <2>1, <1>3, WidthAssumption DEF Bits
<1>. QED
  BY <1>1, <1>3, <1>4, <1>5, <1>6 DEF WriteMask, MaskedWrite

\* A value that fits a mask is read back by ReadMask after RMWbits with the terms
\* of WriteMask or of MaskedWrite, and the bits outside the mask are as before,
\* for every width, mask, value and content of the register.
THEOREM MaskedAccess ==
  ASSUME NEW value \in Word, NEW x \in Word, NEW v, Fits(newmask(value), v),
         NEW terms \in {WriteMask(newmask(value), v), MaskedWrite(newmask(value), v)}
  PROVE  /\ ReadMask(newmask(value), RMWbits(x, terms)) = v
         /\ RMWbits(x, terms) \ value = x \ value
<1> DEFINE m == newmask(value)
           s == m.shift
           y == RMWbits(x, terms)
<1>1. m.value = value
  BY DEF newmask
<1>2. terms = MaskedWrite(m, v) /\ s \in Nat /\ ShiftLeft(v, s) \subseteq value
  BY SameTerms
<1>3. y = (x \ value) \cup ShiftLeft(v, s)
  BY <1>1, <1>2 DEF RMWbits, MaskedWrite, Word
<1>4. y \ value = x \ value
  BY <1>2, <1>3
<1>5. y \cap value = ShiftLeft(v, s)
  BY <1>2, <1>3
<1>6. v \in Word /\ \A b \in v : b + s \in value
  BY SameTerms DEF Fits
<1>7. ShiftRight(ShiftLeft(v, s), s) = v
  <2>1. ASSUME NEW b \in Bits, b + s \in ShiftLeft(v, s) PROVE b \in v
    BY <2>1, <1>2, WidthAssumption DEF ShiftLeft, Bits
  <2>2. ASSUME NEW b \in v PROVE b \in Bits /\ b + s \in ShiftLeft(v, s)
    <3>1. b \in Bits /\ b + s \in Bits
      BY <1>6 DEF Word
    <3>. QED
      BY <3>1, <1>2, WidthAssumption DEF ShiftLeft, Bits
  <2>. QED
    BY <2>1, <2>2 DEF ShiftRight
<1>. QED
  BY <1>1, <1>4, <1>5, <1>7 DEF ReadMask

-----------------------------------------------------------------------------
(* The parser.                                                             *)

Names == Seq(1 .. MaxNodes)
Addrs == 0 .. AddrSpace - 1

\* The masks newmask makes, and the maps of them.
MadeMask == {newmask(w) : w \in Word}
MaskMap  == UNION {[ks -> MadeMask] : ks \in SUBSET (0 .. MaxNodes)}

Reg  == [node : 0 .. MaxNodes, Name : Names, Addr : Addrs, msks : MaskMap]
File == [name : Names, filebaseaddr : Addrs, baseaddr : Addrs, localaddr : Addrs,
         currentblock : Reg, currentreg : Reg, toplevel : BOOLEAN]

RegsOK(regs) ==
  /\ DOMAIN regs \subseteq Names
  /\ \A x \in DOMAIN regs : regs[x] \in Reg /\ regs[x].Name = x

\* The inductive invariant: every mask was made by newmask, and a call of
\* parseregfile is there as long as there is something to parse.
IInv ==
  /\ doc \in Seq(Node) /\ Len(doc) <= MaxNodes
  /\ open \in Seq(1 .. Len(doc))
  /\ files \in Seq(File)
  /\ status = "parsing" => Len(files) > 0
  /\ RegsOK(Regs)
  /\ status \in {"parsing", "done", "error", "panic"}

-----------------------------------------------------------------------------
\* Addresses stay below AddrSpace.
LEMMA PlusType ==
  ASSUME NEW a \in Addrs, NEW b \in Addrs
  PROVE  plus(a, b) \in Addrs
BY RegParserAssumption DEF plus, Addrs

\* The empty map, and a map with one more mask.
LEMMA EmptyMap == << >> \in MaskMap
<1>1. << >> \in [{} -> MadeMask]
  OBVIOUS
<1>. QED
  BY <1>1 DEF MaskMap

LEMMA WithMaskType ==
  ASSUME NEW ms \in MaskMap, NEW k \in 0 .. MaxNodes, NEW m \in MadeMask
  PROVE  withMask(ms, k, m) \in MaskMap
<1>1. PICK ks \in SUBSET (0 .. MaxNodes) : ms \in [ks -> MadeMask]
  BY DEF MaskMap
<1>2. withMask(ms, k, m) \in [ks \cup {k} -> MadeMask]
  BY <1>1 DEF withMask
<1>. QED
  BY <1>2 DEF MaskMap

LEMMA NoRegisterType == NoRegister \in Reg
<1>1. << >> \in Names
  BY DEF Names
<1>2. 0 \in Addrs /\ 0 \in 0 .. MaxNodes
  BY RegParserAssumption DEF Addrs
<1>. QED
  BY <1>1, <1>2, EmptyMap DEF NoRegister, Reg

LEMMA RegisterType ==
  ASSUME NEW n \in 0 .. MaxNodes, NEW g \in File, NEW b \in Addrs
  PROVE  register(n, g, b) \in Reg
<1>1. g.name \in Names /\ g.localaddr \in Addrs
  BY DEF File
<1>2. plus(b, g.localaddr) \in Addrs
  BY <1>1, PlusType
<1>. QED
  BY <1>1, <1>2, EmptyMap DEF register, Reg

LEMMA NewFileType ==
  ASSUME NEW basename \in Names, NEW b \in Addrs
  PROVE  newfile(basename, b) \in File
<1>1. 0 \in Addrs
  BY RegParserAssumption DEF Addrs
<1>. QED
  BY <1>1, NoRegisterType DEF newfile, File

\* Saving a register keeps the table in order.
LEMMA SaveType ==
  ASSUME NEW regs, RegsOK(regs), NEW r \in Reg
  PROVE  RegsOK(save(regs, r)) /\ RegsOK(saveNamed(regs, r))
<1>1. r.Name \in Names
  BY DEF Reg
<1>2. RegsOK(save(regs, r))
  BY <1>1 DEF RegsOK, save
<1>. QED
  BY <1>2 DEF saveNamed

\* The last element of a sequence; the sequence with another one, or without it.
LEMMA LastElement ==
  ASSUME NEW S, NEW s \in Seq(S), s # <<>>
  PROVE  s[Len(s)] \in S
OBVIOUS

LEMMA LastReplaced ==
  ASSUME NEW S, NEW s \in Seq(S), Len(s) > 0, NEW e \in S
  PROVE  /\ [s EXCEPT ![Len(s)] = e] \in Seq(S)
         /\ Len([s EXCEPT ![Len(s)] = e]) = Len(s)
OBVIOUS

LEMMA LastTaken ==
  ASSUME NEW S, NEW s \in Seq(S), Len(s) > 0
  PROVE  /\ SubSeq(s, 1, Len(s) - 1) \in Seq(S)
         /\ Len(SubSeq(s, 1, Len(s) - 1)) = Len(s) - 1
<1>1. 1 \in Int /\ Len(s) - 1 \in Int /\ \A i \in 1 .. Len(s) - 1 : s[i] \in S
  OBVIOUS
<1>2. /\ SubSeq(s, 1, Len(s) - 1) \in Seq(S)
      /\ Len(SubSeq(s, 1, Len(s) - 1)) = IF 1 <= Len(s) - 1 THEN (Len(s) - 1) - 1 + 1 ELSE 0
  BY <1>1, SubSeqProperties
<1>3. Len(s) \in Nat
  OBVIOUS
<1>4. ASSUME NEW n \in Nat, n > 0
      PROVE  (IF 1 <= n - 1 THEN (n - 1) - 1 + 1 ELSE 0) = n - 1
  BY <1>4
<1>. QED
  BY <1>2, <1>3, <1>4

\* What a start tag does to the locals.
LEMMA AttributesType ==
  ASSUME files \in Seq(File), Len(files) > 0, doc \in Seq(Node), Len(doc) < MaxNodes,
         NEW nd \in Node
  PROVE  attributes(nd) \in File /\ f \in File
<1>1. f \in File
  BY DEF f
<1>2. f.name \in Names /\ nd.id \in 1 .. MaxNodes /\ nd.hasid \in BOOLEAN
  BY <1>1 DEF File, Node
<1>3. named(nd) \in Names
  <2>1. Append(f.name, nd.id) \in Names
    BY <1>2 DEF Names
  <2>. QED
    BY <1>2, <2>1, Zenon DEF named
<1>4. AddrOf[Len(doc) + 1] \in Addrs
  BY RegParserAssumption DEF Addrs
<1>5. (f.toplevel /\ ~nd.hasid) \in BOOLEAN
  OBVIOUS
<1>6. (IF nd.address THEN AddrOf[Len(doc) + 1] ELSE f.localaddr) \in Addrs
  BY <1>1, <1>4 DEF File
<1>. QED
  BY <1>1, <1>3, <1>5, <1>6 DEF attributes, File
\* The invariant holds at first.
LEMMA Initially == Init => IInv
<1> SUFFICES ASSUME Init PROVE IInv
  OBVIOUS
<1>1. << >> \in Names /\ 0 \in Addrs
  BY RegParserAssumption DEF Names, Addrs
<1>2. newfile(<<>>, 0) \in File
  BY <1>1, NewFileType
<1>3. files \in Seq(File) /\ Len(files) = 1
  BY <1>2 DEF Init
<1>4. RegsOK(Regs)
  BY DEF Init, RegsOK
<1>5. doc \in Seq(Node) /\ Len(doc) <= MaxNodes /\ open \in Seq(1 .. Len(doc))
  BY RegParserAssumption DEF Init
<1>. QED
  BY <1>3, <1>4, <1>5 DEF Init, IInv

\* A start tag: the tree grows by a node, the decoder's file is there.
LEMMA StartType ==
  ASSUME IInv, NEW nd \in Node, Start(nd)
  PROVE  /\ doc' \in Seq(Node) /\ Len(doc') <= MaxNodes
         /\ open' \in Seq(1 .. Len(doc'))
         /\ Len(doc) + 1 \in 0 .. MaxNodes
         /\ Len(files) > 0 /\ attributes(nd) \in File /\ f \in File
<1>1. status = "parsing" /\ Len(doc) < MaxNodes
      /\ doc' = Append(doc, nd) /\ open' = Append(open, Len(doc) + 1)
  BY DEF Start
<1>2. doc' \in Seq(Node) /\ Len(doc') = Len(doc) + 1 /\ Len(doc) \in Nat
  BY <1>1 DEF IInv
<1>3. open \in Seq(1 .. Len(doc'))
  BY <1>2 DEF IInv
<1>4. open' \in Seq(1 .. Len(doc'))
  BY <1>1, <1>2, <1>3
<1>5. attributes(nd) \in File /\ f \in File /\ Len(files) > 0
  BY <1>1, AttributesType DEF IInv
<1>. QED
  BY <1>1, <1>2, <1>4, <1>5, RegParserAssumption

\* The new node is one: its id counts the siblings before it.
LEMMA NodeType ==
  ASSUME IInv, Len(doc) < MaxNodes, NEW k \in {"blk", "reg", "mask", "mod"},
         NEW hasid \in BOOLEAN, NEW address \in BOOLEAN
  PROVE  [kind |-> k, parent |-> top, hasid |-> hasid, address |-> address,
          id |-> Cardinality({n \in 1 .. Len(doc) : parent(n) = top}) + 1] \in Node
<1> DEFINE S == {n \in 1 .. Len(doc) : parent(n) = top}
<1>1. Len(doc) \in Nat /\ IsFiniteSet(1 .. Len(doc)) /\ Cardinality(1 .. Len(doc)) = Len(doc)
  <2>1. Len(doc) \in Nat
    BY DEF IInv
  <2>2. /\ IsFiniteSet(1 .. Len(doc))
        /\ Cardinality(1 .. Len(doc)) = IF 1 > Len(doc) THEN 0 ELSE Len(doc) - 1 + 1
    <3>1. 1 \in Int /\ Len(doc) \in Int
      BY <2>1
    <3>. QED
      BY <3>1, FS_Interval, Zenon
  <2>. QED
    BY <2>1, <2>2
<1>2. Cardinality(S) \in Nat /\ Cardinality(S) <= Len(doc)
  BY <1>1, FS_Subset, FS_CardinalityType
<1>3. Cardinality(S) + 1 \in 1 .. MaxNodes
  BY <1>1, <1>2, RegParserAssumption
<1>4. top \in 0 .. MaxNodes
  <2>1. CASE open = <<>>
    BY <2>1, RegParserAssumption DEF top
  <2>2. CASE open # <<>>
    <3>1. open[Len(open)] \in 1 .. Len(doc)
      BY <2>2 DEF IInv
    <3>. QED
      BY <2>2, <3>1, <1>1, RegParserAssumption DEF top
  <2>. QED
    BY <2>1, <2>2
<1> SUFFICES ASSUME NEW i \in 1 .. MaxNodes, NEW p \in 0 .. MaxNodes
             PROVE  [kind |-> k, parent |-> p, hasid |-> hasid, address |-> address,
                     id |-> i] \in Node
  BY <1>3, <1>4
<1>. QED
  BY DEF Node

\* Every step keeps the invariant.
LEMMA Inductive == IInv /\ [Next]_vars => IInv'
<1> SUFFICES ASSUME IInv, [Next]_vars PROVE IInv'
  OBVIOUS
<1>1. ASSUME NEW nd \in Node, StartBlk(nd) PROVE IInv'
  <2> DEFINE g == attributes(nd)
             h == [g EXCEPT !.localaddr = 0]
             e == [g EXCEPT !.baseaddr = base(g), !.localaddr = 0,
                            !.currentblock = register(Len(doc) + 1, h, base(g))]
  <2>1. Start(nd)
    BY <1>1 DEF StartBlk
  <2>2. g \in File /\ f \in File /\ Len(files) > 0
    BY <2>1, StartType
  <2>3. base(g) \in Addrs /\ 0 \in Addrs
    <3>1. g.localaddr \in Addrs /\ g.filebaseaddr \in Addrs
      BY <2>2 DEF File
    <3>2. base(g) \in Addrs
      BY <3>1, PlusType DEF base
    <3>. QED
      BY <3>2, RegParserAssumption DEF Addrs
  <2> HIDE DEF g
  <2>4. h \in File
    BY <2>2, <2>3 DEF File
  <2>5. register(Len(doc) + 1, h, base(g)) \in Reg
    BY <2>1, <2>3, <2>4, StartType, RegisterType
  <2> HIDE DEF h
  <2>6. e \in File
    BY <2>2, <2>3, <2>5 DEF File
  <2>7. files' = [files EXCEPT ![Len(files)] = e]
    BY <1>1 DEF StartBlk, goOn, g, h
  <2> HIDE DEF e
  <2>8. files' \in Seq(File) /\ Len(files') = Len(files)
    BY <2>2, <2>6, <2>7, LastReplaced DEF IInv
  <2>9. RegsOK(Regs')
    <3>1. f.currentblock \in Reg
      BY <2>2 DEF File
    <3>. QED
      BY <1>1, <3>1, SaveType DEF StartBlk, IInv
  <2>. QED
    BY <1>1, <2>1, <2>2, <2>8, <2>9, StartType DEF StartBlk, IInv
<1>2. ASSUME NEW nd \in Node, StartReg(nd) PROVE IInv'
  <2> DEFINE g == attributes(nd)
             e == [g EXCEPT !.currentreg = register(Len(doc) + 1, g, g.baseaddr)]
  <2>1. Start(nd)
    BY <1>2 DEF StartReg
  <2>2. g \in File /\ f \in File /\ Len(files) > 0
    BY <2>1, StartType
  <2>3. files' = [files EXCEPT ![Len(files)] = e]
    BY <1>2 DEF StartReg, goOn
  <2> HIDE DEF g
  <2>4. g.baseaddr \in Addrs
    BY <2>2 DEF File
  <2>5. register(Len(doc) + 1, g, g.baseaddr) \in Reg
    BY <2>1, <2>2, <2>4, StartType, RegisterType
  <2>6. e \in File
    BY <2>2, <2>5 DEF File
  <2> HIDE DEF e
  <2>8. files' \in Seq(File) /\ Len(files') = Len(files)
    BY <2>2, <2>3, <2>6, LastReplaced DEF IInv
  <2>9. RegsOK(Regs')
    <3>1. f.currentreg \in Reg
      BY <2>2 DEF File
    <3>. QED
      BY <1>2, <3>1, SaveType DEF StartReg, IInv
  <2>. QED
    BY <1>2, <2>1, <2>2, <2>8, <2>9, StartType DEF StartReg, IInv
<1>3. ASSUME NEW nd \in Node, StartMask(nd) PROVE IInv'
  <2> DEFINE g == attributes(nd)
             k == IF g.name = <<>> THEN 0 ELSE g.name[Len(g.name)]
             m == newmask(MaskOf[nd.id])
             e == [g EXCEPT !.currentreg.msks = withMask(@, k, m)]
  <2>1. Start(nd)
    BY <1>3 DEF StartMask
  <2>2. g \in File /\ f \in File /\ Len(files) > 0
    BY <2>1, StartType
  <2>3. \/ status' = "panic" /\ files' = [files EXCEPT ![Len(files)] = g]
        \/ status' = status /\ files' = [files EXCEPT ![Len(files)] = e]
    BY <1>3 DEF StartMask, goOn
  <2> HIDE DEF g
  <2>4. k \in 0 .. MaxNodes
    <3>1. g.name \in Seq(1 .. MaxNodes)
      BY <2>2 DEF File, Names
    <3>2. g.name # <<>> => g.name[Len(g.name)] \in 1 .. MaxNodes
      BY <3>1, LastElement
    <3>. QED
      BY <3>1, <3>2, RegParserAssumption
  <2> HIDE DEF k
  <2>5. m \in MadeMask
    BY RegParserAssumption DEF MadeMask, Node
  <2> HIDE DEF m
  <2>6. e \in File
    <3>1. g.currentreg \in Reg /\ g.currentreg.msks \in MaskMap
      BY <2>2 DEF File, Reg
    <3>2. withMask(g.currentreg.msks, k, m) \in MaskMap
      BY <3>1, <2>4, <2>5, WithMaskType
    <3>3. [g.currentreg EXCEPT !.msks = withMask(g.currentreg.msks, k, m)] \in Reg
      BY <3>1, <3>2 DEF Reg
    <3>. QED
      BY <2>2, <3>3 DEF File
  <2> HIDE DEF e
  <2>7. files' \in Seq(File) /\ Len(files') = Len(files)
    <3>1. files \in Seq(File)
      BY DEF IInv
    <3>2. PICK h \in File : files' = [files EXCEPT ![Len(files)] = h]
      BY <2>2, <2>3, <2>6
    <3>. QED
      BY <2>2, <3>1, <3>2, LastReplaced
  <2>. QED
    BY <1>3, <2>1, <2>2, <2>3, <2>7, StartType DEF StartMask, IInv
<1>4. ASSUME NEW nd \in Node, StartMod(nd) PROVE IInv'
  <2> DEFINE g == attributes(nd)
             s == [files EXCEPT ![Len(files)] = g]
  <2>1. Start(nd)
    BY <1>4 DEF StartMod
  <2>2. g \in File /\ Len(files) > 0
    BY <2>1, StartType
  <2>3. files' = Append(s, newfile(g.name, base(g)))
    BY <1>4 DEF StartMod
  <2> HIDE DEF g
  <2>4. s \in Seq(File) /\ Len(s) = Len(files)
    BY <2>2, LastReplaced DEF IInv
  <2> HIDE DEF s
  <2>5. newfile(g.name, base(g)) \in File
    <3>1. g.name \in Names /\ g.localaddr \in Addrs /\ g.filebaseaddr \in Addrs
      BY <2>2 DEF File
    <3>2. base(g) \in Addrs
      BY <3>1, PlusType DEF base
    <3>. QED
      BY <3>1, <3>2, NewFileType
  <2>6. files' \in Seq(File) /\ Len(files') > 0
    BY <2>3, <2>4, <2>5
  <2>. QED
    BY <1>4, <2>1, <2>6, StartType DEF StartMod, IInv
<1>5. CASE EndElement
  <2> DEFINE n == IF f.name = <<>> THEN <<>> ELSE SubSeq(f.name, 1, Len(f.name) - 1)
             e == [f EXCEPT !.name = n]
  <2>1. Len(files) > 0 /\ files' = [files EXCEPT ![Len(files)] = e]
    BY <1>5 DEF EndElement, goOn, IInv
  <2>2. f \in File
    BY <2>1 DEF f, IInv
  <2>3. f.name \in Seq(1 .. MaxNodes)
    BY <2>2 DEF File, Names
  <2>4. n \in Names
    <3>1. CASE f.name = <<>>
      BY <3>1 DEF Names
    <3>2. CASE f.name # <<>>
      <4>1. Len(f.name) > 0
        BY <2>3, <3>2
      <4>. QED
        BY <2>3, <3>2, <4>1, LastTaken DEF Names
    <3>. QED
      BY <3>1, <3>2
  <2> HIDE DEF n
  <2>5. e \in File
    BY <2>2, <2>4 DEF File
  <2> HIDE DEF e
  <2>6. files' \in Seq(File) /\ Len(files') = Len(files)
    BY <2>1, <2>5, LastReplaced DEF IInv
  <2>7. open' \in Seq(1 .. Len(doc))
    <3>1. open \in Seq(1 .. Len(doc)) /\ open # <<>>
      BY <1>5 DEF EndElement, IInv
    <3>2. Len(open) > 0
      BY <3>1
    <3>. QED
      BY <1>5, <3>1, <3>2, LastTaken DEF EndElement
  <2>. QED
    BY <1>5, <2>1, <2>6, <2>7 DEF EndElement, IInv
<1>6. CASE EOF
  <2>1. Len(files) > 0 /\ files' = SubSeq(files, 1, Len(files) - 1) /\ Regs' = saveLast(f)
    BY <1>6 DEF EOF, IInv
  <2>2. files' \in Seq(File) /\ Len(files') = Len(files) - 1
    BY <2>1, LastTaken DEF IInv
  <2>3. f \in File
    BY <2>1 DEF f, IInv
  <2>4. f.currentreg \in Reg /\ f.currentblock \in Reg
    BY <2>3 DEF File
  <2>5. RegsOK(save(Regs, f.currentreg))
    BY <2>4, SaveType DEF IInv
  <2>6. RegsOK(Regs')
    BY <2>1, <2>4, <2>5, SaveType DEF saveLast
  <2>7. status' = "parsing" => Len(files') > 0
    BY <1>6, <2>1, <2>2 DEF EOF, IInv
  <2>. QED
    BY <1>6, <2>2, <2>6, <2>7 DEF EOF, IInv
<1>7. CASE Fail
  BY <1>7 DEF Fail, IInv
<1>8. CASE UNCHANGED vars
  BY <1>8 DEF vars, IInv
<1>9. CASE StartElement
  <2>1. PICK k \in {"blk", "reg", "mask", "mod"}, hasid \in BOOLEAN, address \in BOOLEAN :
          LET nd == [kind |-> k, parent |-> top, hasid |-> hasid, address |-> address,
                     id |-> Cardinality({n \in 1 .. Len(doc) : parent(n) = top}) + 1]
          IN  StartBlk(nd) \/ StartReg(nd) \/ StartMask(nd) \/ StartMod(nd)
    BY <1>9 DEF StartElement
  <2> DEFINE nd == [kind |-> k, parent |-> top, hasid |-> hasid, address |-> address,
                    id |-> Cardinality({n \in 1 .. Len(doc) : parent(n) = top}) + 1]
  <2>2. StartBlk(nd) \/ StartReg(nd) \/ StartMask(nd) \/ StartMod(nd)
    BY <2>1
  <2>3. Len(doc) < MaxNodes
    <3> HIDE DEF nd
    <3>. QED
      BY <2>2 DEF StartBlk, StartReg, StartMask, StartMod, Start
  <2>4. nd \in Node
    BY <2>3, NodeType
  <2> HIDE DEF nd
  <2>. QED
    BY <2>2, <2>4, <1>1, <1>2, <1>3, <1>4
<1>. QED
  BY <1>5, <1>6, <1>7, <1>8, <1>9 DEF Next

\* The invariant holds in every state.
LEMMA Invariance == Spec => []IInv
BY Initially, Inductive, PTL DEF Spec

-----------------------------------------------------------------------------
\* A mask that newmask made is a value and the position of a bit.
LEMMA MadeMaskType == MadeMask \subseteq msk
<1> SUFFICES ASSUME NEW w \in Word PROVE newmask(w) \in msk
  BY DEF MadeMask
<1>1. lowest(w) \in Bits
  <2>1. CASE w = {}
    BY <2>1, WidthAssumption DEF lowest, Bits
  <2>2. CASE w # {}
    BY <2>2, LowestIsLeast DEF Word
  <2>. QED
    BY <2>1, <2>2
<1>. QED
  BY <1>1 DEF newmask, msk

\* The registers of the invariant are those of the type invariant.
LEMMA RegIsRegister ==
  ASSUME NEW r \in Reg
  PROVE  IsRegister(r) /\ \A k \in DOMAIN r.msks : r.msks[k] \in MadeMask
<1>1. r.msks \in MaskMap
  BY DEF Reg
<1>2. PICK ks \in SUBSET (0 .. MaxNodes) : r.msks \in [ks -> MadeMask]
  BY <1>1 DEF MaskMap
<1>3. DOMAIN r.msks \subseteq 0 .. MaxNodes /\ \A k \in DOMAIN r.msks : r.msks[k] \in MadeMask
  BY <1>2
<1>. QED
  BY <1>3, MadeMaskType DEF IsRegister, Reg, Names, Addrs

\* The parser keeps its types: addresses wrap, names are made of ids, and the
\* table has every register under the name it carries.
THEOREM TypeCorrect == Spec => []TypeOK
<1>1. IInv => TypeOK
  <2> SUFFICES ASSUME IInv PROVE TypeOK
    OBVIOUS
  <2>1. \A i \in 1 .. Len(files) : IsFile(files[i])
    <3> SUFFICES ASSUME NEW g \in File PROVE IsFile(g)
      BY DEF IInv
    <3>1. g.currentblock \in Reg /\ g.currentreg \in Reg
      BY DEF File
    <3>. QED
      BY <3>1, RegIsRegister DEF IsFile, File, Names, Addrs
  <2>2. \A x \in DOMAIN Regs : IsRegister(Regs[x]) /\ Regs[x].Name = x
    BY RegIsRegister DEF IInv, RegsOK
  <2>. QED
    BY <2>1, <2>2 DEF IInv, RegsOK, TypeOK, Names
<1>. QED
  BY <1>1, Invariance, PTL

\* Through every mask of every register of a table of any size and layout, for
\* words of any width, what is written is read back and nothing else changes.
THEOREM MasksCorrect == Spec => []WrittenIsRead
<1>1. IInv => WrittenIsRead
  <2> SUFFICES ASSUME IInv, NEW r \in Registers, NEW k \in DOMAIN r.msks, NEW x \in Word,
                      NEW v \in Word, Fits(r.msks[k], v),
                      NEW terms \in {WriteMask(r.msks[k], v), MaskedWrite(r.msks[k], v)}
               PROVE  /\ ReadMask(r.msks[k], RMWbits(x, terms)) = v
                      /\ RMWbits(x, terms) \ r.msks[k].value = x \ r.msks[k].value
    BY DEF WrittenIsRead
  <2>1. r \in Reg
    <3>1. \A i \in 1 .. Len(files) : files[i].currentreg \in Reg /\ files[i].currentblock \in Reg
      <4> SUFFICES ASSUME NEW g \in File PROVE g.currentreg \in Reg /\ g.currentblock \in Reg
        BY DEF IInv
      <4>. QED
        BY DEF File
    <3>. QED
      BY <3>1 DEF Registers, Held, IInv, RegsOK
  <2>2. PICK w \in Word : r.msks[k] = newmask(w)
    BY <2>1, RegIsRegister DEF MadeMask
  <2>3. r.msks[k].value = w
    BY <2>2 DEF newmask
  <2>. QED
    BY <2>2, <2>3, MaskedAccess
<1>. QED
  BY <1>1, Invariance, PTL

-----------------------------------------------------------------------------
(* The tree.                                                               *)
(*                                                                         *)
(* The operators of RegParser on the document, with the document as a      *)
(* parameter: a start tag adds a node to it, and nothing that was said of  *)
(* the others changes.                                                     *)

DRoot(d, n) == d[n].parent = 0 \/ d[d[n].parent].kind = "mod"

DAbove(d, n) ==
  LET up[i \in 0 .. n] == IF i = 0 THEN {} ELSE {i} \cup up[d[i].parent]
  IN  up[n]

DPath(d, n) ==
  LET path[i \in 0 .. n] ==
        IF i = 0 THEN <<>>
        ELSE IF DRoot(d, i) THEN path[d[i].parent] ELSE Append(path[d[i].parent], d[i].id)
  IN  path[n]

DAddress(d, n) ==
  LET sum[i \in 0 .. n] ==
        IF i = 0 THEN 0 ELSE plus(sum[d[i].parent], IF d[i].address THEN AddrOf[i] ELSE 0)
  IN  sum[n]

DFileOf(d, n) ==
  LET file[i \in 1 .. n] == IF DRoot(d, i) THEN i ELSE file[d[i].parent]
  IN  file[n]

DLatest(d, k, n) ==
  LET before == {i \in 1 .. n - 1 : d[i].kind = k /\ DFileOf(d, i) = DFileOf(d, n)}
  IN  IF before = {} THEN 0 ELSE CHOOSE i \in before : \A j \in before : j <= i

DInPlace(d, n) ==
  IF DRoot(d, n) THEN d[n].hasid /\ ~d[n].address /\ d[n].kind \in {"blk", IF n = 1 THEN "reg" ELSE "blk"}
  ELSE \/ d[n].kind = "mask" /\ ~d[n].address /\ d[n].parent = DLatest(d, "reg", n)
       \/ d[n].kind \in {"blk", "mod"} /\ d[n].address /\ DRoot(d, d[n].parent)
       \/ /\ d[n].kind = "reg" /\ d[n].address
          /\ \/ d[n].parent = DLatest(d, "blk", n)
             \/ DLatest(d, "blk", n) = 0 /\ DFileOf(d, n) = 1 /\ d[n].parent = 1

DPlaced(d, n) == \A m \in DAbove(d, n) : DInPlace(d, m)

\* All nodes on the way to n have ids.
DIds(d, n) == \A m \in DAbove(d, n) : d[m].hasid

\* The siblings of n that begin before it.
Elder(d, n) == {i \in 1 .. n - 1 : d[i].parent = d[n].parent}

\* What the start tags make: a node comes after its parent, a file has one root,
\* only roots may have no id, and the id of a node counts its siblings.
Tree(d) ==
  /\ d \in Seq(Node) /\ Len(d) <= MaxNodes
  /\ \A i \in 1 .. Len(d) : d[i].parent \in 0 .. i - 1
  /\ \A i, j \in 1 .. Len(d) : (DRoot(d, i) /\ DRoot(d, j) /\ d[i].parent = d[j].parent) => i = j
  /\ \A i \in 1 .. Len(d) : ~DRoot(d, i) => d[i].hasid
  /\ \A i \in 1 .. Len(d) : d[i].id = Cardinality(Elder(d, i)) + 1

\* Induction up to n, for a set.
LEMMA Upward ==
  ASSUME NEW n \in Nat, NEW T, \A m \in 0 .. n : (\A j \in 0 .. m - 1 : j \in T) => m \in T
  PROVE  0 .. n \subseteq T
<1> DEFINE bad == (0 .. n) \ T
<1> SUFFICES ASSUME bad # {} PROVE FALSE
  OBVIOUS
<1>1. bad \subseteq Nat
  OBVIOUS
<1>2. PICK m \in bad : \A j \in bad : ~(<<j, m>> \in OpToRel(<, Nat))
  BY <1>1, NatLessThanWellFounded, WFMin
<1>3. ASSUME NEW j \in 0 .. m - 1 PROVE j \in T
  <2>1. j < m /\ j \in Nat /\ m \in Nat /\ j \in 0 .. n
    OBVIOUS
  <2>2. <<j, m>> \in OpToRel(<, Nat)
    BY <2>1 DEF OpToRel
  <2>. QED
    BY <1>2, <2>1, <2>2
<1>. QED
  BY <1>3

\* P leads down to 0; g is b there and goes by H elsewhere; e and g are alike at i
\* if they are below.
Down(n, P) == \A i \in 1 .. n : P[i] \in 0 .. i - 1
Follows(g, n, P, b, H) == g[0] = b /\ \A i \in 1 .. n : g[i] = H[i][g[P[i]]]
Alike(e, g, n, P) == e[0] = g[0] /\ \A i \in 1 .. n : e[P[i]] = g[P[i]] => e[i] = g[i]

\* What is defined at 0, and elsewhere from the value at a smaller number, exists.
LEMMA Recursion ==
  ASSUME NEW n \in Nat, NEW P, Down(n, P),
         NEW V, NEW b \in V, NEW H \in [1 .. n -> [V -> V]]
  PROVE  \E g \in [0 .. n -> V] : Follows(g, n, P, b, H)
<1> DEFINE Rec(g, m) == g[0] = b /\ \A i \in 1 .. m : g[i] = H[i][g[P[i]]]
           T == {m \in 0 .. n : \E g \in [0 .. m -> V] : Rec(g, m)}
<1>1. ASSUME NEW m \in 0 .. n, \A j \in 0 .. m - 1 : j \in T PROVE m \in T
  <2>1. CASE m = 0
    <3> DEFINE g == [i \in 0 .. 0 |-> b]
    <3>1. g \in [0 .. 0 -> V] /\ Rec(g, 0)
      OBVIOUS
    <3>. QED
      BY <2>1, <3>1
  <2>2. CASE m # 0
    <3>1. m - 1 \in 0 .. m - 1
      BY <2>2
    <3>2. PICK g \in [0 .. m - 1 -> V] : Rec(g, m - 1)
      BY <1>1, <3>1
    <3>3. P[m] \in 0 .. m - 1 /\ m \in 1 .. n
      BY <2>2 DEF Down
    <3>4. H[m][g[P[m]]] \in V
      BY <3>3
    <3> DEFINE e == [i \in 0 .. m |-> IF i = m THEN H[m][g[P[m]]] ELSE g[i]]
    <3>5. e \in [0 .. m -> V]
      BY <3>4
    <3>6. \A i \in 0 .. m - 1 : e[i] = g[i]
      OBVIOUS
    <3>7. e[m] = H[m][g[P[m]]]
      OBVIOUS
    <3> HIDE DEF e
    <3>8. e[0] = b
      BY <3>2, <3>6, <2>2
    <3>9. ASSUME NEW i \in 1 .. m PROVE e[i] = H[i][e[P[i]]]
      <4>1. CASE i = m
        BY <4>1, <3>3, <3>6, <3>7
      <4>2. CASE i # m
        <5>1. i \in 1 .. m - 1 /\ i \in 1 .. n /\ i \in 0 .. m - 1
          BY <4>2
        <5>2. P[i] \in 0 .. m - 1
          BY <5>1 DEF Down
        <5>. QED
          BY <5>1, <5>2, <3>2, <3>6
      <4>. QED
        BY <4>1, <4>2
    <3>10. Rec(e, m)
      BY <3>8, <3>9
    <3>. QED
      BY <3>5, <3>10
  <2>. QED
    BY <2>1, <2>2
<1>2. n \in T
  <2> HIDE DEF T
  <2>1. 0 .. n \subseteq T
    BY <1>1, Upward
  <2>. QED
    BY <2>1
<1>. QED
  BY <1>2 DEF Follows

\* And there is only one.
LEMMA Agree ==
  ASSUME NEW n \in Nat, NEW P, Down(n, P), NEW e, NEW g, Alike(e, g, n, P)
  PROVE  \A i \in 0 .. n : e[i] = g[i]
<1> DEFINE T == {m \in 0 .. n : e[m] = g[m]}
<1>1. ASSUME NEW m \in 0 .. n, \A j \in 0 .. m - 1 : j \in T PROVE m \in T
  <2>1. CASE m = 0
    BY <2>1 DEF Alike
  <2>2. CASE m # 0
    <3>1. m \in 1 .. n /\ P[m] \in 0 .. m - 1
      BY <2>2 DEF Down
    <3>2. e[P[m]] = g[P[m]]
      BY <1>1, <3>1
    <3>. QED
      BY <3>1, <3>2 DEF Alike
  <2>. QED
    BY <2>1, <2>2
<1> HIDE DEF T
<1>2. 0 .. n \subseteq T
  BY <1>1, Upward
<1>. QED
  BY <1>2 DEF T

\* The nodes of a tree have the fields of a node.
LEMMA TreeNode ==
  ASSUME NEW d, Tree(d), NEW i \in 1 .. Len(d)
  PROVE  /\ d[i] \in Node /\ d[i].id \in 1 .. MaxNodes
         /\ d[i].parent \in 0 .. i - 1 /\ d[i].parent \in 0 .. Len(d)
         /\ d[i].hasid \in BOOLEAN /\ d[i].address \in BOOLEAN
         /\ d[i].kind \in {"blk", "reg", "mask", "mod"}
         /\ i \in Nat /\ i # 0 /\ i <= Len(d) /\ Len(d) \in Nat /\ i \in 1 .. MaxNodes
<1>1. d[i] \in Node /\ d[i].parent \in 0 .. i - 1 /\ Len(d) \in Nat /\ Len(d) <= MaxNodes
  BY DEF Tree
<1>2. /\ d[i].id \in 1 .. MaxNodes /\ d[i].hasid \in BOOLEAN /\ d[i].address \in BOOLEAN
      /\ d[i].kind \in {"blk", "reg", "mask", "mod"}
  BY <1>1 DEF Node
<1>3. /\ d[i].parent \in 0 .. Len(d)
      /\ i \in Nat /\ i # 0 /\ i <= Len(d) /\ i \in 1 .. MaxNodes
  BY <1>1, RegParserAssumption
<1>. QED
  BY <1>1, <1>2, <1>3

\* Path, unfolded once.
LEMMA PathRec ==
  ASSUME NEW d, Tree(d)
  PROVE  /\ \A n \in 0 .. Len(d) : DPath(d, n) \in Names
         /\ DPath(d, 0) = <<>>
         /\ \A n \in 1 .. Len(d) :
              DPath(d, n) = IF DRoot(d, n) THEN DPath(d, d[n].parent)
                            ELSE Append(DPath(d, d[n].parent), d[n].id)
<1> DEFINE N == Len(d)
           P == [i \in 1 .. N |-> d[i].parent]
           H == [i \in 1 .. N |-> [v \in Names |-> IF DRoot(d, i) THEN v ELSE Append(v, d[i].id)]]
<1>1. N \in Nat /\ Down(N, P)
  BY TreeNode DEF Tree, Down
<1>2. H \in [1 .. N -> [Names -> Names]]
  <2>1. ASSUME NEW i \in 1 .. N, NEW v \in Names PROVE Append(v, d[i].id) \in Names
    <3>1. d[i].id \in 1 .. MaxNodes
      BY TreeNode
    <3>. QED
      BY <3>1 DEF Names
  <2>. QED
    BY <2>1
<1>3. << >> \in Names
  BY DEF Names
<1>4. PICK g \in [0 .. N -> Names] : Follows(g, N, P, <<>>, H)
  <2> HIDE DEF P, H, N
  <2>. QED
    BY <1>1, <1>2, <1>3, Recursion
<1>5. g[0] = <<>> /\ \A i \in 1 .. N : g[i] = H[i][g[P[i]]]
  BY <1>4 DEF Follows
<1>6. \A i \in 1 .. N : d[i].parent \in 0 .. i - 1 /\ d[i].parent \in 0 .. N
  BY TreeNode
<1>7. \A i \in 1 .. N : g[i] = IF DRoot(d, i) THEN g[d[i].parent] ELSE Append(g[d[i].parent], d[i].id)
  BY <1>5, <1>6
<1>8. ASSUME NEW k \in 0 .. N PROVE DPath(d, k) = g[k]
  <2> DEFINE Step(e, i) == IF i = 0 THEN <<>>
                           ELSE IF DRoot(d, i) THEN e[d[i].parent] ELSE Append(e[d[i].parent], d[i].id)
             x == CHOOSE e : e = [i \in 0 .. k |-> Step(e, i)]
             y == [i \in 0 .. k |-> g[i]]
  <2>1. DPath(d, k) = x[k]
    BY DEF DPath
  <2>2. \A i \in 1 .. k : i \in 1 .. N /\ d[i].parent \in 0 .. k /\ d[i].parent \in 0 .. i - 1
    BY <1>1, <1>6
  <2>3. ASSUME NEW i \in 0 .. k PROVE y[i] = Step(y, i)
    <3>1. CASE i = 0
      BY <3>1, <1>5
    <3>2. CASE i # 0
      <4>1. i \in 1 .. k
        BY <3>2
      <4>2. y[i] = g[i] /\ y[d[i].parent] = g[d[i].parent]
        BY <4>1, <2>2
      <4> HIDE DEF y
      <4>. QED
        BY <3>2, <4>1, <4>2, <2>2, <1>7
    <3>. QED
      BY <3>1, <3>2
  <2>4. y = [i \in 0 .. k |-> Step(y, i)]
    <3>1. y = [i \in 0 .. k |-> y[i]]
      OBVIOUS
    <3> HIDE DEF y, Step
    <3>. QED
      BY <3>1, <2>3
  <2>5. x = [i \in 0 .. k |-> Step(x, i)]
    <3> HIDE DEF y, Step
    <3>. QED
      BY <2>4
  <2> HIDE DEF x, y
  <2>6. \A i \in 0 .. k : x[i] = Step(x, i)
    <3> HIDE DEF Step
    <3>. QED
      BY <2>5
  <2>7. x[0] = g[0]
    BY <2>6, <1>1, <1>5
  <2>8. ASSUME NEW i \in 1 .. k, x[d[i].parent] = g[d[i].parent] PROVE x[i] = g[i]
    <3>1. i \in 0 .. k /\ i # 0 /\ i \in 1 .. N
      BY <2>2
    <3>2. x[i] = Step(x, i)
      BY <3>1, <2>6
    <3>. QED
      BY <3>1, <3>2, <2>8, <1>7
  <2>9. Alike(x, g, k, P) /\ Down(k, P) /\ k \in Nat
    BY <2>2, <2>7, <2>8, <1>1 DEF Alike, Down
  <2> HIDE DEF P
  <2>10. \A i \in 0 .. k : x[i] = g[i]
    BY <2>9, Agree
  <2>. QED
    BY <2>1, <2>10
<1> HIDE DEF P, H
<1>9. \A n \in 0 .. N : DPath(d, n) \in Names
  BY <1>8
<1>10. DPath(d, 0) = <<>>
  <2>1. 0 \in 0 .. N
    BY <1>1
  <2>. QED
    BY <2>1, <1>5, <1>8
<1>11. ASSUME NEW n \in 1 .. N
       PROVE  DPath(d, n) = IF DRoot(d, n) THEN DPath(d, d[n].parent)
                            ELSE Append(DPath(d, d[n].parent), d[n].id)
  <2>1. DPath(d, n) = g[n] /\ DPath(d, d[n].parent) = g[d[n].parent]
    BY <1>1, <1>6, <1>8
  <2>. QED
    BY <2>1, <1>7
<1>. QED
  BY <1>9, <1>10, <1>11

\* The part of the address that comes from node n itself.
Own(d, n) == IF d[n].address THEN AddrOf[n] ELSE 0

LEMMA OwnType ==
  ASSUME NEW d, Tree(d), NEW n \in 1 .. Len(d)
  PROVE  Own(d, n) \in Addrs
<1>1. n \in 1 .. MaxNodes
  BY TreeNode
<1>. QED
  BY <1>1, RegParserAssumption DEF Own, Addrs

\* Address, unfolded once.
LEMMA AddressRec ==
  ASSUME NEW d, Tree(d)
  PROVE  /\ \A n \in 0 .. Len(d) : DAddress(d, n) \in Addrs
         /\ DAddress(d, 0) = 0
         /\ \A n \in 1 .. Len(d) :
              DAddress(d, n) = plus(DAddress(d, d[n].parent), Own(d, n))
<1> DEFINE N == Len(d)
           P == [i \in 1 .. N |-> d[i].parent]
           H == [i \in 1 .. N |-> [v \in Addrs |-> plus(v, Own(d, i))]]
<1>1. N \in Nat /\ Down(N, P)
  BY TreeNode DEF Tree, Down
<1>2. H \in [1 .. N -> [Addrs -> Addrs]]
  <2>1. ASSUME NEW i \in 1 .. N, NEW v \in Addrs PROVE plus(v, Own(d, i)) \in Addrs
    BY OwnType, PlusType
  <2>. QED
    BY <2>1
<1>3. 0 \in Addrs
  BY RegParserAssumption DEF Addrs
<1>4. PICK g \in [0 .. N -> Addrs] : Follows(g, N, P, 0, H)
  <2> HIDE DEF P, H, N
  <2>. QED
    BY <1>1, <1>2, <1>3, Recursion
<1>5. g[0] = 0 /\ \A i \in 1 .. N : g[i] = H[i][g[P[i]]]
  BY <1>4 DEF Follows
<1>6. \A i \in 1 .. N : d[i].parent \in 0 .. i - 1 /\ d[i].parent \in 0 .. N
  BY TreeNode
<1>7. \A i \in 1 .. N : g[i] = plus(g[d[i].parent], Own(d, i))
  BY <1>5, <1>6
<1>8. ASSUME NEW k \in 0 .. N PROVE DAddress(d, k) = g[k]
  <2> DEFINE Step(e, i) == IF i = 0 THEN 0 ELSE plus(e[d[i].parent], Own(d, i))
             x == CHOOSE e : e = [i \in 0 .. k |-> Step(e, i)]
             y == [i \in 0 .. k |-> g[i]]
  <2>1. DAddress(d, k) = x[k]
    BY DEF DAddress, Own
  <2>2. \A i \in 1 .. k : i \in 1 .. N /\ d[i].parent \in 0 .. k /\ d[i].parent \in 0 .. i - 1
    BY <1>1, <1>6
  <2>3. ASSUME NEW i \in 0 .. k PROVE y[i] = Step(y, i)
    <3>1. CASE i = 0
      BY <3>1, <1>5
    <3>2. CASE i # 0
      <4>1. i \in 1 .. k
        BY <3>2
      <4>2. y[i] = g[i] /\ y[d[i].parent] = g[d[i].parent]
        BY <4>1, <2>2
      <4> HIDE DEF y
      <4>. QED
        BY <3>2, <4>1, <4>2, <2>2, <1>7
    <3>. QED
      BY <3>1, <3>2
  <2>4. y = [i \in 0 .. k |-> Step(y, i)]
    <3>1. y = [i \in 0 .. k |-> y[i]]
      OBVIOUS
    <3> HIDE DEF y, Step
    <3>. QED
      BY <3>1, <2>3
  <2>5. x = [i \in 0 .. k |-> Step(x, i)]
    <3> HIDE DEF y, Step
    <3>. QED
      BY <2>4
  <2> HIDE DEF x, y
  <2>6. \A i \in 0 .. k : x[i] = Step(x, i)
    <3> HIDE DEF Step
    <3>. QED
      BY <2>5
  <2>7. x[0] = g[0]
    BY <2>6, <1>1, <1>5
  <2>8. ASSUME NEW i \in 1 .. k, x[d[i].parent] = g[d[i].parent] PROVE x[i] = g[i]
    <3>1. i \in 0 .. k /\ i # 0 /\ i \in 1 .. N
      BY <2>2
    <3>2. x[i] = Step(x, i)
      BY <3>1, <2>6
    <3>. QED
      BY <3>1, <3>2, <2>8, <1>7
  <2>9. Alike(x, g, k, P) /\ Down(k, P) /\ k \in Nat
    BY <2>2, <2>7, <2>8, <1>1 DEF Alike, Down
  <2> HIDE DEF P
  <2>10. \A i \in 0 .. k : x[i] = g[i]
    BY <2>9, Agree
  <2>. QED
    BY <2>1, <2>10
<1> HIDE DEF P, H
<1>9. \A n \in 0 .. N : DAddress(d, n) \in Addrs
  BY <1>8
<1>10. DAddress(d, 0) = 0
  <2>1. 0 \in 0 .. N
    BY <1>1
  <2>. QED
    BY <2>1, <1>5, <1>8
<1>11. ASSUME NEW n \in 1 .. N
       PROVE  DAddress(d, n) = plus(DAddress(d, d[n].parent), Own(d, n))
  <2>1. DAddress(d, n) = g[n] /\ DAddress(d, d[n].parent) = g[d[n].parent]
    BY <1>1, <1>6, <1>8
  <2>. QED
    BY <2>1, <1>7
<1>. QED
  BY <1>9, <1>10, <1>11

\* Above, unfolded once.
LEMMA AboveRec ==
  ASSUME NEW d, Tree(d)
  PROVE  /\ \A n \in 0 .. Len(d) : DAbove(d, n) \in SUBSET (1 .. Len(d))
         /\ DAbove(d, 0) = {}
         /\ \A n \in 1 .. Len(d) : DAbove(d, n) = {n} \cup DAbove(d, d[n].parent)
<1> DEFINE N == Len(d)
           P == [i \in 1 .. N |-> d[i].parent]
           H == [i \in 1 .. N |-> [v \in SUBSET (1 .. N) |-> {i} \cup v]]
<1>1. N \in Nat /\ Down(N, P)
  BY TreeNode DEF Tree, Down
<1>2. H \in [1 .. N -> [SUBSET (1 .. N) -> SUBSET (1 .. N)]]
  OBVIOUS
<1>3. {} \in SUBSET (1 .. N)
  OBVIOUS
<1>4. PICK g \in [0 .. N -> SUBSET (1 .. N)] : Follows(g, N, P, {}, H)
  <2> HIDE DEF P, H, N
  <2>. QED
    BY <1>1, <1>2, <1>3, Recursion
<1>5. g[0] = {} /\ \A i \in 1 .. N : g[i] = H[i][g[P[i]]]
  BY <1>4 DEF Follows
<1>6. \A i \in 1 .. N : d[i].parent \in 0 .. i - 1 /\ d[i].parent \in 0 .. N
  BY TreeNode
<1>7. \A i \in 1 .. N : g[i] = {i} \cup g[d[i].parent]
  BY <1>5, <1>6
<1>8. ASSUME NEW k \in 0 .. N PROVE DAbove(d, k) = g[k]
  <2> DEFINE Step(e, i) == IF i = 0 THEN {} ELSE {i} \cup e[d[i].parent]
             x == CHOOSE e : e = [i \in 0 .. k |-> Step(e, i)]
             y == [i \in 0 .. k |-> g[i]]
  <2>1. DAbove(d, k) = x[k]
    BY DEF DAbove
  <2>2. \A i \in 1 .. k : i \in 1 .. N /\ d[i].parent \in 0 .. k /\ d[i].parent \in 0 .. i - 1
    BY <1>1, <1>6
  <2>3. ASSUME NEW i \in 0 .. k PROVE y[i] = Step(y, i)
    <3>1. CASE i = 0
      BY <3>1, <1>5
    <3>2. CASE i # 0
      <4>1. i \in 1 .. k
        BY <3>2
      <4>2. y[i] = g[i] /\ y[d[i].parent] = g[d[i].parent]
        BY <4>1, <2>2
      <4> HIDE DEF y
      <4>. QED
        BY <3>2, <4>1, <4>2, <2>2, <1>7
    <3>. QED
      BY <3>1, <3>2
  <2>4. y = [i \in 0 .. k |-> Step(y, i)]
    <3>1. y = [i \in 0 .. k |-> y[i]]
      OBVIOUS
    <3> HIDE DEF y, Step
    <3>. QED
      BY <3>1, <2>3
  <2>5. x = [i \in 0 .. k |-> Step(x, i)]
    <3> HIDE DEF y, Step
    <3>. QED
      BY <2>4
  <2> HIDE DEF x, y
  <2>6. \A i \in 0 .. k : x[i] = Step(x, i)
    <3> HIDE DEF Step
    <3>. QED
      BY <2>5
  <2>7. x[0] = g[0]
    <3>1. x[0] = Step(x, 0)
      <4> HIDE DEF Step
      <4>. QED
        BY <2>6, <1>1
    <3>2. Step(x, 0) = {}
      BY Zenon
    <3>. QED
      BY <3>1, <3>2, <1>5
  <2>8. ASSUME NEW i \in 1 .. k, x[d[i].parent] = g[d[i].parent] PROVE x[i] = g[i]
    <3>1. i \in 0 .. k /\ i # 0 /\ i \in 1 .. N
      BY <2>2
    <3>2. x[i] = Step(x, i)
      BY <3>1, <2>6
    <3>. QED
      BY <3>1, <3>2, <2>8, <1>7
  <2>9. Alike(x, g, k, P) /\ Down(k, P) /\ k \in Nat
    BY <2>2, <2>7, <2>8, <1>1 DEF Alike, Down
  <2> HIDE DEF P
  <2>10. \A i \in 0 .. k : x[i] = g[i]
    BY <2>9, Agree
  <2>. QED
    BY <2>1, <2>10
<1> HIDE DEF P, H
<1>9. \A n \in 0 .. N : DAbove(d, n) \in SUBSET (1 .. N)
  BY <1>8
<1>10. DAbove(d, 0) = {}
  <2>1. 0 \in 0 .. N
    BY <1>1
  <2>. QED
    BY <2>1, <1>5, <1>8
<1>11. ASSUME NEW n \in 1 .. N
       PROVE  DAbove(d, n) = {n} \cup DAbove(d, d[n].parent)
  <2>1. DAbove(d, n) = g[n] /\ DAbove(d, d[n].parent) = g[d[n].parent]
    BY <1>1, <1>6, <1>8
  <2>. QED
    BY <2>1, <1>7
<1>. QED
  BY <1>9, <1>10, <1>11

\* FileOf, unfolded once: it leads to the root of the file, which is not below.
LEMMA FileRec ==
  ASSUME NEW d, Tree(d)
  PROVE  \A n \in 1 .. Len(d) :
           /\ DFileOf(d, n) \in 1 .. n
           /\ DFileOf(d, n) = IF DRoot(d, n) THEN n ELSE DFileOf(d, d[n].parent)
<1> DEFINE N == Len(d)
           P == [i \in 1 .. N |-> d[i].parent]
           H == [i \in 1 .. N |-> [v \in Nat |-> IF DRoot(d, i) THEN i ELSE v]]
<1>1. N \in Nat /\ Down(N, P)
  BY TreeNode DEF Tree, Down
<1>2. H \in [1 .. N -> [Nat -> Nat]]
  OBVIOUS
<1>3. PICK g \in [0 .. N -> Nat] : Follows(g, N, P, 0, H)
  <2> HIDE DEF P, H, N
  <2>. QED
    BY <1>1, <1>2, Recursion
<1>4. g[0] = 0 /\ \A i \in 1 .. N : g[i] = H[i][g[P[i]]]
  BY <1>3 DEF Follows
<1>5. \A i \in 1 .. N : d[i].parent \in 0 .. i - 1 /\ d[i].parent \in 0 .. N
  BY TreeNode
<1>6. \A i \in 1 .. N : g[i] = IF DRoot(d, i) THEN i ELSE g[d[i].parent]
  BY <1>4, <1>5
<1>7. \A i \in 1 .. N : d[i].parent = 0 => DRoot(d, i)
  BY DEF DRoot
<1>8. ASSUME NEW k \in 1 .. N PROVE DFileOf(d, k) = g[k]
  <2> DEFINE Step(e, i) == IF DRoot(d, i) THEN i ELSE e[d[i].parent]
             x == CHOOSE e : e = [i \in 1 .. k |-> Step(e, i)]
             y == [i \in 1 .. k |-> g[i]]
             z == [i \in 0 .. k |-> IF i = 0 THEN 0 ELSE x[i]]
  <2>1. DFileOf(d, k) = x[k]
    BY DEF DFileOf
  <2>2. \A i \in 1 .. k : i \in 1 .. N /\ d[i].parent \in 0 .. k /\ d[i].parent \in 0 .. i - 1
    BY <1>1, <1>5
  <2>3. ASSUME NEW i \in 1 .. k PROVE y[i] = Step(y, i)
    <3>1. y[i] = g[i] /\ (d[i].parent # 0 => y[d[i].parent] = g[d[i].parent])
      BY <2>2
    <3> HIDE DEF y
    <3>. QED
      BY <3>1, <2>2, <1>6, <1>7
  <2>4. y = [i \in 1 .. k |-> Step(y, i)]
    <3>1. y = [i \in 1 .. k |-> y[i]]
      OBVIOUS
    <3> HIDE DEF y, Step
    <3>. QED
      BY <3>1, <2>3
  <2>5. x = [i \in 1 .. k |-> Step(x, i)]
    <3> HIDE DEF y, Step
    <3>. QED
      BY <2>4
  <2> HIDE DEF x, y
  <2>6. \A i \in 1 .. k : x[i] = Step(x, i)
    <3> HIDE DEF Step
    <3>. QED
      BY <2>5
  <2>7. z[0] = g[0] /\ \A i \in 1 .. k : z[i] = x[i]
    BY <1>1, <1>4
  <2> HIDE DEF z
  <2>8. ASSUME NEW i \in 1 .. k, z[d[i].parent] = g[d[i].parent] PROVE z[i] = g[i]
    <3>1. z[i] = Step(x, i) /\ i \in 1 .. N
      BY <2>2, <2>6, <2>7
    <3>2. ASSUME d[i].parent # 0 PROVE z[d[i].parent] = x[d[i].parent]
      <4>1. d[i].parent \in 1 .. k
        BY <2>2, <3>2
      <4>. QED
        BY <4>1, <2>7
    <3>. QED
      BY <3>1, <3>2, <2>8, <1>6, <1>7
  <2>9. Alike(z, g, k, P) /\ Down(k, P) /\ k \in Nat
    BY <2>2, <2>7, <2>8, <1>1 DEF Alike, Down
  <2> HIDE DEF P
  <2>10. \A i \in 0 .. k : z[i] = g[i]
    BY <2>9, Agree
  <2>11. k \in 0 .. k /\ k \in 1 .. k
    OBVIOUS
  <2>. QED
    BY <2>1, <2>7, <2>10, <2>11
<1> HIDE DEF P, H
<1>9. ASSUME NEW n \in 1 .. N PROVE DFileOf(d, n) = IF DRoot(d, n) THEN n ELSE DFileOf(d, d[n].parent)
  <2>1. d[n].parent # 0 => d[n].parent \in 1 .. N
    BY <1>5
  <2>. QED
    BY <2>1, <1>6, <1>7, <1>8
<1>10. \A n \in 1 .. N : DFileOf(d, n) \in 1 .. n
  <2> DEFINE T == {n \in 0 .. N : n # 0 => DFileOf(d, n) \in 1 .. n}
  <2>1. ASSUME NEW m \in 0 .. N, \A j \in 0 .. m - 1 : j \in T PROVE m \in T
    <3>1. CASE m = 0 \/ DRoot(d, m)
      BY <3>1, <1>1, <1>9
    <3>2. CASE m # 0 /\ ~DRoot(d, m)
      <4>1. m \in 1 .. N
        BY <3>2
      <4>2. d[m].parent \in 1 .. m - 1
        BY <4>1, <3>2, <1>5, <1>7
      <4>3. DFileOf(d, d[m].parent) \in 1 .. d[m].parent
        BY <4>2, <2>1
      <4>4. DFileOf(d, m) = DFileOf(d, d[m].parent)
        BY <4>1, <3>2, <1>9
      <4>. QED
        BY <4>1, <4>2, <4>3, <4>4
    <3>. QED
      BY <3>1, <3>2
  <2> HIDE DEF T
  <2>2. 0 .. N \subseteq T
    BY <1>1, <2>1, Upward
  <2>. QED
    BY <1>1, <2>2 DEF T
<1>. QED
  BY <1>9, <1>10

-----------------------------------------------------------------------------
(* A node more.                                                            *)

\* e is d and one node more.
Grows(d, e) ==
  /\ Tree(d) /\ Tree(e) /\ Len(e) = Len(d) + 1
  /\ \A i \in 1 .. Len(d) : e[i] = d[i]

LEMMA GrownRoot ==
  ASSUME NEW d, NEW e, Grows(d, e), NEW n \in 1 .. Len(d)
  PROVE  /\ e[n] = d[n] /\ n \in 1 .. Len(e) /\ (DRoot(e, n) <=> DRoot(d, n))
         /\ d[n].parent # 0 => d[n].parent \in 1 .. Len(d)
<1>1. e[n] = d[n] /\ n \in 1 .. Len(e) /\ d[n].parent \in 0 .. Len(d)
  BY TreeNode DEF Grows
<1>2. d[n].parent # 0 => d[n].parent \in 1 .. Len(d)
  BY <1>1
<1>. QED
  BY <1>1, <1>2 DEF DRoot, Grows

\* What the recursive operators say of a node does not change.
LEMMA GrownPath ==
  ASSUME NEW d, NEW e, Grows(d, e), NEW n \in 0 .. Len(d)
  PROVE  DPath(e, n) = DPath(d, n)
<1> DEFINE P == [i \in 1 .. Len(d) |-> d[i].parent]
           x == [i \in 0 .. Len(d) |-> DPath(e, i)]
           y == [i \in 0 .. Len(d) |-> DPath(d, i)]
<1>1. Len(d) \in Nat /\ \A i \in 1 .. Len(d) : P[i] \in 0 .. i - 1 /\ P[i] \in 0 .. Len(d)
  BY TreeNode DEF Grows, Tree
<1>2. x[0] = y[0]
  BY <1>1, PathRec DEF Grows
<1>3. ASSUME NEW i \in 1 .. Len(d), x[P[i]] = y[P[i]] PROVE x[i] = y[i]
  <2>1. i \in 1 .. Len(e) /\ e[i] = d[i] /\ (DRoot(e, i) <=> DRoot(d, i)) /\ i \in 0 .. Len(d)
    BY GrownRoot
  <2>2. DPath(e, d[i].parent) = DPath(d, d[i].parent)
    BY <1>1, <1>3
  <2>3. DPath(e, i) = DPath(d, i)
    BY <2>1, <2>2, PathRec DEF Grows
  <2>. QED
    BY <2>1, <2>3
<1>4. Alike(x, y, Len(d), P) /\ Down(Len(d), P)
  BY <1>1, <1>2, <1>3 DEF Alike, Down
<1> HIDE DEF P, x, y
<1>5. x[n] = y[n]
  BY <1>1, <1>4, Agree
<1>. QED
  BY <1>5 DEF x, y

LEMMA GrownAddress ==
  ASSUME NEW d, NEW e, Grows(d, e), NEW n \in 0 .. Len(d)
  PROVE  DAddress(e, n) = DAddress(d, n)
<1> DEFINE P == [i \in 1 .. Len(d) |-> d[i].parent]
           x == [i \in 0 .. Len(d) |-> DAddress(e, i)]
           y == [i \in 0 .. Len(d) |-> DAddress(d, i)]
<1>1. Len(d) \in Nat /\ \A i \in 1 .. Len(d) : P[i] \in 0 .. i - 1 /\ P[i] \in 0 .. Len(d)
  BY TreeNode DEF Grows, Tree
<1>2. x[0] = y[0]
  BY <1>1, AddressRec DEF Grows
<1>3. ASSUME NEW i \in 1 .. Len(d), x[P[i]] = y[P[i]] PROVE x[i] = y[i]
  <2>1. i \in 1 .. Len(e) /\ e[i] = d[i] /\ i \in 0 .. Len(d)
    BY GrownRoot
  <2>2. DAddress(e, d[i].parent) = DAddress(d, d[i].parent)
    BY <1>1, <1>3
  <2>3. Own(e, i) = Own(d, i)
    BY <2>1 DEF Own
  <2>4. DAddress(e, i) = DAddress(d, i)
    BY <2>1, <2>2, <2>3, AddressRec DEF Grows
  <2>. QED
    BY <2>1, <2>4
<1>4. Alike(x, y, Len(d), P) /\ Down(Len(d), P)
  BY <1>1, <1>2, <1>3 DEF Alike, Down
<1> HIDE DEF P, x, y
<1>5. x[n] = y[n]
  BY <1>1, <1>4, Agree
<1>. QED
  BY <1>5 DEF x, y

LEMMA GrownAbove ==
  ASSUME NEW d, NEW e, Grows(d, e), NEW n \in 0 .. Len(d)
  PROVE  DAbove(e, n) = DAbove(d, n)
<1> DEFINE P == [i \in 1 .. Len(d) |-> d[i].parent]
           x == [i \in 0 .. Len(d) |-> DAbove(e, i)]
           y == [i \in 0 .. Len(d) |-> DAbove(d, i)]
<1>1. Len(d) \in Nat /\ \A i \in 1 .. Len(d) : P[i] \in 0 .. i - 1 /\ P[i] \in 0 .. Len(d)
  BY TreeNode DEF Grows, Tree
<1>2. x[0] = y[0]
  <2>1. DAbove(e, 0) = {} /\ DAbove(d, 0) = {}
    <3>1. Tree(e) /\ Tree(d)
      BY DEF Grows
    <3>2. DAbove(e, 0) = {}
      BY <3>1, AboveRec
    <3>3. DAbove(d, 0) = {}
      BY <3>1, AboveRec
    <3>. QED
      BY <3>2, <3>3
  <2>2. 0 \in 0 .. Len(d)
    BY <1>1
  <2>3. x[0] = DAbove(e, 0) /\ y[0] = DAbove(d, 0)
    BY <2>2
  <2> HIDE DEF x, y
  <2>. QED
    BY <2>1, <2>3
<1>3. ASSUME NEW i \in 1 .. Len(d), x[P[i]] = y[P[i]] PROVE x[i] = y[i]
  <2>1. i \in 1 .. Len(e) /\ e[i] = d[i] /\ i \in 0 .. Len(d)
    BY GrownRoot
  <2>2. DAbove(e, d[i].parent) = DAbove(d, d[i].parent)
    BY <1>1, <1>3
  <2>3. DAbove(e, i) = DAbove(d, i)
    <3>1. DAbove(e, i) = {i} \cup DAbove(e, e[i].parent)
      BY <2>1, AboveRec DEF Grows
    <3>2. DAbove(d, i) = {i} \cup DAbove(d, d[i].parent)
      BY AboveRec DEF Grows
    <3>. QED
      BY <2>1, <2>2, <3>1, <3>2, Zenon
  <2>. QED
    BY <2>1, <2>3
<1>4. Alike(x, y, Len(d), P) /\ Down(Len(d), P)
  BY <1>1, <1>2, <1>3 DEF Alike, Down
<1> HIDE DEF P, x, y
<1>5. x[n] = y[n]
  BY <1>1, <1>4, Agree
<1>. QED
  BY <1>5 DEF x, y

LEMMA GrownFile ==
  ASSUME NEW d, NEW e, Grows(d, e), NEW n \in 1 .. Len(d)
  PROVE  DFileOf(e, n) = DFileOf(d, n)
<1> DEFINE T == {m \in 0 .. Len(d) : m # 0 => DFileOf(e, m) = DFileOf(d, m)}
<1>1. Tree(d) /\ Tree(e) /\ Len(d) \in Nat
  <2>1. Tree(d) /\ Tree(e)
    BY DEF Grows
  <2>. QED
    BY <2>1 DEF Tree
<1>2. ASSUME NEW m \in 0 .. Len(d), \A j \in 0 .. m - 1 : j \in T PROVE m \in T
  <2> SUFFICES ASSUME m # 0 PROVE DFileOf(e, m) = DFileOf(d, m)
    OBVIOUS
  <2>1. m \in 1 .. Len(d)
    OBVIOUS
  <2>2. e[m] = d[m] /\ m \in 1 .. Len(e) /\ (DRoot(e, m) <=> DRoot(d, m))
    BY <2>1, GrownRoot
  <2>3. CASE DRoot(d, m)
    BY <1>1, <2>1, <2>2, <2>3, FileRec
  <2>4. CASE ~DRoot(d, m)
    <3>1. d[m].parent \in 0 .. m - 1 /\ d[m].parent # 0
      BY <1>1, <2>1, <2>4, TreeNode DEF DRoot
    <3>2. DFileOf(e, d[m].parent) = DFileOf(d, d[m].parent)
      BY <1>2, <3>1
    <3>. QED
      BY <1>1, <2>1, <2>2, <2>4, <3>2, FileRec
  <2>. QED
    BY <2>3, <2>4
<1> HIDE DEF T
<1>3. 0 .. Len(d) \subseteq T
  BY <1>1, <1>2, Upward
<1>. QED
  BY <1>1, <1>3 DEF T

\* Nor do its place and what is above it.
LEMMA GrownPlace ==
  ASSUME NEW d, NEW e, Grows(d, e), NEW n \in 1 .. Len(d)
  PROVE  DInPlace(e, n) <=> DInPlace(d, n)
<1>1. /\ e[n] = d[n] /\ n \in 1 .. Len(e) /\ (DRoot(e, n) <=> DRoot(d, n))
      /\ DFileOf(e, n) = DFileOf(d, n)
  BY GrownRoot, GrownFile
<1>2. ASSUME NEW k PROVE DLatest(e, k, n) = DLatest(d, k, n)
  <2>1. \A i \in 1 .. n - 1 : i \in 1 .. Len(d)
    BY DEF Grows, Tree
  <2>2. \A i \in 1 .. n - 1 : e[i] = d[i] /\ DFileOf(e, i) = DFileOf(d, i)
    BY <2>1, GrownRoot, GrownFile
  <2> DEFINE A == {i \in 1 .. n - 1 : e[i].kind = k /\ DFileOf(e, i) = DFileOf(e, n)}
             B == {i \in 1 .. n - 1 : d[i].kind = k /\ DFileOf(d, i) = DFileOf(d, n)}
             Greatest(S) == IF S = {} THEN 0 ELSE CHOOSE i \in S : \A j \in S : j <= i
  <2>3. A = B
    BY <1>1, <2>2
  <2>4. DLatest(e, k, n) = Greatest(A) /\ DLatest(d, k, n) = Greatest(B)
    BY DEF DLatest
  <2> HIDE DEF A, B, Greatest
  <2>. QED
    BY <2>3, <2>4
<1>3. ~DRoot(d, n) => (DRoot(e, d[n].parent) <=> DRoot(d, d[n].parent))
  BY GrownRoot DEF DRoot
<1>. QED
  BY <1>1, <1>2, <1>3 DEF DInPlace

LEMMA GrownWay ==
  ASSUME NEW d, NEW e, Grows(d, e), NEW n \in 0 .. Len(d)
  PROVE  (DIds(e, n) <=> DIds(d, n)) /\ (DPlaced(e, n) <=> DPlaced(d, n))
<1>1. DAbove(e, n) = DAbove(d, n) /\ DAbove(d, n) \subseteq 1 .. Len(d)
  BY GrownAbove, AboveRec DEF Grows
<1>2. \A m \in DAbove(d, n) : e[m] = d[m] /\ (DInPlace(e, m) <=> DInPlace(d, m))
  BY <1>1, GrownRoot, GrownPlace
<1>. QED
  BY <1>1, <1>2 DEF DIds, DPlaced

\* Siblings have different ids.
LEMMA SiblingIds ==
  ASSUME NEW d, Tree(d), NEW i \in 1 .. Len(d), NEW j \in 1 .. Len(d),
         d[i].parent = d[j].parent, d[i].id = d[j].id
  PROVE  i = j
<1>1. ASSUME NEW k \in 1 .. Len(d), NEW l \in 1 .. Len(d), k < l, d[k].parent = d[l].parent
      PROVE  d[k].id # d[l].id
  <2>1. Elder(d, k) \cup {k} \subseteq Elder(d, l) /\ k \notin Elder(d, k)
    BY <1>1 DEF Elder
  <2>2. k \in Nat /\ l \in Nat
    OBVIOUS
  <2>3. IsFiniteSet(Elder(d, k)) /\ IsFiniteSet(Elder(d, l))
    <3>1. ASSUME NEW m \in Int PROVE IsFiniteSet(1 .. m)
      BY FS_Interval
    <3>2. k - 1 \in Int /\ l - 1 \in Int
      BY <2>2
    <3>3. IsFiniteSet(1 .. k - 1) /\ IsFiniteSet(1 .. l - 1)
      BY <3>1, <3>2
    <3>. QED
      BY <3>3, FS_Subset DEF Elder
  <2>4. IsFiniteSet(Elder(d, k) \cup {k})
        /\ Cardinality(Elder(d, k) \cup {k}) = Cardinality(Elder(d, k)) + 1
    BY <2>1, <2>3, FS_AddElement
  <2>5. Cardinality(Elder(d, k) \cup {k}) <= Cardinality(Elder(d, l))
    BY <2>1, <2>3, FS_Subset
  <2>6. Cardinality(Elder(d, k)) \in Nat /\ Cardinality(Elder(d, l)) \in Nat
    BY <2>3, FS_CardinalityType
  <2>7. d[k].id = Cardinality(Elder(d, k)) + 1 /\ d[l].id = Cardinality(Elder(d, l)) + 1
    BY DEF Tree
  <2>. QED
    BY <2>4, <2>5, <2>6, <2>7
<1>. QED
  BY <1>1

\* A start tag makes the tree grow: it begins the first root, the root of the
\* file of a module that has none, or a node with an id.
LEMMA TreeGrows ==
  ASSUME NEW d, Tree(d), Len(d) < MaxNodes, NEW nd \in Node, nd.parent \in 0 .. Len(d),
         nd.parent = 0 => d = <<>>,
         (nd.parent # 0 /\ d[nd.parent].kind = "mod") => \A i \in 1 .. Len(d) : d[i].parent # nd.parent,
         (nd.parent # 0 /\ d[nd.parent].kind # "mod") => nd.hasid,
         nd.id = Cardinality({i \in 1 .. Len(d) : d[i].parent = nd.parent}) + 1
  PROVE  /\ Grows(d, Append(d, nd)) /\ Append(d, nd)[Len(d) + 1] = nd
         /\ \A i \in 1 .. Len(d) : Append(d, nd)[i] = d[i]
<1> DEFINE e == Append(d, nd)
           n == Len(d) + 1
<1>1. /\ e \in Seq(Node) /\ Len(e) = n /\ e[n] = nd /\ Len(d) \in Nat
      /\ \A i \in 1 .. Len(d) : e[i] = d[i]
  BY DEF Tree
<1> HIDE DEF e
<1>2. \A i \in 1 .. n : i \in 1 .. Len(d) \/ i = n
  BY <1>1
<1>3. \A i \in 1 .. Len(d) : d[i].parent \in 0 .. i - 1 /\ (d[i].parent # 0 => d[i].parent \in 1 .. Len(d))
  BY TreeNode
<1>4. \A i \in 1 .. Len(d) : DRoot(e, i) <=> DRoot(d, i)
  BY <1>1, <1>3 DEF DRoot
<1>5. DRoot(e, n) => \A i \in 1 .. Len(d) : d[i].parent # nd.parent
  <2>1. CASE nd.parent = 0
    <3>1. Len(d) = 0
      BY <2>1
    <3>. QED
      BY <3>1
  <2>2. CASE nd.parent # 0
    BY <2>2, <1>1 DEF DRoot
  <2>. QED
    BY <2>1, <2>2
<1>6. \A i \in 1 .. n : e[i].parent \in 0 .. i - 1
  BY <1>1, <1>2, <1>3
<1>7. ASSUME NEW i \in 1 .. n, NEW j \in 1 .. n, DRoot(e, i), DRoot(e, j), e[i].parent = e[j].parent
      PROVE  i = j
  <2>1. CASE i \in 1 .. Len(d) /\ j \in 1 .. Len(d)
    BY <2>1, <1>1, <1>4, <1>7 DEF Tree
  <2>2. CASE i = n \/ j = n
    BY <2>2, <1>1, <1>2, <1>5, <1>7
  <2>. QED
    BY <2>1, <2>2, <1>2
<1>8. ASSUME NEW i \in 1 .. n, ~DRoot(e, i) PROVE e[i].hasid
  <2>1. CASE i \in 1 .. Len(d)
    BY <2>1, <1>1, <1>4, <1>8 DEF Tree
  <2>2. CASE i = n
    BY <2>2, <1>1, <1>8 DEF DRoot
  <2>. QED
    BY <2>1, <2>2, <1>2
<1>9. ASSUME NEW i \in 1 .. n PROVE e[i].id = Cardinality(Elder(e, i)) + 1
  <2>1. CASE i \in 1 .. Len(d)
    <3>1. Elder(e, i) = Elder(d, i)
      <4>1. \A j \in 1 .. i - 1 : e[j] = d[j]
        BY <1>1, <2>1
      <4>. QED
        BY <4>1, <1>1, <2>1 DEF Elder
    <3>. QED
      BY <2>1, <3>1, <1>1 DEF Tree
  <2>2. CASE i = n
    <3>1. n - 1 = Len(d)
      BY <1>1
    <3>2. Elder(e, n) = {j \in 1 .. Len(d) : d[j].parent = nd.parent}
      BY <1>1, <3>1 DEF Elder
    <3>. QED
      BY <2>2, <3>2, <1>1
  <2>. QED
    BY <2>1, <2>2, <1>2
<1>10. n <= MaxNodes
  BY <1>1, RegParserAssumption
<1>11. Tree(e)
  BY <1>1, <1>6, <1>7, <1>8, <1>9, <1>10 DEF Tree
<1>. QED
  BY <1>1, <1>11 DEF Grows, e

-----------------------------------------------------------------------------
(* The stack: nodes that are open, files that are being parsed.            *)

\* The innermost open node.
Top(o) == IF o = <<>> THEN 0 ELSE o[Len(o)]

\* The modules among the first i open nodes, and the file the i-th one is in.
Mods(d, o, i) == Cardinality({j \in 1 .. i : d[o[j]].kind = "mod"})
At(d, o, i) == Mods(d, o, i - 1) + 1

\* Counting the modules.
LEMMA ModsCount ==
  ASSUME NEW d, NEW o
  PROVE  /\ Mods(d, o, 0) = 0
         /\ \A i \in Nat : Mods(d, o, i) \in Nat
         /\ \A i \in Nat \ {0} :
              Mods(d, o, i) = Mods(d, o, i - 1) + (IF d[o[i]].kind = "mod" THEN 1 ELSE 0)
         /\ \A i, j \in Nat : i <= j => Mods(d, o, i) <= Mods(d, o, j)
<1> DEFINE S(i) == {j \in 1 .. i : d[o[j]].kind = "mod"}
<1>1. ASSUME NEW i \in Nat PROVE IsFiniteSet(S(i)) /\ Cardinality(S(i)) \in Nat
  <2>1. IsFiniteSet(1 .. i)
    BY FS_Interval
  <2>2. S(i) \subseteq 1 .. i
    OBVIOUS
  <2> HIDE DEF S
  <2>. QED
    BY <2>1, <2>2, FS_Subset, FS_CardinalityType
<1>2. Cardinality(S(0)) = 0
  <2>1. S(0) = {}
    OBVIOUS
  <2>. QED
    BY <2>1, FS_EmptySet
<1>3. ASSUME NEW i \in Nat \ {0}
      PROVE  Cardinality(S(i)) = Cardinality(S(i - 1)) + (IF d[o[i]].kind = "mod" THEN 1 ELSE 0)
  <2>1. i - 1 \in Nat /\ i \notin S(i - 1) /\ \A j \in 1 .. i : j \in 1 .. i - 1 \/ j = i
    OBVIOUS
  <2>2. CASE d[o[i]].kind = "mod"
    <3>1. S(i) = S(i - 1) \cup {i}
      BY <2>1, <2>2
    <3>2. IsFiniteSet(S(i - 1))
      BY <1>1, <2>1
    <3> HIDE DEF S
    <3>. QED
      BY <2>1, <2>2, <3>1, <3>2, FS_AddElement
  <2>3. CASE d[o[i]].kind # "mod"
    <3>1. S(i) = S(i - 1)
      BY <2>1, <2>3
    <3>2. Cardinality(S(i - 1)) \in Nat
      BY <1>1, <2>1
    <3> HIDE DEF S
    <3>. QED
      BY <2>3, <3>1, <3>2
  <2>. QED
    BY <2>2, <2>3
<1>4. ASSUME NEW i \in Nat, NEW j \in Nat, i <= j PROVE Cardinality(S(i)) <= Cardinality(S(j))
  <2>1. S(i) \subseteq S(j)
    BY <1>4
  <2>2. IsFiniteSet(S(j))
    BY <1>1
  <2> HIDE DEF S
  <2>. QED
    BY <2>1, <2>2, FS_Subset
<1>. QED
  BY <1>1, <1>2, <1>3, <1>4 DEF Mods

\* The count goes by the kinds alone.
LEMMA ModsSame ==
  ASSUME NEW d, NEW o, NEW e, NEW q, NEW i, \A j \in 1 .. i : d[o[j]].kind = e[q[j]].kind
  PROVE  Mods(d, o, i) = Mods(e, q, i)
<1>1. {j \in 1 .. i : d[o[j]].kind = "mod"} = {j \in 1 .. i : e[q[j]].kind = "mod"}
  OBVIOUS
<1>. QED
  BY <1>1 DEF Mods

\* The open nodes that are the last in their files.
Lasts(d, o) == {i \in 1 .. Len(o) : i = Len(o) \/ d[o[i]].kind = "mod"}

\* The file of module n has begun.
HasRoot(d, n) == \E c \in 1 .. Len(d) : d[c].parent = n

\* Open nodes are the way down to the innermost one.  There is a file for every
\* module that is open and one more, unless the file of the innermost module has
\* ended; files of modules further in begin after the module.
Shape(d, o, fs) ==
  /\ o \in Seq(1 .. Len(d))
  /\ o # <<>> => d[o[1]].parent = 0
  /\ \A i \in 2 .. Len(o) : d[o[i]].parent = o[i - 1]
  /\ \/ Len(fs) = Mods(d, o, Len(o)) + 1
     \/ Len(fs) = Mods(d, o, Len(o)) /\ o # <<>> /\ d[Top(o)].kind = "mod" /\ HasRoot(d, Top(o))
  /\ \A i, j \in 1 .. Len(o) : (i < j /\ d[o[i]].kind = "mod") => DFileOf(d, o[j]) > o[i]

\* x is the last node of kind k in the file with root r, 0 if there is none.
LatestIs(d, x, k, r) ==
  \/ x = 0 /\ \A j \in 1 .. Len(d) : ~(d[j].kind = k /\ DFileOf(d, j) = r)
  \/ /\ x \in 1 .. Len(d) /\ d[x].kind = k /\ DFileOf(d, x) = r
     /\ \A j \in 1 .. Len(d) : (d[j].kind = k /\ DFileOf(d, j) = r) => j <= x

\* The file g is at node n: it has its name and has dropped the id of its root, if
\* there are ids, and it holds the last block and the last register.
AtNode(d, g, n) ==
  /\ DIds(d, n) => g.name = DPath(d, n) /\ ~g.toplevel
  /\ LatestIs(d, g.currentblock.node, "blk", DFileOf(d, n))
  /\ LatestIs(d, g.currentreg.node, "reg", DFileOf(d, n))

Attached(d, o, fs) == \A i \in Lasts(d, o) : AtNode(d, fs[At(d, o, i)], o[i])

\* A file that has no root yet.
Fresh(d, o) == IF o = <<>> THEN d = <<>> ELSE d[Top(o)].kind = "mod" /\ ~HasRoot(d, Top(o))

Unread(d, o, fs) ==
  Fresh(d, o) =>
    /\ fs[Len(fs)] = newfile(fs[Len(fs)].name, fs[Len(fs)].filebaseaddr)
    /\ DIds(d, Top(o)) => fs[Len(fs)].name = DPath(d, Top(o))

\* A file is placed where its module is.
Based(d, o, fs) ==
  /\ fs[1].filebaseaddr = 0
  /\ \A i \in 1 .. Len(o) :
      (d[o[i]].kind = "mod" /\ Mods(d, o, i) + 1 <= Len(fs) /\ DPlaced(d, o[i])) =>
        fs[Mods(d, o, i) + 1].filebaseaddr = DAddress(d, o[i])

-----------------------------------------------------------------------------
(* Names tell nodes apart.                                                 *)

\* A name with an id more is not empty.
LEMMA NotEmpty ==
  ASSUME NEW a \in Names, NEW x \in 1 .. MaxNodes
  PROVE  Append(a, x) # <<>>
<1>1. a \in Seq(1 .. MaxNodes)
  BY DEF Names
<1>. QED
  BY <1>1

\* A sequence with something appended is not empty, and tells what it was.
LEMMA Appended ==
  ASSUME NEW S, NEW a \in Seq(S), NEW b \in Seq(S), NEW x \in S, NEW y \in S
  PROVE  /\ Append(a, x) # <<>>
         /\ Append(a, x) = Append(b, y) => a = b /\ x = y
<1>1. Append(a, x) # <<>>
  OBVIOUS
<1>2. ASSUME Append(a, x) = Append(b, y) PROVE a = b /\ x = y
  <2>1. Len(Append(a, x)) = Len(a) + 1 /\ Len(Append(b, y)) = Len(b) + 1
    OBVIOUS
  <2>2. Len(a) = Len(b) /\ Len(a) \in Nat
    BY <1>2, <2>1
  <2>3. \A i \in 1 .. Len(a) : Append(a, x)[i] = a[i] /\ Append(b, y)[i] = b[i]
    BY <2>2
  <2>4. Append(a, x)[Len(a) + 1] = x /\ Append(b, y)[Len(b) + 1] = y
    OBVIOUS
  <2>5. a = b
    BY <1>2, <2>2, <2>3
  <2>. QED
    BY <1>2, <2>2, <2>4, <2>5
<1>. QED
  BY <1>1, <1>2

\* Two nodes with the same path: the first is a module, and the second is the root of
\* its file or of a file further in.
LEMMA SamePath ==
  ASSUME NEW d, Tree(d), NEW m \in 1 .. Len(d), NEW n \in 1 .. Len(d), m < n,
         DPath(d, m) = DPath(d, n)
  PROVE  DRoot(d, n) /\ d[m].kind = "mod" /\ \E c \in 1 .. n : d[c].parent = m
<1> DEFINE N == Len(d)
           C(k, l) == DRoot(d, l) /\ d[k].kind = "mod" /\ \E c \in 1 .. l : d[c].parent = k
           T == {s \in 0 .. 2 * N : \A k, l \in 1 .. N :
                   (k < l /\ k + l = s /\ DPath(d, k) = DPath(d, l)) => C(k, l)}
<1>1. N \in Nat
  BY DEF Tree
<1>2. ASSUME NEW s \in 0 .. 2 * N, \A j \in 0 .. s - 1 : j \in T PROVE s \in T
  <2> SUFFICES ASSUME NEW k \in 1 .. N, NEW l \in 1 .. N, k < l, k + l = s, DPath(d, k) = DPath(d, l)
               PROVE  C(k, l)
    OBVIOUS
  <2>1. ASSUME NEW x \in 1 .. N, NEW y \in 1 .. N, x < y, x + y < s, DPath(d, x) = DPath(d, y)
        PROVE  C(x, y)
    <3>1. x + y \in 0 .. s - 1
      BY <1>1, <2>1
    <3>. QED
      BY <3>1, <2>1, <1>2
  <2> HIDE DEF C
  <2>2. \A i \in 1 .. N : /\ d[i].parent \in 0 .. i - 1 /\ d[i].parent \in 0 .. N /\ d[i].parent < i
                          /\ d[i].parent # 0 => d[i].parent \in 1 .. N
                          /\ d[i].id \in 1 .. MaxNodes
    <3> SUFFICES ASSUME NEW i \in 1 .. N
                 PROVE  /\ d[i].parent \in 0 .. i - 1 /\ d[i].parent \in 0 .. N /\ d[i].parent < i
                        /\ d[i].parent # 0 => d[i].parent \in 1 .. N
                        /\ d[i].id \in 1 .. MaxNodes
      OBVIOUS
    <3>1. d[i].parent \in 0 .. i - 1 /\ d[i].parent \in 0 .. N /\ d[i].id \in 1 .. MaxNodes
      BY TreeNode
    <3>. QED
      BY <1>1, <3>1
  <2>3. \A i \in 1 .. N : d[i].parent = 0 => i = 1
    <3>1. ASSUME NEW i \in 1 .. N, d[i].parent = 0 PROVE i = 1
      <4>1. 1 \in 1 .. N /\ d[1].parent = 0
        BY <1>1, <2>2
      <4>2. DRoot(d, i) /\ DRoot(d, 1)
        BY <3>1, <4>1 DEF DRoot
      <4>. QED
        BY <3>1, <4>1, <4>2 DEF Tree
    <3>. QED
      BY <3>1
  <2>4. CASE DRoot(d, l)
    <3> DEFINE p == d[l].parent
    <3>1. p # 0
      BY <2>3
    <3>2. p \in 1 .. N /\ p < l /\ d[p].kind = "mod"
      BY <2>2, <2>4, <3>1 DEF DRoot
    <3>3. DPath(d, p) = DPath(d, k)
      BY <2>4, PathRec
    <3> HIDE DEF p
    <3>4. CASE k = p
      BY <2>4, <3>2, <3>4 DEF C, p
    <3>5. CASE k < p
      <4>1. k + p < s
        BY <1>1, <3>2
      <4>2. C(k, p)
        BY <4>1, <3>2, <3>3, <3>5, <2>1
      <4>3. \A c \in 1 .. p : c \in 1 .. l
        BY <3>2
      <4>. QED
        BY <2>4, <4>2, <4>3 DEF C
    <3>6. CASE p < k
      <4>1. p + k < s
        BY <1>1, <3>2
      <4>2. C(p, k)
        BY <4>1, <3>2, <3>3, <3>6, <2>1
      <4>3. PICK c \in 1 .. k : d[c].parent = p
        BY <4>2 DEF C
      <4>4. c \in 1 .. N /\ DRoot(d, c) /\ c # l
        BY <3>2, <4>3, <1>1 DEF DRoot
      <4>. QED
        BY <2>4, <4>3, <4>4 DEF Tree, p
    <3>. QED
      BY <3>2, <3>4, <3>5, <3>6
  <2>5. CASE ~DRoot(d, l) /\ DRoot(d, k)
    <3> DEFINE p == d[k].parent
    <3>1. /\ DPath(d, l) = Append(DPath(d, d[l].parent), d[l].id)
          /\ DPath(d, k) = DPath(d, p) /\ DPath(d, d[l].parent) \in Names
      <4>1. DPath(d, k) = DPath(d, p)
        BY <2>5, PathRec
      <4>2. DPath(d, l) = Append(DPath(d, d[l].parent), d[l].id)
        BY <2>5, PathRec
      <4>3. DPath(d, d[l].parent) \in Names
        BY <2>2, PathRec
      <4>. QED
        BY <4>1, <4>2, <4>3
    <3>2. DPath(d, l) # <<>>
      <4>1. d[l].id \in 1 .. MaxNodes /\ DPath(d, d[l].parent) \in Names
        BY <2>2, <3>1
      <4>2. Append(DPath(d, d[l].parent), d[l].id) # <<>>
        BY <4>1, NotEmpty, Zenon
      <4>. QED
        BY <3>1, <4>2
    <3>3. p # 0
      BY <3>1, <3>2, PathRec
    <3>4. p \in 1 .. N /\ p < k
      BY <2>2, <3>3
    <3> HIDE DEF p
    <3>5. p < l /\ p + l < s
      BY <1>1, <3>4
    <3>6. C(p, l)
      BY <3>1, <3>4, <3>5, <2>1
    <3>. QED
      BY <2>5, <3>6 DEF C
  <2>6. CASE ~DRoot(d, l) /\ ~DRoot(d, k)
    <3> DEFINE p == d[k].parent
               r == d[l].parent
    <3>1. /\ DPath(d, l) = Append(DPath(d, r), d[l].id) /\ DPath(d, r) \in Names
          /\ DPath(d, k) = Append(DPath(d, p), d[k].id) /\ DPath(d, p) \in Names
      <4>1. DPath(d, r) \in Names /\ DPath(d, p) \in Names
        BY <2>2, PathRec
      <4>2. DPath(d, l) = Append(DPath(d, r), d[l].id)
        BY <2>6, PathRec
      <4>3. DPath(d, k) = Append(DPath(d, p), d[k].id)
        BY <2>6, PathRec
      <4>. QED
        BY <4>1, <4>2, <4>3
    <3>2. DPath(d, p) = DPath(d, r) /\ d[k].id = d[l].id
      <4> DEFINE a == DPath(d, p)
                 b == DPath(d, r)
                 x == d[k].id
                 y == d[l].id
      <4>1. a \in Seq(1 .. MaxNodes) /\ b \in Seq(1 .. MaxNodes) /\ x \in 1 .. MaxNodes
            /\ y \in 1 .. MaxNodes /\ Append(a, x) = Append(b, y)
        BY <2>2, <3>1 DEF Names
      <4> HIDE DEF a, b, x, y
      <4>2. a = b /\ x = y
        BY <4>1, Appended
      <4>. QED
        BY <4>2 DEF a, b, x, y
    <3>3. p \in 1 .. N /\ r \in 1 .. N /\ p < k /\ r < l /\ d[p].kind # "mod" /\ d[r].kind # "mod"
      BY <2>2, <2>6 DEF DRoot
    <3>4. p # r
      BY <3>2, SiblingIds
    <3> HIDE DEF p, r
    <3>5. p + r < s /\ r + p < s
      BY <1>1, <3>3
    <3>6. CASE p < r
      BY <3>2, <3>3, <3>5, <3>6, <2>1 DEF C
    <3>7. CASE r < p
      BY <3>2, <3>3, <3>5, <3>7, <2>1 DEF C
    <3>. QED
      BY <3>3, <3>4, <3>6, <3>7
  <2>. QED
    BY <2>4, <2>5, <2>6
<1> HIDE DEF T
<1>3. 2 * N \in Nat
  BY <1>1
<1>4. 0 .. 2 * N \subseteq T
  BY <1>2, <1>3, Upward
<1>5. m + n \in T
  BY <1>1, <1>4
<1>. QED
  BY <1>5 DEF T

-----------------------------------------------------------------------------
(* A start tag.                                                            *)

\* Adding nothing, and the order of a sum.
LEMMA PlusZero ==
  ASSUME NEW a \in Addrs, NEW b \in Addrs
  PROVE  plus(a, 0) = a /\ plus(0, a) = a /\ plus(a, b) = plus(b, a)
<1>1. a + 0 = a /\ 0 + a = a /\ a + b = b + a
  BY RegParserAssumption DEF Addrs
<1>2. a % AddrSpace = a
  BY RegParserAssumption DEF Addrs
<1>. QED
  BY <1>1, <1>2 DEF plus

\* Node n begins below the innermost open node; the innermost file changes, and
\* there is one more if the node is a module.
Starts(d, o, fs, e, q, gs) ==
  /\ Grows(d, e) /\ Shape(d, o, fs) /\ q = Append(o, Len(d) + 1)
  /\ e[Len(d) + 1].parent = Top(o)
  /\ DRoot(e, Len(d) + 1) => Fresh(d, o)
  /\ Len(fs) = Mods(d, o, Len(o)) + 1
  /\ Len(gs) = Len(fs) + (IF e[Len(d) + 1].kind = "mod" THEN 1 ELSE 0)
  /\ \A i \in 1 .. Len(fs) - 1 : gs[i] = fs[i]

LEMMA StartFacts ==
  ASSUME NEW d, NEW o, NEW fs, NEW e, NEW q, NEW gs, Starts(d, o, fs, e, q, gs)
  PROVE  /\ Len(d) \in Nat /\ Len(o) \in Nat /\ Len(fs) \in Nat \ {0}
         /\ Len(e) = Len(d) + 1 /\ Tree(d) /\ Tree(e)
         /\ q \in Seq(1 .. Len(e)) /\ Len(q) = Len(o) + 1 /\ q[Len(o) + 1] = Len(d) + 1
         /\ \A i \in 1 .. Len(o) : q[i] = o[i] /\ o[i] \in 1 .. Len(d) /\ e[o[i]] = d[o[i]]
         /\ Top(q) = Len(d) + 1 /\ q # <<>> /\ ~HasRoot(e, Len(d) + 1)
<1>1. Len(d) \in Nat /\ Len(e) = Len(d) + 1 /\ Tree(d) /\ Tree(e) /\ o \in Seq(1 .. Len(d))
      /\ \A i \in 1 .. Len(d) : e[i] = d[i]
  BY DEF Starts, Grows, Shape, Tree
<1>2. Len(o) \in Nat /\ \A i \in 1 .. Len(o) : o[i] \in 1 .. Len(d)
  BY <1>1
<1>3. Len(fs) \in Nat \ {0}
  <2>1. Mods(d, o, Len(o)) \in Nat
    BY <1>2, ModsCount
  <2>. QED
    BY <2>1 DEF Starts
<1>4. q = Append(o, Len(d) + 1)
  BY DEF Starts
<1>5. o \in Seq(1 .. Len(e)) /\ Len(d) + 1 \in 1 .. Len(e)
  BY <1>1
<1>6. q \in Seq(1 .. Len(e)) /\ Len(q) = Len(o) + 1 /\ q[Len(o) + 1] = Len(d) + 1
      /\ \A i \in 1 .. Len(o) : q[i] = o[i]
  BY <1>4, <1>5
<1>7. q # <<>> /\ Top(q) = Len(d) + 1
  BY <1>2, <1>6 DEF Top
<1>8. ~HasRoot(e, Len(d) + 1)
  <2> SUFFICES ASSUME NEW c \in 1 .. Len(e), e[c].parent = Len(d) + 1 PROVE FALSE
    BY DEF HasRoot
  <2>1. e[c].parent \in 0 .. c - 1
    BY <1>1, TreeNode
  <2>. QED
    BY <2>1, <1>1
<1>. QED
  BY <1>1, <1>2, <1>3, <1>6, <1>7, <1>8

\* The file each open node is in.
LEMMA StartFiles ==
  ASSUME NEW d, NEW o, NEW fs, NEW e, NEW q, NEW gs, Starts(d, o, fs, e, q, gs)
  PROVE  /\ \A i \in 0 .. Len(o) : Mods(e, q, i) = Mods(d, o, i)
         /\ Mods(e, q, Len(q)) = Mods(d, o, Len(o)) + (IF e[Len(d) + 1].kind = "mod" THEN 1 ELSE 0)
         /\ At(e, q, Len(q)) = Len(fs)
         /\ \A i \in Lasts(e, q) :
              \/ i = Len(q)
              \/ /\ i \in 1 .. Len(o) /\ i \in Lasts(d, o) /\ d[o[i]].kind = "mod"
                 /\ At(e, q, i) = At(d, o, i) /\ At(d, o, i) \in 1 .. Len(fs) - 1
         /\ Top(o) # 0 => /\ Len(o) \in Lasts(d, o) /\ Top(o) = o[Len(o)] /\ Top(o) \in 1 .. Len(d)
                          /\ d[Top(o)].kind # "mod" => At(d, o, Len(o)) = Len(fs)
<1> DEFINE D == Len(o)
<1>1. /\ Len(q) = D + 1 /\ D \in Nat /\ q[D + 1] = Len(d) + 1 /\ Len(fs) \in Nat \ {0}
      /\ \A i \in 1 .. D : q[i] = o[i] /\ o[i] \in 1 .. Len(d) /\ e[o[i]] = d[o[i]]
  BY StartFacts
<1>2. Len(fs) = Mods(d, o, D) + 1
  BY DEF Starts
<1>3. ASSUME NEW i \in 0 .. D PROVE Mods(e, q, i) = Mods(d, o, i)
  <2>1. ASSUME NEW j \in 1 .. i PROVE e[q[j]].kind = d[o[j]].kind
    <3>1. j \in 1 .. D
      BY <1>1
    <3>. QED
      BY <3>1, <1>1
  <2>. QED
    BY <2>1, ModsSame
<1>4. Mods(e, q, D + 1) = Mods(d, o, D) + (IF e[Len(d) + 1].kind = "mod" THEN 1 ELSE 0)
  <2>1. D + 1 \in Nat \ {0} /\ (D + 1) - 1 = D /\ D \in 0 .. D
    BY <1>1
  <2>2. Mods(e, q, D + 1) = Mods(e, q, (D + 1) - 1) + (IF e[q[D + 1]].kind = "mod" THEN 1 ELSE 0)
    BY <2>1, ModsCount
  <2>. QED
    BY <1>1, <1>3, <2>1, <2>2
<1>5. At(e, q, D + 1) = Len(fs)
  <2>1. (D + 1) - 1 = D /\ D \in 0 .. D
    BY <1>1
  <2>. QED
    BY <1>2, <1>3, <2>1 DEF At
<1>6. ASSUME NEW i \in Lasts(e, q), i # D + 1
      PROVE  /\ i \in 1 .. D /\ i \in Lasts(d, o) /\ d[o[i]].kind = "mod"
             /\ At(e, q, i) = At(d, o, i) /\ At(d, o, i) \in 1 .. Len(fs) - 1
  <2>1. i \in 1 .. D /\ d[o[i]].kind = "mod"
    BY <1>1, <1>6 DEF Lasts
  <2>2. i \in Lasts(d, o)
    BY <2>1 DEF Lasts
  <2>3. i - 1 \in 0 .. D /\ i - 1 \in Nat /\ i \in Nat \ {0} /\ i <= D
    BY <2>1
  <2>4. At(e, q, i) = At(d, o, i)
    BY <2>3, <1>3 DEF At
  <2>5. Mods(d, o, i) = Mods(d, o, i - 1) + (IF d[o[i]].kind = "mod" THEN 1 ELSE 0)
    BY <2>3, ModsCount
  <2>6. Mods(d, o, i) <= Mods(d, o, D)
    BY <1>1, <2>3, ModsCount
  <2>7. Mods(d, o, i - 1) \in Nat /\ Mods(d, o, D) \in Nat
    BY <1>1, <2>3, ModsCount
  <2>8. At(d, o, i) \in 1 .. Len(fs) - 1
    BY <1>2, <2>1, <2>5, <2>6, <2>7 DEF At
  <2>. QED
    BY <2>1, <2>2, <2>4, <2>8
<1>7. ASSUME Top(o) # 0
      PROVE  /\ D \in Lasts(d, o) /\ Top(o) = o[D] /\ Top(o) \in 1 .. Len(d)
             /\ d[Top(o)].kind # "mod" => At(d, o, D) = Len(fs)
  <2>1. o # <<>> /\ Top(o) = o[D]
    BY <1>7 DEF Top
  <2>2. D \in 1 .. D
    <3>1. o \in Seq(1 .. Len(d))
      BY DEF Starts, Shape
    <3>. QED
      BY <3>1, <2>1, <1>1
  <2>3. D \in Lasts(d, o) /\ Top(o) \in 1 .. Len(d)
    BY <1>1, <2>1, <2>2 DEF Lasts
  <2>4. ASSUME d[Top(o)].kind # "mod" PROVE At(d, o, D) = Len(fs)
    <3>1. D \in Nat \ {0} /\ D - 1 \in Nat
      BY <2>2
    <3>2. Mods(d, o, D) = Mods(d, o, D - 1) + 0 /\ Mods(d, o, D - 1) \in Nat
      BY <3>1, <2>1, <2>4, ModsCount
    <3>. QED
      BY <3>2, <1>2 DEF At
  <2>. QED
    BY <2>1, <2>3, <2>4
<1>. QED
  BY <1>1, <1>3, <1>4, <1>5, <1>6, <1>7

\* The open nodes after the start tag.
LEMMA StartShape ==
  ASSUME NEW d, NEW o, NEW fs, NEW e, NEW q, NEW gs, Starts(d, o, fs, e, q, gs)
  PROVE  Shape(e, q, gs)
<1> DEFINE D == Len(o)
           n == Len(d) + 1
<1>1. /\ Len(q) = D + 1 /\ D \in Nat /\ q[D + 1] = n /\ Len(d) \in Nat /\ Tree(d) /\ Tree(e)
      /\ Len(e) = n /\ q \in Seq(1 .. Len(e))
      /\ \A i \in 1 .. D : q[i] = o[i] /\ o[i] \in 1 .. Len(d) /\ e[o[i]] = d[o[i]]
  BY StartFacts
<1>2. /\ e[n].parent = Top(o) /\ Grows(d, e) /\ o \in Seq(1 .. Len(d))
      /\ o # <<>> => d[o[1]].parent = 0
      /\ \A i \in 2 .. D : d[o[i]].parent = o[i - 1]
      /\ \A i, j \in 1 .. D : (i < j /\ d[o[i]].kind = "mod") => DFileOf(d, o[j]) > o[i]
  BY DEF Starts, Shape
<1>3. D = 0 => o = <<>>
  BY <1>2
<1>4. D # 0 => o # <<>> /\ Top(o) = o[D]
  BY <1>1, <1>2 DEF Top
<1>5. e[q[1]].parent = 0
  <2>1. CASE D = 0
    BY <2>1, <1>1, <1>2, <1>3 DEF Top
  <2>2. CASE D # 0
    <3>1. 1 \in 1 .. D /\ d[o[1]].parent = 0
      BY <2>2, <1>1, <1>2, <1>4
    <3>. QED
      BY <3>1, <1>1
  <2>. QED
    BY <2>1, <2>2
<1>6. ASSUME NEW i \in 2 .. Len(q) PROVE e[q[i]].parent = q[i - 1]
  <2>1. CASE i = D + 1
    <3>1. D \in 1 .. D /\ i - 1 = D
      BY <2>1, <1>1
    <3>. QED
      BY <2>1, <3>1, <1>1, <1>2, <1>4
  <2>2. CASE i # D + 1
    <3>1. i \in 2 .. D /\ i \in 1 .. D /\ i - 1 \in 1 .. D
      BY <2>2, <1>1
    <3>. QED
      BY <3>1, <1>1, <1>2
  <2>. QED
    BY <2>1, <2>2
<1>7. Len(gs) = Mods(e, q, Len(q)) + 1
  <2>1. Mods(e, q, Len(q)) = Mods(d, o, D) + (IF e[n].kind = "mod" THEN 1 ELSE 0)
    BY StartFiles
  <2>2. Mods(d, o, D) \in Nat
    BY <1>1, ModsCount
  <2>. QED
    BY <2>1, <2>2 DEF Starts
<1>8. ASSUME NEW i \in 1 .. Len(q), NEW j \in 1 .. Len(q), i < j, e[q[i]].kind = "mod"
      PROVE  DFileOf(e, q[j]) > q[i]
  <2>1. i \in 1 .. D /\ d[o[i]].kind = "mod" /\ q[i] = o[i] /\ o[i] \in 1 .. Len(d)
    BY <1>1, <1>8
  <2>2. CASE j # D + 1
    <3>1. j \in 1 .. D
      BY <2>2, <1>1
    <3>2. DFileOf(e, o[j]) = DFileOf(d, o[j])
      <4>1. o[j] \in 1 .. Len(d)
        BY <3>1, <1>1
      <4>. QED
        BY <4>1, <1>2, GrownFile, Zenon
    <3>. QED
      BY <3>1, <3>2, <2>1, <1>1, <1>2, <1>8
  <2>3. CASE j = D + 1 /\ DRoot(e, n)
    <3>1. n \in 1 .. Len(e)
      BY <1>1
    <3>2. DFileOf(e, n) = n
      BY <2>3, <3>1, <1>1, FileRec
    <3>. QED
      BY <2>1, <2>3, <3>2, <1>1
  <2>4. CASE j = D + 1 /\ ~DRoot(e, n)
    <3>1. n \in 1 .. Len(e) /\ D \in 1 .. D
      BY <1>1, <2>1
    <3>2. DFileOf(e, n) = DFileOf(e, o[D])
      <4>1. DFileOf(e, n) = DFileOf(e, e[n].parent)
        BY <2>4, <3>1, <1>1, FileRec
      <4>2. e[n].parent = o[D]
        BY <3>1, <1>1, <1>2, <1>4
      <4>. QED
        BY <4>1, <4>2
    <3>3. DFileOf(e, o[D]) = DFileOf(d, o[D])
      <4>1. o[D] \in 1 .. Len(d)
        BY <3>1, <1>1
      <4>. QED
        BY <4>1, <1>2, GrownFile, Zenon
    <3>4. d[o[D]].kind # "mod"
      <4>1. e[n].parent = o[D]
        BY <3>1, <1>1, <1>2, <1>4
      <4>2. e[o[D]].kind # "mod"
        BY <2>4, <4>1 DEF DRoot
      <4>3. e[o[D]] = d[o[D]]
        BY <3>1, <1>1
      <4>. QED
        BY <4>2, <4>3
    <3>5. i < D
      <4>1. i # D /\ i <= D /\ i \in Nat
        BY <3>4, <2>1, <1>1
      <4>. QED
        BY <4>1, <1>1
    <3>6. DFileOf(d, o[D]) > o[i]
      BY <3>1, <3>5, <2>1, <1>2
    <3>. QED
      BY <3>2, <3>3, <3>6, <2>1, <2>4, <1>1
  <2>. QED
    BY <2>2, <2>3, <2>4
<1>. QED
  BY <1>1, <1>5, <1>6, <1>7, <1>8 DEF Shape

\* The last node of a kind, when there is a node more.
LEMMA LatestGrows ==
  ASSUME NEW d, NEW e, Grows(d, e), NEW x, NEW k, NEW r, LatestIs(d, x, k, r)
  PROVE  LatestIs(e, IF e[Len(d) + 1].kind = k /\ DFileOf(e, Len(d) + 1) = r THEN Len(d) + 1 ELSE x, k, r)
<1> DEFINE n == Len(d) + 1
<1>1. Len(d) \in Nat /\ Len(e) = n
  BY DEF Grows, Tree
<1>2. ASSUME NEW j \in 1 .. Len(d) PROVE e[j] = d[j] /\ DFileOf(e, j) = DFileOf(d, j) /\ j \in 1 .. n
  BY <1>1, GrownFile DEF Grows
<1>3. \A j \in 1 .. n : j \in 1 .. Len(d) \/ j = n
  BY <1>1
<1>4. CASE e[n].kind = k /\ DFileOf(e, n) = r
  BY <1>1, <1>4 DEF LatestIs
<1>5. CASE ~(e[n].kind = k /\ DFileOf(e, n) = r)
  <2>1. CASE x = 0 /\ \A j \in 1 .. Len(d) : ~(d[j].kind = k /\ DFileOf(d, j) = r)
    BY <1>1, <1>2, <1>3, <1>5, <2>1 DEF LatestIs
  <2>2. CASE /\ x \in 1 .. Len(d) /\ d[x].kind = k /\ DFileOf(d, x) = r
             /\ \A j \in 1 .. Len(d) : (d[j].kind = k /\ DFileOf(d, j) = r) => j <= x
    BY <1>1, <1>2, <1>3, <1>5, <2>2 DEF LatestIs
  <2>. QED
    BY <2>1, <2>2 DEF LatestIs
<1>. QED
  BY <1>4, <1>5

LEMMA LatestFound ==
  ASSUME NEW d, NEW e, Grows(d, e), NEW x, NEW k, LatestIs(d, x, k, DFileOf(e, Len(d) + 1))
  PROVE  DLatest(e, k, Len(d) + 1) = x
<1> DEFINE n == Len(d) + 1
           B == {i \in 1 .. n - 1 : e[i].kind = k /\ DFileOf(e, i) = DFileOf(e, n)}
<1>1. Len(d) \in Nat /\ n - 1 = Len(d)
  BY DEF Grows, Tree
<1>2. ASSUME NEW j \in 1 .. Len(d) PROVE e[j] = d[j] /\ DFileOf(e, j) = DFileOf(d, j)
  BY <1>1, GrownFile DEF Grows
<1>3. B = {i \in 1 .. Len(d) : d[i].kind = k /\ DFileOf(d, i) = DFileOf(e, n)}
  BY <1>1, <1>2
<1>4. CASE x = 0 /\ B = {}
  BY <1>4 DEF DLatest
<1>5. CASE x \in B /\ \A j \in B : j <= x
  <2>1. ASSUME NEW y \in B, \A j \in B : j <= y PROVE y = x
    BY <1>1, <1>5, <2>1
  <2>2. (CHOOSE i \in B : \A j \in B : j <= i) = x
    <3> HIDE DEF B
    <3>. QED
      BY <1>5, <2>1
  <2>. QED
    BY <1>5, <2>2 DEF DLatest
<1>6. (x = 0 /\ B = {}) \/ (x \in B /\ \A j \in B : j <= x)
  <2> SUFFICES (x = 0 /\ \A j \in 1 .. Len(d) : j \notin B) \/ (x \in B /\ \A j \in 1 .. Len(d) : j \in B => j <= x)
    BY <1>3
  <2>. QED
    BY <1>3 DEF LatestIs
<1>. QED
  BY <1>4, <1>5, <1>6

\* What the attributes of node n, and the node itself, make of a file.
Updates(e, n, h, g) ==
  /\ g.name = IF ~e[n].hasid \/ h.toplevel THEN h.name ELSE Append(h.name, e[n].id)
  /\ g.toplevel = (h.toplevel /\ ~e[n].hasid)
  /\ g.filebaseaddr = h.filebaseaddr
  /\ g.currentblock.node = IF e[n].kind = "blk" THEN n ELSE h.currentblock.node
  /\ g.currentreg.node = IF e[n].kind = "reg" THEN n ELSE h.currentreg.node

\* All nodes on the way to the new node have ids (are in place) if it does (is) and
\* those on the way to its parent do (are).
LEMMA StartWay ==
  ASSUME NEW d, NEW o, NEW fs, NEW e, NEW q, NEW gs, Starts(d, o, fs, e, q, gs)
  PROVE  /\ Len(d) + 1 \in 1 .. Len(e) /\ Top(o) \in 0 .. Len(d)
         /\ DIds(e, Len(d) + 1) => e[Len(d) + 1].hasid /\ DIds(d, Top(o))
         /\ DPlaced(e, Len(d) + 1) => DInPlace(e, Len(d) + 1) /\ DPlaced(d, Top(o))
         /\ DPath(e, Top(o)) = DPath(d, Top(o)) /\ DAddress(e, Top(o)) = DAddress(d, Top(o))
<1> DEFINE n == Len(d) + 1
           p == Top(o)
<1>1. Len(d) \in Nat /\ Len(e) = n /\ n \in 1 .. Len(e) /\ Tree(e)
  BY StartFacts
<1>2. Grows(d, e) /\ e[n].parent = p
  BY DEF Starts
<1>3. p \in 0 .. Len(d)
  <2>1. e[n].parent \in 0 .. n - 1
    BY <1>1, TreeNode
  <2>. QED
    BY <1>1, <1>2, <2>1
<1>4. DAbove(e, n) = {n} \cup DAbove(e, p)
  BY <1>1, <1>2, AboveRec
<1>5. (DIds(e, p) <=> DIds(d, p)) /\ (DPlaced(e, p) <=> DPlaced(d, p))
  BY <1>2, <1>3, GrownWay
<1>6. DIds(e, n) => e[n].hasid /\ DIds(e, p)
  BY <1>4 DEF DIds
<1>7. DPlaced(e, n) => DInPlace(e, n) /\ DPlaced(e, p)
  BY <1>4 DEF DPlaced
<1>8. DPath(e, p) = DPath(d, p) /\ DAddress(e, p) = DAddress(d, p)
  BY <1>2, <1>3, GrownPath, GrownAddress
<1>. QED
  BY <1>1, <1>3, <1>5, <1>6, <1>7, <1>8

\* The innermost file is at the new node.
LEMMA StartNode ==
  ASSUME NEW d, NEW o, NEW fs, NEW e, NEW q, NEW gs, Starts(d, o, fs, e, q, gs),
         Attached(d, o, fs), Unread(d, o, fs), Updates(e, Len(d) + 1, fs[Len(fs)], gs[Len(fs)])
  PROVE  AtNode(e, gs[Len(fs)], Len(d) + 1)
<1> DEFINE n == Len(d) + 1
           p == Top(o)
           h == fs[Len(fs)]
           g == gs[Len(fs)]
<1>1. Len(d) \in Nat /\ Len(e) = n /\ n \in 1 .. Len(e) /\ Tree(e) /\ Tree(d)
  BY StartFacts
<1>2. Grows(d, e) /\ e[n].parent = p /\ (DRoot(e, n) => Fresh(d, o))
  BY DEF Starts
<1>3. /\ p \in 0 .. Len(d)
      /\ DIds(e, n) => e[n].hasid /\ DIds(d, p)
      /\ DPath(e, p) = DPath(d, p)
  BY StartWay
<1>4. DPath(e, n) = IF DRoot(e, n) THEN DPath(d, p) ELSE Append(DPath(d, p), e[n].id)
  BY <1>1, <1>2, <1>3, PathRec
<1>5. /\ g.name = IF ~e[n].hasid \/ h.toplevel THEN h.name ELSE Append(h.name, e[n].id)
      /\ g.toplevel = (h.toplevel /\ ~e[n].hasid)
      /\ g.currentblock.node = IF e[n].kind = "blk" THEN n ELSE h.currentblock.node
      /\ g.currentreg.node = IF e[n].kind = "reg" THEN n ELSE h.currentreg.node
  BY DEF Updates
<1>6. CASE DRoot(e, n)
  <2>1. h = newfile(h.name, h.filebaseaddr) /\ (DIds(d, p) => h.name = DPath(d, p))
    BY <1>2, <1>6 DEF Unread
  <2>2. h.toplevel = TRUE /\ h.currentblock.node = 0 /\ h.currentreg.node = 0
    BY <2>1 DEF newfile, NoRegister
  <2>3. DIds(e, n) => g.name = DPath(e, n) /\ ~g.toplevel
    BY <1>3, <1>4, <1>5, <1>6, <2>1, <2>2
  <2>4. DFileOf(e, n) = n
    BY <1>1, <1>6, FileRec
  <2>5. ASSUME NEW k PROVE LatestIs(d, 0, k, n)
    <3>1. ASSUME NEW j \in 1 .. Len(d) PROVE DFileOf(d, j) # n
      <4>1. DFileOf(d, j) \in 1 .. j
        BY <1>1, FileRec
      <4>. QED
        BY <1>1, <4>1
    <3>. QED
      BY <3>1 DEF LatestIs
  <2>6. ASSUME NEW k PROVE LatestIs(e, IF e[n].kind = k /\ DFileOf(e, n) = n THEN n ELSE 0, k, n)
    BY <1>2, <2>5, LatestGrows
  <2>7. LatestIs(e, g.currentblock.node, "blk", n) /\ LatestIs(e, g.currentreg.node, "reg", n)
    BY <1>5, <2>2, <2>4, <2>6
  <2>. QED
    BY <2>3, <2>4, <2>7 DEF AtNode
<1>7. CASE ~DRoot(e, n)
  <2>1. p # 0 /\ e[p].kind # "mod"
    BY <1>2, <1>7 DEF DRoot
  <2>2. p \in 1 .. Len(d)
    BY <1>1, <1>3, <2>1
  <2>3. d[p].kind # "mod" /\ DFileOf(e, p) = DFileOf(d, p)
    BY <1>2, <2>1, <2>2, GrownFile DEF Grows
  <2>4. Len(o) \in Lasts(d, o) /\ p = o[Len(o)] /\ At(d, o, Len(o)) = Len(fs)
    BY <2>1, <2>3, StartFiles
  <2>5. AtNode(d, h, p)
    BY <2>4 DEF Attached
  <2>6. e[n].hasid
    BY <1>1, <1>7 DEF Tree
  <2>7. DIds(e, n) => g.name = DPath(e, n) /\ ~g.toplevel
    BY <1>3, <1>4, <1>5, <1>7, <2>5, <2>6 DEF AtNode
  <2>8. DFileOf(e, n) = DFileOf(d, p)
    <3>1. DFileOf(e, n) = DFileOf(e, e[n].parent)
      BY <1>1, <1>7, FileRec
    <3>. QED
      BY <3>1, <1>2, <2>3
  <2>9. LatestIs(d, h.currentblock.node, "blk", DFileOf(e, n)) /\ LatestIs(d, h.currentreg.node, "reg", DFileOf(e, n))
    BY <2>5, <2>8 DEF AtNode
  <2>10. LatestIs(e, g.currentblock.node, "blk", DFileOf(e, n))
    BY <1>2, <1>5, <2>9, LatestGrows
  <2>11. LatestIs(e, g.currentreg.node, "reg", DFileOf(e, n))
    BY <1>2, <1>5, <2>9, LatestGrows
  <2>. QED
    BY <2>7, <2>10, <2>11 DEF AtNode
<1>. QED
  BY <1>6, <1>7

\* So are the others at the modules they wait for.
LEMMA StartAttached ==
  ASSUME NEW d, NEW o, NEW fs, NEW e, NEW q, NEW gs, Starts(d, o, fs, e, q, gs),
         Attached(d, o, fs), Unread(d, o, fs), Updates(e, Len(d) + 1, fs[Len(fs)], gs[Len(fs)])
  PROVE  Attached(e, q, gs)
<1> DEFINE n == Len(d) + 1
           D == Len(o)
<1>1. /\ Len(q) = D + 1 /\ D \in Nat /\ q[D + 1] = n /\ Len(d) \in Nat /\ Tree(d) /\ Tree(e)
      /\ Len(e) = n
      /\ \A i \in 1 .. D : q[i] = o[i] /\ o[i] \in 1 .. Len(d) /\ e[o[i]] = d[o[i]]
  BY StartFacts
<1>2. Grows(d, e) /\ \A i \in 1 .. Len(fs) - 1 : gs[i] = fs[i]
  BY DEF Starts
<1> SUFFICES ASSUME NEW i \in Lasts(e, q) PROVE AtNode(e, gs[At(e, q, i)], q[i])
  BY DEF Attached
<1>3. CASE i = D + 1
  <2>1. At(e, q, i) = Len(fs)
    BY <1>1, <1>3, StartFiles
  <2>. QED
    BY <1>1, <1>3, <2>1, StartNode
<1>4. CASE i # D + 1
  <2>1. /\ i \in 1 .. D /\ i \in Lasts(d, o) /\ d[o[i]].kind = "mod"
        /\ At(e, q, i) = At(d, o, i) /\ At(d, o, i) \in 1 .. Len(fs) - 1
    BY <1>1, <1>4, StartFiles
  <2> DEFINE g == fs[At(d, o, i)]
             m == o[i]
  <2>2. gs[At(e, q, i)] = g /\ q[i] = m /\ m \in 1 .. Len(d) /\ e[m].kind = "mod"
    BY <1>1, <1>2, <2>1
  <2>3. AtNode(d, g, m)
    BY <2>1 DEF Attached
  <2>4. DFileOf(e, n) > m
    <3>1. i \in 1 .. Len(q) /\ D + 1 \in 1 .. Len(q) /\ i < D + 1
      BY <1>1, <2>1
    <3>2. DFileOf(e, q[D + 1]) > q[i]
      BY <3>1, <2>2, StartShape DEF Shape
    <3>. QED
      BY <3>2, <1>1, <2>2
  <2>5. DFileOf(e, m) = DFileOf(d, m) /\ DFileOf(d, m) \in 1 .. m /\ DPath(e, m) = DPath(d, m)
        /\ (DIds(e, m) <=> DIds(d, m))
    <3>1. m \in 0 .. Len(d)
      BY <2>2
    <3>. QED
      BY <3>1, <1>1, <1>2, <2>2, FileRec, GrownFile, GrownPath, GrownWay
  <2>6. DFileOf(e, n) # DFileOf(d, m)
    BY <2>2, <2>4, <2>5, <1>1
  <2>7. LatestIs(e, g.currentblock.node, "blk", DFileOf(d, m))
    BY <1>2, <2>3, <2>6, LatestGrows DEF AtNode
  <2>8. LatestIs(e, g.currentreg.node, "reg", DFileOf(d, m))
    BY <1>2, <2>3, <2>6, LatestGrows DEF AtNode
  <2>9. DIds(e, m) => g.name = DPath(e, m) /\ ~g.toplevel
    BY <2>3, <2>5 DEF AtNode
  <2>10. AtNode(e, g, m)
    BY <2>5, <2>7, <2>8, <2>9 DEF AtNode
  <2>. QED
    BY <2>2, <2>10
<1>. QED
  BY <1>3, <1>4

\* The file of a module has its name.
LEMMA StartUnread ==
  ASSUME NEW d, NEW o, NEW fs, NEW e, NEW q, NEW gs, Starts(d, o, fs, e, q, gs),
         Attached(d, o, fs), Unread(d, o, fs), Updates(e, Len(d) + 1, fs[Len(fs)], gs[Len(fs)]),
         NEW a, e[Len(d) + 1].kind = "mod" => gs[Len(fs) + 1] = newfile(gs[Len(fs)].name, a)
  PROVE  Unread(e, q, gs)
<1> DEFINE n == Len(d) + 1
<1>1. q # <<>> /\ Top(q) = n /\ Len(fs) \in Nat
  BY StartFacts
<1> SUFFICES ASSUME Fresh(e, q)
             PROVE  /\ gs[Len(gs)] = newfile(gs[Len(gs)].name, gs[Len(gs)].filebaseaddr)
                    /\ DIds(e, n) => gs[Len(gs)].name = DPath(e, n)
  BY <1>1 DEF Unread
<1>2. e[n].kind = "mod"
  BY <1>1 DEF Fresh
<1>3. Len(gs) = Len(fs) + 1
  BY <1>2 DEF Starts
<1>4. gs[Len(gs)] = newfile(gs[Len(fs)].name, a)
  BY <1>2, <1>3
<1>5. gs[Len(gs)].name = gs[Len(fs)].name /\ gs[Len(gs)].filebaseaddr = a
  BY <1>4 DEF newfile
<1>6. DIds(e, n) => gs[Len(fs)].name = DPath(e, n)
  BY StartNode DEF AtNode
<1>. QED
  BY <1>4, <1>5, <1>6

\* A file that is in place is where its module is.
LEMMA FileBase ==
  ASSUME NEW d, NEW o, NEW fs, NEW e, NEW q, NEW gs, Starts(d, o, fs, e, q, gs),
         Based(d, o, fs), DPlaced(d, Top(o))
  PROVE  /\ DRoot(e, Len(d) + 1) => fs[Len(fs)].filebaseaddr = DAddress(d, Top(o))
         /\ (~DRoot(e, Len(d) + 1) /\ DRoot(d, Top(o))) =>
              fs[Len(fs)].filebaseaddr = DAddress(d, d[Top(o)].parent)
<1> DEFINE n == Len(d) + 1
           p == Top(o)
           D == Len(o)
<1>1. /\ D \in Nat /\ Len(d) \in Nat /\ Tree(d) /\ Tree(e)
      /\ \A i \in 1 .. D : o[i] \in 1 .. Len(d) /\ e[o[i]] = d[o[i]]
  BY StartFacts
<1>2. /\ o \in Seq(1 .. Len(d)) /\ Len(fs) = Mods(d, o, D) + 1 /\ e[n].parent = p
      /\ o # <<>> => d[o[1]].parent = 0
      /\ \A i \in 2 .. D : d[o[i]].parent = o[i - 1]
  BY DEF Starts, Shape
<1>3. p = 0 => D = 0
  BY <1>1, <1>2 DEF Top
<1>4. p # 0 => D \in 1 .. D /\ p = o[D] /\ o # <<>>
  BY <1>1, <1>2 DEF Top
<1>5. fs[1].filebaseaddr = 0 /\ DAddress(d, 0) = 0
  BY <1>1, AddressRec DEF Based
<1>6. ASSUME NEW i \in 1 .. D, d[o[i]].kind = "mod", Mods(d, o, i) + 1 = Len(fs), DPlaced(d, o[i])
      PROVE  fs[Len(fs)].filebaseaddr = DAddress(d, o[i])
  <2>1. Mods(d, o, i) + 1 <= Len(fs)
    <3>1. i \in Nat
      OBVIOUS
    <3>2. Mods(d, o, i) \in Nat
      BY <3>1, ModsCount
    <3>. QED
      BY <1>6, <3>2
  <2>. QED
    BY <1>6, <2>1 DEF Based
<1>7. ASSUME DRoot(e, n) PROVE fs[Len(fs)].filebaseaddr = DAddress(d, p)
  <2>1. CASE p = 0
    <3>1. Mods(d, o, 0) = 0 /\ D = 0
      BY <1>3, <2>1, ModsCount
    <3>2. Len(fs) = 1
      BY <1>2, <3>1
    <3>. QED
      BY <1>5, <2>1, <3>2
  <2>2. CASE p # 0
    <3>1. d[o[D]].kind = "mod" /\ D \in 1 .. D /\ p = o[D]
      BY <1>1, <1>2, <1>4, <1>7, <2>2 DEF DRoot
    <3>. QED
      BY <1>2, <1>6, <3>1
  <2>. QED
    BY <2>1, <2>2
<1>8. ASSUME ~DRoot(e, n), DRoot(d, p) PROVE fs[Len(fs)].filebaseaddr = DAddress(d, d[p].parent)
  <2>1. p # 0
    BY <1>2, <1>8 DEF DRoot
  <2>2. D \in 1 .. D /\ D \in Nat \ {0} /\ p = o[D] /\ o # <<>> /\ p \in 1 .. Len(d)
    BY <1>1, <1>4, <2>1
  <2>3. d[o[D]].kind # "mod"
    BY <1>1, <1>2, <1>8, <2>2 DEF DRoot
  <2>4. Mods(d, o, D) = Mods(d, o, D - 1) + 0
    BY <2>2, <2>3, ModsCount
  <2>5. Mods(d, o, D - 1) \in Nat
    <3>1. D - 1 \in Nat
      BY <2>2
    <3>. QED
      BY <3>1, ModsCount
  <2>6. CASE D = 1
    <3>1. Mods(d, o, D - 1) = 0 /\ d[p].parent = 0
      <4>1. Mods(d, o, 0) = 0 /\ D - 1 = 0
        BY <2>6, ModsCount
      <4>. QED
        BY <1>2, <2>2, <2>6, <4>1
    <3>2. Len(fs) = 1
      BY <1>2, <2>4, <3>1
    <3>. QED
      BY <1>5, <3>1, <3>2
  <2>7. CASE D # 1
    <3>1. D \in 2 .. D /\ D - 1 \in 1 .. D /\ d[p].parent = o[D - 1]
      <4>1. D \in 2 .. D /\ D - 1 \in 1 .. D
        <5>1. ASSUME NEW x \in Nat \ {0}, x # 1 PROVE x \in 2 .. x /\ x - 1 \in 1 .. x
          BY <5>1
        <5>. QED
          BY <2>2, <2>7, <5>1
      <4>. QED
        BY <1>2, <2>2, <4>1
    <3>2. o[D - 1] \in 1 .. Len(d)
      BY <1>1, <3>1
    <3>3. d[o[D - 1]].kind = "mod"
      BY <1>8, <3>1, <3>2 DEF DRoot
    <3>4. DPlaced(d, o[D - 1])
      <4>1. DAbove(d, p) = {p} \cup DAbove(d, d[p].parent)
        BY <1>1, <2>2, AboveRec
      <4>. QED
        BY <3>1, <4>1 DEF DPlaced
    <3>5. Mods(d, o, D - 1) + 1 = Len(fs)
      BY <1>2, <2>4, <2>5
    <3>. QED
      BY <1>6, <3>1, <3>3, <3>4, <3>5
  <2>. QED
    BY <2>6, <2>7
<1>. QED
  BY <1>7, <1>8

\* The address of a block or a module in place: its own, from where its file is.
LEMMA PlacedAddress ==
  ASSUME NEW d, NEW o, NEW fs, NEW e, NEW q, NEW gs, Starts(d, o, fs, e, q, gs),
         Based(d, o, fs), Unread(d, o, fs), DPlaced(e, Len(d) + 1),
         e[Len(d) + 1].kind \in {"blk", "mod"}
  PROVE  plus(IF e[Len(d) + 1].address THEN AddrOf[Len(d) + 1] ELSE fs[Len(fs)].localaddr,
              fs[Len(fs)].filebaseaddr) = DAddress(e, Len(d) + 1)
<1> DEFINE n == Len(d) + 1
           p == Top(o)
           h == fs[Len(fs)]
<1>1. Tree(d) /\ Tree(e) /\ Len(e) = n /\ Len(d) \in Nat
  BY StartFacts
<1>2. e[n].parent = p /\ (DRoot(e, n) => Fresh(d, o)) /\ Grows(d, e)
  BY DEF Starts
<1>3. /\ n \in 1 .. Len(e) /\ p \in 0 .. Len(d) /\ DInPlace(e, n) /\ DPlaced(d, p)
      /\ DAddress(e, p) = DAddress(d, p)
  BY StartWay
<1>4. DAddress(e, n) = plus(DAddress(d, p), Own(e, n))
  BY <1>1, <1>2, <1>3, AddressRec
<1>5. DAddress(d, p) \in Addrs /\ Own(e, n) \in Addrs
  BY <1>1, <1>3, AddressRec, OwnType
<1>6. CASE DRoot(e, n)
  <2>1. ~e[n].address /\ Own(e, n) = 0
    BY <1>3, <1>6 DEF DInPlace, Own
  <2>2. h.localaddr = 0
    <3>1. h = newfile(h.name, h.filebaseaddr)
      BY <1>2, <1>6 DEF Unread
    <3>. QED
      BY <3>1 DEF newfile
  <2>3. h.filebaseaddr = DAddress(d, p)
    BY <1>3, <1>6, FileBase
  <2>. QED
    BY <1>4, <1>5, <2>1, <2>2, <2>3, PlusZero
<1>7. CASE ~DRoot(e, n)
  <2>1. e[n].address /\ DRoot(e, e[n].parent)
    BY <1>3, <1>7 DEF DInPlace
  <2>2. p \in 1 .. Len(d)
    BY <1>1, <1>2, <1>3, <1>7 DEF DRoot
  <2>3. DRoot(d, p)
    BY <1>2, <2>1, <2>2, GrownRoot
  <2>4. h.filebaseaddr = DAddress(d, d[p].parent)
    BY <1>3, <1>7, <2>3, FileBase
  <2>5. DAddress(d, p) = DAddress(d, d[p].parent) /\ DAddress(d, d[p].parent) \in Addrs
    <3>1. DInPlace(d, p)
      <4>1. DAbove(d, p) = {p} \cup DAbove(d, d[p].parent)
        BY <1>1, <2>2, AboveRec
      <4>. QED
        BY <1>3, <4>1 DEF DPlaced
    <3>2. Own(d, p) = 0
      BY <2>3, <3>1 DEF DInPlace, Own
    <3>3. d[p].parent \in 0 .. Len(d)
      BY <1>1, <2>2, TreeNode
    <3>4. DAddress(d, p) = plus(DAddress(d, d[p].parent), Own(d, p)) /\ DAddress(d, d[p].parent) \in Addrs
      BY <1>1, <2>2, <3>3, AddressRec
    <3>. QED
      BY <3>2, <3>4, PlusZero
  <2>6. Own(e, n) = AddrOf[n]
    BY <2>1 DEF Own
  <2>. QED
    BY <1>4, <1>5, <2>1, <2>4, <2>5, <2>6, PlusZero
<1>. QED
  BY <1>6, <1>7

\* Files are where their modules are.
LEMMA StartBased ==
  ASSUME NEW d, NEW o, NEW fs, NEW e, NEW q, NEW gs, Starts(d, o, fs, e, q, gs),
         Based(d, o, fs), gs[Len(fs)].filebaseaddr = fs[Len(fs)].filebaseaddr,
         (e[Len(d) + 1].kind = "mod" /\ DPlaced(e, Len(d) + 1)) =>
           gs[Len(fs) + 1].filebaseaddr = DAddress(e, Len(d) + 1)
  PROVE  Based(e, q, gs)
<1> DEFINE n == Len(d) + 1
           D == Len(o)
           L == Len(fs)
<1>1. /\ Len(q) = D + 1 /\ D \in Nat /\ q[D + 1] = n /\ Len(d) \in Nat /\ Tree(d) /\ Tree(e)
      /\ Len(e) = n /\ L \in Nat \ {0}
      /\ \A i \in 1 .. D : q[i] = o[i] /\ o[i] \in 1 .. Len(d) /\ e[o[i]] = d[o[i]]
  BY StartFacts
<1>2. Grows(d, e) /\ L = Mods(d, o, D) + 1 /\ \A i \in 1 .. L - 1 : gs[i] = fs[i]
  BY DEF Starts
<1>3. ASSUME NEW i \in 1 .. L PROVE gs[i].filebaseaddr = fs[i].filebaseaddr
  <2>1. i \in 1 .. L - 1 \/ i = L
    BY <1>1
  <2>. QED
    BY <1>2, <2>1
<1>4. gs[1].filebaseaddr = 0
  BY <1>1, <1>3 DEF Based
<1>5. ASSUME NEW i \in 1 .. D + 1, e[q[i]].kind = "mod", DPlaced(e, q[i])
      PROVE  gs[Mods(e, q, i) + 1].filebaseaddr = DAddress(e, q[i])
  <2>1. CASE i \in 1 .. D
    <3>1. Mods(e, q, i) = Mods(d, o, i) /\ Mods(d, o, i) \in Nat /\ Mods(d, o, i) <= Mods(d, o, D)
          /\ Mods(d, o, D) \in Nat
      <4>1. i \in 0 .. D /\ i \in Nat /\ i <= D
        BY <2>1, <1>1
      <4>2. Mods(e, q, i) = Mods(d, o, i)
        BY <4>1, StartFiles
      <4>3. Mods(d, o, i) \in Nat /\ Mods(d, o, i) <= Mods(d, o, D) /\ Mods(d, o, D) \in Nat
        BY <4>1, <1>1, ModsCount
      <4>. QED
        BY <4>2, <4>3
    <3>2. Mods(d, o, i) + 1 \in 1 .. L /\ Mods(d, o, i) + 1 <= L
      BY <1>2, <3>1
    <3>3. o[i] \in 0 .. Len(d) /\ q[i] = o[i] /\ d[o[i]].kind = "mod"
      BY <1>1, <1>5, <2>1
    <3>4. DPlaced(d, o[i]) /\ DAddress(e, o[i]) = DAddress(d, o[i])
      BY <1>2, <1>5, <3>3, GrownWay, GrownAddress
    <3>5. fs[Mods(d, o, i) + 1].filebaseaddr = DAddress(d, o[i])
      BY <2>1, <3>2, <3>3, <3>4 DEF Based
    <3>. QED
      BY <1>3, <3>1, <3>2, <3>3, <3>4, <3>5
  <2>2. CASE i = D + 1
    <3>1. Mods(e, q, i) = Mods(d, o, D) + (IF e[n].kind = "mod" THEN 1 ELSE 0)
      BY <1>1, <2>2, StartFiles
    <3>2. q[i] = n /\ Mods(e, q, i) = L
      BY <1>1, <1>2, <1>5, <2>2, <3>1
    <3>. QED
      BY <1>5, <3>2
  <2>. QED
    BY <1>1, <2>1, <2>2
<1>. QED
  BY <1>1, <1>4, <1>5 DEF Based

-----------------------------------------------------------------------------
(* The registers.                                                          *)

\* The block or the register a call holds.
Hd(fs, i, k) == IF k = "blk" THEN fs[i].currentblock ELSE fs[i].currentreg
Kinds == {"blk", "reg"}

\* A register of kind k: its name and its address are those of its node.
Good(d, r, k) ==
  /\ r.node = 0 => r = NoRegister
  /\ r.node # 0 =>
      /\ r.node \in 1 .. Len(d) /\ d[r.node].kind = k
      /\ DIds(d, r.node) => r.Name = DPath(d, r.node)
      /\ DPlaced(d, r.node) => r.Addr = DAddress(d, r.node)

Right(d, fs, rs) ==
  /\ \A i \in 1 .. Len(fs) : fs[i].baseaddr = fs[i].currentblock.Addr
  /\ \A i \in 1 .. Len(fs), k \in Kinds : Good(d, Hd(fs, i, k), k)
  /\ \A x \in DOMAIN rs : \E k \in Kinds : Good(d, rs[x], k)

\* Nodes are held at most once, and until they are saved.
Single(fs, rs) ==
  /\ \A i, j \in 1 .. Len(fs), k, l \in Kinds :
       (Hd(fs, i, k).node # 0 /\ Hd(fs, i, k).node = Hd(fs, j, l).node) => i = j /\ k = l
  /\ \A i \in 1 .. Len(fs), k \in Kinds : \A x \in DOMAIN rs :
       Hd(fs, i, k).node # 0 => rs[x].node # Hd(fs, i, k).node

\* A good register stays so when the document grows.
LEMMA GoodGrows ==
  ASSUME NEW d, NEW e, Grows(d, e), NEW r, NEW k, Good(d, r, k)
  PROVE  Good(e, r, k)
<1> SUFFICES ASSUME r.node # 0
             PROVE  /\ r.node \in 1 .. Len(e) /\ e[r.node].kind = k
                    /\ DIds(e, r.node) => r.Name = DPath(e, r.node)
                    /\ DPlaced(e, r.node) => r.Addr = DAddress(e, r.node)
  BY DEF Good
<1>1. /\ r.node \in 1 .. Len(d) /\ d[r.node].kind = k
      /\ DIds(d, r.node) => r.Name = DPath(d, r.node)
      /\ DPlaced(d, r.node) => r.Addr = DAddress(d, r.node)
  BY DEF Good
<1>2. r.node \in 1 .. Len(e) /\ e[r.node] = d[r.node] /\ r.node \in 0 .. Len(d)
  BY <1>1, GrownRoot
<1>3. /\ DPath(e, r.node) = DPath(d, r.node) /\ DAddress(e, r.node) = DAddress(d, r.node)
      /\ (DIds(e, r.node) <=> DIds(d, r.node)) /\ (DPlaced(e, r.node) <=> DPlaced(d, r.node))
  BY <1>2, GrownPath, GrownAddress, GrownWay
<1>. QED
  BY <1>1, <1>2, <1>3

\* What is in the table after something is saved.
LEMMA InSaved ==
  ASSUME NEW rs, NEW r
  PROVE  /\ \A x \in DOMAIN save(rs, r) : save(rs, r)[x] = r \/ (x \in DOMAIN rs /\ save(rs, r)[x] = rs[x])
         /\ \A x \in DOMAIN saveNamed(rs, r) :
              saveNamed(rs, r)[x] = r \/ (x \in DOMAIN rs /\ saveNamed(rs, r)[x] = rs[x])
         /\ r.Name \in DOMAIN save(rs, r) /\ save(rs, r)[r.Name] = r
         /\ \A x \in DOMAIN rs : x \in DOMAIN save(rs, r) /\ (x # r.Name => save(rs, r)[x] = rs[x])
BY DEF save, saveNamed

\* The address of a register in place: its own, from where its block is.
LEMMA RegAddress ==
  ASSUME NEW d, NEW o, NEW fs, NEW e, NEW q, NEW gs, Starts(d, o, fs, e, q, gs),
         Attached(d, o, fs), Unread(d, o, fs), NEW rs, Right(d, fs, rs), DPlaced(e, Len(d) + 1),
         e[Len(d) + 1].kind = "reg"
  PROVE  plus(fs[Len(fs)].baseaddr,
              IF e[Len(d) + 1].address THEN AddrOf[Len(d) + 1] ELSE fs[Len(fs)].localaddr)
           = DAddress(e, Len(d) + 1)
<1> DEFINE n == Len(d) + 1
           p == Top(o)
           h == fs[Len(fs)]
<1>1. Tree(d) /\ Tree(e) /\ Len(e) = n /\ Len(d) \in Nat /\ Len(fs) \in Nat \ {0}
  BY StartFacts
<1>2. e[n].parent = p /\ (DRoot(e, n) => Fresh(d, o)) /\ Grows(d, e)
  BY DEF Starts
<1>3. /\ n \in 1 .. Len(e) /\ p \in 0 .. Len(d) /\ DInPlace(e, n) /\ DPlaced(d, p)
      /\ DAddress(e, p) = DAddress(d, p)
  BY StartWay
<1>4. DAddress(e, n) = plus(DAddress(d, p), Own(e, n))
  BY <1>1, <1>2, <1>3, AddressRec
<1>5. DAddress(d, p) \in Addrs /\ Own(e, n) \in Addrs /\ DAddress(d, 0) = 0 /\ 0 \in Addrs
  BY <1>1, <1>3, AddressRec, OwnType, RegParserAssumption DEF Addrs
<1>6. h.baseaddr = h.currentblock.Addr /\ Good(d, h.currentblock, "blk")
  <2>1. Len(fs) \in 1 .. Len(fs)
    BY <1>1
  <2>2. Good(d, Hd(fs, Len(fs), "blk"), "blk")
    BY <2>1 DEF Right, Kinds
  <2>. QED
    BY <2>1, <2>2 DEF Right, Hd
<1>7. CASE DRoot(e, n)
  <2>1. ~e[n].address /\ Own(e, n) = 0 /\ n = 1
    BY <1>3, <1>7 DEF DInPlace, Own
  <2>2. p = 0
    BY <1>1, <1>3, <2>1
  <2>3. h.localaddr = 0 /\ h.baseaddr = 0
    <3>1. h = newfile(h.name, h.filebaseaddr)
      BY <1>2, <1>7 DEF Unread
    <3>. QED
      BY <3>1 DEF newfile
  <2>. QED
    BY <1>4, <1>5, <2>1, <2>2, <2>3
<1>8. CASE ~DRoot(e, n)
  <2>1. e[n].address /\ (\/ p = DLatest(e, "blk", n)
                         \/ DLatest(e, "blk", n) = 0 /\ DFileOf(e, n) = 1 /\ p = 1)
    BY <1>2, <1>3, <1>8 DEF DInPlace
  <2>2. p \in 1 .. Len(d) /\ p # 0 /\ e[p].kind # "mod"
    BY <1>1, <1>2, <1>3, <1>8 DEF DRoot
  <2>3. d[p].kind # "mod" /\ DFileOf(e, p) = DFileOf(d, p)
    BY <1>2, <2>2, GrownFile DEF Grows
  <2>4. AtNode(d, h, p)
    <3>1. Len(o) \in Lasts(d, o) /\ p = o[Len(o)] /\ At(d, o, Len(o)) = Len(fs)
      BY <2>2, <2>3, StartFiles
    <3>. QED
      BY <3>1 DEF Attached
  <2>5. DFileOf(e, n) = DFileOf(d, p)
    <3>1. DFileOf(e, n) = DFileOf(e, e[n].parent)
      BY <1>1, <1>3, <1>8, FileRec
    <3>. QED
      BY <3>1, <1>2, <2>3
  <2>6. DLatest(e, "blk", n) = h.currentblock.node
    BY <1>2, <2>4, <2>5, LatestFound DEF AtNode
  <2>7. h.baseaddr = DAddress(d, p)
    <3>1. CASE p = DLatest(e, "blk", n)
      BY <1>3, <1>6, <2>2, <2>6, <3>1 DEF Good
    <3>2. CASE DLatest(e, "blk", n) = 0 /\ p = 1
      <4>1. h.baseaddr = 0
        BY <1>6, <2>6, <3>2 DEF Good, NoRegister
      <4>2. d[p].parent = 0
        <5>1. d[p].parent \in 0 .. p - 1
          BY <1>1, <2>2, TreeNode
        <5>. QED
          BY <3>2, <5>1
      <4>3. DRoot(d, p)
        BY <4>2 DEF DRoot
      <4>4. DInPlace(d, p)
        <5>1. DAbove(d, p) = {p} \cup DAbove(d, d[p].parent)
          BY <1>1, <2>2, AboveRec
        <5>. QED
          BY <1>3, <5>1 DEF DPlaced
      <4>5. Own(d, p) = 0
        BY <4>3, <4>4 DEF DInPlace, Own
      <4>6. DAddress(d, p) = plus(DAddress(d, d[p].parent), Own(d, p))
        BY <1>1, <2>2, AddressRec
      <4>. QED
        BY <1>5, <4>1, <4>2, <4>5, <4>6, PlusZero
    <3>. QED
      BY <2>1, <3>1, <3>2
  <2>8. Own(e, n) = AddrOf[n]
    BY <2>1 DEF Own
  <2>. QED
    BY <1>4, <2>1, <2>7, <2>8
<1>. QED
  BY <1>7, <1>8

\* All nodes have ids.
DAllIds(d) == \A n \in 1 .. Len(d) : d[n].hasid

\* Node n is found in the table under its name.
SavedAs(d, rs, n) == DPath(d, n) \in DOMAIN rs /\ rs[DPath(d, n)].node = n

Kept(d, fs, rs, n) ==
  \/ \E i \in 1 .. Len(fs), k \in Kinds : Hd(fs, i, k).node = n
  \/ SavedAs(d, rs, n)

\* Mask n is one of r's, and r is the register it belongs to.
HasMask(d, r, n) ==
  /\ r.node = d[n].parent /\ d[n].id \in DOMAIN r.msks
  /\ r.msks[d[n].id].value = MaskOf[d[n].id]

MaskKept(d, fs, rs, n) ==
  \/ \E i \in 1 .. Len(fs) : HasMask(d, Hd(fs, i, "reg"), n)
  \/ DPath(d, d[n].parent) \in DOMAIN rs /\ HasMask(d, rs[DPath(d, d[n].parent)], n)

\* Nothing with a name is lost, if all nodes have ids.
Saved(d, fs, rs) ==
  DAllIds(d) =>
    /\ \A n \in 1 .. Len(d) : (d[n].kind \in Kinds /\ DPath(d, n) # <<>>) => Kept(d, fs, rs, n)
    /\ \A n \in 1 .. Len(d) : (d[n].kind = "mask" /\ DInPlace(d, n) /\ DPath(d, d[n].parent) # <<>>)
         => MaskKept(d, fs, rs, n)

LEMMA AllWay ==
  ASSUME NEW d, Tree(d), DAllIds(d), NEW n \in 0 .. Len(d)
  PROVE  DIds(d, n)
<1>1. DAbove(d, n) \in SUBSET (1 .. Len(d))
  BY AboveRec
<1>. QED
  BY <1>1 DEF DIds, DAllIds

\* Blocks and registers have names of their own.
LEMMA SameRegister ==
  ASSUME NEW d, Tree(d), NEW m \in 1 .. Len(d), NEW n \in 1 .. Len(d),
         d[m].kind \in Kinds, d[n].kind \in Kinds, DPath(d, m) = DPath(d, n)
  PROVE  m = n
<1>1. d[m].kind # "mod" /\ d[n].kind # "mod"
  BY DEF Kinds
<1>2. ~(m < n) /\ ~(n < m)
  BY <1>1, SamePath
<1>. QED
  BY <1>2

\* r is saved, or only if it has a name.
Saves(rs, r, ss) == ss = save(rs, r) \/ ss = saveNamed(rs, r)

\* Register r is found under x.
Stored(rs, x, r) == x \in DOMAIN rs /\ rs[x] = r

\* Saving a register does not replace another one that has a name.
LEMMA SaveKeeps ==
  ASSUME NEW d, Tree(d), DAllIds(d), NEW k \in Kinds, NEW r, Good(d, r, k), NEW rs,
         NEW m \in 1 .. Len(d), d[m].kind \in Kinds, DPath(d, m) # <<>>,
         NEW ss, Saves(rs, r, ss)
  PROVE  /\ r.node = m => Stored(ss, DPath(d, m), r)
         /\ (r.node # m /\ DPath(d, m) \in DOMAIN rs) => Stored(ss, DPath(d, m), rs[DPath(d, m)])
         /\ SavedAs(d, rs, m) => SavedAs(d, ss, m)
<1>1. ASSUME r.node = m PROVE DPath(d, m) \in DOMAIN ss /\ ss[DPath(d, m)] = r
  <2>1. m # 0 /\ m \in 0 .. Len(d)
    OBVIOUS
  <2>2. r.Name = DPath(d, m)
    BY <1>1, <2>1, AllWay DEF Good
  <2>3. ss = save(rs, r)
    BY <2>2 DEF Saves, saveNamed
  <2>. QED
    BY <2>2, <2>3, InSaved
<1>2. ASSUME r.node # m, DPath(d, m) \in DOMAIN rs
      PROVE  DPath(d, m) \in DOMAIN ss /\ ss[DPath(d, m)] = rs[DPath(d, m)]
  <2>1. r.Name # DPath(d, m)
    <3>1. CASE r.node = 0
      BY <3>1 DEF Good, NoRegister
    <3>2. CASE r.node # 0
      <4>1. r.node \in 1 .. Len(d) /\ r.node \in 0 .. Len(d) /\ d[r.node].kind \in Kinds
        BY <3>2 DEF Good
      <4>2. r.Name = DPath(d, r.node)
        BY <3>2, <4>1, AllWay DEF Good
      <4>. QED
        BY <1>2, <4>1, <4>2, SameRegister
    <3>. QED
      BY <3>1, <3>2
  <2>2. ss = rs \/ ss = save(rs, r)
    BY DEF Saves, saveNamed
  <2>. QED
    BY <1>2, <2>1, <2>2, InSaved
<1>. QED
  BY <1>1, <1>2 DEF SavedAs, Stored

\* e is d, or d and one node more.
Later(d, e) == Grows(d, e) \/ e = d

\* Names and addresses stay right when nodes, files and registers come that are.
LEMMA RightStep ==
  ASSUME NEW d, NEW e, Later(d, e), NEW fs, NEW gs, NEW rs, NEW ss, Right(d, fs, rs),
         \A i \in 1 .. Len(gs) : gs[i].baseaddr = gs[i].currentblock.Addr,
         \A i \in 1 .. Len(gs), k \in Kinds :
           \/ Good(e, Hd(gs, i, k), k)
           \/ i \in 1 .. Len(fs) /\ Hd(gs, i, k) = Hd(fs, i, k),
         \A x \in DOMAIN ss :
           \/ x \in DOMAIN rs /\ ss[x] = rs[x]
           \/ \E k \in Kinds : Good(d, ss[x], k)
  PROVE  Right(e, gs, ss)
<1>1. ASSUME NEW r, NEW k, Good(d, r, k) PROVE Good(e, r, k)
  BY <1>1, GoodGrows DEF Later
<1>2. ASSUME NEW i \in 1 .. Len(gs), NEW k \in Kinds PROVE Good(e, Hd(gs, i, k), k)
  BY <1>1 DEF Right
<1>3. ASSUME NEW x \in DOMAIN ss PROVE \E k \in Kinds : Good(e, ss[x], k)
  <2>1. \E k \in Kinds : Good(d, ss[x], k)
    BY DEF Right
  <2>. QED
    BY <1>1, <2>1
<1>. QED
  BY <1>2, <1>3 DEF Right

\* A new node in the place of one that is saved.
LEMMA NewHeld ==
  ASSUME NEW d, NEW e, Grows(d, e), NEW fs, Len(fs) \in Nat \ {0}, NEW rs, NEW gs, Len(gs) = Len(fs),
         Right(d, fs, rs), Single(fs, rs), Saved(d, fs, rs),
         NEW K \in Kinds, e[Len(d) + 1].kind = K,
         NEW R, R.node = Len(d) + 1, Good(e, R, K),
         \A i \in 1 .. Len(fs), k \in Kinds :
           Hd(gs, i, k) = IF i = Len(fs) /\ k = K THEN R ELSE Hd(fs, i, k),
         \A i \in 1 .. Len(gs) : gs[i].baseaddr = gs[i].currentblock.Addr
  PROVE  LET ss == saveNamed(rs, Hd(fs, Len(fs), K))
         IN  Right(e, gs, ss) /\ Single(gs, ss) /\ Saved(e, gs, ss)
<1> DEFINE L == Len(fs)
           r == Hd(fs, L, K)
           ss == saveNamed(rs, r)
           n == Len(d) + 1
<1>1. L \in 1 .. L /\ Good(d, r, K)
  BY DEF Right
<1>2. Tree(d) /\ Tree(e) /\ Len(d) \in Nat /\ Len(e) = n /\ n \in 1 .. Len(e)
  BY DEF Grows, Tree
<1>3. \A x \in DOMAIN ss : ss[x] = r \/ (x \in DOMAIN rs /\ ss[x] = rs[x])
  BY InSaved
<1>4. Right(e, gs, ss)
  <2>1. \A x \in DOMAIN ss : (x \in DOMAIN rs /\ ss[x] = rs[x]) \/ \E k \in Kinds : Good(d, ss[x], k)
    BY <1>1, <1>3
  <2>2. \A i \in 1 .. Len(gs), k \in Kinds :
          \/ Good(e, Hd(gs, i, k), k)
          \/ i \in 1 .. Len(fs) /\ Hd(gs, i, k) = Hd(fs, i, k)
    OBVIOUS
  <2> HIDE DEF ss
  <2>. QED
    BY <2>1, <2>2, RightStep DEF Later
<1>5. ASSUME NEW i \in 1 .. L, NEW k \in Kinds PROVE Hd(fs, i, k).node # n
  <2>1. Good(d, Hd(fs, i, k), k)
    BY DEF Right
  <2>2. Hd(fs, i, k).node = 0 \/ Hd(fs, i, k).node \in 1 .. Len(d)
    BY <2>1 DEF Good
  <2>. QED
    BY <1>2, <2>2
<1>6. ASSUME NEW x \in DOMAIN rs PROVE rs[x].node # n
  <2>1. PICK k \in Kinds : Good(d, rs[x], k)
    BY DEF Right
  <2>2. rs[x].node = 0 \/ rs[x].node \in 1 .. Len(d)
    BY <2>1 DEF Good
  <2>. QED
    BY <1>2, <2>2
<1>7. Single(gs, ss)
  <2>1. ASSUME NEW i \in 1 .. L, NEW j \in 1 .. L, NEW k \in Kinds, NEW l \in Kinds,
               Hd(gs, i, k).node # 0, Hd(gs, i, k).node = Hd(gs, j, l).node
        PROVE  i = j /\ k = l
    <3>1. CASE i = L /\ k = K
      BY <1>5, <2>1, <3>1
    <3>2. CASE j = L /\ l = K
      BY <1>5, <2>1, <3>2
    <3>3. CASE ~(i = L /\ k = K) /\ ~(j = L /\ l = K)
      BY <2>1, <3>3 DEF Single
    <3>. QED
      BY <3>1, <3>2, <3>3
  <2>2. ASSUME NEW i \in 1 .. L, NEW k \in Kinds, NEW x \in DOMAIN ss, Hd(gs, i, k).node # 0
        PROVE  ss[x].node # Hd(gs, i, k).node
    <3>1. CASE i = L /\ k = K
      <4>1. Hd(gs, i, k).node = n
        BY <3>1
      <4>2. r.node # n
        BY <1>1, <1>5
      <4>. QED
        BY <1>3, <1>6, <4>1, <4>2
    <3>2. CASE ~(i = L /\ k = K)
      <4>1. Hd(gs, i, k) = Hd(fs, i, k)
        BY <3>2
      <4>2. r.node # Hd(fs, i, k).node
        BY <1>1, <2>2, <3>2, <4>1 DEF Single
      <4>3. ASSUME x \in DOMAIN rs PROVE rs[x].node # Hd(fs, i, k).node
        BY <2>2, <4>1, <4>3 DEF Single
      <4>. QED
        BY <1>3, <4>1, <4>2, <4>3
    <3>. QED
      BY <3>1, <3>2
  <2> HIDE DEF ss
  <2>. QED
    BY <2>1, <2>2 DEF Single
<1>8. Saved(e, gs, ss)
  <2> SUFFICES ASSUME DAllIds(e)
               PROVE  /\ \A m \in 1 .. n : (e[m].kind \in Kinds /\ DPath(e, m) # <<>>) => Kept(e, gs, ss, m)
                      /\ \A m \in 1 .. n :
                           (e[m].kind = "mask" /\ DInPlace(e, m) /\ DPath(e, e[m].parent) # <<>>)
                             => MaskKept(e, gs, ss, m)
    BY <1>2 DEF Saved
  <2>1. \A m \in 1 .. Len(d) : e[m] = d[m] /\ m \in 1 .. Len(e)
    BY <1>2 DEF Grows
  <2>2. DAllIds(d)
    BY <2>1 DEF DAllIds
  <2>3. \A m \in 1 .. n : m = n \/ m \in 1 .. Len(d)
    BY <1>2
  <2>4. ASSUME NEW m \in 1 .. n, e[m].kind \in Kinds, DPath(e, m) # <<>> PROVE Kept(e, gs, ss, m)
    <3>1. CASE m = n
      <4>1. Hd(gs, L, K).node = n
        BY <1>1
      <4>. QED
        BY <1>1, <3>1, <4>1 DEF Kept
    <3>2. CASE m \in 1 .. Len(d)
      <4>1. d[m].kind \in Kinds /\ DPath(e, m) = DPath(d, m) /\ DPath(d, m) # <<>>
        BY <2>1, <2>4, <3>2, GrownPath
      <4>2. Kept(d, fs, rs, m)
        BY <2>2, <3>2, <4>1 DEF Saved
      <4>3. CASE \E i \in 1 .. L, k \in Kinds : ~(i = L /\ k = K) /\ Hd(fs, i, k).node = m
        <5>1. PICK i \in 1 .. L, k \in Kinds : ~(i = L /\ k = K) /\ Hd(fs, i, k).node = m
          BY <4>3
        <5>2. Hd(gs, i, k).node = m
          BY <5>1
        <5>. QED
          BY <5>2 DEF Kept
      <4>4. CASE r.node = m
        <5>1. DPath(d, m) \in DOMAIN ss /\ ss[DPath(d, m)] = r
          <6>1. Saves(rs, r, ss)
            BY DEF Saves
          <6> HIDE DEF ss, r
          <6>2. Stored(ss, DPath(d, m), r)
            BY <1>1, <1>2, <2>2, <3>2, <4>1, <4>4, <6>1, SaveKeeps
          <6>. QED
            BY <6>2 DEF Stored
        <5>. QED
          BY <4>1, <4>4, <5>1 DEF Kept, SavedAs
      <4>5. CASE SavedAs(d, rs, m)
        <5>1. SavedAs(d, ss, m)
          <6>1. Saves(rs, r, ss)
            BY DEF Saves
          <6> HIDE DEF ss, r
          <6>. QED
            BY <1>1, <1>2, <2>2, <3>2, <4>1, <4>5, <6>1, SaveKeeps
        <5>. QED
          BY <4>1, <5>1 DEF Kept, SavedAs
      <4>. QED
        BY <4>2, <4>3, <4>4, <4>5 DEF Kept
    <3>. QED
      BY <2>3, <3>1, <3>2
  <2>5. ASSUME NEW m \in 1 .. n, e[m].kind = "mask", DInPlace(e, m), DPath(e, e[m].parent) # <<>>
        PROVE  MaskKept(e, gs, ss, m)
    <3> DEFINE p == d[m].parent
    <3>1. m \in 1 .. Len(d)
      BY <2>3, <2>5 DEF Kinds
    <3>2. d[m].kind = "mask" /\ DInPlace(d, m) /\ e[m] = d[m] /\ p \in 0 .. Len(d)
      BY <1>2, <2>1, <2>5, <3>1, GrownPlace, TreeNode
    <3>3. DPath(e, p) = DPath(d, p) /\ DPath(d, p) # <<>> /\ p # 0
      <4>1. DPath(d, 0) = <<>>
        BY <1>2, PathRec
      <4>. QED
        BY <2>5, <3>2, <4>1, GrownPath
    <3>4. \A x : HasMask(e, x, m) <=> HasMask(d, x, m)
      BY <3>2 DEF HasMask
    <3>5. MaskKept(d, fs, rs, m)
      BY <2>2, <3>1, <3>2, <3>3 DEF Saved
    <3>6. ASSUME NEW i \in 1 .. L, HasMask(d, Hd(fs, i, "reg"), m), ~(i = L /\ K = "reg")
          PROVE  MaskKept(e, gs, ss, m)
      <4>1. Hd(gs, i, "reg") = Hd(fs, i, "reg")
        BY <3>6 DEF Kinds
      <4>. QED
        BY <3>4, <3>6, <4>1 DEF MaskKept
    <3>7. ASSUME HasMask(d, r, m), K = "reg" PROVE MaskKept(e, gs, ss, m)
      <4>1. r.node = p
        BY <3>7 DEF HasMask
      <4>2. p \in 1 .. Len(d) /\ d[p].kind \in Kinds
        BY <1>1, <3>3, <4>1 DEF Good
      <4>3. DPath(d, p) \in DOMAIN ss /\ ss[DPath(d, p)] = r
        <5>1. Saves(rs, r, ss)
          BY DEF Saves
        <5> HIDE DEF ss, r
        <5>2. Stored(ss, DPath(d, p), r)
          BY <1>1, <1>2, <2>2, <3>3, <4>1, <4>2, <5>1, SaveKeeps
        <5>. QED
          BY <5>2 DEF Stored
      <4>. QED
        BY <3>2, <3>3, <3>4, <3>7, <4>3 DEF MaskKept
    <3>8. ASSUME DPath(d, p) \in DOMAIN rs, HasMask(d, rs[DPath(d, p)], m) PROVE MaskKept(e, gs, ss, m)
      <4>1. rs[DPath(d, p)].node = p
        BY <3>8 DEF HasMask
      <4>2. p \in 1 .. Len(d) /\ d[p].kind \in Kinds
        <5>1. PICK k \in Kinds : Good(d, rs[DPath(d, p)], k)
          BY <3>8 DEF Right
        <5>. QED
          BY <3>3, <4>1, <5>1 DEF Good
      <4>3. r.node # p
        BY <1>1, <3>3, <3>8, <4>1 DEF Single
      <4>4. DPath(d, p) \in DOMAIN ss /\ ss[DPath(d, p)] = rs[DPath(d, p)]
        <5>1. Saves(rs, r, ss)
          BY DEF Saves
        <5> HIDE DEF ss, r
        <5>2. Stored(ss, DPath(d, p), rs[DPath(d, p)])
          BY <1>1, <1>2, <2>2, <3>3, <3>8, <4>2, <4>3, <5>1, SaveKeeps
        <5>. QED
          BY <5>2 DEF Stored
      <4>. QED
        BY <3>2, <3>3, <3>4, <3>8, <4>4 DEF MaskKept
    <3>. QED
      BY <3>5, <3>6, <3>7, <3>8 DEF MaskKept
  <2>. QED
    BY <2>4, <2>5
<1>. QED
  BY <1>4, <1>7, <1>8

\* A node that is neither a block nor a register, and perhaps a file that holds nothing.
LEMMA NothingHeld ==
  ASSUME NEW d, NEW e, Grows(d, e), NEW fs, Len(fs) \in Nat \ {0}, NEW rs, NEW gs,
         Len(gs) = Len(fs) + 1,
         Right(d, fs, rs), Single(fs, rs), Saved(d, fs, rs), e[Len(d) + 1].kind = "mod",
         \A i \in 1 .. Len(fs), k \in Kinds : Hd(gs, i, k) = Hd(fs, i, k),
         \A k \in Kinds : Hd(gs, Len(fs) + 1, k) = NoRegister,
         \A i \in 1 .. Len(gs) : gs[i].baseaddr = gs[i].currentblock.Addr
  PROVE  Right(e, gs, rs) /\ Single(gs, rs) /\ Saved(e, gs, rs)
<1> DEFINE L == Len(fs)
           n == Len(d) + 1
<1>1. \A i \in 1 .. Len(gs) : i \in 1 .. L \/ i = L + 1
  OBVIOUS
<1>2. \A i \in 1 .. L : i \in 1 .. Len(gs)
  OBVIOUS
<1>3. Tree(d) /\ Tree(e) /\ Len(d) \in Nat /\ Len(e) = n
  BY DEF Grows, Tree
<1>4. \A k \in Kinds : Good(e, Hd(gs, L + 1, k), k) /\ Hd(gs, L + 1, k).node = 0
  BY DEF Good, NoRegister
<1>5. Right(e, gs, rs)
  <2>1. \A i \in 1 .. Len(gs), k \in Kinds :
          \/ Good(e, Hd(gs, i, k), k)
          \/ i \in 1 .. Len(fs) /\ Hd(gs, i, k) = Hd(fs, i, k)
    BY <1>1, <1>4
  <2>. QED
    BY <2>1, RightStep DEF Later
<1>6. Single(gs, rs)
  <2>1. ASSUME NEW i \in 1 .. Len(gs), NEW k \in Kinds, Hd(gs, i, k).node # 0
        PROVE  i \in 1 .. L /\ Hd(gs, i, k) = Hd(fs, i, k)
    BY <1>1, <1>4, <2>1
  <2>2. ASSUME NEW i \in 1 .. Len(gs), NEW j \in 1 .. Len(gs), NEW k \in Kinds, NEW l \in Kinds,
               Hd(gs, i, k).node # 0, Hd(gs, i, k).node = Hd(gs, j, l).node
        PROVE  i = j /\ k = l
    <3>1. i \in 1 .. L /\ Hd(gs, i, k) = Hd(fs, i, k) /\ j \in 1 .. L /\ Hd(gs, j, l) = Hd(fs, j, l)
      BY <2>1, <2>2
    <3>. QED
      BY <2>2, <3>1 DEF Single
  <2>3. ASSUME NEW i \in 1 .. Len(gs), NEW k \in Kinds, NEW x \in DOMAIN rs, Hd(gs, i, k).node # 0
        PROVE  rs[x].node # Hd(gs, i, k).node
    BY <2>1, <2>3 DEF Single
  <2>. QED
    BY <2>2, <2>3 DEF Single
<1>7. Saved(e, gs, rs)
  <2> SUFFICES ASSUME DAllIds(e)
               PROVE  /\ \A m \in 1 .. n : (e[m].kind \in Kinds /\ DPath(e, m) # <<>>) => Kept(e, gs, rs, m)
                      /\ \A m \in 1 .. n :
                           (e[m].kind = "mask" /\ DInPlace(e, m) /\ DPath(e, e[m].parent) # <<>>)
                             => MaskKept(e, gs, rs, m)
    BY <1>3 DEF Saved
  <2>1. \A m \in 1 .. Len(d) : e[m] = d[m] /\ m \in 1 .. Len(e)
    BY <1>3 DEF Grows
  <2>2. DAllIds(d)
    BY <2>1 DEF DAllIds
  <2>3. \A m \in 1 .. n : m = n \/ m \in 1 .. Len(d)
    BY <1>3
  <2>4. ASSUME NEW m \in 1 .. n, e[m].kind \in Kinds, DPath(e, m) # <<>> PROVE Kept(e, gs, rs, m)
    <3>1. m \in 1 .. Len(d)
      BY <2>3, <2>4 DEF Kinds
    <3>2. d[m].kind \in Kinds /\ DPath(e, m) = DPath(d, m) /\ DPath(d, m) # <<>>
      BY <2>1, <2>4, <3>1, GrownPath
    <3>3. Kept(d, fs, rs, m)
      BY <2>2, <3>1, <3>2 DEF Saved
    <3>. QED
      BY <1>2, <3>2, <3>3 DEF Kept, SavedAs
  <2>5. ASSUME NEW m \in 1 .. n, e[m].kind = "mask", DInPlace(e, m), DPath(e, e[m].parent) # <<>>
        PROVE  MaskKept(e, gs, rs, m)
    <3> DEFINE p == d[m].parent
    <3>1. m \in 1 .. Len(d)
      BY <2>3, <2>5
    <3>2. d[m].kind = "mask" /\ DInPlace(d, m) /\ e[m] = d[m] /\ p \in 0 .. Len(d)
      BY <1>3, <2>1, <2>5, <3>1, GrownPlace, TreeNode
    <3>3. DPath(e, p) = DPath(d, p) /\ DPath(d, p) # <<>>
      BY <2>5, <3>2, GrownPath
    <3>4. \A x : HasMask(e, x, m) <=> HasMask(d, x, m)
      BY <3>2 DEF HasMask
    <3>5. MaskKept(d, fs, rs, m)
      BY <2>2, <3>1, <3>2, <3>3 DEF Saved
    <3>6. ASSUME NEW i \in 1 .. L, HasMask(d, Hd(fs, i, "reg"), m) PROVE MaskKept(e, gs, rs, m)
      <4>1. Hd(gs, i, "reg") = Hd(fs, i, "reg") /\ i \in 1 .. Len(gs)
        BY <1>2 DEF Kinds
      <4>. QED
        BY <3>4, <3>6, <4>1 DEF MaskKept
    <3>. QED
      BY <3>2, <3>3, <3>4, <3>5, <3>6 DEF MaskKept
  <2>. QED
    BY <2>4, <2>5
<1>. QED
  BY <1>5, <1>6, <1>7

\* A mask in place is below the last register of its file.
LEMMA MaskPlace ==
  ASSUME NEW d, NEW o, NEW fs, NEW e, NEW q, NEW gs, Starts(d, o, fs, e, q, gs),
         Attached(d, o, fs), e[Len(d) + 1].kind = "mask", DInPlace(e, Len(d) + 1)
  PROVE  e[Len(d) + 1].parent = fs[Len(fs)].currentreg.node /\ e[Len(d) + 1].parent # 0
<1> DEFINE n == Len(d) + 1
           p == Top(o)
           h == fs[Len(fs)]
<1>1. Tree(d) /\ Tree(e) /\ Len(e) = n /\ Len(d) \in Nat /\ Len(fs) \in Nat \ {0}
  BY StartFacts
<1>2. e[n].parent = p /\ Grows(d, e)
  BY DEF Starts
<1>3. n \in 1 .. Len(e) /\ p \in 0 .. Len(d)
  BY StartWay
<1>4. ~DRoot(e, n) /\ p = DLatest(e, "reg", n)
  BY <1>2 DEF DInPlace
<1>5. p \in 1 .. Len(d) /\ p # 0 /\ e[p].kind # "mod"
  BY <1>1, <1>2, <1>3, <1>4 DEF DRoot
<1>6. d[p].kind # "mod" /\ DFileOf(e, p) = DFileOf(d, p)
  BY <1>2, <1>5, GrownFile DEF Grows
<1>7. AtNode(d, h, p)
  <2>1. Len(o) \in Lasts(d, o) /\ p = o[Len(o)] /\ At(d, o, Len(o)) = Len(fs)
    BY <1>5, <1>6, StartFiles
  <2>. QED
    BY <2>1 DEF Attached
<1>8. DFileOf(e, n) = DFileOf(d, p)
  <2>1. DFileOf(e, n) = DFileOf(e, e[n].parent)
    BY <1>1, <1>3, <1>4, FileRec
  <2>. QED
    BY <2>1, <1>2, <1>6
<1>9. DLatest(e, "reg", n) = h.currentreg.node
  BY <1>2, <1>7, <1>8, LatestFound DEF AtNode
<1>. QED
  BY <1>2, <1>4, <1>5, <1>9

\* R is register r with mask n, which has its id as its key if all nodes have ids.
Gets(e, n, r, R, c) ==
  /\ r.node # 0 /\ R.node = r.node /\ R.Name = r.Name /\ R.Addr = r.Addr
  /\ R.msks = withMask(r.msks, c, newmask(MaskOf[e[n].id]))
  /\ DAllIds(e) => c = e[n].id
  /\ DInPlace(e, n) => e[n].parent = r.node

\* A mask, which the last register gets.
LEMMA MaskHeld ==
  ASSUME NEW d, NEW e, Grows(d, e), NEW fs, Len(fs) \in Nat \ {0}, NEW rs, NEW gs, Len(gs) = Len(fs),
         Right(d, fs, rs), Single(fs, rs), Saved(d, fs, rs), e[Len(d) + 1].kind = "mask",
         NEW r, NEW R, NEW c, Gets(e, Len(d) + 1, r, R, c), Hd(fs, Len(fs), "reg") = r,
         \A i \in 1 .. Len(fs), k \in Kinds :
           Hd(gs, i, k) = IF i = Len(fs) /\ k = "reg" THEN R ELSE Hd(fs, i, k),
         \A i \in 1 .. Len(gs) : gs[i].baseaddr = gs[i].currentblock.Addr
  PROVE  Right(e, gs, rs) /\ Single(gs, rs) /\ Saved(e, gs, rs)
<1> DEFINE L == Len(fs)
           n == Len(d) + 1
<1>0. /\ r.node # 0 /\ R.node = r.node /\ R.Name = r.Name /\ R.Addr = r.Addr
      /\ R.msks = withMask(r.msks, c, newmask(MaskOf[e[n].id]))
      /\ DAllIds(e) => c = e[n].id
      /\ DInPlace(e, n) => e[n].parent = r.node
  BY DEF Gets
<1>1. L \in 1 .. L /\ "reg" \in Kinds /\ Good(d, r, "reg")
  <2>1. L \in 1 .. L /\ "reg" \in Kinds
    BY DEF Kinds
  <2>. QED
    BY <2>1 DEF Right
<1>2. Tree(d) /\ Tree(e) /\ Len(d) \in Nat /\ Len(e) = n /\ n \in 1 .. Len(e)
  BY DEF Grows, Tree
<1>3. Good(e, R, "reg")
  <2>1. Good(e, r, "reg")
    BY <1>1, GoodGrows
  <2>. QED
    BY <1>0, <2>1 DEF Good
<1>4. Right(e, gs, rs)
  <2>1. \A i \in 1 .. Len(gs), k \in Kinds :
          \/ Good(e, Hd(gs, i, k), k)
          \/ i \in 1 .. Len(fs) /\ Hd(gs, i, k) = Hd(fs, i, k)
    BY <1>3
  <2>. QED
    BY <2>1, RightStep DEF Later
<1>5. ASSUME NEW i \in 1 .. L, NEW k \in Kinds PROVE Hd(gs, i, k).node = Hd(fs, i, k).node
  <2>1. CASE i = L /\ k = "reg"
    BY <1>0, <2>1
  <2>2. CASE ~(i = L /\ k = "reg")
    BY <2>2
  <2>. QED
    BY <2>1, <2>2
<1>6. Single(gs, rs)
  <2>1. ASSUME NEW i \in 1 .. L, NEW j \in 1 .. L, NEW k \in Kinds, NEW l \in Kinds,
               Hd(gs, i, k).node # 0, Hd(gs, i, k).node = Hd(gs, j, l).node
        PROVE  i = j /\ k = l
    BY <1>5, <2>1 DEF Single
  <2>2. ASSUME NEW i \in 1 .. L, NEW k \in Kinds, NEW x \in DOMAIN rs, Hd(gs, i, k).node # 0
        PROVE  rs[x].node # Hd(gs, i, k).node
    BY <1>5, <2>2 DEF Single
  <2>. QED
    BY <2>1, <2>2 DEF Single
<1>7. Saved(e, gs, rs)
  <2> SUFFICES ASSUME DAllIds(e)
               PROVE  /\ \A m \in 1 .. n : (e[m].kind \in Kinds /\ DPath(e, m) # <<>>) => Kept(e, gs, rs, m)
                      /\ \A m \in 1 .. n :
                           (e[m].kind = "mask" /\ DInPlace(e, m) /\ DPath(e, e[m].parent) # <<>>)
                             => MaskKept(e, gs, rs, m)
    BY <1>2 DEF Saved
  <2>1. \A m \in 1 .. Len(d) : e[m] = d[m] /\ m \in 1 .. Len(e)
    BY <1>2 DEF Grows
  <2>2. DAllIds(d)
    BY <2>1 DEF DAllIds
  <2>3. \A m \in 1 .. n : m = n \/ m \in 1 .. Len(d)
    BY <1>2
  <2>4. ASSUME NEW m \in 1 .. n, e[m].kind \in Kinds, DPath(e, m) # <<>> PROVE Kept(e, gs, rs, m)
    <3>1. m \in 1 .. Len(d)
      BY <2>3, <2>4 DEF Kinds
    <3>2. d[m].kind \in Kinds /\ DPath(e, m) = DPath(d, m) /\ DPath(d, m) # <<>>
      BY <2>1, <2>4, <3>1, GrownPath
    <3>3. Kept(d, fs, rs, m)
      BY <2>2, <3>1, <3>2 DEF Saved
    <3>. QED
      BY <1>5, <3>2, <3>3 DEF Kept, SavedAs
  <2>5. ASSUME NEW m \in 1 .. Len(d), e[m].kind = "mask", DInPlace(e, m), DPath(e, e[m].parent) # <<>>
        PROVE  MaskKept(e, gs, rs, m)
    <3> DEFINE p == d[m].parent
    <3>1. d[m].kind = "mask" /\ DInPlace(d, m) /\ e[m] = d[m] /\ p \in 0 .. Len(d)
      BY <1>2, <2>1, <2>5, GrownPlace, TreeNode
    <3>2. DPath(e, p) = DPath(d, p) /\ DPath(d, p) # <<>>
      BY <2>5, <3>1, GrownPath
    <3>3. \A x : HasMask(e, x, m) <=> HasMask(d, x, m)
      BY <3>1 DEF HasMask
    <3>4. MaskKept(d, fs, rs, m)
      BY <2>2, <3>1, <3>2 DEF Saved
    <3>5. ASSUME HasMask(d, r, m) PROVE HasMask(d, R, m)
      <4> DEFINE w == newmask(MaskOf[e[n].id])
      <4>1. r.node = p /\ d[m].id \in DOMAIN r.msks /\ r.msks[d[m].id].value = MaskOf[d[m].id]
        BY <3>5 DEF HasMask
      <4>2. d[m].id \in DOMAIN R.msks
        BY <1>0, <4>1 DEF withMask
      <4>3. R.msks[d[m].id] = IF d[m].id = c THEN w ELSE r.msks[d[m].id]
        BY <1>0, <4>1 DEF withMask
      <4>4. w.value = MaskOf[c]
        BY <1>0 DEF newmask
      <4>5. R.msks[d[m].id].value = MaskOf[d[m].id]
        BY <4>1, <4>3, <4>4
      <4>. QED
        BY <1>0, <4>1, <4>2, <4>5 DEF HasMask
    <3>6. ASSUME NEW i \in 1 .. L, HasMask(d, Hd(fs, i, "reg"), m) PROVE MaskKept(e, gs, rs, m)
      <4>1. HasMask(d, Hd(gs, i, "reg"), m)
        <5>1. CASE i = L
          BY <1>1, <3>5, <3>6, <5>1
        <5>2. CASE i # L
          BY <1>1, <3>6, <5>2
        <5>. QED
          BY <5>1, <5>2
      <4>. QED
        BY <3>3, <4>1 DEF MaskKept
    <3>. QED
      BY <3>1, <3>2, <3>3, <3>4, <3>6 DEF MaskKept
  <2>6. ASSUME DInPlace(e, n) PROVE MaskKept(e, gs, rs, n)
    <3>1. R.node = e[n].parent /\ c = e[n].id
      BY <1>0, <2>6
    <3>2. c \in DOMAIN R.msks /\ R.msks[c] = newmask(MaskOf[e[n].id])
      BY <1>0 DEF withMask
    <3>3. R.msks[c].value = MaskOf[e[n].id]
      BY <3>2 DEF newmask
    <3>4. HasMask(e, R, n)
      BY <3>1, <3>2, <3>3 DEF HasMask
    <3>5. Hd(gs, L, "reg") = R
      BY <1>1
    <3>. QED
      BY <1>1, <3>4, <3>5 DEF MaskKept
  <2>. QED
    BY <2>3, <2>4, <2>5, <2>6
<1>. QED
  BY <1>4, <1>6, <1>7

\* The end of a file: what it holds is saved.
LEMMA LastSaved ==
  ASSUME NEW d, Tree(d), NEW fs, Len(fs) \in Nat \ {0}, NEW rs, NEW gs, Len(gs) = Len(fs) - 1,
         Right(d, fs, rs), Single(fs, rs), Saved(d, fs, rs),
         \A i \in 1 .. Len(fs) - 1 : gs[i] = fs[i]
  PROVE  LET ss == save(save(rs, Hd(fs, Len(fs), "reg")), Hd(fs, Len(fs), "blk"))
         IN  Right(d, gs, ss) /\ Single(gs, ss) /\ Saved(d, gs, ss)
<1> DEFINE L == Len(fs)
           a == Hd(fs, L, "reg")
           b == Hd(fs, L, "blk")
           as == save(rs, a)
           ss == save(as, b)
<1>1. L \in 1 .. L /\ "reg" \in Kinds /\ "blk" \in Kinds /\ "reg" # "blk"
  BY DEF Kinds
<1>2. Good(d, a, "reg") /\ Good(d, b, "blk")
  BY <1>1 DEF Right
<1>3. ASSUME NEW i \in 1 .. Len(gs), NEW k
      PROVE  i \in 1 .. L /\ i # L /\ gs[i] = fs[i] /\ Hd(gs, i, k) = Hd(fs, i, k)
  BY DEF Hd
<1>4. ASSUME NEW i \in 1 .. L, i # L PROVE i \in 1 .. Len(gs)
  BY <1>4
<1> HIDE DEF a, b
<1>5. /\ \A x \in DOMAIN ss : ss[x] = b \/ (x \in DOMAIN as /\ ss[x] = as[x])
      /\ \A x \in DOMAIN as : as[x] = a \/ (x \in DOMAIN rs /\ as[x] = rs[x])
  BY InSaved
<1>6. Saves(rs, a, as) /\ Saves(as, b, ss)
  BY DEF Saves
<1> HIDE DEF as, ss
<1>7. \A x \in DOMAIN ss : ss[x] = a \/ ss[x] = b \/ (x \in DOMAIN rs /\ ss[x] = rs[x])
  BY <1>5
<1>8. Right(d, gs, ss)
  <2>1. \A x \in DOMAIN ss : (x \in DOMAIN rs /\ ss[x] = rs[x]) \/ \E k \in Kinds : Good(d, ss[x], k)
    BY <1>1, <1>2, <1>7
  <2>2. ASSUME NEW i \in 1 .. Len(gs) PROVE gs[i].baseaddr = gs[i].currentblock.Addr
    <3>1. i \in 1 .. L /\ gs[i] = fs[i]
      BY <1>3
    <3>. QED
      BY <3>1 DEF Right
  <2>3. \A i \in 1 .. Len(gs), k \in Kinds :
          \/ Good(d, Hd(gs, i, k), k)
          \/ i \in 1 .. Len(fs) /\ Hd(gs, i, k) = Hd(fs, i, k)
    BY <1>3
  <2>4. Later(d, d)
    BY DEF Later
  <2>. QED
    BY <2>1, <2>2, <2>3, <2>4, RightStep
<1>9. Single(gs, ss)
  <2>1. ASSUME NEW i \in 1 .. Len(gs), NEW j \in 1 .. Len(gs), NEW k \in Kinds, NEW l \in Kinds,
               Hd(gs, i, k).node # 0, Hd(gs, i, k).node = Hd(gs, j, l).node
        PROVE  i = j /\ k = l
    BY <1>3, <2>1 DEF Single
  <2>2. ASSUME NEW i \in 1 .. Len(gs), NEW k \in Kinds, NEW x \in DOMAIN ss, Hd(gs, i, k).node # 0
        PROVE  ss[x].node # Hd(gs, i, k).node
    <3>1. i \in 1 .. L /\ i # L /\ Hd(gs, i, k) = Hd(fs, i, k)
      BY <1>3
    <3>2. a.node # Hd(fs, i, k).node /\ b.node # Hd(fs, i, k).node
      BY <1>1, <2>2, <3>1 DEF Single, a, b
    <3>3. ASSUME x \in DOMAIN rs PROVE rs[x].node # Hd(fs, i, k).node
      BY <2>2, <3>1, <3>3 DEF Single
    <3>. QED
      BY <1>7, <3>1, <3>2, <3>3
  <2>. QED
    BY <2>1, <2>2 DEF Single
<1>10. Saved(d, gs, ss)
  <2> SUFFICES ASSUME DAllIds(d)
               PROVE  /\ \A m \in 1 .. Len(d) :
                           (d[m].kind \in Kinds /\ DPath(d, m) # <<>>) => Kept(d, gs, ss, m)
                      /\ \A m \in 1 .. Len(d) :
                           (d[m].kind = "mask" /\ DInPlace(d, m) /\ DPath(d, d[m].parent) # <<>>)
                             => MaskKept(d, gs, ss, m)
    BY DEF Saved
  <2>1. ASSUME NEW m \in 1 .. Len(d), d[m].kind \in Kinds, DPath(d, m) # <<>> PROVE Kept(d, gs, ss, m)
    <3>1. SavedAs(d, as, m) => SavedAs(d, ss, m)
      BY <1>1, <1>2, <1>6, <2>1, SaveKeeps
    <3>2. SavedAs(d, rs, m) => SavedAs(d, as, m)
      BY <1>1, <1>2, <1>6, <2>1, SaveKeeps
    <3>3. ASSUME a.node = m PROVE SavedAs(d, as, m)
      <4>1. Stored(as, DPath(d, m), a)
        BY <1>1, <1>2, <1>6, <2>1, <3>3, SaveKeeps
      <4>. QED
        BY <3>3, <4>1 DEF Stored, SavedAs
    <3>4. ASSUME b.node = m PROVE SavedAs(d, ss, m)
      <4>1. Stored(ss, DPath(d, m), b)
        BY <1>1, <1>2, <1>6, <2>1, <3>4, SaveKeeps
      <4>. QED
        BY <3>4, <4>1 DEF Stored, SavedAs
    <3>5. Kept(d, fs, rs, m)
      BY <2>1 DEF Saved
    <3>6. ASSUME NEW i \in 1 .. L, NEW k \in Kinds, Hd(fs, i, k).node = m PROVE Kept(d, gs, ss, m)
      <4>1. CASE i = L
        <5>1. a.node = m \/ b.node = m
          BY <3>6, <4>1 DEF a, b, Kinds
        <5>. QED
          BY <3>1, <3>3, <3>4, <5>1 DEF Kept
      <4>2. CASE i # L
        <5>1. i \in 1 .. Len(gs) /\ Hd(gs, i, k).node = m
          BY <1>3, <1>4, <3>6, <4>2
        <5>. QED
          BY <5>1 DEF Kept
      <4>. QED
        BY <4>1, <4>2
    <3>. QED
      BY <3>1, <3>2, <3>5, <3>6 DEF Kept
  <2>2. ASSUME NEW m \in 1 .. Len(d), d[m].kind = "mask", DInPlace(d, m), DPath(d, d[m].parent) # <<>>
        PROVE  MaskKept(d, gs, ss, m)
    <3> DEFINE p == d[m].parent
    <3>1. p # 0
      <4>1. DPath(d, 0) = <<>>
        BY PathRec
      <4>. QED
        BY <2>2, <4>1
    <3>2. MaskKept(d, fs, rs, m)
      BY <2>2 DEF Saved
    <3>3. ASSUME HasMask(d, a, m) PROVE MaskKept(d, gs, ss, m)
      <4>1. a.node = p
        BY <3>3 DEF HasMask
      <4>2. p \in 1 .. Len(d) /\ d[p].kind \in Kinds
        BY <1>1, <1>2, <3>1, <4>1 DEF Good
      <4>3. Stored(as, DPath(d, p), a)
        BY <1>1, <1>2, <1>6, <2>2, <4>1, <4>2, SaveKeeps
      <4>4. b.node # p
        BY <1>1, <3>1, <4>1 DEF Single, a, b
      <4>5. DPath(d, p) \in DOMAIN as /\ as[DPath(d, p)] = a
        BY <4>3 DEF Stored
      <4>6. Stored(ss, DPath(d, p), as[DPath(d, p)])
        BY <1>1, <1>2, <1>6, <2>2, <4>2, <4>4, <4>5, SaveKeeps
      <4>. QED
        BY <3>3, <4>5, <4>6 DEF Stored, MaskKept
    <3>4. ASSUME DPath(d, p) \in DOMAIN rs, HasMask(d, rs[DPath(d, p)], m) PROVE MaskKept(d, gs, ss, m)
      <4>1. rs[DPath(d, p)].node = p
        BY <3>4 DEF HasMask
      <4>2. p \in 1 .. Len(d) /\ d[p].kind \in Kinds
        <5>1. PICK k \in Kinds : Good(d, rs[DPath(d, p)], k)
          BY <3>4 DEF Right
        <5>. QED
          BY <3>1, <4>1, <5>1 DEF Good
      <4>3. a.node # p /\ b.node # p
        BY <1>1, <3>1, <3>4, <4>1 DEF Single, a, b
      <4>4. Stored(as, DPath(d, p), rs[DPath(d, p)])
        BY <1>1, <1>2, <1>6, <2>2, <3>4, <4>2, <4>3, SaveKeeps
      <4>5. DPath(d, p) \in DOMAIN as /\ as[DPath(d, p)] = rs[DPath(d, p)]
        BY <4>4 DEF Stored
      <4>6. Stored(ss, DPath(d, p), as[DPath(d, p)])
        BY <1>1, <1>2, <1>6, <2>2, <4>2, <4>3, <4>5, SaveKeeps
      <4>. QED
        BY <3>4, <4>5, <4>6 DEF Stored, MaskKept
    <3>5. ASSUME NEW i \in 1 .. L, HasMask(d, Hd(fs, i, "reg"), m) PROVE MaskKept(d, gs, ss, m)
      <4>1. CASE i = L
        BY <3>3, <3>5, <4>1 DEF a
      <4>2. CASE i # L
        <5>1. i \in 1 .. Len(gs) /\ Hd(gs, i, "reg") = Hd(fs, i, "reg")
          BY <1>3, <1>4, <4>2
        <5>. QED
          BY <3>5, <5>1 DEF MaskKept
      <4>. QED
        BY <4>1, <4>2
    <3>. QED
      BY <3>2, <3>4, <3>5 DEF MaskKept
  <2>. QED
    BY <2>1, <2>2
<1>. QED
  BY <1>8, <1>9, <1>10 DEF ss, as, a, b

-----------------------------------------------------------------------------
(* An end tag and the end of a file.                                       *)

\* A sequence without its last element.
LEMMA Front ==
  ASSUME NEW S, NEW s \in Seq(S), s # <<>>
  PROVE  /\ Len(s) \in Nat \ {0} /\ SubSeq(s, 1, Len(s) - 1) \in Seq(S)
         /\ Len(SubSeq(s, 1, Len(s) - 1)) = Len(s) - 1
         /\ \A i \in 1 .. Len(s) - 1 : SubSeq(s, 1, Len(s) - 1)[i] = s[i]
<1>1. Len(s) \in Nat \ {0}
  OBVIOUS
<1>2. SubSeq(s, 1, Len(s) - 1) \in Seq(S) /\ Len(SubSeq(s, 1, Len(s) - 1)) = Len(s) - 1
  BY <1>1, LastTaken
<1>3. \A i \in 1 .. Len(s) - 1 : SubSeq(s, 1, Len(s) - 1)[i] = s[i]
  BY <1>1
<1>. QED
  BY <1>1, <1>2, <1>3

LEMMA Popped ==
  ASSUME NEW S, NEW s \in Seq(S), NEW x \in S, NEW t, t = Append(s, x)
  PROVE  SubSeq(t, 1, Len(t) - 1) = s
<1>1. t \in Seq(S) /\ t # <<>> /\ Len(t) = Len(s) + 1 /\ Len(s) \in Nat /\ \A i \in 1 .. Len(s) : t[i] = s[i]
  OBVIOUS
<1> DEFINE u == SubSeq(t, 1, Len(t) - 1)
<1>2. u \in Seq(S) /\ Len(u) = Len(t) - 1 /\ \A i \in 1 .. Len(t) - 1 : u[i] = t[i]
  BY <1>1, Front
<1> HIDE DEF u
<1>3. Len(u) = Len(s) /\ \A i \in 1 .. Len(s) : u[i] = s[i]
  BY <1>1, <1>2
<1>4. u = s
  BY <1>2, <1>3
<1>. QED
  BY <1>4 DEF u

\* The innermost open node ends, and its file drops the last id of its name.
Ends(d, o, fs, q, gs) ==
  /\ Tree(d) /\ Shape(d, o, fs) /\ o # <<>>
  /\ d[Top(o)].kind = "mod" => Len(fs) = Mods(d, o, Len(o))
  /\ q = SubSeq(o, 1, Len(o) - 1)
  /\ Len(gs) = Len(fs) /\ \A i \in 1 .. Len(fs) - 1 : gs[i] = fs[i]
  /\ LET h == fs[Len(fs)]
         g == gs[Len(fs)]
     IN  /\ g.name = IF h.name = <<>> THEN <<>> ELSE SubSeq(h.name, 1, Len(h.name) - 1)
         /\ g.toplevel = h.toplevel /\ g.filebaseaddr = h.filebaseaddr
         /\ g.currentblock = h.currentblock /\ g.currentreg = h.currentreg

LEMMA EndTag ==
  ASSUME NEW d, NEW o, NEW fs, NEW q, NEW gs, Ends(d, o, fs, q, gs), Attached(d, o, fs), Based(d, o, fs)
  PROVE  Shape(d, q, gs) /\ Attached(d, q, gs) /\ Unread(d, q, gs) /\ Based(d, q, gs)
<1> DEFINE D == Len(o)
           L == Len(fs)
<1>1. /\ Tree(d) /\ Len(d) \in Nat /\ o \in Seq(1 .. Len(d)) /\ o # <<>>
      /\ d[o[1]].parent = 0 /\ \A i \in 2 .. D : d[o[i]].parent = o[i - 1]
      /\ \A i, j \in 1 .. D : (i < j /\ d[o[i]].kind = "mod") => DFileOf(d, o[j]) > o[i]
  BY DEF Ends, Shape, Tree
<1>2. /\ D \in Nat \ {0} /\ q \in Seq(1 .. Len(d)) /\ Len(q) = D - 1
      /\ \A i \in 1 .. D - 1 : q[i] = o[i]
  BY <1>1, Front DEF Ends
<1>3. /\ \A i \in 1 .. D : o[i] \in 1 .. Len(d) /\ i \in Nat \ {0} /\ i <= D
      /\ D \in 1 .. D /\ D - 1 \in Nat /\ \A i \in 1 .. D - 1 : i \in 1 .. D /\ i <= D - 1 /\ i - 1 \in Nat
  BY <1>1, <1>2
<1>4. Top(o) = o[D]
  BY <1>1 DEF Top
<1>5. L = Mods(d, o, D - 1) + 1 /\ Mods(d, o, D - 1) \in Nat
  <2>1. /\ Mods(d, o, D) = Mods(d, o, D - 1) + (IF d[o[D]].kind = "mod" THEN 1 ELSE 0)
        /\ Mods(d, o, D - 1) \in Nat
    BY <1>2, <1>3, ModsCount
  <2>2. \/ L = Mods(d, o, D) + 1
        \/ L = Mods(d, o, D) /\ d[o[D]].kind = "mod"
    BY <1>4 DEF Ends, Shape
  <2>3. d[o[D]].kind = "mod" => L = Mods(d, o, D)
    BY <1>4 DEF Ends
  <2>. QED
    BY <2>1, <2>2, <2>3
<1>6. ASSUME NEW i \in 0 .. D - 1 PROVE Mods(d, q, i) = Mods(d, o, i)
  <2>1. ASSUME NEW j \in 1 .. i PROVE d[q[j]].kind = d[o[j]].kind
    <3>1. j \in 1 .. D - 1
      BY <1>3
    <3>. QED
      BY <3>1, <1>2
  <2>. QED
    BY <2>1, ModsSame
<1>7. ASSUME NEW i \in 1 .. D - 1, d[o[i]].kind = "mod"
      PROVE  Mods(d, o, i) \in 1 .. L - 1 /\ At(d, o, i) = Mods(d, o, i)
  <2>1. Mods(d, o, i) = Mods(d, o, i - 1) + (IF d[o[i]].kind = "mod" THEN 1 ELSE 0)
    BY <1>3, ModsCount
  <2>2. Mods(d, o, i - 1) \in Nat
    BY <1>3, ModsCount
  <2>3. Mods(d, o, i) <= Mods(d, o, D - 1)
    BY <1>3, ModsCount
  <2>. QED
    BY <1>5, <1>7, <2>1, <2>2, <2>3 DEF At
<1>8. /\ Len(gs) = L /\ \A i \in 1 .. L - 1 : gs[i] = fs[i]
      /\ L \in 1 .. L /\ L \in Nat
      /\ \A i \in 1 .. L : gs[i].filebaseaddr = fs[i].filebaseaddr
  <2>1. Len(gs) = L /\ (\A i \in 1 .. L - 1 : gs[i] = fs[i]) /\ gs[L].filebaseaddr = fs[L].filebaseaddr
    BY DEF Ends
  <2>2. L \in 1 .. L /\ L \in Nat
    BY <1>5
  <2>3. \A i \in 1 .. L : i \in 1 .. L - 1 \/ i = L
    BY <2>2
  <2>. QED
    BY <2>1, <2>2, <2>3
<1>9. Shape(d, q, gs)
  <2>1. q # <<>> => d[q[1]].parent = 0
    <3> SUFFICES ASSUME q # <<>> PROVE d[q[1]].parent = 0
      OBVIOUS
    <3>1. 1 \in 1 .. D - 1
      BY <1>2
    <3>. QED
      BY <1>1, <1>2, <3>1
  <2>2. ASSUME NEW i \in 2 .. Len(q) PROVE d[q[i]].parent = q[i - 1]
    <3>1. i \in 1 .. D - 1 /\ i - 1 \in 1 .. D - 1 /\ i \in 2 .. D
      BY <1>2
    <3>. QED
      BY <1>1, <1>2, <3>1
  <2>3. Len(gs) = Mods(d, q, Len(q)) + 1
    <3>1. D - 1 \in 0 .. D - 1
      BY <1>2
    <3>. QED
      BY <1>2, <1>5, <1>6, <1>8, <3>1
  <2>4. ASSUME NEW i \in 1 .. Len(q), NEW j \in 1 .. Len(q), i < j, d[q[i]].kind = "mod"
        PROVE  DFileOf(d, q[j]) > q[i]
    <3>1. i \in 1 .. D - 1 /\ j \in 1 .. D - 1 /\ i \in 1 .. D /\ j \in 1 .. D
      BY <1>2
    <3>. QED
      BY <1>1, <1>2, <2>4, <3>1
  <2>. QED
    BY <1>2, <2>1, <2>2, <2>3, <2>4 DEF Shape
<1>10. Attached(d, q, gs)
  <2> SUFFICES ASSUME NEW i \in Lasts(d, q) PROVE AtNode(d, gs[At(d, q, i)], q[i])
    BY DEF Attached
  <2>1. i \in 1 .. D - 1 /\ q[i] = o[i] /\ (i = D - 1 \/ d[o[i]].kind = "mod")
    BY <1>2 DEF Lasts
  <2>2. At(d, q, i) = At(d, o, i)
    <3>1. i - 1 \in 0 .. D - 1
      BY <2>1
    <3>. QED
      BY <1>6, <3>1 DEF At
  <2>3. CASE d[o[i]].kind = "mod"
    <3>1. At(d, o, i) \in 1 .. L - 1 /\ i \in Lasts(d, o)
      BY <1>3, <1>7, <2>1, <2>3 DEF Lasts
    <3>2. AtNode(d, fs[At(d, o, i)], o[i])
      BY <3>1 DEF Attached
    <3>. QED
      BY <1>8, <2>1, <2>2, <3>1, <3>2
  <2>4. CASE d[o[i]].kind # "mod"
    <3> DEFINE h == fs[L]
               g == gs[L]
               m == o[D]
               p == o[i]
    <3>1. i = D - 1 /\ D \in 2 .. D
      BY <1>2, <2>1, <2>4
    <3>2. d[m].parent = p /\ m \in 1 .. Len(d) /\ p \in 1 .. Len(d) /\ p \in 0 .. Len(d) /\ p # 0
      BY <1>1, <1>3, <2>1, <3>1
    <3>3. ~DRoot(d, m) /\ d[m].hasid
      <4>1. ~DRoot(d, m)
        BY <2>4, <3>2 DEF DRoot
      <4>. QED
        BY <1>1, <3>2, <4>1 DEF Tree
    <3>4. At(d, o, i) = L
      <4>0. i \in Nat \ {0} /\ i - 1 \in Nat
        BY <1>3, <2>1
      <4>1. Mods(d, o, i) = Mods(d, o, i - 1) + (IF d[o[i]].kind = "mod" THEN 1 ELSE 0)
        BY <4>0, ModsCount
      <4>2. Mods(d, o, i - 1) \in Nat
        BY <4>0, ModsCount
      <4>. QED
        BY <1>5, <2>4, <3>1, <4>1, <4>2 DEF At
    <3>5. AtNode(d, h, m)
      <4>1. D \in Lasts(d, o)
        BY <1>3 DEF Lasts
      <4>2. At(d, o, D) = L
        BY <1>5 DEF At
      <4>. QED
        BY <4>1, <4>2 DEF Attached
    <3>6. /\ g.name = IF h.name = <<>> THEN <<>> ELSE SubSeq(h.name, 1, Len(h.name) - 1)
          /\ g.toplevel = h.toplevel
          /\ g.currentblock = h.currentblock /\ g.currentreg = h.currentreg
      BY DEF Ends
    <3>7. DFileOf(d, m) = DFileOf(d, p)
      BY <1>1, <3>2, <3>3, FileRec
    <3>8. ASSUME DIds(d, p) PROVE g.name = DPath(d, p) /\ ~g.toplevel
      <4>1. DIds(d, m)
        <5>1. DAbove(d, m) = {m} \cup DAbove(d, p)
          BY <1>1, <3>2, AboveRec
        <5>. QED
          BY <3>3, <3>8, <5>1 DEF DIds
      <4>2. h.name = DPath(d, m) /\ ~h.toplevel
        BY <3>5, <4>1 DEF AtNode
      <4>3. DPath(d, m) = Append(DPath(d, p), d[m].id)
        <5>1. DPath(d, m) = IF DRoot(d, m) THEN DPath(d, d[m].parent)
                            ELSE Append(DPath(d, d[m].parent), d[m].id)
          BY <1>1, <3>2, PathRec
        <5>. QED
          BY <3>2, <3>3, <5>1
      <4>4. DPath(d, p) \in Seq(1 .. MaxNodes) /\ d[m].id \in 1 .. MaxNodes
        BY <1>1, <3>2, PathRec, TreeNode DEF Names
      <4>5. h.name # <<>> /\ SubSeq(h.name, 1, Len(h.name) - 1) = DPath(d, p)
        <5>1. h.name = Append(DPath(d, p), d[m].id)
          BY <4>2, <4>3
        <5>2. h.name # <<>>
          BY <4>4, <5>1, Appended
        <5>. QED
          BY <4>4, <5>1, <5>2, Popped
      <4>. QED
        BY <3>6, <4>2, <4>5
    <3>9. AtNode(d, g, p)
      BY <3>5, <3>6, <3>7, <3>8 DEF AtNode
    <3>. QED
      BY <2>1, <2>2, <3>4, <3>9
  <2>. QED
    BY <2>3, <2>4
<1>11. Unread(d, q, gs)
  <2> SUFFICES ASSUME Fresh(d, q) PROVE FALSE
    BY DEF Unread
  <2>1. CASE q = <<>>
    <3>1. d = <<>>
      BY <2>1 DEF Fresh
    <3>2. o[D] \in 1 .. Len(d)
      BY <1>3
    <3>. QED
      BY <3>1, <3>2
  <2>2. CASE q # <<>>
    <3>1. D \in 2 .. D /\ D - 1 \in 1 .. D - 1 /\ Top(q) = q[D - 1]
      BY <1>2, <2>2 DEF Top
    <3>2. d[o[D]].parent = Top(q) /\ o[D] \in 1 .. Len(d)
      BY <1>1, <1>2, <1>3, <3>1
    <3>3. HasRoot(d, Top(q))
      BY <3>2 DEF HasRoot
    <3>. QED
      BY <2>2, <3>3 DEF Fresh
  <2>. QED
    BY <2>1, <2>2
<1>12. Based(d, q, gs)
  <2>1. gs[1].filebaseaddr = 0
    <3>1. 1 \in 1 .. L
      BY <1>5
    <3>. QED
      BY <1>8, <3>1 DEF Based
  <2>2. ASSUME NEW i \in 1 .. Len(q), d[q[i]].kind = "mod", DPlaced(d, q[i])
        PROVE  gs[Mods(d, q, i) + 1].filebaseaddr = DAddress(d, q[i])
    <3>1. i \in 1 .. D - 1 /\ q[i] = o[i] /\ i \in 0 .. D - 1 /\ i \in 1 .. D
      BY <1>2, <1>3
    <3>2. Mods(d, q, i) = Mods(d, o, i) /\ Mods(d, o, i) \in 1 .. L - 1
      BY <1>6, <1>7, <2>2, <3>1
    <3>3. Mods(d, o, i) + 1 <= L /\ Mods(d, o, i) + 1 \in 1 .. L
      BY <1>5, <3>2
    <3>4. fs[Mods(d, o, i) + 1].filebaseaddr = DAddress(d, o[i])
      BY <2>2, <3>1, <3>3 DEF Based
    <3>. QED
      BY <1>8, <3>1, <3>2, <3>3, <3>4
  <2>. QED
    BY <2>1, <2>2 DEF Based
<1>. QED
  BY <1>9, <1>10, <1>11, <1>12

\* The file of a module ends; the file of the module goes on.
LEMMA EndFile ==
  ASSUME NEW d, Tree(d), NEW o, NEW fs, Shape(d, o, fs), Attached(d, o, fs), Based(d, o, fs),
         Len(fs) = Mods(d, o, Len(o)) + 1, Len(fs) # 1,
         Top(o) # 0 => d[Top(o)].kind = "mod" /\ HasRoot(d, Top(o)),
         NEW gs, Len(gs) = Len(fs) - 1, \A i \in 1 .. Len(fs) - 1 : gs[i] = fs[i]
  PROVE  Shape(d, o, gs) /\ Attached(d, o, gs) /\ Unread(d, o, gs) /\ Based(d, o, gs)
<1> DEFINE D == Len(o)
           L == Len(fs)
<1>1. o \in Seq(1 .. Len(d)) /\ Len(d) \in Nat /\ D \in Nat
  BY DEF Shape, Tree
<1>2. /\ L = Mods(d, o, D) + 1 /\ Mods(d, o, D) \in Nat /\ L \in Nat /\ L > 1
      /\ Len(gs) = Mods(d, o, D)
  <2>1. Mods(d, o, D) \in Nat
    BY <1>1, ModsCount
  <2>. QED
    BY <2>1
<1>3. o # <<>>
  <2>1. D # 0
    <3>1. Mods(d, o, 0) = 0
      BY ModsCount
    <3>. QED
      BY <1>2, <3>1
  <2>. QED
    BY <1>1, <2>1
<1>4. D \in 1 .. D /\ Top(o) = o[D] /\ o[D] \in 1 .. Len(d)
  BY <1>1, <1>3 DEF Top
<1>5. d[Top(o)].kind = "mod" /\ HasRoot(d, Top(o))
  BY <1>4
<1>6. Shape(d, o, gs)
  BY <1>2, <1>3, <1>5 DEF Shape
<1>7. ASSUME NEW i \in 1 .. D, d[o[i]].kind = "mod"
      PROVE  Mods(d, o, i) \in 1 .. L - 1 /\ At(d, o, i) = Mods(d, o, i)
  <2>0. i \in Nat \ {0} /\ i - 1 \in Nat /\ i <= D
    BY <1>1
  <2>1. Mods(d, o, i) = Mods(d, o, i - 1) + (IF d[o[i]].kind = "mod" THEN 1 ELSE 0)
    BY <2>0, ModsCount
  <2>2. Mods(d, o, i - 1) \in Nat
    BY <2>0, ModsCount
  <2>3. Mods(d, o, i) <= Mods(d, o, D)
    BY <1>1, <2>0, ModsCount
  <2>. QED
    BY <1>2, <1>7, <2>1, <2>2, <2>3 DEF At
<1>8. Attached(d, o, gs)
  <2> SUFFICES ASSUME NEW i \in Lasts(d, o) PROVE AtNode(d, gs[At(d, o, i)], o[i])
    BY DEF Attached
  <2>1. i \in 1 .. D /\ d[o[i]].kind = "mod"
    BY <1>4, <1>5 DEF Lasts
  <2>2. gs[At(d, o, i)] = fs[At(d, o, i)]
    BY <1>7, <2>1
  <2>. QED
    BY <2>2 DEF Attached
<1>9. Unread(d, o, gs)
  BY <1>3, <1>5 DEF Unread, Fresh
<1>10. Based(d, o, gs)
  <2>1. gs[1].filebaseaddr = 0
    <3>1. 1 \in 1 .. L - 1
      BY <1>2
    <3>. QED
      BY <3>1 DEF Based
  <2>2. ASSUME NEW i \in 1 .. D, d[o[i]].kind = "mod", Mods(d, o, i) + 1 <= Len(gs), DPlaced(d, o[i])
        PROVE  gs[Mods(d, o, i) + 1].filebaseaddr = DAddress(d, o[i])
    <3>1. Mods(d, o, i) \in 1 .. L - 1
      BY <1>7, <2>2
    <3>2. Mods(d, o, i) + 1 \in 1 .. L - 1 /\ Mods(d, o, i) + 1 <= L
      BY <1>2, <2>2, <3>1
    <3>3. fs[Mods(d, o, i) + 1].filebaseaddr = DAddress(d, o[i])
      BY <2>2, <3>2 DEF Based
    <3>. QED
      BY <3>2, <3>3
  <2>. QED
    BY <2>1, <2>2 DEF Based
<1>. QED
  BY <1>6, <1>8, <1>9, <1>10

-----------------------------------------------------------------------------
(* The parser keeps its registers.                                         *)

\* The inductive invariant.
TInv ==
  /\ IInv
  /\ Tree(doc)
  /\ status = "parsing" =>
       /\ Shape(doc, open, files) /\ Attached(doc, open, files)
       /\ Unread(doc, open, files) /\ Based(doc, open, files)
       /\ Single(files, Regs)
  /\ Right(doc, files, Regs)
  /\ status \in {"parsing", "done"} => Saved(doc, files, Regs)
  /\ status = "panic" => doc # <<>> /\ ~(doc[Len(doc)].kind = "mask" /\ DInPlace(doc, Len(doc)))
  /\ status = "done" => files = <<>>

\* The node of the next start tag.
NewNode(nd) ==
  /\ nd \in Node /\ nd.parent = top
  /\ nd.id = Cardinality({n \in 1 .. Len(doc) : parent(n) = top}) + 1

LEMMA TInitially == Init => TInv
<1> SUFFICES ASSUME Init PROVE TInv
  OBVIOUS
<1>1. IInv
  BY Initially
<1>2. doc = <<>> /\ open = <<>> /\ files = <<newfile(<<>>, 0)>> /\ Regs = << >> /\ status = "parsing"
      /\ Len(doc) = 0 /\ Len(open) = 0 /\ Len(files) = 1 /\ files[1] = newfile(<<>>, 0)
  BY DEF Init
<1>3. Tree(doc)
  BY <1>1, <1>2 DEF Tree, IInv
<1>4. Shape(doc, open, files)
  <2>1. Mods(doc, open, 0) = 0
    BY ModsCount
  <2>2. open \in Seq(1 .. Len(doc))
    BY <1>1 DEF IInv
  <2>. QED
    BY <1>2, <2>1, <2>2 DEF Shape
<1>5. Attached(doc, open, files)
  BY <1>2 DEF Attached, Lasts
<1>6. /\ files[1].name = <<>> /\ files[1].filebaseaddr = 0 /\ files[1].baseaddr = 0
      /\ files[1].currentblock = NoRegister /\ files[1].currentreg = NoRegister
  BY <1>2 DEF newfile
<1>7. Unread(doc, open, files)
  <2>1. Top(open) = 0
    BY <1>2 DEF Top
  <2>2. DPath(doc, 0) = <<>>
    BY <1>3, PathRec
  <2>. QED
    BY <1>2, <1>6, <2>1, <2>2 DEF Unread
<1>8. Based(doc, open, files)
  BY <1>2, <1>6 DEF Based
<1>9. \A i \in 1 .. Len(files), k \in Kinds : Hd(files, i, k) = NoRegister
  BY <1>2, <1>6 DEF Hd
<1>10. NoRegister.node = 0 /\ NoRegister.Addr = 0
  BY DEF NoRegister
<1>11. Single(files, Regs)
  BY <1>2, <1>9, <1>10 DEF Single
<1>12. Right(doc, files, Regs)
  <2>1. \A i \in 1 .. Len(files) : files[i].baseaddr = files[i].currentblock.Addr
    BY <1>2, <1>6, <1>10
  <2>2. \A i \in 1 .. Len(files), k \in Kinds : Good(doc, Hd(files, i, k), k)
    BY <1>9, <1>10 DEF Good
  <2>3. DOMAIN Regs = {}
    BY <1>2
  <2>. QED
    BY <2>1, <2>2, <2>3 DEF Right
<1>13. Saved(doc, files, Regs)
  BY <1>2 DEF Saved
<1>. QED
  BY <1>1, <1>2, <1>3, <1>4, <1>5, <1>7, <1>8, <1>11, <1>12, <1>13 DEF TInv

\* The start tag is one as above.
LEMMA StartIs ==
  ASSUME TInv, NEW nd, NewNode(nd), Start(nd),
         Len(files') = Len(files) + (IF nd.kind = "mod" THEN 1 ELSE 0),
         \A i \in 1 .. Len(files) - 1 : files'[i] = files[i]
  PROVE  /\ Starts(doc, open, files, doc', open', files')
         /\ doc'[Len(doc) + 1] = nd /\ Len(doc') = Len(doc) + 1
<1>1. /\ status = "parsing" /\ Len(doc) < MaxNodes /\ doc' = Append(doc, nd)
      /\ open' = Append(open, Len(doc) + 1)
      /\ IF open = <<>> THEN doc = <<>>
         ELSE kind(top) = "mod" => \A n \in 1 .. Len(doc) : parent(n) # top
      /\ (top # 0 /\ kind(top) # "mod") => nd.hasid
  BY DEF Start
<1>2. Tree(doc) /\ Shape(doc, open, files)
  BY <1>1 DEF TInv
<1>3. top = Top(open)
  BY DEF top, Top
<1>4. Len(doc) \in Nat /\ open \in Seq(1 .. Len(doc))
  BY <1>2 DEF Tree, Shape
<1>5. top \in 0 .. Len(doc) /\ (top = 0 <=> open = <<>>)
  <2>1. CASE open = <<>>
    BY <1>4, <2>1 DEF top
  <2>2. CASE open # <<>>
    <3>1. open[Len(open)] \in 1 .. Len(doc)
      BY <1>4, <2>2
    <3>. QED
      BY <1>4, <2>2, <3>1 DEF top
  <2>. QED
    BY <2>1, <2>2
<1>6. (top # 0 /\ doc[top].kind = "mod") => \A i \in 1 .. Len(doc) : doc[i].parent # top
  BY <1>1, <1>5 DEF kind, parent
<1>7. top = 0 => doc = <<>>
  BY <1>1, <1>5
<1>8. (top # 0 /\ doc[top].kind # "mod") => nd.hasid
  BY <1>1 DEF kind
<1>9. nd \in Node /\ nd.parent = top /\ nd.id = Cardinality({i \in 1 .. Len(doc) : doc[i].parent = top}) + 1
  BY DEF NewNode, parent
<1>10. Grows(doc, doc') /\ doc'[Len(doc) + 1] = nd /\ \A i \in 1 .. Len(doc) : doc'[i] = doc[i]
  BY <1>1, <1>2, <1>5, <1>6, <1>7, <1>8, <1>9, TreeGrows
<1>11. Len(files) = Mods(doc, open, Len(open)) + 1
  <2>1. \/ Len(files) = Mods(doc, open, Len(open)) + 1
        \/ open # <<>> /\ doc[top].kind = "mod" /\ HasRoot(doc, top)
    BY <1>2, <1>3 DEF Shape
  <2>2. ASSUME open # <<>>, doc[top].kind = "mod", HasRoot(doc, top) PROVE FALSE
    BY <1>5, <1>6, <2>2 DEF HasRoot
  <2>. QED
    BY <2>1, <2>2
<1>12. ASSUME DRoot(doc', Len(doc) + 1) PROVE Fresh(doc, open)
  <2>1. top = 0 \/ doc'[top].kind = "mod"
    BY <1>9, <1>10, <1>12 DEF DRoot
  <2>2. CASE top = 0
    BY <1>5, <1>7, <2>2 DEF Fresh
  <2>3. CASE top # 0
    <3>1. top \in 1 .. Len(doc)
      BY <1>4, <1>5, <2>3
    <3>2. doc[top].kind = "mod"
      BY <1>10, <2>1, <2>3, <3>1
    <3>. QED
      BY <1>3, <1>5, <1>6, <2>3, <3>2 DEF Fresh, HasRoot
  <2>. QED
    BY <2>2, <2>3
<1>13. Len(doc') = Len(doc) + 1
  BY <1>10 DEF Grows
<1>. QED
  BY <1>1, <1>2, <1>3, <1>9, <1>10, <1>11, <1>12, <1>13 DEF Starts

\* After a start tag the files are where they should be.
LEMMA StartParsing ==
  ASSUME NEW d, NEW o, NEW fs, NEW e, NEW q, NEW gs, Starts(d, o, fs, e, q, gs),
         Attached(d, o, fs), Unread(d, o, fs), Based(d, o, fs),
         Updates(e, Len(d) + 1, fs[Len(fs)], gs[Len(fs)]),
         NEW a, e[Len(d) + 1].kind = "mod" => gs[Len(fs) + 1] = newfile(gs[Len(fs)].name, a),
         (e[Len(d) + 1].kind = "mod" /\ DPlaced(e, Len(d) + 1)) => a = DAddress(e, Len(d) + 1)
  PROVE  Shape(e, q, gs) /\ Attached(e, q, gs) /\ Unread(e, q, gs) /\ Based(e, q, gs) /\ Tree(e)
<1>1. Shape(e, q, gs) /\ Tree(e)
  BY StartShape, StartFacts
<1>2. Attached(e, q, gs)
  BY StartAttached
<1>3. Unread(e, q, gs)
  BY StartUnread
<1>4. gs[Len(fs)].filebaseaddr = fs[Len(fs)].filebaseaddr
  BY DEF Updates
<1>5. (e[Len(d) + 1].kind = "mod" /\ DPlaced(e, Len(d) + 1)) =>
        gs[Len(fs) + 1].filebaseaddr = DAddress(e, Len(d) + 1)
  BY DEF newfile
<1>6. Based(e, q, gs)
  BY <1>4, <1>5, StartBased
<1>. QED
  BY <1>1, <1>2, <1>3, <1>6

\* The file after the attributes of a start tag.
LEMMA AttributesFields ==
  ASSUME f \in File, NEW nd, NEW g, g = attributes(nd)
  PROVE  /\ g.name = IF ~nd.hasid \/ f.toplevel THEN f.name ELSE Append(f.name, nd.id)
         /\ g.toplevel = (f.toplevel /\ ~nd.hasid)
         /\ g.localaddr = IF nd.address THEN AddrOf[Len(doc) + 1] ELSE f.localaddr
         /\ g.filebaseaddr = f.filebaseaddr /\ g.baseaddr = f.baseaddr
         /\ g.currentblock = f.currentblock /\ g.currentreg = f.currentreg
BY DEF File, attributes, named

\* The decoder's file changes, the others do not.
LEMMA GoesOn ==
  ASSUME IInv, status = "parsing", NEW g, goOn(g)
  PROVE  /\ Len(files') = Len(files) /\ Len(files) \in Nat \ {0} /\ files'[Len(files)] = g
         /\ \A i \in 1 .. Len(files) - 1 : files'[i] = files[i]
         /\ f = files[Len(files)] /\ f \in File
<1>1. files \in Seq(File) /\ Len(files) > 0 /\ files' = [files EXCEPT ![Len(files)] = g]
  BY DEF IInv, goOn
<1>2. Len(files) \in Nat \ {0} /\ Len(files) \in 1 .. Len(files)
  BY <1>1
<1>3. f \in File
  BY <1>1, <1>2 DEF f
<1>. QED
  BY <1>1, <1>2, <1>3 DEF f

LEMMA BlkStep ==
  ASSUME TInv, NEW nd, NewNode(nd), StartBlk(nd), IInv'
  PROVE  TInv'
<1> DEFINE L == Len(files)
           n == Len(doc) + 1
           g == attributes(nd)
           h == [g EXCEPT !.localaddr = 0]
           R == register(n, h, base(g))
           G == [g EXCEPT !.baseaddr = base(g), !.localaddr = 0, !.currentblock = R]
<1>1. /\ nd.kind = "blk" /\ Start(nd) /\ goOn(G) /\ Regs' = saveNamed(Regs, f.currentblock)
      /\ status' = status /\ status = "parsing" /\ nd \in Node
  BY DEF StartBlk, Start, NewNode
<1>2. IInv /\ Right(doc, files, Regs) /\ Single(files, Regs) /\ Saved(doc, files, Regs)
      /\ Attached(doc, open, files) /\ Unread(doc, open, files) /\ Based(doc, open, files)
  BY <1>1 DEF TInv
<1>3. g \in File
  BY <1>1, <1>2, StartType
<1> HIDE DEF G
<1>4. /\ Len(files') = L /\ L \in Nat \ {0} /\ files'[L] = G
      /\ \A i \in 1 .. L - 1 : files'[i] = files[i]
      /\ f = files[L] /\ f \in File
  BY <1>1, <1>2, GoesOn
<1>5. /\ Starts(doc, open, files, doc', open', files')
      /\ doc'[n] = nd /\ Len(doc') = n
  BY <1>1, <1>4, StartIs
<1> HIDE DEF g
<1>6. /\ g.name = IF ~nd.hasid \/ f.toplevel THEN f.name ELSE Append(f.name, nd.id)
      /\ g.toplevel = (f.toplevel /\ ~nd.hasid)
      /\ g.localaddr = IF nd.address THEN AddrOf[n] ELSE f.localaddr
      /\ g.filebaseaddr = f.filebaseaddr
      /\ g.currentblock = f.currentblock /\ g.currentreg = f.currentreg
  BY <1>4, AttributesFields DEF g
<1>7. base(g) = plus(IF nd.address THEN AddrOf[n] ELSE f.localaddr, f.filebaseaddr) /\ base(g) \in Addrs
  <2>1. g.localaddr \in Addrs /\ g.filebaseaddr \in Addrs
    BY <1>3 DEF File
  <2>. QED
    BY <1>6, <2>1, PlusType DEF base
<1>8. R.node = n /\ R.Name = g.name /\ R.Addr = base(g)
  <2>1. h.name = g.name /\ h.localaddr = 0
    BY <1>3 DEF File
  <2>. QED
    BY <1>7, <2>1, PlusZero DEF register
<1> HIDE DEF R
<1>9. /\ G.name = g.name /\ G.toplevel = g.toplevel /\ G.filebaseaddr = g.filebaseaddr
      /\ G.baseaddr = base(g) /\ G.currentblock = R /\ G.currentreg = g.currentreg
  BY <1>3 DEF File, G
<1>10. Updates(doc', n, files[L], files'[L])
  BY <1>1, <1>4, <1>5, <1>6, <1>8, <1>9 DEF Updates
<1>11. Shape(doc', open', files') /\ Attached(doc', open', files') /\ Unread(doc', open', files')
       /\ Based(doc', open', files') /\ Tree(doc')
  <2>1. doc'[n].kind # "mod"
    BY <1>1, <1>5
  <2>. QED
    BY <1>2, <1>5, <1>10, <2>1, StartParsing
<1>12. Good(doc', R, "blk")
  <2>1. DIds(doc', n) => R.Name = DPath(doc', n)
    BY <1>2, <1>4, <1>5, <1>8, <1>9, <1>10, StartNode DEF AtNode
  <2>2. DPlaced(doc', n) => R.Addr = DAddress(doc', n)
    BY <1>1, <1>2, <1>4, <1>5, <1>7, <1>8, PlacedAddress
  <2>3. n \in 1 .. Len(doc') /\ n # 0 /\ doc'[n].kind = "blk"
    BY <1>1, <1>5, StartWay
  <2>. QED
    BY <1>8, <2>1, <2>2, <2>3 DEF Good
<1>13. ASSUME NEW i \in 1 .. L, NEW k \in Kinds
       PROVE  Hd(files', i, k) = IF i = L /\ k = "blk" THEN R ELSE Hd(files, i, k)
  <2>1. i \in 1 .. L - 1 \/ i = L
    BY <1>4
  <2>. QED
    BY <1>4, <1>6, <1>9, <2>1 DEF Hd
<1>14. ASSUME NEW i \in 1 .. Len(files') PROVE files'[i].baseaddr = files'[i].currentblock.Addr
  <2>1. i \in 1 .. L /\ (i \in 1 .. L - 1 \/ i = L)
    BY <1>4
  <2>. QED
    BY <1>2, <1>4, <1>8, <1>9, <2>1 DEF Right
<1>15. Right(doc', files', Regs') /\ Single(files', Regs') /\ Saved(doc', files', Regs')
  <2>1. Regs' = saveNamed(Regs, Hd(files, L, "blk"))
    BY <1>1, <1>4 DEF Hd
  <2>2. Grows(doc, doc') /\ "blk" \in Kinds /\ doc'[n].kind = "blk"
    BY <1>1, <1>5 DEF Starts, Kinds
  <2>. QED
    BY <1>2, <1>4, <1>8, <1>12, <1>13, <1>14, <2>1, <2>2, NewHeld
<1>. QED
  BY <1>1, <1>11, <1>15 DEF TInv

LEMMA RegStep ==
  ASSUME TInv, NEW nd, NewNode(nd), StartReg(nd), IInv'
  PROVE  TInv'
<1> DEFINE L == Len(files)
           n == Len(doc) + 1
           g == attributes(nd)
           R == register(n, g, g.baseaddr)
           G == [g EXCEPT !.currentreg = R]
<1>1. /\ nd.kind = "reg" /\ Start(nd) /\ goOn(G) /\ Regs' = saveNamed(Regs, f.currentreg)
      /\ status' = status /\ status = "parsing" /\ nd \in Node
  BY DEF StartReg, Start, NewNode
<1>2. IInv /\ Right(doc, files, Regs) /\ Single(files, Regs) /\ Saved(doc, files, Regs)
      /\ Attached(doc, open, files) /\ Unread(doc, open, files) /\ Based(doc, open, files)
  BY <1>1 DEF TInv
<1>3. g \in File
  BY <1>1, <1>2, StartType
<1> HIDE DEF G
<1>4. /\ Len(files') = L /\ L \in Nat \ {0} /\ files'[L] = G
      /\ \A i \in 1 .. L - 1 : files'[i] = files[i]
      /\ f = files[L] /\ f \in File
  BY <1>1, <1>2, GoesOn
<1>5. /\ Starts(doc, open, files, doc', open', files')
      /\ doc'[n] = nd /\ Len(doc') = n
  BY <1>1, <1>4, StartIs
<1> HIDE DEF g
<1>6. /\ g.name = IF ~nd.hasid \/ f.toplevel THEN f.name ELSE Append(f.name, nd.id)
      /\ g.toplevel = (f.toplevel /\ ~nd.hasid)
      /\ g.localaddr = IF nd.address THEN AddrOf[n] ELSE f.localaddr
      /\ g.filebaseaddr = f.filebaseaddr /\ g.baseaddr = f.baseaddr
      /\ g.currentblock = f.currentblock /\ g.currentreg = f.currentreg
  BY <1>4, AttributesFields DEF g
<1>7. /\ R.node = n /\ R.Name = g.name
      /\ R.Addr = plus(f.baseaddr, IF nd.address THEN AddrOf[n] ELSE f.localaddr)
  BY <1>6 DEF register
<1> HIDE DEF R
<1>8. /\ G.name = g.name /\ G.toplevel = g.toplevel /\ G.filebaseaddr = g.filebaseaddr
      /\ G.baseaddr = g.baseaddr /\ G.currentblock = g.currentblock /\ G.currentreg = R
  BY <1>3 DEF File, G
<1>9. Updates(doc', n, files[L], files'[L])
  BY <1>1, <1>4, <1>5, <1>6, <1>7, <1>8 DEF Updates
<1>10. Shape(doc', open', files') /\ Attached(doc', open', files') /\ Unread(doc', open', files')
       /\ Based(doc', open', files') /\ Tree(doc')
  <2>1. doc'[n].kind # "mod"
    BY <1>1, <1>5
  <2>. QED
    BY <1>2, <1>5, <1>9, <2>1, StartParsing
<1>11. Good(doc', R, "reg")
  <2>1. DIds(doc', n) => R.Name = DPath(doc', n)
    BY <1>2, <1>4, <1>5, <1>7, <1>8, <1>9, StartNode DEF AtNode
  <2>2. DPlaced(doc', n) => R.Addr = DAddress(doc', n)
    BY <1>1, <1>2, <1>4, <1>5, <1>7, RegAddress
  <2>3. n \in 1 .. Len(doc') /\ n # 0 /\ doc'[n].kind = "reg"
    BY <1>1, <1>5, StartWay
  <2>. QED
    BY <1>7, <2>1, <2>2, <2>3 DEF Good
<1>12. ASSUME NEW i \in 1 .. L, NEW k \in Kinds
       PROVE  Hd(files', i, k) = IF i = L /\ k = "reg" THEN R ELSE Hd(files, i, k)
  <2>1. i \in 1 .. L - 1 \/ i = L
    BY <1>4
  <2>. QED
    BY <1>4, <1>6, <1>8, <2>1 DEF Hd, Kinds
<1>13. ASSUME NEW i \in 1 .. Len(files') PROVE files'[i].baseaddr = files'[i].currentblock.Addr
  <2>1. i \in 1 .. L /\ (i \in 1 .. L - 1 \/ i = L)
    BY <1>4
  <2>. QED
    BY <1>2, <1>4, <1>6, <1>8, <2>1 DEF Right
<1>14. Right(doc', files', Regs') /\ Single(files', Regs') /\ Saved(doc', files', Regs')
  <2>1. Regs' = saveNamed(Regs, Hd(files, L, "reg"))
    BY <1>1, <1>4 DEF Hd
  <2>2. Grows(doc, doc') /\ "reg" \in Kinds /\ doc'[n].kind = "reg"
    BY <1>1, <1>5 DEF Starts, Kinds
  <2>. QED
    BY <1>2, <1>4, <1>7, <1>11, <1>12, <1>13, <2>1, <2>2, NewHeld
<1>. QED
  BY <1>1, <1>10, <1>14 DEF TInv

LEMMA MaskStep ==
  ASSUME TInv, NEW nd, NewNode(nd), StartMask(nd), IInv'
  PROVE  TInv'
<1> DEFINE L == Len(files)
           n == Len(doc) + 1
           g == attributes(nd)
           c == IF g.name = <<>> THEN 0 ELSE g.name[Len(g.name)]
           m == newmask(MaskOf[nd.id])
           r == f.currentreg
           G == [g EXCEPT !.currentreg.msks = withMask(@, c, m)]
<1>1. /\ nd.kind = "mask" /\ Start(nd) /\ Regs' = Regs /\ status = "parsing" /\ nd \in Node
      /\ r.node = 0 => status' = "panic" /\ goOn(g)
      /\ r.node # 0 => status' = status /\ goOn(G)
  BY DEF StartMask, Start, NewNode
<1>2. IInv /\ Right(doc, files, Regs) /\ Single(files, Regs) /\ Saved(doc, files, Regs)
      /\ Attached(doc, open, files) /\ Unread(doc, open, files) /\ Based(doc, open, files)
  BY <1>1 DEF TInv
<1>3. g \in File
  BY <1>1, <1>2, StartType
<1> HIDE DEF G, m, c
<1>4. /\ Len(files') = L /\ L \in Nat \ {0} /\ files'[L] = (IF r.node = 0 THEN g ELSE G)
      /\ \A i \in 1 .. L - 1 : files'[i] = files[i]
      /\ f = files[L] /\ f \in File
  <2>1. CASE r.node = 0
    BY <1>1, <1>2, <2>1, GoesOn
  <2>2. CASE r.node # 0
    BY <1>1, <1>2, <2>2, GoesOn
  <2>. QED
    BY <2>1, <2>2
<1>5. /\ Starts(doc, open, files, doc', open', files')
      /\ doc'[n] = nd /\ Len(doc') = n
  BY <1>1, <1>4, StartIs
<1> HIDE DEF g
<1>6. /\ g.name = IF ~nd.hasid \/ f.toplevel THEN f.name ELSE Append(f.name, nd.id)
      /\ g.toplevel = (f.toplevel /\ ~nd.hasid)
      /\ g.filebaseaddr = f.filebaseaddr /\ g.baseaddr = f.baseaddr
      /\ g.currentblock = f.currentblock /\ g.currentreg = r
  BY <1>4, AttributesFields DEF g
<1>7. Tree(doc') /\ Grows(doc, doc') /\ doc' # <<>> /\ Len(doc) \in Nat /\ n \in 1 .. Len(doc')
  <2>1. Tree(doc') /\ Len(doc) \in Nat
    BY <1>5, StartFacts
  <2>2. Grows(doc, doc')
    BY <1>5 DEF Starts
  <2>3. n \in 1 .. Len(doc') /\ Len(doc') # 0
    BY <1>5, <2>1
  <2>. QED
    BY <2>1, <2>2, <2>3
<1>8. DInPlace(doc', n) => doc'[n].parent = r.node /\ r.node # 0
  BY <1>1, <1>2, <1>4, <1>5, MaskPlace
<1>9. CASE r.node = 0
  <2>1. files'[L] = g
    BY <1>4, <1>9
  <2>2. ASSUME NEW i \in 1 .. Len(files')
        PROVE  /\ i \in 1 .. L /\ files'[i].baseaddr = files'[i].currentblock.Addr
               /\ \A k \in Kinds : Hd(files', i, k) = Hd(files, i, k)
    <3>1. i \in 1 .. L /\ (i \in 1 .. L - 1 \/ i = L)
      BY <1>4
    <3>. QED
      BY <1>2, <1>4, <1>6, <2>1, <3>1 DEF Right, Hd
  <2>3. Later(doc, doc')
    BY <1>7 DEF Later
  <2>4. Right(doc', files', Regs)
    BY <1>2, <2>2, <2>3, RightStep
  <2>5. status' = "panic" /\ ~DInPlace(doc', Len(doc'))
    BY <1>1, <1>5, <1>8, <1>9
  <2>. QED
    BY <1>1, <1>7, <2>4, <2>5 DEF TInv
<1>10. CASE r.node # 0
  <2>1. files'[L] = G /\ status' = "parsing"
    BY <1>1, <1>4, <1>10
  <2> DEFINE R == [r EXCEPT !.msks = withMask(r.msks, c, m)]
  <2>2. r \in Reg
    BY <1>4 DEF File
  <2>3. /\ G.name = g.name /\ G.toplevel = g.toplevel /\ G.filebaseaddr = g.filebaseaddr
        /\ G.baseaddr = g.baseaddr /\ G.currentblock = g.currentblock /\ G.currentreg = R
    BY <1>3, <1>6 DEF File, G
  <2>4. R.node = r.node /\ R.Name = r.Name /\ R.Addr = r.Addr /\ R.msks = withMask(r.msks, c, m)
    BY <2>2 DEF Reg
  <2> HIDE DEF R
  <2>5. Updates(doc', n, files[L], files'[L])
    BY <1>1, <1>4, <1>5, <1>6, <2>1, <2>3, <2>4 DEF Updates
  <2>6. Shape(doc', open', files') /\ Attached(doc', open', files') /\ Unread(doc', open', files')
        /\ Based(doc', open', files')
    <3>1. doc'[n].kind # "mod"
      BY <1>1, <1>5
    <3>. QED
      BY <1>2, <1>5, <2>5, <3>1, StartParsing
  <2>7. ASSUME DAllIds(doc') PROVE c = doc'[n].id
    <3>1. DIds(doc', n)
      <4>1. n \in 0 .. Len(doc')
        BY <1>7
      <4>. QED
        BY <1>7, <2>7, <4>1, AllWay
    <3>2. g.name = DPath(doc', n)
      BY <1>2, <1>5, <2>1, <2>3, <2>5, <3>1, StartNode DEF AtNode
    <3>3. ~DRoot(doc', n)
      <4> SUFFICES ASSUME DRoot(doc', n) PROVE FALSE
        OBVIOUS
      <4>1. Fresh(doc, open)
        BY <1>5 DEF Starts
      <4>2. f = newfile(f.name, f.filebaseaddr)
        BY <1>2, <1>4, <4>1 DEF Unread
      <4>. QED
        BY <1>10, <4>2 DEF newfile, NoRegister
    <3> DEFINE b == DPath(doc', doc'[n].parent)
    <3>4. g.name = Append(b, doc'[n].id)
      BY <1>7, <3>2, <3>3, PathRec
    <3>5. b \in Seq(1 .. MaxNodes) /\ doc'[n].id \in 1 .. MaxNodes
      <4>1. doc'[n].parent \in 0 .. Len(doc') /\ doc'[n].id \in 1 .. MaxNodes
        BY <1>7, TreeNode
      <4>. QED
        BY <1>7, <4>1, PathRec DEF Names
    <3> HIDE DEF b
    <3>6. g.name # <<>> /\ g.name[Len(g.name)] = doc'[n].id
      BY <3>4, <3>5
    <3>. QED
      BY <3>6 DEF c
  <2>8. ASSUME NEW i \in 1 .. L, NEW k \in Kinds
        PROVE  Hd(files', i, k) = IF i = L /\ k = "reg" THEN R ELSE Hd(files, i, k)
    <3>1. i \in 1 .. L - 1 \/ i = L
      BY <1>4
    <3>. QED
      BY <1>4, <1>6, <2>1, <2>3, <3>1 DEF Hd, Kinds
  <2>9. ASSUME NEW i \in 1 .. Len(files') PROVE files'[i].baseaddr = files'[i].currentblock.Addr
    <3>1. i \in 1 .. L /\ (i \in 1 .. L - 1 \/ i = L)
      BY <1>4
    <3>. QED
      BY <1>2, <1>4, <1>6, <2>1, <2>3, <3>1 DEF Right
  <2>10. Right(doc', files', Regs) /\ Single(files', Regs) /\ Saved(doc', files', Regs)
    <3>1. Hd(files, L, "reg") = r /\ doc'[n].kind = "mask"
      BY <1>1, <1>4, <1>5 DEF Hd
    <3>2. R.msks = withMask(r.msks, c, newmask(MaskOf[doc'[n].id]))
      BY <1>5, <2>4 DEF m
    <3>3. DInPlace(doc', n) => doc'[n].parent = r.node
      BY <1>8
    <3>4. DAllIds(doc') => c = doc'[n].id
      BY <2>7
    <3>5. \A i \in 1 .. L, k \in Kinds :
            Hd(files', i, k) = IF i = L /\ k = "reg" THEN R ELSE Hd(files, i, k)
      BY <2>8
    <3>6. Gets(doc', n, r, R, c)
      BY <1>10, <2>4, <3>2, <3>3, <3>4 DEF Gets
    <3> HIDE DEF r
    <3>. QED
      BY <1>2, <1>4, <1>7, <2>9, <3>1, <3>5, <3>6, MaskHeld
  <2>. QED
    BY <1>1, <1>7, <2>1, <2>6, <2>10 DEF TInv
<1>. QED
  BY <1>9, <1>10

LEMMA ModStep ==
  ASSUME TInv, NEW nd, NewNode(nd), StartMod(nd), IInv'
  PROVE  TInv'
<1> DEFINE L == Len(files)
           n == Len(doc) + 1
           g == attributes(nd)
           N == newfile(g.name, base(g))
<1>1. /\ nd.kind = "mod" /\ Start(nd) /\ Regs' = Regs /\ status = "parsing" /\ status' = status
      /\ files' = Append([files EXCEPT ![L] = g], N) /\ nd \in Node
  BY DEF StartMod, Start, NewNode
<1>2. IInv /\ Right(doc, files, Regs) /\ Single(files, Regs) /\ Saved(doc, files, Regs)
      /\ Attached(doc, open, files) /\ Unread(doc, open, files) /\ Based(doc, open, files)
  BY <1>1 DEF TInv
<1>3. g \in File /\ f \in File /\ L > 0 /\ files \in Seq(File)
  BY <1>1, <1>2, StartType DEF IInv
<1> HIDE DEF g, N
<1>4. /\ Len(files') = L + 1 /\ L \in Nat \ {0} /\ files'[L] = g /\ files'[L + 1] = N
      /\ \A i \in 1 .. L - 1 : files'[i] = files[i]
      /\ f = files[L]
  <2> DEFINE s == [files EXCEPT ![L] = g]
  <2>1. L \in Nat \ {0} /\ L \in 1 .. L
    BY <1>3
  <2>2. s \in Seq(File) /\ Len(s) = L
    BY <1>3, LastReplaced
  <2>3. s[L] = g /\ \A i \in 1 .. L - 1 : s[i] = files[i]
    BY <1>3, <2>1
  <2>4. files' = Append(s, N)
    BY <1>1
  <2> HIDE DEF s
  <2>5. Len(Append(s, N)) = L + 1 /\ Append(s, N)[L + 1] = N /\ \A i \in 1 .. L : Append(s, N)[i] = s[i]
    BY <2>1, <2>2
  <2>. QED
    BY <2>1, <2>3, <2>4, <2>5 DEF f
<1>5. /\ Starts(doc, open, files, doc', open', files')
      /\ doc'[n] = nd /\ Len(doc') = n
  BY <1>1, <1>4, StartIs
<1>6. /\ g.name = IF ~nd.hasid \/ f.toplevel THEN f.name ELSE Append(f.name, nd.id)
      /\ g.toplevel = (f.toplevel /\ ~nd.hasid)
      /\ g.localaddr = IF nd.address THEN AddrOf[n] ELSE f.localaddr
      /\ g.filebaseaddr = f.filebaseaddr /\ g.baseaddr = f.baseaddr
      /\ g.currentblock = f.currentblock /\ g.currentreg = f.currentreg
  BY <1>3, AttributesFields DEF g
<1>7. base(g) = plus(IF nd.address THEN AddrOf[n] ELSE f.localaddr, f.filebaseaddr)
  BY <1>6 DEF base
<1>8. Updates(doc', n, files[L], files'[L])
  BY <1>1, <1>4, <1>5, <1>6 DEF Updates
<1>9. DPlaced(doc', n) => base(g) = DAddress(doc', n)
  BY <1>1, <1>2, <1>4, <1>5, <1>7, PlacedAddress
<1>10. Shape(doc', open', files') /\ Attached(doc', open', files') /\ Unread(doc', open', files')
       /\ Based(doc', open', files') /\ Tree(doc')
  <2>1. files'[L + 1] = newfile(files'[L].name, base(g))
    BY <1>4 DEF N
  <2>. QED
    BY <1>2, <1>5, <1>8, <1>9, <2>1, StartParsing
<1>11. N.baseaddr = 0 /\ N.currentblock = NoRegister /\ N.currentreg = NoRegister /\ NoRegister.Addr = 0
  BY DEF N, newfile, NoRegister
<1>12. ASSUME NEW i \in 1 .. L, NEW k \in Kinds PROVE Hd(files', i, k) = Hd(files, i, k)
  <2>1. i \in 1 .. L - 1 \/ i = L
    BY <1>4
  <2>. QED
    BY <1>4, <1>6, <2>1 DEF Hd
<1>13. \A k \in Kinds : Hd(files', L + 1, k) = NoRegister
  BY <1>4, <1>11 DEF Hd
<1>14. ASSUME NEW i \in 1 .. Len(files') PROVE files'[i].baseaddr = files'[i].currentblock.Addr
  <2>1. (i \in 1 .. L - 1 /\ i \in 1 .. L) \/ i = L \/ i = L + 1
    BY <1>4
  <2>2. L \in 1 .. L
    BY <1>4
  <2>. QED
    BY <1>2, <1>4, <1>6, <1>11, <2>1, <2>2 DEF Right
<1>15. Right(doc', files', Regs) /\ Single(files', Regs) /\ Saved(doc', files', Regs)
  <2>1. Grows(doc, doc') /\ doc'[n].kind = "mod"
    BY <1>1, <1>5 DEF Starts
  <2>. QED
    BY <1>2, <1>4, <1>12, <1>13, <1>14, <2>1, NothingHeld
<1>. QED
  BY <1>1, <1>10, <1>15 DEF TInv

LEMMA EndStep ==
  ASSUME TInv, EndElement, IInv'
  PROVE  TInv'
<1> DEFINE L == Len(files)
           n == IF f.name = <<>> THEN <<>> ELSE SubSeq(f.name, 1, Len(f.name) - 1)
           G == [f EXCEPT !.name = n]
<1>1. /\ status = "parsing" /\ open # <<>> /\ (kind(top) = "mod" => L = Modules) /\ goOn(G)
      /\ open' = SubSeq(open, 1, Len(open) - 1) /\ doc' = doc /\ Regs' = Regs /\ status' = status
  BY DEF EndElement
<1>2. IInv /\ Right(doc, files, Regs) /\ Single(files, Regs) /\ Saved(doc, files, Regs) /\ Tree(doc)
      /\ Shape(doc, open, files) /\ Attached(doc, open, files) /\ Based(doc, open, files)
  BY <1>1 DEF TInv
<1> HIDE DEF G
<1>3. /\ Len(files') = L /\ L \in Nat \ {0} /\ files'[L] = G
      /\ \A i \in 1 .. L - 1 : files'[i] = files[i]
      /\ f = files[L] /\ f \in File
  BY <1>1, <1>2, GoesOn
<1>4. /\ G.name = n /\ G.toplevel = f.toplevel /\ G.filebaseaddr = f.filebaseaddr
      /\ G.baseaddr = f.baseaddr /\ G.currentblock = f.currentblock /\ G.currentreg = f.currentreg
  BY <1>3 DEF File, G
<1>5. doc[Top(open)].kind = "mod" => L = Mods(doc, open, Len(open))
  BY <1>1 DEF Top, top, kind, Modules, Mods
<1>6. Ends(doc, open, files, open', files')
  BY <1>1, <1>2, <1>3, <1>4, <1>5 DEF Ends
<1>7. Shape(doc, open', files') /\ Attached(doc, open', files') /\ Unread(doc, open', files')
      /\ Based(doc, open', files')
  BY <1>2, <1>6, EndTag
<1>8. ASSUME NEW i \in 1 .. L
      PROVE  /\ files'[i].baseaddr = files'[i].currentblock.Addr
             /\ \A k \in Kinds : Hd(files', i, k) = Hd(files, i, k)
  <2>1. i \in 1 .. L - 1 \/ i = L
    BY <1>3
  <2>. QED
    BY <1>2, <1>3, <1>4, <2>1 DEF Right, Hd
<1>9. Right(doc, files', Regs)
  BY <1>2, <1>3, <1>8 DEF Right
<1>10. Single(files', Regs)
  BY <1>2, <1>3, <1>8 DEF Single
<1>11. Saved(doc, files', Regs)
  <2>1. ASSUME NEW m, Kept(doc, files, Regs, m) PROVE Kept(doc, files', Regs, m)
    BY <1>3, <1>8, <2>1 DEF Kept
  <2>2. ASSUME NEW m, MaskKept(doc, files, Regs, m) PROVE MaskKept(doc, files', Regs, m)
    BY <1>3, <1>8, <2>2 DEF MaskKept, Kinds
  <2>. QED
    BY <1>2, <2>1, <2>2 DEF Saved
<1>. QED
  BY <1>1, <1>2, <1>7, <1>9, <1>10, <1>11 DEF TInv

LEMMA EOFStep ==
  ASSUME TInv, EOF, IInv'
  PROVE  TInv'
<1> DEFINE L == Len(files)
<1>1. /\ status = "parsing" /\ L = Modules + 1 /\ Regs' = save(save(Regs, f.currentreg), f.currentblock)
      /\ top # 0 => \E n \in 1 .. Len(doc) : parent(n) = top /\ kind(top) = "mod"
      /\ files' = SubSeq(files, 1, L - 1) /\ doc' = doc /\ open' = open
      /\ status' = IF L = 1 THEN "done" ELSE status
  BY DEF EOF, saveLast
<1>2. IInv /\ Right(doc, files, Regs) /\ Single(files, Regs) /\ Saved(doc, files, Regs) /\ Tree(doc)
      /\ Shape(doc, open, files) /\ Attached(doc, open, files) /\ Based(doc, open, files)
  BY <1>1 DEF TInv
<1>3. /\ L \in Nat \ {0} /\ Len(files') = L - 1 /\ \A i \in 1 .. L - 1 : files'[i] = files[i]
  <2>1. files \in Seq(File) /\ files # <<>>
    BY <1>1, <1>2 DEF IInv
  <2>. QED
    BY <1>1, <2>1, Front
<1>4. L = Mods(doc, open, Len(open)) + 1
  BY <1>1 DEF Modules, kind, Mods
<1>5. Top(open) # 0 => doc[Top(open)].kind = "mod" /\ HasRoot(doc, Top(open))
  BY <1>1 DEF Top, top, kind, parent, HasRoot
<1>6. Right(doc, files', Regs') /\ Single(files', Regs') /\ Saved(doc, files', Regs')
  <2>1. Regs' = save(save(Regs, Hd(files, L, "reg")), Hd(files, L, "blk"))
    BY <1>1 DEF Hd, f
  <2>. QED
    BY <1>2, <1>3, <2>1, LastSaved
<1>7. CASE L = 1
  <2>1. files' = <<>>
    <3>1. files' \in Seq(File)
      BY DEF IInv
    <3>. QED
      BY <1>3, <1>7, <3>1
  <2>. QED
    BY <1>1, <1>2, <1>6, <1>7, <2>1 DEF TInv
<1>8. CASE L # 1
  <2>1. Shape(doc, open, files') /\ Attached(doc, open, files') /\ Unread(doc, open, files')
        /\ Based(doc, open, files')
    BY <1>2, <1>3, <1>4, <1>5, <1>8, EndFile
  <2>. QED
    BY <1>1, <1>2, <1>6, <1>8, <2>1 DEF TInv
<1>. QED
  BY <1>7, <1>8

LEMMA TInductive == TInv /\ [Next]_vars => TInv'
<1> SUFFICES ASSUME TInv, [Next]_vars PROVE TInv'
  OBVIOUS
<1>1. IInv /\ IInv'
  BY Inductive DEF TInv
<1>2. CASE StartElement
  <2>1. PICK k \in {"blk", "reg", "mask", "mod"}, hasid \in BOOLEAN, address \in BOOLEAN :
          LET nd == [kind |-> k, parent |-> top, hasid |-> hasid, address |-> address,
                     id |-> Cardinality({n \in 1 .. Len(doc) : parent(n) = top}) + 1]
          IN  StartBlk(nd) \/ StartReg(nd) \/ StartMask(nd) \/ StartMod(nd)
    BY <1>2 DEF StartElement
  <2> DEFINE nd == [kind |-> k, parent |-> top, hasid |-> hasid, address |-> address,
                    id |-> Cardinality({n \in 1 .. Len(doc) : parent(n) = top}) + 1]
  <2>2. Len(doc) < MaxNodes
    BY <2>1 DEF StartBlk, StartReg, StartMask, StartMod, Start
  <2>3. nd \in Node
    BY <1>1, <2>2, NodeType
  <2>4. NewNode(nd)
    BY <2>3 DEF NewNode
  <2>5. StartBlk(nd) \/ StartReg(nd) \/ StartMask(nd) \/ StartMod(nd)
    BY <2>1
  <2> HIDE DEF nd
  <2>. QED
    BY <1>1, <2>4, <2>5, BlkStep, RegStep, MaskStep, ModStep
<1>3. CASE EndElement
  BY <1>1, <1>3, EndStep
<1>4. CASE EOF
  BY <1>1, <1>4, EOFStep
<1>5. CASE Fail
  BY <1>1, <1>5 DEF Fail, TInv
<1>6. CASE UNCHANGED vars
  BY <1>1, <1>6 DEF vars, TInv
<1>. QED
  BY <1>2, <1>3, <1>4, <1>5, <1>6 DEF Next

LEMMA TInvariance == Spec => []TInv
BY TInitially, TInductive, PTL DEF Spec

\* What the parser holds or has saved is good.
LEMMA AllGood ==
  ASSUME TInv, NEW r \in Registers
  PROVE  \E k \in Kinds : Good(doc, r, k) /\ r.node # 0
<1>1. r.node # 0 /\ (r \in {Regs[x] : x \in DOMAIN Regs} \/ r \in Held)
  BY DEF Registers
<1>2. CASE r \in {Regs[x] : x \in DOMAIN Regs}
  BY <1>1, <1>2 DEF TInv, Right
<1>3. CASE r \in Held
  <2>1. PICK i \in 1 .. Len(files) : r = files[i].currentreg \/ r = files[i].currentblock
    BY <1>3 DEF Held
  <2>2. r = Hd(files, i, "reg") \/ r = Hd(files, i, "blk")
    BY <2>1 DEF Hd
  <2>3. "reg" \in Kinds /\ "blk" \in Kinds
    BY DEF Kinds
  <2>. QED
    BY <1>1, <2>2, <2>3 DEF TInv, Right
<1>. QED
  BY <1>1, <1>2, <1>3

\* The register a call holds, or that is in the table, is one of the registers.
LEMMA AmongRegisters ==
  /\ \A i \in 1 .. Len(files), k \in Kinds : Hd(files, i, k).node # 0 => Hd(files, i, k) \in Registers
  /\ \A x \in DOMAIN Regs : Regs[x].node # 0 => Regs[x] \in Registers
<1>1. ASSUME NEW i \in 1 .. Len(files), NEW k \in Kinds, Hd(files, i, k).node # 0
      PROVE  Hd(files, i, k) \in Registers
  <2>1. Hd(files, i, k) \in Held
    BY DEF Hd, Held
  <2>. QED
    BY <1>1, <2>1 DEF Registers
<1>2. ASSUME NEW x \in DOMAIN Regs, Regs[x].node # 0 PROVE Regs[x] \in Registers
  BY <1>2 DEF Registers
<1>. QED
  BY <1>1, <1>2

\* A register has its full name whatever files and nodes came before it, for
\* documents of every size: parseregfile's one name for all files, with an id more
\* for every start tag and one less for every end tag, is always that of the node.
THEOREM NamesCorrect == Spec => []NamesArePaths
<1>1. TInv => NamesArePaths
  <2> SUFFICES ASSUME TInv, NEW r \in Registers, \A n \in Above(r.node) : doc[n].hasid
               PROVE  r.Name = Path(r.node)
    BY DEF NamesArePaths
  <2>1. PICK k \in Kinds : Good(doc, r, k) /\ r.node # 0
    BY AllGood
  <2>2. Above(r.node) = DAbove(doc, r.node)
    BY DEF Above, DAbove, parent
  <2>3. Path(r.node) = DPath(doc, r.node)
    BY DEF Path, DPath, Root, DRoot, parent, kind
  <2>4. DIds(doc, r.node)
    BY <2>2 DEF DIds
  <2>. QED
    BY <2>1, <2>3, <2>4 DEF Good
<1>. QED
  BY <1>1, TInvariance, PTL

\* The operators of RegParser are those on its document.
LEMMA OnDocument ==
  ASSUME NEW n
  PROVE  /\ Above(n) = DAbove(doc, n) /\ Path(n) = DPath(doc, n) /\ Address(n) = DAddress(doc, n)
         /\ (InPlace(n) <=> DInPlace(doc, n)) /\ (Placed(n) <=> DPlaced(doc, n))
<1>1. \A m : Root(m) <=> DRoot(doc, m)
  BY DEF Root, DRoot, parent, kind
<1>2. Above(n) = DAbove(doc, n)
  BY DEF Above, DAbove, parent
<1>3. Path(n) = DPath(doc, n)
  BY DEF Path, DPath, Root, DRoot, parent, kind
<1>4. Address(n) = DAddress(doc, n)
  BY DEF Address, DAddress, parent
<1>5. ASSUME NEW m PROVE FileOf(m) = DFileOf(doc, m)
  BY DEF FileOf, DFileOf, Root, DRoot, parent, kind
<1>6. ASSUME NEW k, NEW m PROVE Latest(k, m) = DLatest(doc, k, m)
  <2> DEFINE A == {i \in 1 .. m - 1 : kind(i) = k /\ FileOf(i) = FileOf(m)}
             B == {i \in 1 .. m - 1 : doc[i].kind = k /\ DFileOf(doc, i) = DFileOf(doc, m)}
             last(S) == IF S = {} THEN 0 ELSE CHOOSE i \in S : \A j \in S : j <= i
  <2>1. A = B
    BY <1>5 DEF kind
  <2>2. Latest(k, m) = last(A) /\ DLatest(doc, k, m) = last(B)
    BY DEF Latest, DLatest
  <2> HIDE DEF A, B, last
  <2>. QED
    BY <2>1, <2>2
<1>7. ASSUME NEW m PROVE InPlace(m) <=> DInPlace(doc, m)
  <2>1. FileOf(m) = DFileOf(doc, m) /\ Latest("reg", m) = DLatest(doc, "reg", m)
        /\ Latest("blk", m) = DLatest(doc, "blk", m)
    BY <1>5, <1>6
  <2>2. (Root(m) <=> DRoot(doc, m)) /\ (Root(doc[m].parent) <=> DRoot(doc, doc[m].parent))
    BY <1>1
  <2>3. kind(m) = doc[m].kind /\ parent(m) = doc[m].parent
    BY DEF kind, parent
  <2>4. CASE Root(m)
    BY <2>2, <2>3, <2>4 DEF InPlace, DInPlace
  <2>5. CASE ~Root(m)
    BY <2>1, <2>2, <2>3, <2>5 DEF InPlace, DInPlace
  <2>. QED
    BY <2>4, <2>5
<1>8. Placed(n) <=> DPlaced(doc, n)
  BY <1>2, <1>7 DEF Placed, DPlaced
<1>. QED
  BY <1>2, <1>3, <1>4, <1>7, <1>8

\* A register whose way down is laid out as in the tables has the sum of the
\* addresses on it, modulo AddrSpace, whatever else the files hold: base and local
\* address are not mixed up with those of other blocks and modules.
THEOREM AddressesCorrect == Spec => []AddressesAddUp
<1>1. TInv => AddressesAddUp
  <2> SUFFICES ASSUME TInv, NEW r \in Registers, Placed(r.node) PROVE r.Addr = Address(r.node)
    BY DEF AddressesAddUp
  <2>1. PICK k \in Kinds : Good(doc, r, k) /\ r.node # 0
    BY AllGood
  <2>2. Address(r.node) = DAddress(doc, r.node) /\ DPlaced(doc, r.node)
    BY OnDocument
  <2>. QED
    BY <2>1, <2>2 DEF Good
<1>. QED
  BY <1>1, TInvariance, PTL

\* A block or a register with a name is never lost: the call that parses its file
\* holds it until the next one of its kind, or the end of the file, saves it, and
\* after that nothing replaces it in Target.Regs.
THEOREM RegistersSaved == Spec => []NoneLost
<1>1. TInv => NoneLost
  <2> SUFFICES ASSUME TInv, AllHaveIds, status \in {"parsing", "done"}, NEW n \in 1 .. Len(doc),
                      kind(n) \in {"blk", "reg"}, Path(n) # <<>>
               PROVE  \E r \in Registers : r.node = n /\ (status = "done" => r = Regs[Path(n)])
    BY DEF NoneLost
  <2>1. Path(n) = DPath(doc, n)
    BY OnDocument
  <2>2. DAllIds(doc) /\ doc[n].kind \in Kinds /\ n # 0
    BY DEF AllHaveIds, DAllIds, kind, Kinds
  <2>3. Kept(doc, files, Regs, n)
    BY <2>1, <2>2 DEF TInv, Saved
  <2>4. ASSUME NEW i \in 1 .. Len(files), NEW k \in Kinds, Hd(files, i, k).node = n
        PROVE  \E r \in Registers : r.node = n /\ (status = "done" => r = Regs[Path(n)])
    <3>1. status # "done"
      <4> SUFFICES ASSUME status = "done" PROVE FALSE
        OBVIOUS
      <4>1. Len(files) = 0
        BY DEF TInv
      <4>. QED
        BY <4>1
    <3>2. Hd(files, i, k) \in Registers
      BY <2>2, <2>4, AmongRegisters
    <3>. QED
      BY <2>4, <3>1, <3>2
  <2>5. ASSUME SavedAs(doc, Regs, n)
        PROVE  \E r \in Registers : r.node = n /\ (status = "done" => r = Regs[Path(n)])
    <3>1. Path(n) \in DOMAIN Regs /\ Regs[Path(n)].node = n
      BY <2>1, <2>5 DEF SavedAs
    <3>2. Regs[Path(n)] \in Registers
      BY <2>2, <3>1, AmongRegisters
    <3>. QED
      BY <3>1, <3>2
  <2>. QED
    BY <2>3, <2>4, <2>5 DEF Kept
<1>. QED
  BY <1>1, TInvariance, PTL

\* Masks in place are those of their registers, and none of them writes to the nil
\* map of a register that is not there.
THEOREM MasksSaved == Spec => []MasksKept
<1>1. TInv => MasksKept
  <2> SUFFICES ASSUME TInv, NEW n \in 1 .. Len(doc), kind(n) = "mask", Path(parent(n)) # <<>>, AllHaveIds,
                      \A m \in 1 .. Len(doc) : (kind(m) = "mask" /\ FileOf(m) = FileOf(n)) => InPlace(m)
               PROVE  /\ status = "panic" => n < Len(doc)
                      /\ status \in {"parsing", "done"} =>
                           \E r \in Registers : /\ r.node = parent(n)
                                                /\ doc[n].id \in DOMAIN r.msks
                                                /\ r.msks[doc[n].id].value = MaskOf[doc[n].id]
    BY DEF MasksKept
  <2>1. doc[n].kind = "mask" /\ DInPlace(doc, n) /\ Path(parent(n)) = DPath(doc, doc[n].parent)
        /\ DAllIds(doc)
    BY OnDocument DEF kind, parent, AllHaveIds, DAllIds
  <2>2. ASSUME status = "panic" PROVE n < Len(doc)
    <3>1. n # Len(doc)
      BY <2>1, <2>2 DEF TInv
    <3>2. Len(doc) \in Nat
      BY DEF TInv, Tree
    <3>. QED
      BY <3>1, <3>2
  <2>3. ASSUME status \in {"parsing", "done"}
        PROVE  \E r \in Registers : HasMask(doc, r, n)
    <3>1. MaskKept(doc, files, Regs, n)
      BY <2>1, <2>3 DEF TInv, Saved
    <3>2. doc[n].parent # 0
      <4>1. DPath(doc, 0) = <<>>
        BY PathRec DEF TInv
      <4>. QED
        BY <2>1, <4>1
    <3>3. ASSUME NEW i \in 1 .. Len(files), HasMask(doc, Hd(files, i, "reg"), n)
          PROVE  \E r \in Registers : HasMask(doc, r, n)
      <4>1. Hd(files, i, "reg").node # 0 /\ "reg" \in Kinds
        BY <3>2, <3>3 DEF HasMask, Kinds
      <4>2. Hd(files, i, "reg") \in Registers
        BY <4>1, AmongRegisters
      <4>. QED
        BY <3>3, <4>2
    <3>4. ASSUME NEW x \in DOMAIN Regs, HasMask(doc, Regs[x], n)
          PROVE  \E r \in Registers : HasMask(doc, r, n)
      <4>1. Regs[x].node # 0
        BY <3>2, <3>4 DEF HasMask
      <4>2. Regs[x] \in Registers
        BY <4>1, AmongRegisters
      <4>. QED
        BY <3>4, <4>2
    <3>. QED
      BY <3>1, <3>3, <3>4 DEF MaskKept
  <2>. QED
    BY <2>2, <2>3 DEF HasMask, parent
<1>. QED
  BY <1>1, TInvariance, PTL
=============================================================================
