----------------------------- MODULE RegParser ------------------------------
(***************************************************************************)
(* Target.parseregfile of parser.go: the tokens of an address table, and   *)
(* of the module files it names, become the registers of Target.Regs.      *)
(*                                                                         *)
(* The document is chosen token by token: doc is the tree read so far, and *)
(* what the registers should be is defined from it alone.  A node has its  *)
(* place among its siblings as its id, so that ids come again elsewhere in *)
(* the files.  A name is the sequence of the ids that the dots separate.   *)
(* What a register gets from its own attributes alone (mode, size,         *)
(* description) is left out.                                               *)
(***************************************************************************)
EXTENDS Masks, Sequences, FiniteSets

CONSTANTS
  AddrSpace,     \* addresses wrap at it: 2^32
  AddrOf,        \* AddrOf[n]: the address attribute of the n-th node
  MaskOf,        \* MaskOf[i]: the mask attribute of the i-th child of a node
  MaxNodes,      \* nodes of all files together (bound)
  MaxOdd         \* nodes that are not laid out as in InPlace (bound)

ASSUME RegParserAssumption ==
  /\ AddrSpace \in Nat \ {0}
  /\ AddrOf \in [1 .. MaxNodes -> 0 .. AddrSpace - 1]
  /\ MaskOf \in [1 .. MaxNodes -> Word]
  /\ MaxNodes \in Nat /\ MaxOdd \in Nat

VARIABLES
  doc,       \* the nodes in the order of their start tags
  open,      \* those whose end tag has not come: the stack of the decoders
  files,     \* the locals of the calls of parseregfile, innermost last
  Regs,      \* Target.Regs
  status     \* "parsing", "done", "error" (returned) or "panic"

vars == <<doc, open, files, Regs, status>>

-----------------------------------------------------------------------------
(* The document.                                                           *)

\* regtype; a node has an id, but for the root of a file that may have none.
Node == [kind : {"blk", "reg", "mask", "mod"}, parent : 0 .. MaxNodes, id : 1 .. MaxNodes,
         hasid : BOOLEAN, address : BOOLEAN]

\* Mutant of plus: a sum in a wider type.
plusWide(a, b) == a + b

plus(a, b) == (a + b) % AddrSpace

kind(n)   == doc[n].kind
parent(n) == doc[n].parent

\* The root of a file has no parent or, as its parent, the node that names the file.
Root(n) == parent(n) = 0 \/ kind(parent(n)) = "mod"

\* The nodes above n, and n.
Above(n) ==
  LET up[i \in 0 .. n] == IF i = 0 THEN {} ELSE {i} \cup up[parent(i)]
  IN  up[n]

\* The full name: the ids on the way, where a file takes the name of its module.
Path(n) ==
  LET path[i \in 0 .. n] ==
        IF i = 0 THEN <<>>
        ELSE IF Root(i) THEN path[parent(i)] ELSE Append(path[parent(i)], doc[i].id)
  IN  path[n]

\* The global address: the sum of the addresses on the way.
Address(n) ==
  LET sum[i \in 0 .. n] ==
        IF i = 0 THEN 0 ELSE plus(sum[parent(i)], IF doc[i].address THEN AddrOf[i] ELSE 0)
  IN  sum[n]

FileOf(n) ==
  LET file[i \in 1 .. n] == IF Root(i) THEN i ELSE file[parent(i)]
  IN  file[n]

\* The last node of kind k that starts before n in the same file, 0 if none does.
Latest(k, n) ==
  LET before == {i \in 1 .. n - 1 : kind(i) = k /\ FileOf(i) = FileOf(n)}
  IN  IF before = {} THEN 0 ELSE CHOOSE i \in before : \A j \in before : j <= i

\* The layout of the tables the package is used with: roots with an id and no
\* address, which in module files are blocks; blocks and modules below a root,
\* registers in the latest block (or in the outermost root, before any block),
\* all with an address; masks in the latest register.
InPlace(n) ==
  IF Root(n) THEN doc[n].hasid /\ ~doc[n].address /\ kind(n) \in {"blk", IF n = 1 THEN "reg" ELSE "blk"}
  ELSE \/ kind(n) = "mask" /\ ~doc[n].address /\ parent(n) = Latest("reg", n)
       \/ kind(n) \in {"blk", "mod"} /\ doc[n].address /\ Root(parent(n))
       \/ /\ kind(n) = "reg" /\ doc[n].address
          /\ \/ parent(n) = Latest("blk", n)
             \/ Latest("blk", n) = 0 /\ FileOf(n) = 1 /\ parent(n) = 1

Placed(n) == \A m \in Above(n) : InPlace(m)
AllHaveIds == \A n \in 1 .. Len(doc) : doc[n].hasid
Odd == {n \in 1 .. Len(doc) : ~InPlace(n)}

-----------------------------------------------------------------------------
(* parseregfile.                                                           *)

\* A register, or a block that becomes one; node is where it comes from, and
\* msks a function of the masks' ids, 0 for an empty one.
IsRegister(r) ==
  /\ r.node \in 0 .. MaxNodes /\ r.Addr \in 0 .. AddrSpace - 1
  /\ r.Name \in Seq(1 .. MaxNodes)
  /\ DOMAIN r.msks \subseteq 0 .. MaxNodes
  /\ \A k \in DOMAIN r.msks : r.msks[k] \in msk

\* The zero Register: its map of masks is nil.
NoRegister == [node |-> 0, Name |-> <<>>, Addr |-> 0, msks |-> << >>]

IsFile(g) ==
  /\ g.name \in Seq(1 .. MaxNodes) /\ g.toplevel \in BOOLEAN
  /\ {g.filebaseaddr, g.baseaddr, g.localaddr} \subseteq 0 .. AddrSpace - 1
  /\ IsRegister(g.currentblock) /\ IsRegister(g.currentreg)

newfile(basename, base) ==
  [name |-> basename, filebaseaddr |-> base, baseaddr |-> 0, localaddr |-> 0,
   currentblock |-> NoRegister, currentreg |-> NoRegister, toplevel |-> TRUE]

f == files[Len(files)]
top == IF open = <<>> THEN 0 ELSE open[Len(open)]

\* t.Regs[r.Name] = r
save(regs, r) == [x \in DOMAIN regs \cup {r.Name} |-> IF x = r.Name THEN r ELSE regs[x]]

\* Only what has a name is saved when the next one begins.
saveNamed(regs, r) == IF r.Name = <<>> THEN regs ELSE save(regs, r)

\* The number of module nodes that are open: the depth of the decoder's file is
\* the same until it has come to its end.
Modules == Cardinality({i \in 1 .. Len(open) : kind(open[i]) = "mod"})

\* Mutant of named: the id of a root names its nodes, too.
namedAlways(nd) == IF ~nd.hasid THEN f.name ELSE Append(f.name, nd.id)

\* The first id of a file names nothing.
named(nd) == IF ~nd.hasid \/ f.toplevel THEN f.name ELSE Append(f.name, nd.id)

\* What the attributes of a start tag do, whatever the node is.
attributes(nd) ==
  [f EXCEPT !.name = named(nd), !.toplevel = @ /\ ~nd.hasid,
            !.localaddr = IF nd.address THEN AddrOf[Len(doc) + 1] ELSE @]

\* The decoder's file becomes g.
goOn(g) == files' = [files EXCEPT ![Len(files)] = g]

\* A start tag: a file has one root, and a module node nothing but its file.
Start(nd) ==
  /\ status = "parsing" /\ Len(doc) < MaxNodes
  /\ IF open = <<>> THEN doc = <<>>
     ELSE kind(top) = "mod" => \A n \in 1 .. Len(doc) : parent(n) # top
  /\ (top # 0 /\ kind(top) # "mod") => nd.hasid
  /\ doc' = Append(doc, nd)
  /\ open' = Append(open, Len(doc) + 1)
  /\ Cardinality(Odd') <= MaxOdd

register(n, g, base) == [node |-> n, Name |-> g.name, Addr |-> plus(base, g.localaddr),
                         msks |-> << >>]

\* Mutant of base: a block of a module file is not moved to the module's address.
baseLocal(g) == g.localaddr

base(g) == plus(g.localaddr, g.filebaseaddr)

\* The last block is saved, a new one begins.
StartBlk(nd) ==
  /\ nd.kind = "blk"
  /\ Start(nd)
  /\ LET g == attributes(nd)
     IN  goOn([g EXCEPT !.baseaddr = base(g), !.localaddr = 0,
                        !.currentblock = register(Len(doc) + 1, [g EXCEPT !.localaddr = 0], base(g))])
  /\ Regs' = saveNamed(Regs, f.currentblock)
  /\ UNCHANGED status

StartReg(nd) ==
  /\ nd.kind = "reg"
  /\ Start(nd)
  /\ LET g == attributes(nd)
     IN  goOn([g EXCEPT !.currentreg = register(Len(doc) + 1, g, g.baseaddr)])
  /\ Regs' = saveNamed(Regs, f.currentreg)
  /\ UNCHANGED status

\* Mutant of withMask: a new map for every mask.
withMaskOnly(msks, k, m) == [x \in {k} |-> m]

withMask(msks, k, m) == [x \in DOMAIN msks \cup {k} |-> IF x = k THEN m ELSE msks[x]]

\* The mask goes to the last register.  The map of the zero register is nil.
StartMask(nd) ==
  /\ nd.kind = "mask"
  /\ Start(nd)
  /\ LET g == attributes(nd)
         k == IF g.name = <<>> THEN 0 ELSE g.name[Len(g.name)]
     IN  IF f.currentreg.node = 0 THEN status' = "panic" /\ goOn(g)
         ELSE /\ goOn([g EXCEPT !.currentreg.msks = withMask(@, k, newmask(MaskOf[nd.id]))])
              /\ UNCHANGED status
  /\ UNCHANGED Regs

\* The file of the module is parsed before the next token.
StartMod(nd) ==
  /\ nd.kind = "mod"
  /\ Start(nd)
  /\ LET g == attributes(nd)
     IN  files' = Append([files EXCEPT ![Len(files)] = g], newfile(g.name, base(g)))
  /\ UNCHANGED <<Regs, status>>

EndElement ==
  /\ status = "parsing" /\ open # <<>>
  /\ kind(top) = "mod" => Len(files) = Modules
  /\ goOn([f EXCEPT !.name = IF @ = <<>> THEN <<>> ELSE SubSeq(@, 1, Len(@) - 1)])
  /\ open' = SubSeq(open, 1, Len(open) - 1)
  /\ UNCHANGED <<doc, Regs, status>>

\* Mutant of saveLast: the last block of a file is forgotten.
saveLastReg(g) == saveNamed(Regs, g.currentreg)

\* What is saved at the end of a file, with or without a name.
saveLast(g) == save(save(Regs, g.currentreg), g.currentblock)

\* The end of a file, after the end tag of its root.
EOF ==
  /\ status = "parsing" /\ doc # <<>>
  /\ Len(files) = Modules + 1
  /\ top # 0 => \E n \in 1 .. Len(doc) : parent(n) = top /\ kind(top) = "mod"
  /\ Regs' = saveLast(f)
  /\ files' = SubSeq(files, 1, Len(files) - 1)
  /\ status' = IF Len(files) = 1 THEN "done" ELSE status
  /\ UNCHANGED <<doc, open>>

\* A file that is missing or not well-formed: every call returns the error.
Fail ==
  /\ status = "parsing"
  /\ status' = "error"
  /\ UNCHANGED <<doc, open, files, Regs>>

Init ==
  /\ doc = <<>> /\ open = <<>>
  /\ files = <<newfile(<<>>, 0)>>
  /\ Regs = << >>
  /\ status = "parsing"

StartElement ==
  \E k \in {"blk", "reg", "mask", "mod"}, hasid, address \in BOOLEAN :
    LET nd == [kind |-> k, parent |-> top, hasid |-> hasid, address |-> address,
               id |-> Cardinality({n \in 1 .. Len(doc) : parent(n) = top}) + 1]
    IN  StartBlk(nd) \/ StartReg(nd) \/ StartMask(nd) \/ StartMod(nd)

Next == StartElement \/ EndElement \/ EOF \/ Fail

Spec == Init /\ [][Next]_vars
-----------------------------------------------------------------------------
(* Properties.                                                             *)

\* The type invariant.
TypeOK ==
  /\ doc \in Seq(Node) /\ Len(doc) <= MaxNodes
  /\ open \in Seq(1 .. Len(doc))
  /\ \A i \in 1 .. Len(files) : IsFile(files[i])
  /\ DOMAIN Regs \subseteq Seq(1 .. MaxNodes)
  /\ \A x \in DOMAIN Regs : IsRegister(Regs[x]) /\ Regs[x].Name = x
  /\ status \in {"parsing", "done", "error", "panic"}

\* The registers there are: those saved, and those the calls hold.
Held == {files[i].currentreg : i \in 1 .. Len(files)} \cup
        {files[i].currentblock : i \in 1 .. Len(files)}
Registers == {r \in {Regs[x] : x \in DOMAIN Regs} \cup Held : r.node # 0}

\* A register is found under its full name whatever files and nodes came before
\* it, as long as the roots of the files it is in have ids.
NamesArePaths ==
  \A r \in Registers :
    (\A n \in Above(r.node) : doc[n].hasid) => r.Name = Path(r.node)

\* No block and no register that has a name is lost: until it is saved a call
\* holds it.
NoneLost ==
  (AllHaveIds /\ status \in {"parsing", "done"}) =>
    \A n \in 1 .. Len(doc) : (kind(n) \in {"blk", "reg"} /\ Path(n) # <<>>) =>
      \E r \in Registers : r.node = n /\ (status = "done" => r = Regs[Path(n)])

\* "localaddress is relative to either the bank or module that is the immediate
\* parent of the register": a register's address is the sum of the addresses down
\* to it if these nodes are in place, whatever the rest of the files is like.
AddressesAddUp ==
  \A r \in Registers : Placed(r.node) => r.Addr = Address(r.node)

\* If the masks of a file are in place, each is one of its register's, and none
\* makes the parser panic.
MasksKept ==
  \A n \in 1 .. Len(doc) :
    (/\ kind(n) = "mask" /\ Path(parent(n)) # <<>> /\ AllHaveIds
     /\ \A m \in 1 .. Len(doc) : (kind(m) = "mask" /\ FileOf(m) = FileOf(n)) => InPlace(m)) =>
      /\ status = "panic" => n < Len(doc)
      /\ status \in {"parsing", "done"} =>
           \E r \in Registers : /\ r.node = parent(n)
                                /\ doc[n].id \in DOMAIN r.msks
                                /\ r.msks[doc[n].id].value = MaskOf[doc[n].id]

\* A value that fits a mask is read back after it was written, by WriteMask's
\* terms and by MaskedWrite's, and no bit outside the mask changes.
WrittenIsRead ==
  \A r \in Registers : \A k \in DOMAIN r.msks : \A x, v \in Word :
    LET m == r.msks[k]
    IN  Fits(m, v) => \A terms \in {WriteMask(m, v), MaskedWrite(m, v)} :
          /\ ReadMask(m, RMWbits(x, terms)) = v
          /\ RMWbits(x, terms) \ m.value = x \ m.value
=============================================================================
