-------------------------------- MODULE Codec --------------------------------
(***************************************************************************)
(* The headers of ipbus.go as bytes.  encode and decode come in two byte   *)
(* orders that mirror each other; the bit operations on uint8 and uint16   *)
(* are divisions and remainders by powers of two.                          *)
(***************************************************************************)
EXTENDS Integers, Sequences

BigEndian    == "BigEndian"
LittleEndian == "LittleEndian"
ByteOrder    == {BigEndian, LittleEndian}
InvalidOrder == "none"

MaxUInt16        == 65535
MaxTransactionID == 4095   \* 12 bits on the wire

Byte   == 0 .. 255
UInt16 == 0 .. MaxUInt16

protocolversion == 2
defaultorder    == LittleEndian

\* Packet types, transaction types and information codes.
control == 0
status  == 1
resend  == 2

read        == 0
write       == 1
readnoninc  == 2
writenoninc == 3
rmwbits     == 4
rmwsum      == 5
reads  == {read, readnoninc}
writes == {write, writenoninc}
rmws   == {rmwbits, rmwsum}
typeID == reads \cup writes \cup rmws

Success      == 0
BusReadError == 4
Insufficient == 14   \* the 0xe of parse
Request      == 15

\* Four bytes, most significant first, as they are stored in an order, and back.
Ordered(b, order) == IF order = BigEndian THEN b ELSE <<b[4], b[3], b[2], b[1]>>

uint32(b, order) ==
  LET s == Ordered(b, order)
  IN  s[1] * 16777216 + s[2] * 65536 + s[3] * 256 + s[4]

bytes2uint32s(bs, order) ==
  [i \in 1 .. Len(bs) \div 4 |-> uint32(SubSeq(bs, 4 * i - 3, 4 * i), order)]

-----------------------------------------------------------------------------
packetheader == [version : 0 .. 15, pid : UInt16, ptype : 0 .. 15, order : ByteOrder]

\* packetheader.encode.
encodePacket(h) ==
  Ordered(<<(h.version * 16) % 256, h.pid \div 256, h.pid % 256, 240 + h.ptype>>, h.order)

\* packetheader.decode.  The order is the one that puts the version byte and
\* the byte order qualifier in their places; if neither does, that is an error.
orderOf(data) ==
  IF data[1] = protocolversion * 16 /\ data[4] \div 16 = 15 THEN BigEndian
  ELSE IF data[4] = protocolversion * 16 /\ data[1] \div 16 = 15 THEN LittleEndian
  ELSE InvalidOrder

decodePacket(data) ==
  LET b == Ordered(data, orderOf(data))
  IN  [version |-> protocolversion, pid |-> b[2] * 256 + b[3], ptype |-> b[4] % 16,
       order |-> orderOf(data)]

badPacketHeader(data) == Len(data) < 4 \/ orderOf(data) = InvalidOrder

-----------------------------------------------------------------------------
transactionheader == [version : 0 .. 15, id : 0 .. MaxTransactionID, words : Byte, tid : 0 .. 15,
                      code : 0 .. 15]

\* transactionheader.encode.
encodeTransaction(th, order) ==
  Ordered(<<((th.version * 16) % 256) + ((th.id \div 256) % 16), th.id % 256, th.words,
            ((th.tid * 16) % 256) + th.code>>, order)

\* Mutant of decodeTransaction: the type and the information code are swapped.
decodeTransactionSwapped(data, order) ==
  LET b == Ordered(data, order)
  IN  [version |-> b[1] \div 16, id |-> b[2] + (b[1] % 16) * 256, words |-> b[3],
       tid |-> b[4] % 16, code |-> b[4] \div 16]

\* transactionheader.decode.
decodeTransaction(data, order) ==
  LET b == Ordered(data, order)
  IN  [version |-> b[1] \div 16, id |-> b[2] + (b[1] % 16) * 256, words |-> b[3],
       tid |-> b[4] \div 16, code |-> b[4] % 16]
=============================================================================
