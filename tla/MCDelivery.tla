----------------------------- MODULE MCDelivery -----------------------------
(***************************************************************************)
(* Delivery for TLC: a user that makes several requests before it receives *)
(* and one that calls the ...Now operations, or two users that receive the *)
(* responses to each request before they make the next.                    *)
(***************************************************************************)
EXTENDS Delivery

c(tid, n, bytes, w) == [tid |-> tid, nwords |-> n, byteslice |-> bytes, waits |-> w]

\* ReadB, then a read of no words; ReadNow, WriteNow or MaskedWriteNow.
MCMenu ==
  <<<<{c(readnoninc, 2, TRUE, "later")}, {c(read, 0, FALSE, "later")}>>,
    <<{c(read, 2, FALSE, "range"), c(write, 1, FALSE, "range"), c(rmwbits, 1, FALSE, "one")}>>>>

\* ReadNow, then MaskedWriteNow; WriteNow, or RMWsum used in the same way.
MCNow ==
  <<<<{c(read, 2, FALSE, "range")}, {c(rmwbits, 1, FALSE, "one")}>>,
    <<{c(write, 2, FALSE, "range"), c(rmwsum, 1, FALSE, "range")}>>>>

\* Every request has registers of its own, some with addresses of two bytes.
MCAddr == [r \in Requests |-> 248 * r[1] + 4 * r[2]]
=============================================================================
