----------------------------- MODULE MCHWSystem -----------------------------
(***************************************************************************)
(* HWSystem for TLC: the constants are in the .cfg files.                  *)
(***************************************************************************)
EXTENDS HWSystem, TLC

\* The handlelost goroutines differ only in name (for invariants only).
HandlerSymmetry == Permutations(Handlers)
=============================================================================
