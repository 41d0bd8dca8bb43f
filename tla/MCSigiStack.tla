----------------------------- MODULE MCSigiStack -----------------------------
(* SigiStack for TLC: one integer, one boolean, and interchangeable closures. *)
EXTENDS SigiStack, TLC

ClosureSymmetry == Permutations(Closure)
=============================================================================
