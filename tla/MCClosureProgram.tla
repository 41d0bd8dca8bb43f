--------------------------- MODULE MCClosureProgram ---------------------------
(* ClosureProgram for TLC: interchangeable closures. *)
EXTENDS ClosureProgram, TLC

ClosureSymmetry == Permutations(Closure)
=============================================================================
