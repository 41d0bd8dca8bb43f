---------------------------- MODULE MCStackValues ----------------------------
(* StackValues for TLC. *)
EXTENDS StackValues

AllKinds == {"push", "pop", "pp", "box", "check_drop"}
AllRewrites == {"erase", "merge", "move"}

\* What counts and frees closures.
DropKinds == {"box", "push", "check_drop"}
=============================================================================
