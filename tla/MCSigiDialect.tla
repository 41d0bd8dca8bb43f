---------------------------- MODULE MCSigiDialect ----------------------------
(* SigiDialect for TLC: a function of a stack and an integer. *)
EXTENDS SigiDialect

MCParams == [x \in {"s0", "v0"} |-> IF x = "s0" THEN "stack" ELSE "i32"]
=============================================================================
