---------------------------- MODULE MCClosureDialect ----------------------------
(* ClosureDialect for TLC. *)
EXTENDS ClosureDialect

MCTypes == {"i32", "stack", "box"}
MCCapturable == {"i32", "box"}
=============================================================================
