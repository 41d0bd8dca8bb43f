---------------------------- MODULE MCClosureLayout ----------------------------
(* ClosureLayout for TLC: boxes that capture nothing, one field, fields with padding between them, closures. *)
EXTENDS ClosureLayout

BoxOp(name, captures, params) == [name |-> name, captures |-> captures, params |-> params]

MCBoxes == {BoxOp("plain", <<>>, <<"stack">>),
            BoxOp("padded", <<"i8", "i64">>, <<"i32", "stack">>),
            BoxOp("mixed", <<"i8", "closure", "closure">>, <<"stack">>)}
=============================================================================
