---------------------------- MODULE MCSigiLowering ----------------------------
(* SigiLowering for TLC: small source modules. *)
EXTENDS SigiLowering

Func(name, external, attr) == [name |-> name, external |-> external, attr |-> attr, type |-> "closure"]

\* Two functions marked as the user's main, the declaration of pp, a builtin the runtime does not have,
\* a function, one named like a generated function, and one of a type without a conversion.
MCDecls == {Func(Plain("__main__"), FALSE, "sigi.main"),
            Func(Plain("other_main"), FALSE, "sigi.main"),
            Func(Pp, TRUE, "sigi.builtinfunc"),
            Func(Plain("sigi::dup"), TRUE, "sigi.builtinfunc"),
            Func(Plain("f"), FALSE, "none"),
            Func(Numbered("closure_worker_", 0), FALSE, "none"),
            [Func(Plain("g"), TRUE, "none") EXCEPT !.type = "generic"]}

Moves(types) == [kind : {"push", "pop"}, type : types]
Calls(names) == [kind : {"call"}, callee : names]
OnClosure(types) == [kind : {"closure.call", "check_drop"}, type : types]
Branches(types) == [kind : {"branch"}, type : types]
BoxOps(types, lists) == [kind : {"box"}, type : types, captures : lists]

\* Every operation and type, in small modules.
SmallOps == Moves({"i32", "i1", "i8", "closure", "fn", "generic"})
                \cup Calls({Plain("f"), Pp})
                \cup OnClosure({"closure", "fn"})
                \cup Branches({"closure", "generic"})
                \cup BoxOps({"closure", "fn", "generic"}, {<<>>, <<"i32">>, <<"i32", "closure">>, <<"fn", "fn">>})

\* Nested boxes.
NestedDecls == {Func(Plain("__main__"), FALSE, "sigi.main"),
                Func(Pp, TRUE, "sigi.builtinfunc"),
                Func(Numbered("closure_drop_", 1), FALSE, "none")}
NestedOps == Calls({Pp}) \cup BoxOps({"closure"}, {<<>>, <<"closure">>})

\* A user's function that has the name of a C function.
LibcDecls == {Func(Plain("__main__"), FALSE, "sigi.main"), Func(Plain("free"), FALSE, "none")}

\* Pops and pushes of raw pointers.
PointerDecls == {Func(Plain("__main__"), FALSE, "sigi.main")}
PointerOps == Moves({"ptr", "closure", "i32"})

Family(which, functions, operations, maxDecls, numOps) ==
    [pass |-> which, decls |-> functions, ops |-> operations, maxDecls |-> maxDecls, numOps |-> numOps]

MCInputs == {Family("sigi", MCDecls, SmallOps, 2, 2),
             Family("closure", MCDecls, SmallOps, 1, 2),
             Family("sigi", NestedDecls, NestedOps, 2, 4),
             Family("sigi", LibcDecls, {}, 2, 0)}
PointerInputs == {Family("sigi", PointerDecls, PointerOps, 1, 2)}
=============================================================================
