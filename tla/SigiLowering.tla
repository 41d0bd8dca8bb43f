----------------------------- MODULE SigiLowering -----------------------------
(***************************************************************************)
(* The conversion passes convert-sigi-to-llvm and convert-closure-to-llvm  *)
(* (SigiToLLVM.cpp, ClosureToLLVM.cpp) as they rewrite a module: the       *)
(* symbols they create and look up, the symbol references they emit, the   *)
(* nested regions they clone, and the inputs they reject.                  *)
(*                                                                         *)
(* The module is converted in the order of MLIR's dialect conversion: each *)
(* function and then its body, the operations a pattern creates as soon as *)
(* they exist.  The driver and the conversion of the func dialect are      *)
(* MLIR's; they are modelled from how the passes use them.                 *)
(***************************************************************************)
EXTENDS Integers, Sequences, FiniteSets

CONSTANT Inputs     \* families of inputs: the pass that runs, the functions and operations a source
                    \* module is made of, the bounds on how many of each it has

ASSUME InputAssumption ==
    \A f \in Inputs : f.pass \in {"sigi", "closure"} /\ f.maxDecls \in Nat /\ f.numOps \in Nat

\* Types of values.  "closure" is !closure.box<(!sigi.stack) -> !sigi.stack>,
\* "fn" a closure of another signature, "generic" is !sigi.generic, which no
\* conversion of the passes knows.
Type == {"i32", "i1", "i8", "closure", "fn", "ptr", "generic"}
BoxedClosureType == {"closure", "fn"}

\* Symbol names: plain ones, and the numbered ones of getUniqueFunctionName.
Plain(base) == <<base>>
Numbered(prefix, k) == <<prefix, k>>

\* Where something of the module is: in the k-th function, in the region of the
\* i-th operation, or in a function that a pattern made for the i-th operation.
InFunc(k) == <<"func", k>>
InOp(i) == <<"op", i>>

VARIABLES
    pass,       \* "sigi" or "closure": the pass that runs
    decls,      \* the source module's functions, in order
    ops,        \* the source module's operations, in pre-order
    parent,     \* the function or box each operation is in
    module,     \* the functions of the module: name, dialect, origin
    uses,       \* the references to symbols: the user, the name
    todo,       \* what is left to legalize, in order
    lowered,    \* the operations lowered so far
    boxes,      \* what was generated for the boxes lowered so far
    status      \* "converting", "done" or "failed"

source == <<pass, decls, ops, parent>>
vars == <<source, module, uses, todo, lowered, boxes, status>>

OpIds == DOMAIN ops
Names(m) == {f.name : f \in m}

\* The n-th of a set of numbers.
Nth(S, n) == CHOOSE i \in S : Cardinality({j \in S : j < i}) = n - 1

\* The operations of a function or a region, in order.
Inside(where) == {i \in OpIds : parent[i] = where}
Body(where) == [n \in 1 .. Cardinality(Inside(where)) |-> InOp(Nth(Inside(where), n))]

\* Operations are numbered as a walk of the module meets them.
PreOrder ==
    \A j \in OpIds :
        IF parent[j][1] = "func"
        THEN /\ ~decls[parent[j][2]].external
             /\ \A i \in 1 .. j - 1 : parent[i][1] = "func" => parent[i][2] <= parent[j][2]
        ELSE /\ parent[j][2] < j /\ ops[parent[j][2]].kind = "box"
             /\ \A i \in parent[j][2] + 1 .. j - 1 : parent[i][1] = "op" /\ parent[i][2] >= parent[j][2]

\* Any source module; a func.call names one of its functions.
Init ==
    /\ \E f \in Inputs :
           /\ pass = f.pass
           /\ decls \in UNION {[1 .. n -> f.decls] : n \in 1 .. f.maxDecls}
           /\ ops \in UNION {[1 .. n -> f.ops] : n \in 0 .. f.numOps}
    /\ \A j, k \in DOMAIN decls : decls[j].name = decls[k].name => j = k
    /\ \A i \in OpIds : ops[i].kind = "call" => \E k \in DOMAIN decls : decls[k].name = ops[i].callee
    /\ parent \in [OpIds -> {InFunc(k) : k \in DOMAIN decls} \cup {InOp(i) : i \in OpIds}]
    /\ PreOrder
    /\ module = {[name |-> decls[k].name, dialect |-> "func", origin |-> InFunc(k)] : k \in DOMAIN decls}
    /\ uses = {[by |-> InOp(i), fun |-> ops[i].callee] : i \in {i \in OpIds : ops[i].kind = "call"}}
    /\ todo = [k \in DOMAIN decls |-> InFunc(k)]
    /\ lowered = {}
    /\ boxes = {}
    /\ status = "converting"

------------------------------------------------------------------------------
(* Symbols *)

\* Mutant of LookupOrCreate: a declaration each time, without looking one up.
CreateAlways(m, bases) ==
    m \cup {[name |-> Plain(b), dialect |-> "llvm", origin |-> <<"decl", Cardinality(m)>>] : b \in bases}

\* Another mutant of it: a function of any dialect will do.
LookupAnyOrCreate(m, bases) ==
    m \cup {[name |-> Plain(b), dialect |-> "llvm", origin |-> <<"decl", 0>>] : b \in {b \in bases : Plain(b) \notin Names(m)}}

\* lookupOrCreateFn for each of these names: a declaration for those no
\* function of the LLVM dialect has.
LookupOrCreate(m, bases) ==
    m \cup {[name |-> Plain(b), dialect |-> "llvm", origin |-> <<"decl", 0>>] :
               b \in {b \in bases : \A f \in m : f.name = Plain(b) => f.dialect # "llvm"}}

\* Mutant of UniqueName: a counter of the boxes, without looking at the symbols.
CountedName(prefix) == Numbered(prefix, Cardinality(boxes))

\* getUniqueFunctionName: the first number no symbol of the module has.
UniqueName(prefix) ==
    Numbered(prefix, CHOOSE k \in 0 .. Cardinality(module) :
                         /\ Numbered(prefix, k) \notin Names(module)
                         /\ \A j \in 0 .. k - 1 : Numbered(prefix, j) \in Names(module))

Generated(n, kind, i) == [name |-> n, dialect |-> "llvm", origin |-> <<kind, i>>]
References(user, names) == {[by |-> user, fun |-> n] : n \in names}

\* Mutant of Enter: the operations inside are forgotten.
EnterWithoutBody(where) == todo' = Tail(todo)

\* The head of todo is done; the operations inside it come next.
Enter(where) == todo' = Body(where) \o Tail(todo)

\* The pass cannot legalize something: it fails.
Fail == status' = "failed" /\ UNCHANGED <<module, uses, todo, lowered, boxes>>

------------------------------------------------------------------------------
(* Functions *)

\* func.func becomes llvm.func under the same name and with its attributes.
ToLLVM(k) == {IF f.origin = InFunc(k) THEN [f EXCEPT !.dialect = "llvm"] ELSE f : f \in module}

\* The runtime functions the generated main calls.
MainCallees == {"malloc", "sigi_init_stack", "sigi_free_stack", "free"}

\* ConvertSigiMainFuncToLLVM: a function `main` that calls the runtime and this.
WithMain(m, k) == LookupOrCreate(m, MainCallees) \cup {Generated(Plain("main"), "main", k)}

\* ConvertSigiFrontendFwdDecl: sigi::pp is sigi_builtin__pp in the runtime, for
\* the declaration and for every use of it.
Pp == Plain("sigi::pp")
RuntimePp == Plain("sigi_builtin__pp")

\* Mutant of RenameUses: calls that are still in an unconverted region are missed.
RenameLoweredUses ==
    {IF u.fun = Pp /\ u.by[2] \in lowered THEN [u EXCEPT !.fun = RuntimePp] ELSE u : u \in uses}

RenameUses == {IF u.fun = Pp THEN [u EXCEPT !.fun = RuntimePp] ELSE u : u \in uses}

\* What the type converter of the pass knows; only the sigi pass converts
\* !sigi.stack, in the signature of "closure".
Convertible(ty) == ty \notin IF pass = "sigi" THEN {"generic"} ELSE {"generic", "closure"}

\* A func.func of a type without a conversion stays illegal.
UnknownSignature(k) == pass = "sigi" /\ ~Convertible(decls[k].type)

ConvertFunc(k) ==
    /\ status = "converting" /\ todo # <<>> /\ Head(todo) = InFunc(k)
    /\ \/ /\ pass = "closure"       \* not a dialect this pass converts
          /\ UNCHANGED <<module, uses>>
       \/ /\ pass = "sigi" /\ decls[k].attr = "none"
          /\ module' = ToLLVM(k)
          /\ UNCHANGED uses
       \/ /\ pass = "sigi" /\ decls[k].attr = "sigi.main"
          /\ module' = WithMain(ToLLVM(k), k)
          /\ uses' = uses \cup References(<<"main", k>>, {Plain(b) : b \in MainCallees} \cup {decls[k].name})
       \/ /\ pass = "sigi" /\ decls[k].attr = "sigi.builtinfunc"
          /\ decls[k].external /\ decls[k].name = Pp
          /\ module' = {IF f.origin = InFunc(k) THEN [f EXCEPT !.name = RuntimePp] ELSE f : f \in ToLLVM(k)}
          /\ uses' = RenameUses
    /\ ~UnknownSignature(k)
    /\ Enter(InFunc(k))
    /\ UNCHANGED <<source, lowered, boxes, status>>

\* A sigi.builtinfunc that is not the declaration of sigi::pp stays illegal.
UnknownBuiltin(k) ==
    /\ pass = "sigi" /\ decls[k].attr = "sigi.builtinfunc"
    /\ ~(decls[k].external /\ decls[k].name = Pp)

RejectFunc(k) ==
    /\ status = "converting" /\ todo # <<>> /\ Head(todo) = InFunc(k)
    /\ UnknownBuiltin(k) \/ UnknownSignature(k)
    /\ Fail /\ UNCHANGED source

------------------------------------------------------------------------------
(* Operations *)

\* getOrCreatePushFunc and getOrCreatePopFunc, by the type of the value.
PushFunction == [i32 |-> "sigi_push_i32", i1 |-> "sigi_push_bool",
                 ptr |-> "sigi_push_closure", closure |-> "sigi_push_closure"]
\* Mutant of PopFunction: the test for i1 is missing.
PopFunctionOfAnyInteger == [i32 |-> "sigi_pop_i32", i1 |-> "sigi_pop_i32",
                            ptr |-> "sigi_push_closure", closure |-> "sigi_pop_closure"]

PopFunction == [i32 |-> "sigi_pop_i32", i1 |-> "sigi_pop_bool",
                ptr |-> "sigi_push_closure", closure |-> "sigi_pop_closure"]

\* What the pass must convert, and what it has a pattern for.
Illegal(i) == pass = "sigi" \/ ops[i].kind \in {"box", "closure.call", "check_drop"}
Supported(i) ==
    CASE ops[i].kind = "push" -> ops[i].type \in DOMAIN PushFunction
      [] ops[i].kind = "pop"  -> ops[i].type \in DOMAIN PopFunction
      [] ops[i].kind = "call" -> TRUE
      [] ops[i].kind = "box"  -> /\ Convertible(ops[i].type)
                                 /\ \A n \in DOMAIN ops[i].captures : Convertible(ops[i].captures[n])
      [] OTHER                -> Convertible(ops[i].type)

\* The next thing to legalize is an operation of this kind.
At(i, kind) ==
    /\ status = "converting" /\ todo # <<>> /\ Head(todo) = InOp(i)
    /\ Illegal(i) /\ Supported(i) /\ ops[i].kind = kind

\* Mutant of CallRuntime: the operation is not replaced.
CallRuntimeAndKeep(i, bases) ==
    /\ module' = LookupOrCreate(module, bases)
    /\ uses' = uses \cup References(InOp(i), {Plain(b) : b \in bases})
    /\ lowered' = lowered \cup {i}
    /\ UNCHANGED <<source, todo, boxes, status>>

\* Operation i becomes calls of these functions of the runtime.
CallRuntime(i, bases) ==
    /\ module' = LookupOrCreate(module, bases)
    /\ uses' = uses \cup References(InOp(i), {Plain(b) : b \in bases})
    /\ todo' = Tail(todo)
    /\ lowered' = lowered \cup {i}
    /\ UNCHANGED <<source, boxes, status>>

LowerPush(i) == At(i, "push") /\ CallRuntime(i, {PushFunction[ops[i].type]})
LowerPop(i) == At(i, "pop") /\ CallRuntime(i, {PopFunction[ops[i].type]})
LowerCheckDrop(i) == At(i, "check_drop") /\ CallRuntime(i, {"closure_check_drop"})

\* closure.call becomes an indirect call; func.call keeps its symbol.
LowerCall(i) == (At(i, "closure.call") \/ At(i, "call")) /\ CallRuntime(i, {})

\* A branch of the cf dialect, by the type of the block arguments it passes.
LowerBranch(i) == At(i, "branch") /\ CallRuntime(i, {})

\* The captured fields that hold closures: capture() counts them, and only for
\* them there is a drop function to generate.
ClosureFields(captures) == {n \in DOMAIN captures : captures[n] \in BoxedClosureType}

\* The region of the box is cloned into the worker; its operations are
\* legalized there, next.
LowerBox(i) ==
    /\ At(i, "box")
    /\ LET counted == ClosureFields(ops[i].captures) # {}
           worker == UniqueName("closure_worker_")
           wrapper == UniqueName("closure_wrapper_")
           drop == IF counted THEN UniqueName("closure_drop_") ELSE Plain("closure_drop_nothing")
           runtime == {"malloc", "closure_decr_then_drop",
                       IF counted THEN "closure_incr" ELSE "closure_drop_nothing"}
       IN  /\ module' = LookupOrCreate(module, runtime)
                            \cup {Generated(worker, "worker", i), Generated(wrapper, "wrapper", i)}
                            \cup (IF counted THEN {Generated(drop, "drop", i)} ELSE {})
           /\ uses' = uses \cup References(InOp(i), {Plain("malloc"), wrapper, drop})
                           \cup References(<<"wrapper", i>>, {worker})
                           \cup IF counted
                                THEN References(InOp(i), {Plain("closure_incr")})
                                        \cup References(<<"drop", i>>, {Plain("closure_decr_then_drop")})
                                ELSE {}
           /\ boxes' = boxes \cup {[op |-> i, worker |-> worker, wrapper |-> wrapper, drop |-> drop]}
    /\ Enter(InOp(i))
    /\ lowered' = lowered \cup {i}
    /\ UNCHANGED <<source, status>>

\* Operations of other dialects are left as they are.
Skip(i) ==
    /\ status = "converting" /\ todo # <<>> /\ Head(todo) = InOp(i)
    /\ ~Illegal(i)
    /\ todo' = Tail(todo)
    /\ UNCHANGED <<source, module, uses, lowered, boxes, status>>

RejectOp(i) ==
    /\ status = "converting" /\ todo # <<>> /\ Head(todo) = InOp(i)
    /\ Illegal(i) /\ ~Supported(i)
    /\ Fail /\ UNCHANGED source

Finish ==
    /\ status = "converting" /\ todo = <<>>
    /\ status' = "done"
    /\ UNCHANGED <<source, module, uses, todo, lowered, boxes>>

Terminated == status # "converting" /\ UNCHANGED vars

Step ==
    \/ \E k \in DOMAIN decls : ConvertFunc(k) \/ RejectFunc(k)
    \/ \E i \in OpIds :
           \/ LowerPush(i) \/ LowerPop(i) \/ LowerCheckDrop(i) \/ LowerCall(i) \/ LowerBranch(i)
           \/ LowerBox(i)
           \/ Skip(i) \/ RejectOp(i)
    \/ Finish

Next == Step \/ Terminated

\* The driver does not stop in the middle of a conversion.
Spec == Init /\ [][Next]_vars /\ WF_vars(Step)

------------------------------------------------------------------------------
(* Correctness *)

\* What is lowered is not left to legalize, and boxes have code once lowered.
TypeOK ==
    /\ status \in {"converting", "done", "failed"}
    /\ lowered \subseteq OpIds /\ {b.op : b \in boxes} = {i \in lowered : ops[i].kind = "box"}
    /\ \A n \in DOMAIN todo : todo[n] \in {InFunc(k) : k \in DOMAIN decls} \cup {InOp(i) : i \in OpIds \ lowered}
    /\ \A f \in module : f.dialect \in {"func", "llvm"}

\* A function of the program has the name of a function that main calls.
LikeCallee(k) == decls[k].name \in {Plain(b) : b \in MainCallees}

\* What getUniqueFunctionName and lookupOrCreateFn add clashes with no function
\* of the user, of another box, or of the runtime.  Two functions share a name
\* only if both are a main that was asked for twice, or if a function of the
\* program is named like a callee of main and stands behind the sigi.main:
\* lookupOrCreateFn does not see it, as it is still a func.func.
NamesClashOnlyForMain ==
    \A f, g \in module :
        f.name = g.name /\ f # g =>
            \/ f.name = Plain("main") /\ f.origin[1] = "main" /\ g.origin[1] = "main"
            \/ \E j, k \in DOMAIN decls : /\ j < k /\ decls[j].attr = "sigi.main" /\ LikeCallee(k)
                                         /\ {f.origin, g.origin} = {InFunc(k), <<"decl", 0>>}

\* At every step each symbol reference names a function of the module, also
\* while sigi::pp is being renamed under calls that are not converted yet.
SymbolsResolve == \A u \in uses : u.fun \in Names(module)

\* The code a box refers to is its own: the wrapper stored in the closure, the
\* worker the wrapper calls and the drop function are those made for this box.
BoxesOwnTheirCode ==
    \A b \in boxes :
        /\ \A f \in module : f.name = b.wrapper => f.origin = <<"wrapper", b.op>>
        /\ \A f \in module : f.name = b.worker => f.origin = <<"worker", b.op>>
        /\ \A f \in module : f.name = b.drop /\ f.name # Plain("closure_drop_nothing") => f.origin = <<"drop", b.op>>

\* The functions of runtime/sigi.h and the C type of the value each moves.
Signature == [sigi_push_i32     |-> <<"push", "int32_t">>, sigi_pop_i32     |-> <<"pop", "int32_t">>,
              sigi_push_bool    |-> <<"push", "bool">>,    sigi_pop_bool    |-> <<"pop", "bool">>,
              sigi_push_closure |-> <<"push", "closure_t*">>, sigi_pop_closure |-> <<"pop", "closure_t*">>]
CType == [i32 |-> "int32_t", i1 |-> "bool", closure |-> "closure_t*", ptr |-> "closure_t*"]

\* A sigi.push or sigi.pop calls the runtime function that moves a value of its
\* type in its direction (the lists of SigiToLLVM.cpp:87-89 and 115-117).
RuntimeFunctionFits ==
    \A i \in lowered : ops[i].kind \in {"push", "pop"} =>
        \A u \in uses : u.by = InOp(i) => Signature[u.fun[1]] = <<ops[i].kind, CType[ops[i].type]>>

\* The pass fails exactly when something in the module, however deep in the
\* regions of boxes, has no lowering; otherwise it leaves nothing unconverted.
Unsupported ==
    \/ \E k \in DOMAIN decls : UnknownBuiltin(k) \/ UnknownSignature(k)
    \/ \E i \in OpIds : Illegal(i) /\ ~Supported(i)
ConvertsAllOrFails ==
    /\ status = "failed" => Unsupported
    /\ status = "done" => ~Unsupported /\ \A i \in OpIds : Illegal(i) => i \in lowered

\* The generated main allocates and frees with the functions of the runtime and
\* of C that SigiToLLVM.cpp:277-280 declares, never with a function of the user,
\* except one of that name that is converted before the sigi.main, or is the
\* sigi.main: that one is taken for C's.
MainCallsRuntime ==
    \A u \in uses : u.by[1] = "main" /\ u.fun \in {Plain(b) : b \in MainCallees} =>
        \/ \E f \in module : f.name = u.fun /\ f.origin = <<"decl", 0>>
        \/ \E k \in 1 .. u.by[2] : decls[k].name = u.fun

\* The conversion comes to an end on every module.
ConversionEnds == <>(status # "converting")
=============================================================================
