---------------------------- MODULE TypeConversion ----------------------------
(***************************************************************************)
(* The types of one closure through a conversion pass: closure.box and its *)
(* closure.return become a worker and a wrapper, a closure.call elsewhere, *)
(* maybe in a module that another pass converts, an indirect call.         *)
(* Nothing checks that the indirect call passes what the wrapper takes: to *)
(* LLVM both sides are only a ptr.                                         *)
(***************************************************************************)
EXTENDS Integers, Sequences, FiniteSets

CONSTANTS Passes,      \* "closure" and "sigi", the conversion passes
          Leaves,      \* types that are not closures
          Nested,      \* the closure types that occur in a closure's type
          MaxDepth,    \* bound: closure types within one another
          MaxInputs,   \* bound: inputs of a closure
          MaxResults   \* bound: results of a closure

ASSUME PassAssumption == Passes \subseteq {"closure", "sigi"}
ASSUME LeafAssumption == Leaves \subseteq {"i32", "stack", "tensor"}
ASSUME BoundAssumption == MaxDepth \in Nat \ {0} /\ MaxInputs \in Nat /\ MaxResults \in Nat

VARIABLES pass,        \* the pass that converts the module with the box
          caller,      \* the pass that converts the module with the call
          box,         \* the closure.box: captures, type, region parameters, returned types
          worker, wrapper, returned, site,     \* what was emitted, or NotYet
          verdict      \* of the passes, and of the verifier after them

vars == <<pass, caller, box, worker, wrapper, returned, site, verdict>>
emitted == <<worker, wrapper, returned, site>>

NotYet == <<>>
NoType == <<"none">>
Leaf(name) == <<name>>
Ptr == <<"ptr">>
Void == <<"void">>
Struct(types) == <<"struct", types>>
BoxedClosure(ins, outs) == <<"box", ins, outs>>

\* The types over some leaves: closures are at most d deep in level d.
Levels(names) ==
    LET level[d \in 0 .. MaxDepth] ==
            {Leaf(name) : name \in names}
                \cup IF d = 0 THEN {} ELSE {"box"} \X Seq(level[d - 1]) \X Seq(level[d - 1])
    IN  level
TypesOver(names) == Levels(names)[MaxDepth]

\* All that is converted, and what conversions give.
AllTypes == TypesOver({"i32", "stack", "tensor", "ptr"})

\* The closure that is built may be of nested closures, one level deeper.
ASSUME NestedAssumption == \A ty \in Nested : ty[1] = "box" /\ ty \in Levels(Leaves)[MaxDepth - 1]

Types == {Leaf(name) : name \in Leaves} \cup Nested
Capturable == {ty \in Types : ty[1] \in {"i32", "box"}}

------------------------------------------------------------------------------
(* The type converters: functions on types *)

ConvertsAll(convert, types) == \A n \in DOMAIN types : convert[types[n]] # NoType
ConvertTypes(convert, types) == [n \in DOMAIN types |-> convert[types[n]]]

\* Mutant of ConvertTypeListOrIdentity: what has no conversion is left out.
ConvertTypeListOrDrop(convert, types) ==
    SelectSeq(ConvertTypes(convert, types), LAMBDA ty : ty # NoType)

\* convertTypeListOrIdentity: what has no conversion stays as it is.
ConvertTypeListOrIdentity(convert, types) ==
    [n \in DOMAIN types |-> IF convert[types[n]] = NoType THEN types[n] ELSE convert[types[n]]]

\* Types of the LLVM dialect.
IsLLVM(ty) == ty[1] \in {"i32", "ptr", "void", "struct"}
AllLLVM(types) == \A n \in DOMAIN types : IsLLVM(types[n])

\* Two or more results become a struct, which has to be of LLVM types.
Packable(convert, types) == Len(types) <= 1 \/ AllLLVM(ConvertTypes(convert, types))

\* Whether convertFunctionSignature makes a function type of it.
ConvertsSignature(convert, ins, outs) ==
    ConvertsAll(convert, ins) /\ ConvertsAll(convert, outs) /\ Packable(convert, outs)

\* Mutant of FinalConversion: whether the signature converts is not asked.
AlwaysPointer(convert, ty) == Ptr

\* populateClosureToLLVMFinalTypeConversions: a pointer, if the signature converts.
FinalConversion(convert, ty) ==
    IF ConvertsSignature(convert, ty[2], ty[3]) THEN Ptr ELSE NoType

\* populateClosureGenericTypeConversions: a closure again, of converted types.
GenericConversion(convert, ty) ==
    BoxedClosure(ConvertTypeListOrIdentity(convert, ty[2]), ConvertTypeListOrIdentity(convert, ty[3]))

\* A pass asks the conversion registered last first: the final one.  Only
\* convert-sigi-to-llvm registers the generic one, and one for the stack.
Conversion(p, convert, ty) ==
    CASE ty[1] = "box" ->
             IF FinalConversion(convert, ty) # NoType \/ p = "closure" THEN FinalConversion(convert, ty)
             ELSE GenericConversion(convert, ty)
      [] ty[1] = "stack" -> IF p = "sigi" THEN Ptr ELSE NoType
      [] ty[1] = "tensor" -> NoType
      [] OTHER -> ty

Converter(p) == LET convert[ty \in AllTypes] == Conversion(p, convert, ty) IN convert

\* convertFunType: several results are packed into a struct.
PackResults(types) ==
    CASE types = <<>> -> Void [] Len(types) = 1 -> types[1] [] OTHER -> Struct(types)
ConvertFunType(p, ins, outs) ==
    [params |-> ConvertTypes(Converter(p), ins), result |-> PackResults(ConvertTypes(Converter(p), outs))]

InsertClosureParameter(fun) == [params |-> <<Ptr>> \o fun.params, result |-> fun.result]

------------------------------------------------------------------------------
(* The patterns, applied in any order *)

Lists(types, n) == UNION {[1 .. k -> types] : k \in 0 .. n}

\* A box as its parser builds it: the region takes the captures and the inputs,
\* and what is returned has the types of the closure (ReturnOp::verify).
Init ==
    /\ pass \in Passes /\ caller \in Passes
    /\ \E captures \in Lists(Capturable, 1), ins \in Lists(Types, MaxInputs), outs \in Lists(Types, MaxResults) :
           box = [captures |-> captures, ins |-> ins, outs |-> outs]
    /\ worker = NotYet /\ wrapper = NotYet /\ returned = NotYet /\ site = NotYet
    /\ verdict = "converting"

Params == box.captures \o box.ins

\* An operation that no pattern converts stays illegal, and its pass fails.
Fail ==
    /\ verdict' = "failed"
    /\ UNCHANGED emitted

\* Mutant of WorkerParams: of the closure's inputs only.
InputsOnly == box.ins

\* The worker's parameters are those of the region.
WorkerParams == Params

\* ConvertClosureBoxToLLVM: convertFunType has to succeed.  An operand whose type has no conversion fails the match.
ConvertBox ==
    /\ worker = NotYet
    /\ IF /\ ConvertsSignature(Converter(pass), box.ins, box.outs)
          /\ ConvertsAll(Converter(pass), box.captures)
       THEN LET fun == ConvertFunType(pass, box.ins, box.outs)
            IN  /\ wrapper' = InsertClosureParameter(fun)
                /\ worker' = [params |-> ConvertTypes(Converter(pass), WorkerParams), result |-> fun.result]
                /\ UNCHANGED <<returned, site, verdict>>
       ELSE Fail
    /\ UNCHANGED <<pass, caller, box>>

\* ConvertClosureReturnToLLVM: an llvm.return of the converted operands.
ConvertReturn ==
    /\ returned = NotYet
    /\ IF ConvertsAll(Converter(pass), box.outs)
       THEN /\ returned' = [operands |-> ConvertTypes(Converter(pass), box.outs)]
            /\ UNCHANGED <<worker, wrapper, site, verdict>>
       ELSE Fail
    /\ UNCHANGED <<pass, caller, box>>

\* Mutant of CallArgs: the closure itself is not passed.
OperandsOnly == ConvertTypes(Converter(caller), box.ins)

\* The closure and then the operands.
CallArgs == <<Ptr>> \o ConvertTypes(Converter(caller), box.ins)

\* ConvertClosureCallToLLVM: the operands have the types of the closure's inputs
\* (TypesMatchWith of CallOp), and the callee is of the closure's type.
ConvertCall ==
    /\ site = NotYet
    /\ IF /\ Converter(caller)[BoxedClosure(box.ins, box.outs)] # NoType
          /\ ConvertsAll(Converter(caller), box.ins) /\ ConvertsAll(Converter(caller), box.outs)
       THEN /\ site' = [callee |-> Converter(caller)[BoxedClosure(box.ins, box.outs)],
                        args |-> CallArgs,
                        results |-> ConvertTypes(Converter(caller), box.outs)]
            /\ UNCHANGED <<worker, wrapper, returned, verdict>>
       ELSE Fail
    /\ UNCHANGED <<pass, caller, box>>

\* What the verifier of the LLVM dialect accepts: LLVM types, at most one result
\* of a call or a return, and direct calls and returns that fit their function.
\* The wrapper calls the worker with the captured fields and its own arguments.
Verifies ==
    /\ AllLLVM(worker.params) /\ AllLLVM(wrapper.params) /\ IsLLVM(wrapper.result)
    /\ IsLLVM(site.callee) /\ AllLLVM(site.args) /\ AllLLVM(site.results)
    /\ Len(site.results) <= 1 /\ Len(returned.operands) <= 1
    /\ PackResults(returned.operands) = worker.result /\ wrapper.result = worker.result
    /\ ConvertTypes(Converter(pass), box.captures) \o Tail(wrapper.params) = worker.params

Verify ==
    /\ worker # NotYet /\ returned # NotYet /\ site # NotYet
    /\ verdict' = IF Verifies THEN "accepted" ELSE "rejected"
    /\ UNCHANGED <<pass, caller, box, emitted>>

Done == verdict # "converting" /\ UNCHANGED vars

Next ==
    \/ verdict = "converting" /\ (ConvertBox \/ ConvertReturn \/ ConvertCall \/ Verify)
    \/ Done

Spec == Init /\ [][Next]_vars

------------------------------------------------------------------------------
(* Correctness *)

\* The types that a pass converts: of the box, or only of the call.
TypesFor(p) ==
    LET types == IF p = pass THEN Params \o box.outs ELSE box.ins \o box.outs
    IN  {types[n] : n \in DOMAIN types}

\* Types the pass means to convert: nothing in them lacks an LLVM counterpart.
Supported(p, ty) == ty \in TypesOver(IF p = "sigi" THEN {"i32", "stack"} ELSE {"i32"})

\* A closure that takes or returns another is a pointer for convert-sigi-to-llvm,
\* whatever the other one is of: the generic conversion never fails.
HidesWhatIsInside(p, ty) ==
    /\ p = "sigi" /\ ty[1] = "box"
    /\ \A types \in {ty[2], ty[3]} : \A n \in DOMAIN types : types[n] # Leaf("tensor")

\* Emitted types are what the patterns make of the types of the box, and the
\* verifier only rules on a pass that has not failed.
TypeOK ==
    /\ pass \in Passes /\ caller \in Passes
    /\ verdict \in {"converting", "failed", "accepted", "rejected"}
    /\ verdict \in {"accepted", "rejected"} => worker # NotYet /\ returned # NotYet /\ site # NotYet
    /\ worker # NotYet => Len(worker.params) = Len(box.captures) + Len(box.ins)

\* What closure.call passes through the function pointer it loads, and what it
\* takes as result, is what the wrapper has, also when box and call are compiled
\* apart and by different passes (ClosureToLLVM.cpp:50-63 and 511-535).
IndirectCallFits ==
    verdict = "accepted" => site.args = wrapper.params /\ PackResults(site.results) = wrapper.result

\* A closure type stays one when its signature has no LLVM counterpart.
LeftOver == \E p \in {pass, caller} : \E ty \in TypesFor(p) : Converter(p)[ty][1] = "box"

\* In any order of the patterns: closures of supported types with at most one
\* result are lowered to valid code; a pass fails on a type it cannot convert,
\* unless that is hidden in a closure of closures, and its output is invalid for
\* several results (which closure.return allows, ClosureOps.td:150-161) and for
\* closure types it converts to closure types.
LowersWhatItSupports ==
    /\ verdict = "accepted" =>
           \A p \in {pass, caller} : \A ty \in TypesFor(p) : Supported(p, ty) \/ HidesWhatIsInside(p, ty)
    /\ verdict = "failed" => \E p \in {pass, caller} : \E ty \in TypesFor(p) : ~Supported(p, ty)
    /\ verdict = "rejected" => Len(box.outs) > 1 \/ LeftOver

\* What the converter makes of a type it leaves alone: a second round, as for the
\* region of a func.func that becomes an llvm.func, changes nothing more.
ConversionStable ==
    \A p \in {pass, caller} : \A ty \in TypesFor(p) :
        LET once == Converter(p)[ty] IN once # NoType => Converter(p)[once] = once
=============================================================================
