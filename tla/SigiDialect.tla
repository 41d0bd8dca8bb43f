---------------------------- MODULE SigiDialect ----------------------------
(***************************************************************************)
(* sigi.push and sigi.pop between text and IR (SigiOps.cpp:37-98): the     *)
(* lines of a function are parsed one by one, with operands resolved by    *)
(* name and type, verified, printed and parsed again.  The lowering        *)
(* chooses the runtime function by the value_type attribute and never asks *)
(* for the type of the value.                                              *)
(***************************************************************************)
EXTENDS Integers, Sequences, FiniteSets, SequencesExt

CONSTANTS Params,      \* the parameters of the function, a function from names to types
          Names,       \* names that lines may define and use
          Types,       \* the types a line may name
          MaxLines     \* bound: lines

ASSUME TypeAssumption == {Params[x] : x \in DOMAIN Params} \subseteq Types \cup {"stack"}
ASSUME BoundAssumption == MaxLines \in Nat

VARIABLES stage,       \* parsing, end, verified, rejected
          defined,     \* the type of each name defined so far
          forward,     \* the type of each name used, but not defined so far
          ops,         \* the operations parsed so far
          printed,     \* the lines that are left of a printed text
          first        \* the operations that were printed

vars == <<stage, defined, forward, ops, printed, first>>

AllNames == DOMAIN Params \cup Names
Lines == [kind : {"push"}, inStack : AllNames, value : AllNames, type : Types, outs : {<<n>> : n \in Names}]
             \cup [kind : {"pop"}, inStack : AllNames, type : Types, outs : Names \X Names]
NotPrinted == <<[kind |-> "none"]>>

------------------------------------------------------------------------------
(* Names.  A use before the definition promises a type (MLIR). *)

TypesKnown(x) == {defined[y] : y \in {x} \cap DOMAIN defined} \cup {forward[y] : y \in {x} \cap DOMAIN forward}

\* resolveOperand: another type than known is an error.
Resolves(uses) == \A u \in uses : TypesKnown(u[1]) \subseteq {u[2]} /\ \A v \in uses : u[1] = v[1] => u[2] = v[2]
PromisedBy(uses) ==
    [x \in DOMAIN forward \cup ({u[1] : u \in uses} \ DOMAIN defined) |->
        IF x \in DOMAIN forward THEN forward[x] ELSE (CHOOSE u \in uses : u[1] = x)[2]]

\* The results of a line: their names are new, and of the type promised.
Defines(promised, outs, types) ==
    /\ \A n \in DOMAIN outs : outs[n] \notin DOMAIN defined
    /\ \A n \in DOMAIN outs : outs[n] \in DOMAIN promised => promised[outs[n]] = types[n]
    /\ IsInjective(outs)

------------------------------------------------------------------------------
(* Lines *)

\* What each line resolves: the stack as a stack, the value as the line's type.
StackUse(line) == <<line.inStack, "stack">>

\* Mutant of ValueUse: the value is resolved as some value, of the type it has.
AnyTypeUse(line) ==
    <<line.value, IF TypesKnown(line.value) = {} THEN line.type ELSE CHOOSE ty \in TypesKnown(line.value) : TRUE>>

ValueUse(line) == <<line.value, line.type>>

Uses(line) == {StackUse(line)} \cup IF line.kind = "push" THEN {ValueUse(line)} ELSE {}
ResultTypes(line) == IF line.kind = "push" THEN <<"stack">> ELSE <<"stack", line.type>>

\* Mutant of StillPromised: a promise stays when it is kept.
AllPromised(promised, line) == promised

StillPromised(promised, line) == [x \in DOMAIN promised \ ToSet(line.outs) |-> promised[x]]

\* PushOp::parse and PopOp::parse, and then the definition of the results.
ParseLine(line) ==
    LET promised == PromisedBy(Uses(line)) IN
    IF Resolves(Uses(line)) /\ Defines(promised, line.outs, ResultTypes(line))
    THEN /\ ops' = Append(ops, [line |-> line, value_type |-> line.type])
         /\ defined' = [x \in DOMAIN defined \cup ToSet(line.outs) |->
                           IF x \in DOMAIN defined THEN defined[x]
                           ELSE ResultTypes(line)[CHOOSE n \in DOMAIN line.outs : line.outs[n] = x]]
         /\ forward' = StillPromised(promised, line)
         /\ UNCHANGED stage
    ELSE /\ stage' = "rejected"
         /\ UNCHANGED <<ops, defined, forward>>

ReadLine ==
    /\ stage = "parsing" /\ printed = NotPrinted /\ Len(ops) < MaxLines
    /\ \E line \in Lines : ParseLine(line)
    /\ UNCHANGED <<printed, first>>

ReadPrintedLine ==
    /\ stage = "parsing" /\ printed \notin {NotPrinted, <<>>}
    /\ ParseLine(Head(printed))
    /\ printed' = Tail(printed)
    /\ UNCHANGED first

\* At the end every promised name is defined.
EndOfText ==
    /\ stage = "parsing" /\ printed \in {NotPrinted, <<>>}
    /\ stage' = IF forward = <<>> THEN "end" ELSE "rejected"
    /\ UNCHANGED <<defined, forward, ops, printed, first>>

\* The verifier: a definition comes before its uses.
Dominates(x, i) == x \in DOMAIN Params \/ \E j \in 1 .. i - 1 : x \in ToSet(ops[j].line.outs)

Verify ==
    /\ stage = "end"
    /\ stage' = IF \A i \in DOMAIN ops : \A u \in Uses(ops[i].line) : Dominates(u[1], i)
                THEN "verified" ELSE "rejected"
    /\ UNCHANGED <<defined, forward, ops, printed, first>>

\* Mutant of PrintLine: the stack that results is printed for the one that is taken.
PrintOutStack(op) == [op.line EXCEPT !.inStack = op.line.outs[1]]

\* PushOp::print and PopOp::print: the operands and the value_type attribute.
PrintLine(op) == [op.line EXCEPT !.type = op.value_type]

PrintText ==
    /\ stage = "verified" /\ first = NotPrinted
    /\ first' = ops
    /\ printed' = [i \in DOMAIN ops |-> PrintLine(ops[i])]
    /\ stage' = "parsing" /\ ops' = <<>> /\ defined' = Params /\ forward' = <<>>

Init ==
    /\ stage = "parsing" /\ defined = Params /\ forward = <<>>
    /\ ops = <<>> /\ printed = NotPrinted /\ first = NotPrinted

Finished == (stage = "rejected" \/ (stage = "verified" /\ first # NotPrinted)) /\ UNCHANGED vars

Next == ReadLine \/ ReadPrintedLine \/ EndOfText \/ Verify \/ PrintText \/ Finished

Spec == Init /\ [][Next]_vars

------------------------------------------------------------------------------
(* Correctness *)

\* Names are either defined or promised, and have a type.
TypeOK ==
    /\ stage \in {"parsing", "end", "verified", "rejected"}
    /\ DOMAIN defined \cap DOMAIN forward = {}
    /\ DOMAIN defined \subseteq AllNames /\ DOMAIN forward \subseteq AllNames
    /\ \A x \in DOMAIN defined : defined[x] \in Types \cup {"stack"}

\* value_type is the type of the value pushed or popped, stacks are stacks: the
\* lowering takes the runtime function from the attribute alone
\* (SigiToLLVM.cpp:155-160 and 194-199).
ValueTypesTrue ==
    stage = "verified" =>
        \A i \in DOMAIN ops :
            LET line == ops[i].line
            IN  /\ defined[line.inStack] = "stack" /\ defined[line.outs[1]] = "stack"
                /\ ops[i].value_type = defined[IF line.kind = "push" THEN line.value ELSE line.outs[2]]

\* What is printed can be parsed and is the same program (test/Dialect/Sigi/ops.mlir:1-2).
RoundTrip == first # NotPrinted => stage # "rejected" /\ (stage = "verified" => ops = first)
=============================================================================
