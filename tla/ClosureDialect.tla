---------------------------- MODULE ClosureDialect ----------------------------
(***************************************************************************)
(* closure.box and closure.return between text and IR (ClosureOps.cpp):    *)
(* sigi-opt parses a text, verifies the operation, prints it, and another  *)
(* sigi-opt reads what was printed, as the tests do (ops.mlir:1-2).        *)
(* A text or an operation is a record of types; names are left out but     *)
(* for whether the arguments have any.                                     *)
(***************************************************************************)
EXTENDS Integers, Sequences, FiniteSets

CONSTANTS Forms,       \* the texts: "named", "unnamed", "labelled", "generic"
          Types, Capturable,
          MaxList      \* bound: captures, arguments, returned values

ASSUME FormAssumption == Forms \subseteq {"named", "unnamed", "labelled", "generic"}
ASSUME TypeAssumption ==
    /\ Capturable \subseteq Types
    /\ Types \cap {"no op", "no label", "no body", "no region", "<<UNKNOWN_SSA_VALUE>>"} = {}
ASSUME BoundAssumption == MaxList \in Nat

VARIABLES stage,       \* text, op, verified, rejected or undefined
          text,        \* what is parsed
          op,          \* the closure.box
          first        \* the operation as it was when it was printed first

vars == <<stage, text, op, first>>

NoOp == [captures |-> <<"no op">>]
NoLabel == <<"no label">>      \* the entry block of the region has no label
NoBody == <<"no body">>        \* nothing between the braces, or in the entry block
NoRegion == <<"no region">>    \* the region of an operation has no block
NoAttrs == <<"no attrs">>
Unknown == "<<UNKNOWN_SSA_VALUE>>"

Attrs == {"attribute", "none"}  \* of one result

Lists(S, n) == UNION {[1 .. k -> S] : k \in 0 .. n}

------------------------------------------------------------------------------
(* Parsing *)

\* Mutant of RegionParams: the function's arguments come first.
InputsFirst(t) == t.ins \o t.captures

\* parseBoxOp: captured parameters and then those of the function type.
RegionParams(t) == t.captures \o t.ins

\* The parser of regions adds these parameters to the entry block if the first
\* of them has a name; otherwise the block has those of its own label.
Named(t) == t.captures # <<>> \/ (t.named /\ t.ins # <<>>)
EntryParams(t) == IF Named(t) THEN RegionParams(t) ELSE IF t.label = NoLabel THEN <<>> ELSE t.label

\* A label next to named parameters, two parameters without a name among named
\* ones, more parameters of a label than declared, and an empty region.
ParseFails(t) ==
    \/ \E n \in DOMAIN t.ins : t.ins[n] = Unknown
    \/ Named(t) /\ t.label # NoLabel
    \/ Named(t) /\ ~t.named /\ Len(t.ins) > 1
    \/ ~Named(t) /\ RegionParams(t) # <<>> /\ Len(EntryParams(t)) > Len(RegionParams(t))
    \/ RegionParams(t) = <<>> /\ t.label = NoLabel /\ t.returns = NoBody

\* addArgAndResultAttrs adds an array if a result has attributes.
ResultAttrs(t) == IF \E n \in DOMAIN t.outAttrs : t.outAttrs[n] # "none" THEN t.outAttrs ELSE NoAttrs

\* BoxOp::parse, with ReturnOp::parse for the end of the body.
Parse ==
    /\ stage = "text"
    /\ IF ParseFails(text)
       THEN stage' = "rejected" /\ UNCHANGED op
       ELSE /\ stage' = "op"
            /\ op' = [captures |-> text.captures, ins |-> text.ins, outs |-> text.outs,
                      resAttrs |-> ResultAttrs(text), params |-> EntryParams(text), returns |-> text.returns]
    /\ UNCHANGED <<text, first>>

------------------------------------------------------------------------------
(* Verifying *)

\* Mutant of ReturnFits: a body need not return.
ReturnsIfAtAll(o) == o.returns \in {o.outs, NoBody}

\* ReturnOp::verify.  MLIR has every block end with a terminator, so NoBody never fits.
ReturnFits(o) == o.returns = o.outs

Verify ==
    /\ stage = "op"
    /\ stage' = IF op.returns = NoRegion \/ ReturnFits(op) THEN "verified" ELSE "rejected"
    /\ UNCHANGED <<text, op, first>>

------------------------------------------------------------------------------
(* Printing *)

\* Mutant of PrintedInput: the captured parameters are not skipped.
PrintedFromStart(o, n) == IF n <= Len(o.params) THEN o.params[n] ELSE Unknown

\* printFunctionSignature prints the parameter of the region, with its type.
PrintedInput(o, n) ==
    IF Len(o.captures) + n <= Len(o.params) THEN o.params[Len(o.captures) + n] ELSE Unknown

PrintedAttrs(o) ==
    [n \in DOMAIN o.outs |-> IF o.resAttrs # NoAttrs /\ n \in DOMAIN o.resAttrs THEN o.resAttrs[n] ELSE "none"]

\* BoxOp::print: captures, signature and region, empty or not.
PrintText ==
    /\ stage = "verified"
    /\ Len(op.captures) <= Len(op.params)
    /\ text' = [captures |-> op.captures, named |-> TRUE, ins |-> [n \in DOMAIN op.ins |-> PrintedInput(op, n)],
                outs |-> op.outs, outAttrs |-> PrintedAttrs(op), label |-> NoLabel,
                returns |-> IF op.returns = NoRegion THEN NoBody ELSE op.returns]
    /\ stage' = "text"
    /\ first' = IF first = NoOp THEN op ELSE first
    /\ UNCHANGED op

\* Every capture is printed with a parameter of the region (body.getArgument),
\* whether there is one or not.
PrintWithoutParams ==
    /\ stage = "verified"
    /\ Len(op.captures) > Len(op.params)
    /\ stage' = "undefined"
    /\ UNCHANGED <<text, op, first>>

\* --mlir-print-op-generic prints the operation as it is.
PrintGeneric ==
    /\ stage = "verified"
    /\ stage' = "op"
    /\ first' = IF first = NoOp THEN op ELSE first
    /\ UNCHANGED <<text, op>>

------------------------------------------------------------------------------
(* A text of one of the forms, or an operation from generic text.  A named      *)
(* text is as the printer writes it.                                            *)

Texts(form) ==
    LET labels == IF form = "labelled" THEN Lists(Types, 1) ELSE {NoLabel}
    IN  UNION {[captures : Lists(Capturable, MaxList), named : {form # "unnamed"}, ins : Lists(Types, MaxList),
                outs : {outs}, outAttrs : [DOMAIN outs -> Attrs], label : labels,
                returns : {NoBody} \cup Lists(Types, MaxList)] : outs \in Lists(Types, 1)}

\* No region, or one whose parameters may be any.
Regions == {<<<<>>, NoRegion>>} \cup Lists(Types, MaxList) \X ({NoBody} \cup Lists(Types, 1))
GenericBoxes ==
    UNION {[captures : Lists(Capturable, MaxList), ins : Lists(Types, 1), outs : Lists(Types, 1),
            resAttrs : {NoAttrs}, params : {region[1]}, returns : {region[2]}] : region \in Regions}

Init ==
    /\ first = NoOp
    /\ \/ /\ stage = "text" /\ op = NoOp
          /\ \E form \in Forms \ {"generic"} : text \in Texts(form)
       \/ /\ stage = "op" /\ text = NoOp
          /\ "generic" \in Forms /\ op \in GenericBoxes

Ended == stage \in {"rejected", "undefined"} /\ UNCHANGED vars

Next == Parse \/ Verify \/ PrintText \/ PrintWithoutParams \/ PrintGeneric \/ Ended

Spec == Init /\ [][Next]_vars

------------------------------------------------------------------------------
(* Correctness *)

\* What is parsed is a text; what is verified is a closure.box with a body that returns.
TypeOK ==
    /\ stage \in {"text", "op", "verified", "rejected", "undefined"}
    /\ stage = "verified" => op # NoOp /\ op.returns # NoBody
    /\ stage = "text" => text # NoOp

\* The region takes the captures and then the arguments of the closure's type,
\* and closure.return gives its results: the lowering makes the worker of the
\* one and the wrapper of the other (ClosureOps.cpp:109-120 and 310-330).
WellFormed(o) == o.params = o.captures \o o.ins /\ o.returns = o.outs

\* A verified closure.box is well formed, with three ways out that no verifier
\* sees: its text gave arguments without names, or a label to the entry block
\* (the printer writes neither), or it came from generic text, which can leave
\* the region out or give it any parameters.
SignatureKept ==
    stage = "verified" =>
        \/ WellFormed(op)
        \/ text = NoOp
        \/ ~Named(text) /\ (text.ins # <<>> \/ text.label # NoLabel)

\* What sigi-opt prints of a well-formed closure.box, in custom or generic form
\* and as often as it is read back, parses and verifies and is the same operation
\* (test/Dialect/Closure/ops.mlir:1-2).
RoundTrip ==
    first # NoOp /\ WellFormed(first) =>
        /\ stage \notin {"rejected", "undefined"}
        /\ stage = "verified" => op = first
=============================================================================
