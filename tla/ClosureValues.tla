---------------------------- MODULE ClosureValues ----------------------------
(* The boxes of a program and what they capture, for ClosureObjects and ClosureLayout. *)
EXTENDS Integers, Sequences, FiniteSets

CONSTANTS Boxes,       \* the closure.box operations: name, captures and params (lists of types)
          Scalars      \* values of integer types

\* A captured value or an argument.
ClosureRef(a) == <<"closure", a>>
Scalar(s) == <<"scalar", s>>

\* Every box has a name of its own.
ASSUME BoxAssumption ==
    /\ \A b, c \in Boxes : b.name = c.name => b = c
    /\ \A b \in Boxes : b.name # "closure_drop_nothing" /\ b.captures \in Seq(STRING)

\* The numbers of a finite set, in order.
InOrder(S) == [n \in 1 .. Cardinality(S) |-> CHOOSE i \in S : Cardinality({j \in S : j < i}) = n - 1]

\* No worker is called.
NoCall == [worker |-> "none", args |-> <<>>]

ClosureCaptures(b) == {n \in DOMAIN b.captures : b.captures[n] = "closure"}

\* The values a box may be given: a closure that exists or a scalar, by type.
ValuesFor(b, live) ==
    {vals \in [DOMAIN b.captures -> {ClosureRef(a) : a \in live} \cup {Scalar(s) : s \in Scalars}] :
        \A n \in DOMAIN vals : vals[n][1] = "closure" <=> n \in ClosureCaptures(b)}

\* What a closure is called with.
ArgumentsOf(b) == [DOMAIN b.params -> {Scalar(s) : s \in Scalars}]

\* How often a closure is among some values.
Times(a, vals) == Cardinality({n \in DOMAIN vals : vals[n] = ClosureRef(a)})
=============================================================================
