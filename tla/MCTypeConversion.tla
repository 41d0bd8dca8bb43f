---------------------------- MODULE MCTypeConversion ----------------------------
(* TypeConversion for TLC: closures over each leaf, one that is convertible only in
   part, and closures of closures, of one that converts and of one that does not. *)
EXTENDS TypeConversion

I32ToI32 == BoxedClosure(<<Leaf("i32")>>, <<Leaf("i32")>>)
OfTensor == BoxedClosure(<<Leaf("tensor")>>, <<>>)
MCNested == {I32ToI32,
             BoxedClosure(<<Leaf("stack")>>, <<Leaf("stack")>>),
             BoxedClosure(<<Leaf("stack"), Leaf("tensor")>>, <<>>),
             BoxedClosure(<<I32ToI32>>, <<>>),
             BoxedClosure(<<OfTensor>>, <<>>)}
=============================================================================
