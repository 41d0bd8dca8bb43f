---------------------------- MODULE ClosureObjects ----------------------------
(***************************************************************************)
(* What generated code and runtime promise each other about a closure: an  *)
(* object with the code of its box, a count and the captured values.       *)
(* ClosureLayout implements it by bytes that both sides access by offsets  *)
(* of their own.                                                           *)
(***************************************************************************)
EXTENDS ClosureValues

CONSTANT Addresses     \* where a closure may be

VARIABLES objs,        \* the closures: box, count, fields
          pending,     \* what drops under way have still to do, in order
          seen         \* the worker that is called and its arguments, or NoCall

objVars == <<objs, pending, seen>>

ObjInit == objs = <<>> /\ pending = <<>> /\ seen = NoCall

\* A closure with so many more references.
Add(o, n) == [box |-> o.box, count |-> o.count + n, fields |-> o.fields]

\* A new closure; each captured closure is counted.
New(a, b, vals) ==
    /\ pending = <<>> /\ a \notin DOMAIN objs
    /\ objs' = [x \in DOMAIN objs \cup {a} |->
                   IF x = a THEN [box |-> b.name, count |-> 0, fields |-> vals]
                   ELSE Add(objs[x], Times(x, vals))]
    /\ seen' = NoCall
    /\ UNCHANGED pending

\* A reference from the stack is added or taken away.
Count(a, delta) ==
    /\ pending = <<>>
    /\ objs' = [objs EXCEPT ![a] = Add(@, delta)]
    /\ seen' = NoCall
    /\ UNCHANGED pending

\* A call hands captures and arguments to the worker of the closure's box.
Call(a, args) ==
    /\ pending = <<>>
    /\ seen' = [worker |-> objs[a].box, args |-> objs[a].fields \o args]
    /\ UNCHANGED <<objs, pending>>

\* A drop releases the captured closures, in order, and then the closure itself.
Releases(fields) ==
    LET refs == InOrder({n \in DOMAIN fields : fields[n][1] = "closure"})
    IN  [n \in DOMAIN refs |-> <<"release", fields[refs[n]][2]>>]
DropOf(a, count) == IF count = 0 THEN Releases(objs[a].fields) \o <<<<"free", a>>>> ELSE <<>>

CheckDrop(a) ==
    /\ pending = <<>>
    /\ pending' = DropOf(a, objs[a].count)
    /\ seen' = NoCall
    /\ UNCHANGED objs

Release(a) ==
    /\ pending # <<>> /\ Head(pending) = <<"release", a>>
    /\ objs' = [objs EXCEPT ![a] = Add(@, -1)]
    /\ pending' = DropOf(a, objs[a].count - 1) \o Tail(pending)
    /\ seen' = NoCall

Free(a) ==
    /\ pending # <<>> /\ Head(pending) = <<"free", a>>
    /\ objs' = [x \in DOMAIN objs \ {a} |-> objs[x]]
    /\ pending' = Tail(pending)
    /\ seen' = NoCall

ObjNext ==
    \/ \E b \in Boxes, a \in Addresses : \E vals \in ValuesFor(b, DOMAIN objs) : New(a, b, vals)
    \/ \E a \in DOMAIN objs :
           \/ Count(a, 1) \/ Count(a, -1) \/ CheckDrop(a) \/ Release(a) \/ Free(a)
           \/ \E b \in Boxes : \E args \in ArgumentsOf(b) : b.name = objs[a].box /\ Call(a, args)

ObjSpec == ObjInit /\ [][ObjNext]_objVars
=============================================================================
