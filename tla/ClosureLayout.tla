---------------------------- MODULE ClosureLayout ----------------------------
(***************************************************************************)
(* A closure in memory.  ConvertClosureBoxToLLVM (ClosureToLLVM.cpp:158-   *)
(* 427) allocates and fills a struct {ptr, i32, ptr, {captures}}; the      *)
(* wrapper, the drop function and closure.call read it by field number;    *)
(* runtime/closure.c reads and writes the header of closure_t by the       *)
(* offsets of the C struct.  Memory is bytes, each the k-th byte of some   *)
(* value, so an access at a wrong offset or of a wrong size shows.         *)
(***************************************************************************)
EXTENDS ClosureValues

CONSTANTS PtrSizes,    \* the pointer sizes of the targets
          Chunk,       \* how far apart malloc places closures
          Resolved,    \* what the undefined size passed to malloc turns out to be
          MaxObjs,     \* bound: closures allocated
          MaxHeld      \* bound: references to one closure from the stack

ASSUME ResolvedAssumption == Resolved \subseteq {"enough", "zero"}
ASSUME PointerAssumption == PtrSizes \subseteq {4, 8}
ASSUME BoundAssumption == MaxObjs \in Nat /\ MaxHeld \in Nat /\ Chunk \in Nat

VARIABLES ptrSize,     \* of this target
          mem,         \* what the heap holds: stores
          allocs,      \* the size of each live allocation
          next,        \* where malloc allocates next
          held,        \* the references to each closure from the stack
          pending,     \* what the drops under way have still to do
          seen,        \* the worker that is called, and its arguments
          wild         \* an access was outside of every allocation

vars == <<ptrSize, mem, allocs, next, held, pending, seen, wild>>

Addresses == {k * Chunk : k \in 0 .. MaxObjs - 1}

BoxNamed(name) == CHOOSE b \in Boxes : b.name = name

------------------------------------------------------------------------------
(* Layout *)

SizeOf(p, ty) == CASE ty = "i8" -> 1 [] ty = "i32" -> 4 [] ty = "i64" -> 8 [] OTHER -> p
AlignUp(n, a) == ((n + a - 1) \div a) * a
Largest(S) == CHOOSE x \in S : \A y \in S : y <= x

\* Fields of a struct, each at the next multiple of its size.
Offsets(p, types) ==
    LET offset[n \in DOMAIN types] ==
            IF n = 1 THEN 0
            ELSE AlignUp(offset[n - 1] + SizeOf(p, types[n - 1]), SizeOf(p, types[n]))
    IN  offset
EndOf(p, types) ==
    IF types = <<>> THEN 0 ELSE Offsets(p, types)[Len(types)] + SizeOf(p, types[Len(types)])
AlignOf(p, types) == Largest({1} \cup {SizeOf(p, types[n]) : n \in DOMAIN types})
StructSize(p, types) == AlignUp(EndOf(p, types), AlignOf(p, types))

\* The LLVM struct: function pointer, count, drop function, struct of captures.
Header == <<"ptr", "i32", "ptr">>
FieldOffset(p, b, i) ==
    IF i < 3 THEN Offsets(p, Header)[i + 1] ELSE AlignUp(EndOf(p, Header), AlignOf(p, b.captures))

\* Mutant of FullSize: the sizes of the parts are added up.
SumOfSizes(p, b) == EndOf(p, Header) + StructSize(p, b.captures)

FullSize(p, b) ==
    AlignUp(FieldOffset(p, b, 3) + StructSize(p, b.captures), Largest({p, AlignOf(p, b.captures)}))

\* No closure reaches into the next.
ASSUME ChunkAssumption == \A p \in PtrSizes, b \in Boxes : FullSize(p, b) <= Chunk

\* The field number in the GEPs of wrapper and drop function, {0, 3}.
CapturesField == 3

\* Where wrapper and drop function find the captures, and what each struct takes.
Layout == [p \in PtrSizes |-> [b \in Boxes |->
              [fields |-> [i \in 0 .. 2 |-> FieldOffset(p, b, i)],
               captures |-> [n \in DOMAIN b.captures |-> FieldOffset(p, b, 3) + Offsets(p, b.captures)[n]],
               loads |-> [n \in DOMAIN b.captures |-> FieldOffset(p, b, CapturesField) + Offsets(p, b.captures)[n]],
               struct |-> [at |-> FieldOffset(p, b, CapturesField), size |-> StructSize(p, b.captures)],
               size |-> FullSize(p, b)]]]

\* closure_t in C: invoke, refcount, drop.
CRefcount == ptrSize

\* Mutant of CDrop: without padding after the count.
CDropPacked == CRefcount + 4

CDrop == AlignUp(CRefcount + 4, ptrSize)

------------------------------------------------------------------------------
(* Memory *)

\* So many bytes from an address on, and the value stored there.
Bytes(at, size) == [at |-> at, size |-> size]
Store(at, size, v) == [at |-> at, size |-> size, v |-> v]
Overlap(s, t) == s.at < t.at + t.size /\ t.at < s.at + s.size

\* A load gives a value if it reads just the bytes of one store.
Garbage == <<"garbage", 0>>
Load(at, size) ==
    LET cells == {c \in mem : c.at = at /\ c.size = size}
    IN  IF cells = {} THEN Garbage ELSE (CHOOSE c \in cells : TRUE).v

\* Stores destroy what they overlap.
Stored(stores) == {c \in mem : \A s \in stores : ~Overlap(c, s)} \cup stores

\* All of this is accessed, when allocations are as in `live`.
Access(ranges, live) ==
    wild' = \E r \in ranges : \A a \in DOMAIN live : ~(a <= r.at /\ r.at + r.size <= a + live[a])

\* The C side: the count and the drop function of a closure.
CountBytes(a) == Bytes(a + CRefcount, 4)
CountOf(a) == Load(a + CRefcount, 4)
AddTo(count, n) == IF count[1] = "count" THEN <<"count", count[2] + n>> ELSE Garbage
StoreCount(a, n) == Store(a + CRefcount, 4, AddTo(CountOf(a), n))

\* The generated side: the captured fields, loaded as one struct.
CaptureBytes(a, b) == LET struct == Layout[ptrSize][b].struct IN Bytes(a + struct.at, struct.size)
LoadCaptures(a, b) ==
    LET at == Layout[ptrSize][b].loads
    IN  [n \in DOMAIN b.captures |-> Load(a + at[n], SizeOf(ptrSize, b.captures[n]))]

Wrapper(b) == <<"wrapper", b.name>>
\* Only a box that captures closures has a drop function of its own.
DropFunction(b) == <<"drop", IF ClosureCaptures(b) = {} THEN "closure_drop_nothing" ELSE b.name>>

------------------------------------------------------------------------------
Init ==
    /\ ptrSize \in PtrSizes
    /\ mem = {}
    /\ allocs = <<>> /\ next = 0 /\ held = <<>>
    /\ pending = <<>> /\ seen = NoCall /\ wild = FALSE

Running == ~wild /\ pending = <<>>

\* closure_incr for each captured closure (capture).
Counted(vals) == {x \in DOMAIN allocs : Times(x, vals) > 0}

\* The struct as the box builds it with insertvalue.
Instance(a, b, vals) ==
    LET at == Layout[ptrSize][b]
    IN  {Store(a + at.fields[0], ptrSize, Wrapper(b)),
         Store(a + at.fields[1], 4, <<"count", 0>>),
         Store(a + at.fields[2], ptrSize, DropFunction(b))}
            \cup {Store(a + at.captures[n], SizeOf(ptrSize, b.captures[n]), vals[n]) : n \in DOMAIN vals}

\* closure.box: malloc, the counts, and a store of the whole struct.  The size
\* is ptrtoint of a GEP on an undefined pointer (getSizeOfType), so malloc may
\* get any number: one that is enough, or one that is not.
Box(b, vals) ==
    LET a == next IN
    /\ Running /\ next < MaxObjs * Chunk
    /\ \E size \in {IF r = "enough" THEN Layout[ptrSize][b].size ELSE 0 : r \in Resolved} :
           allocs' = [x \in DOMAIN allocs \cup {a} |-> IF x = a THEN size ELSE allocs[x]]
    /\ Access(Instance(a, b, vals) \cup {CountBytes(x) : x \in Counted(vals)}, allocs')
    /\ mem' = Stored(Instance(a, b, vals) \cup {StoreCount(x, Times(x, vals)) : x \in Counted(vals)})
    /\ next' = next + Chunk
    /\ held' = [x \in DOMAIN held \cup {a} |-> IF x = a THEN 0 ELSE held[x]]
    /\ seen' = NoCall
    /\ UNCHANGED <<ptrSize, pending>>

\* A push of the closure: closure_incr.
closure_incr(a) ==
    /\ Running /\ held[a] < MaxHeld
    /\ Access({CountBytes(a)}, allocs)
    /\ mem' = Stored({StoreCount(a, 1)})
    /\ held' = [held EXCEPT ![a] = @ + 1]
    /\ seen' = NoCall
    /\ UNCHANGED <<ptrSize, allocs, next, pending>>

\* A pop: closure_decr.
closure_decr(a) ==
    /\ Running /\ held[a] > 0
    /\ Access({CountBytes(a)}, allocs)
    /\ mem' = Stored({StoreCount(a, -1)})
    /\ held' = [held EXCEPT ![a] = @ - 1]
    /\ seen' = NoCall
    /\ UNCHANGED <<ptrSize, allocs, next, pending>>

\* Mutant of WorkerArgs: captures come after the arguments.
ArgsThenCaptures(a, b, args) == args \o LoadCaptures(a, b)

\* The wrapper gives the worker the captures and then its own arguments, the
\* closure left out.
WorkerArgs(a, b, args) == LoadCaptures(a, b) \o args

\* closure.call: the pointer at the closure's address is called with the closure
\* and the arguments, of the types the closure's type has.
ClosureCall(a, b, args) ==
    /\ Running /\ Load(a, ptrSize) = Wrapper(b)
    /\ Access({Bytes(a, ptrSize), CaptureBytes(a, b)}, allocs)
    /\ seen' = [worker |-> b.name, args |-> WorkerArgs(a, b, args)]
    /\ UNCHANGED <<ptrSize, mem, allocs, next, held, pending>>

\* What the generated drop function of a box calls closure_decr_then_drop with.
Releases(a, b) ==
    LET fields == InOrder(ClosureCaptures(b))
    IN  [n \in DOMAIN fields |-> <<"release", LoadCaptures(a, b)[fields[n]][2]>>]

\* closure_check_drop: on a count of zero, the drop function found in the
\* closure, then free.  The drop function loads all captures before it calls.
Dropped(a, count) ==
    LET drop == Load(a + CDrop, ptrSize)
    IN  IF count # <<"count", 0>> THEN <<>>
        ELSE IF drop[1] # "drop" THEN <<<<"crash", a>>>>
        ELSE (IF drop[2] = "closure_drop_nothing" THEN <<>> ELSE Releases(a, BoxNamed(drop[2]))) \o <<<<"free", a>>>>
DropBytes(a, count) ==
    LET drop == Load(a + CDrop, ptrSize)
    IN  IF count # <<"count", 0>> THEN {}
        ELSE {Bytes(a + CDrop, ptrSize)}
                 \cup {CaptureBytes(a, b) : b \in {b \in Boxes : drop = <<"drop", b.name>>}}

closure_check_drop(a) ==
    /\ Running
    /\ Access({CountBytes(a)} \cup DropBytes(a, CountOf(a)), allocs)
    /\ pending' = Dropped(a, CountOf(a))
    /\ seen' = NoCall
    /\ UNCHANGED <<ptrSize, mem, allocs, next, held>>

closure_decr_then_drop(a) ==
    /\ ~wild /\ pending # <<>> /\ Head(pending) = <<"release", a>>
    /\ Access({CountBytes(a)} \cup DropBytes(a, AddTo(CountOf(a), -1)), allocs)
    /\ mem' = Stored({StoreCount(a, -1)})
    /\ pending' = Dropped(a, AddTo(CountOf(a), -1)) \o Tail(pending)
    /\ seen' = NoCall
    /\ UNCHANGED <<ptrSize, allocs, next, held>>

FreeClosure(a) ==
    /\ ~wild /\ pending # <<>> /\ Head(pending) = <<"free", a>>
    /\ allocs' = [x \in DOMAIN allocs \ {a} |-> allocs[x]]
    /\ held' = [x \in DOMAIN held \ {a} |-> held[x]]
    /\ pending' = Tail(pending)
    /\ mem' = {c \in mem : ~Overlap(c, Bytes(a, allocs[a]))}
    /\ seen' = NoCall
    /\ UNCHANGED <<ptrSize, next, wild>>

\* All closures are made and freed, or an access was wild and anything may happen.
Terminated == (wild \/ (allocs = <<>> /\ next = MaxObjs * Chunk)) /\ UNCHANGED vars

Next ==
    \/ \E b \in Boxes : \E vals \in ValuesFor(b, DOMAIN allocs) : Box(b, vals)
    \/ \E a \in DOMAIN allocs :
           \/ closure_incr(a) \/ closure_decr(a) \/ closure_check_drop(a)
           \/ closure_decr_then_drop(a) \/ FreeClosure(a)
           \/ \E b \in Boxes : \E args \in ArgumentsOf(b) : ClosureCall(a, b, args)
    \/ Terminated

Spec == Init /\ [][Next]_vars

------------------------------------------------------------------------------
(* Correctness *)

\* Types; a drop under way releases and frees closures, and never jumps through
\* what is no drop function.
TypeOK ==
    /\ ptrSize \in PtrSizes
    /\ DOMAIN allocs \subseteq Addresses /\ \A a \in DOMAIN allocs : allocs[a] \in 0 .. Chunk
    /\ DOMAIN held = DOMAIN allocs /\ \A a \in DOMAIN held : held[a] \in 0 .. MaxHeld
    /\ next \in 0 .. MaxObjs * Chunk
    /\ \A k \in DOMAIN pending : pending[k] \in {"release", "free"} \X Addresses
    /\ wild \in BOOLEAN

\* malloc got less for this closure than its struct takes.
Undersized(a) == allocs[a] < Layout[ptrSize][BoxNamed(Load(a, ptrSize)[2])].size

\* Each access that the box, the wrapper, the drop function, closure.call and
\* the functions of closure.c make to a closure is inside of an allocation, if
\* malloc got the sizes of the structs: offsets and padding of the two layouts
\* are never what leads an access astray, only the undefined size is.
AccessesInBounds == wild => \E a \in DOMAIN allocs : Undersized(a)

\* The closure in the bytes, as the generated code reads it.
ObjectAt(a) ==
    LET read == [b \in Boxes |-> [box |-> b.name, count |-> CountOf(a)[2], fields |-> LoadCaptures(a, b)]]
    IN  read[BoxNamed(Load(a, ptrSize)[2])]

Objects == INSTANCE ClosureObjects WITH objs <- [a \in DOMAIN allocs |-> ObjectAt(a)]

\* The bytes behave as objects: counting by the runtime harms no field, a worker
\* gets the captures of its own closure and then the arguments, a drop releases
\* the captured closures of its own closure, in order.
ImplementsObjects == Objects!ObjSpec
=============================================================================
