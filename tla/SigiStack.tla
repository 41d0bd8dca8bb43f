------------------------------ MODULE SigiStack ------------------------------
(***************************************************************************)
(* The runtime stack of a compiled Sigi program, runtime/sigi.c: a growing *)
(* array of tagged values with a count and a capacity, together with the   *)
(* life cycle the generated `main` gives it (ConvertSigiMainFuncToLLVM of  *)
(* SigiToLLVM.cpp): allocate the cell of the stack pointer, initialise,    *)
(* run the user's main, free the stack, free the cell.                     *)
(*                                                                         *)
(* The program is an arbitrary sequence of runtime calls.  malloc and      *)
(* realloc may fail; no malloc is checked, so a NULL is written through.   *)
(***************************************************************************)
EXTENDS SigiValue, Integers, Sequences, FiniteSets

CONSTANTS InitialCapacity,   \* slots sigi_init_stack allocates (4 in the code)
          MaxCount           \* bound: the program holds at most this many values

ASSUME CapacityAssumption == InitialCapacity \in Nat \ {0}
ASSUME MaxCountAssumption == MaxCount \in Nat

VARIABLES status,      \* where the process is
          count,       \* impl->count
          capacity,    \* impl->capacity
          buffer,      \* impl->buffer, its slots numbered from 0
          allocated,   \* the blocks malloc has given out and free not taken back
          refcount,    \* closure->refcount of the closures the program has
          output       \* the value the last pop returned or pp displayed

vars == <<status, count, capacity, buffer, allocated, refcount, output>>

Block == {"cell", "impl", "buffer"}
Status == {"start", "init", "run", "freestack", "freecell", "exited",
           "aborted", "crashed"}
Final == {"exited", "aborted", "crashed"}

Slots(n) == 0 .. n - 1

TypeOK ==
    /\ status \in Status
    /\ count \in Nat
    /\ capacity \in Nat
    /\ buffer \in [Slots(capacity) -> Value \cup {Undef}]
    /\ allocated \subseteq Block
    /\ refcount \in [Closure -> Int]
    /\ output \in Value \cup {Undef}

Init ==
    /\ status = "start"
    /\ count = 0
    /\ capacity = 0
    /\ buffer = [i \in Slots(0) |-> Undef]
    /\ allocated = {}
    /\ refcount = [c \in Closure |-> 0]
    /\ output = Undef

------------------------------------------------------------------------------
(* The generated main, up to the call of the user's main *)

\* malloc(128) for the cell the stack pointer lives in.  A NULL cell is only
\* written at the end of sigi_init_stack: nothing is observable in between.
MainMalloc ==
    /\ status = "start"
    /\ \/ status' = "init" /\ allocated' = {"cell"}
       \/ status' = "crashed" /\ UNCHANGED allocated
    /\ UNCHANGED <<count, capacity, buffer, refcount, output>>

\* A failed malloc of the buffer goes unnoticed until the first push.
sigi_init_stack ==
    /\ status = "init"
    /\ \/ /\ \E got \in {{"impl"}, {"impl", "buffer"}} : allocated' = allocated \cup got
          /\ count' = 0
          /\ capacity' = InitialCapacity
          /\ buffer' = [i \in Slots(InitialCapacity) |-> Undef]
          /\ status' = "run"
       \/ /\ status' = "crashed"
          /\ UNCHANGED <<count, capacity, buffer, allocated>>
    /\ UNCHANGED <<refcount, output>>

------------------------------------------------------------------------------
(* Pushes *)

\* Mutant: the value goes one slot past the one the count is about to cover.
StoreOffByOne(b, i, v) == [b EXCEPT ![i + 1] = v]

\* Buffer b with v in its slot i.
Store(b, i, v) == [b EXCEPT ![i] = v]

\* What realloc returns: the old slots, then slots nobody has written.
Realloc(b, old, new) == [i \in Slots(new) |-> IF i < old THEN b[i] ELSE Undef]

\* grow1 with room: store and count, or write through a NULL buffer.
StoreInPlace(v) ==
    /\ count # capacity
    /\ \/ /\ "buffer" \in allocated
          /\ buffer' = Store(buffer, count, v)
          /\ count' = count + 1
          /\ UNCHANGED status
       \/ /\ "buffer" \notin allocated
          /\ status' = "crashed"
          /\ UNCHANGED <<buffer, count>>
    /\ UNCHANGED <<capacity, allocated>>

\* Mutant: the buffer grows and impl->capacity is not updated.
GrowWithoutCapacity(v) ==
    /\ count = capacity
    /\ buffer' = Store(Realloc(buffer, capacity, 2 * capacity), count, v)
    /\ count' = count + 1
    /\ allocated' = allocated \cup {"buffer"}
    /\ UNCHANGED <<capacity, status>>

\* Mutant: malloc instead of realloc, so the old slots are not moved along.
GrowWithMalloc(v) ==
    /\ count = capacity
    /\ capacity' = capacity * 2
    /\ buffer' = Store([i \in Slots(capacity') |-> Undef], count, v)
    /\ count' = count + 1
    /\ allocated' = allocated \cup {"buffer"}
    /\ UNCHANGED status

\* grow1 on a full buffer whose realloc succeeds (of NULL, it is a malloc).
GrowAndStore(v) ==
    /\ count = capacity
    /\ capacity' = capacity * 2
    /\ buffer' = Store(Realloc(buffer, capacity, capacity'), count, v)
    /\ count' = count + 1
    /\ allocated' = allocated \cup {"buffer"}
    /\ UNCHANGED status

\* grow1 on a full buffer whose realloc returns NULL: sigi_abort.
GrowFails ==
    /\ count = capacity
    /\ status' = "aborted"
    /\ UNCHANGED <<count, capacity, buffer, allocated>>

grow1(v) == StoreInPlace(v) \/ GrowAndStore(v) \/ GrowFails

\* sigi_push_i32 and sigi_push_bool.
PushScalar(v) ==
    /\ status = "run" /\ count < MaxCount
    /\ v.tag # "TAG_CLOSURE"
    /\ grow1(v)
    /\ UNCHANGED <<refcount, output>>

\* Mutant: the reference of the new slot is not counted.
PushClosureUncounted(c) ==
    /\ status = "run" /\ count < MaxCount
    /\ grow1(ClosureValue(c))
    /\ UNCHANGED <<refcount, output>>

\* The closure is counted before there is a slot for it.
sigi_push_closure(c) ==
    /\ status = "run" /\ count < MaxCount
    /\ refcount' = [refcount EXCEPT ![c] = @ + 1]
    /\ grow1(ClosureValue(c))
    /\ UNCHANGED output

------------------------------------------------------------------------------
(* Pops and pp *)

Top == buffer[count - 1]

\* closure_decr for the closure a value holds, if it holds one.
DecrIfClosure(v) ==
    IF v.tag = "TAG_CLOSURE" THEN refcount' = [refcount EXCEPT ![v.data] = @ - 1]
                             ELSE UNCHANGED refcount

\* What a pop for tag t returns: the field of the union that t selects.
Returned(t) == [tag |-> t, data |-> Top.data]

\* Mutant: a pop without check_tag.
PopUnchecked(t) ==
    /\ status = "run"
    /\ \/ /\ count # 0
          /\ count' = count - 1
          /\ output' = Returned(t)
          /\ DecrIfClosure(Top)
          /\ UNCHANGED status
       \/ /\ count = 0
          /\ status' = "aborted"
          /\ UNCHANGED <<count, output, refcount>>
    /\ UNCHANGED <<capacity, buffer, allocated>>

\* sigi_pop_i32, sigi_pop_bool and sigi_pop_closure, by the tag they expect.
\* pop1 moves the count down before check_tag looks at the value.
Pop(t) ==
    /\ status = "run"
    /\ \/ /\ count # 0 /\ Top.tag = t
          /\ count' = count - 1
          /\ output' = Returned(t)
          /\ DecrIfClosure(Top)
          /\ UNCHANGED status
       \/ /\ count # 0 /\ Top.tag # t
          /\ count' = count - 1
          /\ status' = "aborted"
          /\ UNCHANGED <<output, refcount>>
       \/ /\ count = 0
          /\ status' = "aborted"
          /\ UNCHANGED <<count, output, refcount>>
    /\ UNCHANGED <<capacity, buffer, allocated>>

\* sigi_builtin__pp shows the top and leaves it where it is.
sigi_builtin__pp ==
    /\ status = "run"
    /\ \/ count # 0 /\ output' = Top /\ UNCHANGED status
       \/ count = 0 /\ status' = "aborted" /\ UNCHANGED output
    /\ UNCHANGED <<count, capacity, buffer, allocated, refcount>>

------------------------------------------------------------------------------
(* The generated main, from the return of the user's main *)

UserMainReturns ==
    /\ status = "run"
    /\ status' = "freestack"
    /\ UNCHANGED <<count, capacity, buffer, allocated, refcount, output>>

\* free(*stack): the impl, not the buffer it points to.
sigi_free_stack ==
    /\ status = "freestack"
    /\ status' = "freecell"
    /\ allocated' = allocated \ {"impl"}
    /\ UNCHANGED <<count, capacity, buffer, refcount, output>>

MainFree ==
    /\ status = "freecell"
    /\ status' = "exited"
    /\ allocated' = allocated \ {"cell"}
    /\ UNCHANGED <<count, capacity, buffer, refcount, output>>

Terminated == status \in Final /\ UNCHANGED vars

Next ==
    \/ MainMalloc
    \/ sigi_init_stack
    \/ \E v \in Value : PushScalar(v)
    \/ \E c \in Closure : sigi_push_closure(c)
    \/ \E t \in Tag : Pop(t)
    \/ sigi_builtin__pp
    \/ UserMainReturns
    \/ sigi_free_stack
    \/ MainFree
    \/ Terminated

Spec == Init /\ [][Next]_vars

------------------------------------------------------------------------------
(* Correctness *)

\* Slots below the count are inside the buffer and have been written, so no pop
\* or print reads memory that a growth left uninitialised, and the next push
\* without growth stores inside the allocation (peek1, pop1, grow1).
OccupiedSlotsWritten ==
    /\ count <= capacity
    /\ \A i \in Slots(count) : buffer[i] \in Value

\* The slots that hold closure c.
Holding(c) == {i \in Slots(count) : buffer[i] = ClosureValue(c)}

\* Unless the program was cut short, the reference count of a closure that only
\* the stack refers to is the number of slots that hold it: push, pop and growth
\* neither lose nor invent a reference.
SlotsCounted ==
    status \notin {"aborted", "crashed"} =>
        \A c \in Closure : refcount[c] = Cardinality(Holding(c))

\* A growth doubles the capacity and moves every value of the stack along; no
\* step shrinks the buffer (grow1's realloc).
GrowthKeepsValues ==
    [][status = "run" /\ capacity' # capacity =>
         /\ capacity' = 2 * capacity
         /\ \A i \in Slots(count) : buffer'[i] = buffer[i]]_vars

\* What SigiToLLVM.cpp:331 says of the generated main: "finally free stack".
\* A program that ends normally has given back every block of the stack.
StackFreedAtExit == status = "exited" => allocated = {}

\* The runtime stack implements the abstract stack.
AbstractStatus ==
    CASE status \in {"start", "init"} -> "off"
      [] status = "run" -> "run"
      [] status \in {"freestack", "freecell", "exited"} -> "done"
      [] OTHER -> "failed"

AbstractItems == [i \in 1 .. count |-> buffer[i - 1]]

Abstract == INSTANCE ValueStack WITH items <- AbstractItems, status <- AbstractStatus

\* Every behaviour of the array with its count, capacity and growth is a
\* behaviour of the LIFO sequence: what a pop or pp hands to the program is the
\* most recent value, at every growth boundary and after every early exit.
ImplementsValueStack == Abstract!Spec
=============================================================================
