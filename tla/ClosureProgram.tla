---------------------------- MODULE ClosureProgram ----------------------------
(***************************************************************************)
(* A compiled Sigi program and its reference-counted closures: the         *)
(* functions of runtime/closure.c, the code ClosureToLLVM.cpp emits for    *)
(* closure.box, closure.call, closure.return and closure.check_drop (with  *)
(* the drop function it generates for each box), and the runtime calls     *)
(* SigiToLLVM.cpp emits for sigi.push and sigi.pop.                        *)
(*                                                                         *)
(* The program is any sequence of these operations.  Only slots of the     *)
(* stack and captured fields are counted references; the SSA values of a   *)
(* function (here: variables) are not.  A closure is an allocation, never  *)
(* reused: a variable whose closure was freed is recognised as stale.      *)
(*                                                                         *)
(* The front end that emits check_drop is not in this repository.          *)
(* CarefulDrops is what it must respect for uncounted references to be     *)
(* safe; with CarefulDrops = FALSE it may emit check_drop anywhere.        *)
(***************************************************************************)
EXTENDS Integers, Sequences, FiniteSets

CONSTANTS
    Closure,        \* allocations of closures
    Scalar,         \* tags of the values that are not closures
    None,           \* a variable that holds no closure
    NumVars,        \* bound: variables of a function that hold closures
    MaxCaptures,    \* bound: values a closure captures
    MaxStack,       \* bound: values on the stack
    MaxFrames,      \* bound: functions being executed
    CarefulDrops    \* whether check_drop respects the variables of the program

ASSUME ScalarAssumption == Scalar \cap Closure = {}
ASSUME NoneAssumption == None \notin Closure \cup Scalar
ASSUME BoundsAssumption ==
    /\ NumVars \in Nat /\ MaxCaptures \in Nat /\ MaxCaptures <= NumVars
    /\ MaxStack \in Nat /\ MaxFrames \in Nat
ASSUME ModeAssumption == CarefulDrops \in BOOLEAN

VARIABLES
    alloc,      \* whether a closure's memory is "unused", "live" or "freed"
    refcount,   \* closure->refcount
    captures,   \* closure->capture_args
    released,   \* how many captures a running drop function is done with
    dropping,   \* the activations of closure_check_drop, the innermost last
    stack,      \* the values of the runtime stack, the top last
    frames,     \* the variables of the functions being executed
    status      \* "run", or how the program ended (see TypeOK)

heap == <<alloc, refcount, captures, released, dropping>>
vars == <<heap, stack, frames, status>>

Item == Closure \cup Scalar
Var == 1 .. NumVars
Frame == [Var -> Closure \cup {None}]
\* The lists of values a box can capture.
CaptureLists == UNION {[1 .. n -> Item] : n \in 0 .. MaxCaptures}
\* The lists of closures that can be passed to a function.
ArgLists == UNION {[1 .. n -> Closure] : n \in 0 .. NumVars}
Live == {c \in Closure : alloc[c] = "live"}
frame == frames[Len(frames)]
EmptyFrame == [v \in Var |-> None]

TypeOK ==
    /\ alloc \in [Closure -> {"unused", "live", "freed"}]
    /\ refcount \in [Closure -> Int]
    /\ captures \in [Closure -> CaptureLists]
    /\ released \in [Closure -> Nat]
    /\ dropping \in Seq(Closure)
    /\ stack \in Seq(Item)
    /\ frames \in Seq(Frame)
    /\ status \in {"run", "done", "aborted", "crashed", "undefined"}
    /\ status = "run" => frames # <<>>

Init ==
    /\ alloc = [c \in Closure |-> "unused"]
    /\ refcount = [c \in Closure |-> 0]
    /\ captures = [c \in Closure |-> <<>>]
    /\ released = [c \in Closure |-> 0]
    /\ dropping = <<>>
    /\ stack = <<>>
    /\ frames = <<EmptyFrame>>       \* the user's main
    /\ status = "run"

------------------------------------------------------------------------------
(* References *)

\* The slots of the stack that hold c.
SlotRefs(c) == {i \in 1 .. Len(stack) : stack[i] = c}

\* The captured fields of live closures that hold c and are not released yet.
FieldRefs(c) == {r \in Live \X (1 .. MaxCaptures) : /\ r[2] \in released[r[1]] + 1 .. Len(captures[r[1]])
                                                       /\ captures[r[1]][r[2]] = c}

\* The variables that hold c, in every frame.
Holders(c) == {h \in (1 .. Len(frames)) \X Var : frames[h[1]][h[2]] = c}

\* The program's own code runs while no drop is in progress.
Running == status = "run" /\ dropping = <<>>

\* Variable v holds a closure whose memory is still allocated.
Holds(v, c) == frame[v] = c /\ c \in Live

\* The current frame with v holding c.
Bind(v, c) == [frames EXCEPT ![Len(frames)] = [@ EXCEPT ![v] = c]]

\* The closures a check_drop of c frees: c, and whatever only these refer to.
ClosedUnderDrop(D) ==
    \A d \in Live \ D :
        FieldRefs(d) # {} => SlotRefs(d) # {} \/ \E r \in FieldRefs(d) : r[1] \notin D
Cascade(c) ==
    {d \in Live : \A D \in SUBSET Live : c \in D /\ ClosedUnderDrop(D) => d \in D}

------------------------------------------------------------------------------
(* closure.box, closure.call, closure.return *)

\* The closures capture() counts once for every field that holds them.
Captured(caps, d) == {k \in 1 .. Len(caps) : caps[k] = d}

\* Mutant: a closure captured by two fields is counted once.
BoxCountsOnce(v, c, caps) ==
    /\ Running
    /\ frame[v] = None
    /\ alloc[c] = "unused"
    /\ \A k \in 1 .. Len(caps) : caps[k] \in Scalar \/ \E u \in Var : Holds(u, caps[k])
    /\ alloc' = [alloc EXCEPT ![c] = "live"]
    /\ refcount' = [d \in Closure |-> IF d = c THEN 0
                                      ELSE refcount[d] + IF Captured(caps, d) = {} THEN 0 ELSE 1]
    /\ captures' = [captures EXCEPT ![c] = caps]
    /\ frames' = Bind(v, c)
    /\ UNCHANGED <<released, dropping, stack, status>>

\* Mutant: captured closures are not counted.
BoxWithoutIncr(v, c, caps) ==
    /\ Running
    /\ frame[v] = None
    /\ alloc[c] = "unused"
    /\ \A k \in 1 .. Len(caps) : caps[k] \in Scalar \/ \E u \in Var : Holds(u, caps[k])
    /\ alloc' = [alloc EXCEPT ![c] = "live"]
    /\ refcount' = [refcount EXCEPT ![c] = 0]
    /\ captures' = [captures EXCEPT ![c] = caps]
    /\ frames' = Bind(v, c)
    /\ UNCHANGED <<released, dropping, stack, status>>

\* Allocate with a count of 0, count each captured closure, store.
Box(v, c, caps) ==
    /\ Running
    /\ frame[v] = None
    /\ alloc[c] = "unused"
    /\ \A k \in 1 .. Len(caps) : caps[k] \in Scalar \/ \E u \in Var : Holds(u, caps[k])
    /\ alloc' = [alloc EXCEPT ![c] = "live"]
    /\ refcount' = [d \in Closure |-> IF d = c THEN 0
                                      ELSE refcount[d] + Cardinality(Captured(caps, d))]
    /\ captures' = [captures EXCEPT ![c] = caps]
    /\ frames' = Bind(v, c)
    /\ UNCHANGED <<released, dropping, stack, status>>

\* The malloc of closure.box is not checked: without memory the closure is
\* stored through NULL.
BoxWithoutMemory ==
    /\ Running
    /\ \E v \in Var : frame[v] = None
    /\ status' = "crashed"
    /\ UNCHANGED <<heap, stack, frames>>

\* The closures passed as arguments are held by variables of the caller, which
\* keep them: nothing counts an argument.
Passed(args) == \A k \in 1 .. Len(args) : \E u \in Var : frame[u] = args[k]

\* The variables of a function that is called: its first parameters.  Scalars
\* are not followed.
Params(given) ==
    [v \in Var |-> IF v \in 1 .. Len(given) /\ given[v] \in Closure THEN given[v] ELSE None]

\* The wrapper loads every captured field, and calls the worker with these and
\* then its own arguments.
CallClosure(v, c, args) ==
    /\ Running
    /\ Len(frames) < MaxFrames /\ Len(captures[c]) + Len(args) <= NumVars
    /\ Holds(v, c)
    /\ Passed(args)
    /\ frames' = Append(frames, Params(captures[c] \o args))
    /\ UNCHANGED <<heap, stack, status>>

\* func.call
CallFunction(args) ==
    /\ Running
    /\ Len(frames) < MaxFrames
    /\ Passed(args)
    /\ frames' = Append(frames, Params(args))
    /\ UNCHANGED <<heap, stack, status>>

\* Mutant: the return of the user's main does not end the program.
ReturnForever ==
    /\ Running
    /\ frame = EmptyFrame
    /\ frames' = SubSeq(frames, 1, Len(frames) - 1)
    /\ UNCHANGED <<heap, stack, status>>

\* return and closure.return of no closure, once every variable is dead.
Return ==
    /\ Running
    /\ frame = EmptyFrame
    /\ frames' = SubSeq(frames, 1, Len(frames) - 1)
    /\ status' = IF Len(frames) = 1 THEN "done" ELSE "run"
    /\ UNCHANGED <<heap, stack>>

\* return and closure.return of the closure in u, the last use of it: it is now
\* in a variable of the caller, and not counted there either.
ReturnClosure(u, v, c) ==
    /\ Running
    /\ Len(frames) > 1
    /\ frame[u] = c /\ \A w \in Var \ {u} : frame[w] = None
    /\ frames[Len(frames) - 1][v] = None
    /\ frames' = [SubSeq(frames, 1, Len(frames) - 1) EXCEPT ![Len(frames) - 1] = [@ EXCEPT ![v] = c]]
    /\ UNCHANGED <<heap, stack, status>>

------------------------------------------------------------------------------
(* sigi.push, sigi.pop *)

PushScalar(t) ==
    /\ Running /\ Len(stack) < MaxStack
    /\ stack' = Append(stack, t)
    /\ UNCHANGED <<heap, frames, status>>

\* sigi_push_closure; the variable keeps its (uncounted) reference.
PushClosure(v, c) ==
    /\ Running /\ Len(stack) < MaxStack
    /\ Holds(v, c)
    /\ stack' = Append(stack, c)
    /\ refcount' = [refcount EXCEPT ![c] = @ + 1]
    /\ UNCHANGED <<alloc, captures, released, dropping, frames, status>>

Top == stack[Len(stack)]
Popped == SubSeq(stack, 1, Len(stack) - 1)

\* sigi_pop_closure decrements and does not drop: the variable is now what
\* keeps the closure from being forgotten.
PopClosure(v, c) ==
    /\ Running
    /\ frame[v] = None
    /\ stack # <<>> /\ Top = c
    /\ stack' = Popped
    /\ refcount' = [refcount EXCEPT ![c] = @ - 1]
    /\ frames' = Bind(v, c)
    /\ UNCHANGED <<alloc, captures, released, dropping, status>>

PopScalar(t) ==
    /\ Running
    /\ stack # <<>> /\ Top = t
    /\ stack' = Popped
    /\ UNCHANGED <<heap, frames, status>>

\* A pop of an empty stack, or for a tag the popped value does not have: exit(1).
PopAborts ==
    /\ Running
    /\ \/ stack = <<>> /\ UNCHANGED stack
       \/ stack # <<>> /\ stack' = Popped
    /\ status' = "aborted"
    /\ UNCHANGED <<heap, frames>>

------------------------------------------------------------------------------
(* closure.check_drop and the end of a variable *)

\* Mutant: closure_check_drop does not look at the count.
DropUnchecked(v, c) ==
    /\ Running
    /\ Holds(v, c)
    /\ frames' = Bind(v, None)
    /\ dropping' = <<c>>
    /\ UNCHANGED <<alloc, refcount, captures, released, stack, status>>

\* closure_check_drop, the last use of v: nothing unless the count is zero.
\* Careful: what it frees is in no other variable.
CheckDrop(v, c) ==
    /\ Running
    /\ Holds(v, c)
    /\ CarefulDrops /\ refcount[c] = 0 =>
           \A d \in Cascade(c) : Holders(d) \subseteq {<<Len(frames), v>>}
    /\ frames' = Bind(v, None)
    /\ dropping' = IF refcount[c] = 0 THEN <<c>> ELSE <<>>
    /\ UNCHANGED <<alloc, refcount, captures, released, stack, status>>

\* v is dead without a check_drop.
\* Careful: it is not the only reference to its closure.
Forget(v) ==
    /\ Running
    /\ frame[v] # None
    /\ CarefulDrops /\ frame[v] \in Live =>
           refcount[frame[v]] # 0 \/ Holders(frame[v]) # {<<Len(frames), v>>}
    /\ frames' = Bind(v, None)
    /\ UNCHANGED <<heap, stack, status>>

\* A capture, push, call or check_drop of a closure that was freed.
UseStale(v) ==
    /\ Running
    /\ frame[v] # None /\ frame[v] \notin Live
    /\ status' = "undefined"
    /\ UNCHANGED <<heap, stack, frames>>

------------------------------------------------------------------------------
(* A drop in progress: the innermost activation of closure_check_drop *)

dropped == dropping[Len(dropping)]
nextField == captures[dropped][released[dropped] + 1]

\* Mutant: the capture is dropped whatever its count.
DecrThenAlwaysDrop ==
    /\ dropping # <<>> /\ released[dropped] < Len(captures[dropped])
    /\ nextField \in Closure
    /\ released' = [released EXCEPT ![dropped] = @ + 1]
    /\ refcount' = [refcount EXCEPT ![nextField] = @ - 1]
    /\ dropping' = Append(dropping, nextField)
    /\ UNCHANGED <<alloc, captures, stack, frames, status>>

\* Mutant: the capture is decremented and never dropped.
DecrWithoutDrop ==
    /\ dropping # <<>> /\ released[dropped] < Len(captures[dropped])
    /\ nextField \in Closure
    /\ released' = [released EXCEPT ![dropped] = @ + 1]
    /\ refcount' = [refcount EXCEPT ![nextField] = @ - 1]
    /\ UNCHANGED <<alloc, captures, dropping, stack, frames, status>>

\* The generated drop function goes over the captures in order; for a closure
\* it calls closure_decr_then_drop, which recurses when the count gets to 0.
ReleaseScalar ==
    /\ dropping # <<>> /\ released[dropped] < Len(captures[dropped])
    /\ nextField \in Scalar
    /\ released' = [released EXCEPT ![dropped] = @ + 1]
    /\ UNCHANGED <<alloc, refcount, captures, dropping, stack, frames, status>>

closure_decr_then_drop ==
    /\ dropping # <<>> /\ released[dropped] < Len(captures[dropped])
    /\ nextField \in Closure
    /\ released' = [released EXCEPT ![dropped] = @ + 1]
    /\ refcount' = [refcount EXCEPT ![nextField] = @ - 1]
    /\ dropping' = IF refcount'[nextField] = 0 THEN Append(dropping, nextField) ELSE dropping
    /\ UNCHANGED <<alloc, captures, stack, frames, status>>

\* Mutant: the last capture is not released.
FreeOneFieldEarly ==
    /\ dropping # <<>> /\ released[dropped] + 1 = Len(captures[dropped])
    /\ alloc' = [alloc EXCEPT ![dropped] = "freed"]
    /\ dropping' = SubSeq(dropping, 1, Len(dropping) - 1)
    /\ UNCHANGED <<refcount, captures, released, stack, frames, status>>

\* Mutant: the drop function calls itself again instead of returning.
FreeNeverReturns ==
    /\ dropping # <<>> /\ released[dropped] = Len(captures[dropped])
    /\ alloc' = [alloc EXCEPT ![dropped] = "freed"]
    /\ UNCHANGED <<refcount, captures, released, dropping, stack, frames, status>>

\* The drop function has returned: free the allocation.
Free ==
    /\ dropping # <<>> /\ released[dropped] = Len(captures[dropped])
    /\ alloc' = [alloc EXCEPT ![dropped] = "freed"]
    /\ dropping' = SubSeq(dropping, 1, Len(dropping) - 1)
    /\ UNCHANGED <<refcount, captures, released, stack, frames, status>>

DropStep == ReleaseScalar \/ closure_decr_then_drop \/ Free

------------------------------------------------------------------------------
Terminated == status # "run" /\ dropping = <<>> /\ UNCHANGED vars

ProgramStep ==
    \/ \E v \in Var, c \in Closure, caps \in CaptureLists : Box(v, c, caps)
    \/ BoxWithoutMemory
    \/ \E v \in Var, c \in Closure, args \in ArgLists : CallClosure(v, c, args)
    \/ \E args \in ArgLists : CallFunction(args)
    \/ Return
    \/ \E u, v \in Var, c \in Closure : ReturnClosure(u, v, c)
    \/ \E t \in Scalar : PushScalar(t)
    \/ \E v \in Var, c \in Closure : PushClosure(v, c)
    \/ \E v \in Var, c \in Closure : PopClosure(v, c)
    \/ \E t \in Scalar : PopScalar(t)
    \/ PopAborts
    \/ \E v \in Var, c \in Closure : CheckDrop(v, c)
    \/ \E v \in Var : Forget(v)
    \/ \E v \in Var : UseStale(v)

Next == ProgramStep \/ DropStep \/ Terminated

SafetySpec == Init /\ [][Next]_vars

\* The program's only thread keeps executing the drop it is in.
Spec == SafetySpec /\ WF_vars(DropStep)

------------------------------------------------------------------------------
(* Correctness, whatever the front end does *)

\* The count of a live closure is the number of slots and captured fields that
\* hold it, also in the middle of a drop (closure_incr, closure_decr and every
\* call of them that the lowering emits).  A pop that finds the wrong tag exits
\* with the slot gone and the count unchanged.
RefCountExact ==
    status # "aborted" =>
    \A c \in Live : refcount[c] = Cardinality(SlotRefs(c)) + Cardinality(FieldRefs(c))

\* No counted reference dangles: what a slot or a field not yet released holds
\* is allocated, so a pop or a recursive drop never touches freed memory.
CountedRefsLive ==
    /\ \A i \in 1 .. Len(stack) : stack[i] \in Closure => stack[i] \in Live
    /\ \A c \in Live : \A k \in released[c] + 1 .. Len(captures[c]) :
           captures[c][k] \in Closure => captures[c][k] \in Live

\* The activations of closure_check_drop are distinct live closures of count
\* zero, each the field its caller is releasing: no closure is dropped twice,
\* whether two fields hold it or two closures do.
DropChain ==
    /\ \A i \in 1 .. Len(dropping) : dropping[i] \in Live /\ refcount[dropping[i]] = 0
    /\ \A i, j \in 1 .. Len(dropping) : dropping[i] = dropping[j] => i = j
    /\ \A i \in 1 .. Len(dropping) - 1 :
           /\ released[dropping[i]] \in 1 .. Len(captures[dropping[i]])
           /\ captures[dropping[i]][released[dropping[i]]] = dropping[i + 1]

\* free() only takes a closure nothing counted refers to and whose drop function
\* has released every capture.
FreeOnlyUnreferenced ==
    [][\A c \in Live : alloc'[c] = "freed" =>
           /\ SlotRefs(c) = {} /\ FieldRefs(c) = {}
           /\ released[c] = Len(captures[c])]_vars

\* A drop, however deep it recurses, comes to an end.
DropTerminates == dropping # <<>> ~> dropping = <<>>

------------------------------------------------------------------------------
(* Correctness under CarefulDrops *)

\* No variable of any function being executed holds freed memory: a closure is
\* not freed by its callee, nor by the drop of another closure that captured it.
VariablesLive ==
    \A f \in 1 .. Len(frames), v \in Var : frames[f][v] \in Live \cup {None}

\* Nothing leaks while the program runs: a live closure is counted, held by a
\* variable, or being dropped.
NothingLost ==
    \A c \in Live : refcount[c] > 0 \/ Holders(c) # {} \/ \E i \in 1 .. Len(dropping) : dropping[i] = c
=============================================================================
