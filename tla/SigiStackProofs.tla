--------------------------- MODULE SigiStackProofs ----------------------------
(***************************************************************************)
(* Theorems about SigiStack, for every set of values, every initial        *)
(* capacity and every bound on the number of values.                       *)
(***************************************************************************)
EXTENDS SigiStack, FiniteSetTheorems, SequenceTheorems, TLAPS

\* Before sigi_init_stack there is nothing on the stack and nothing is counted;
\* from then on the capacity is positive, so that doubling it makes room.
LifeCycle ==
    /\ status \in {"start", "init"} => count = 0
    /\ status = "run" => capacity > 0

\* The inductive invariant of memory safety.
IInv == TypeOK /\ OccupiedSlotsWritten /\ LifeCycle

\* A value is a record whose data is a closure exactly under the closure tag,
\* and memory nobody wrote is not a value.
LEMMA ValueFacts ==
    /\ \A v \in Value : v.tag \in Tag
    /\ \A v \in Value : v.tag = "TAG_CLOSURE" => v.data \in Closure /\ v = ClosureValue(v.data)
    /\ \A c \in Closure : ClosureValue(c) \in Value /\ ClosureValue(c).tag = "TAG_CLOSURE"
    /\ \A c \in Closure : ClosureValue(c).data = c
    /\ \A v \in Value : v # Undef
  BY DEF Value, Tag, ClosureValue, Undef

\* grow1 keeps the type and the written slots, and adds one slot at most.
LEMMA Grow1Inv ==
    ASSUME IInv, status = "run", NEW v \in Value, grow1(v)
    PROVE  /\ status' \in Status
           /\ count' \in Nat /\ capacity' \in Nat
           /\ buffer' \in [Slots(capacity') -> Value \cup {Undef}]
           /\ allocated' \subseteq Block
           /\ OccupiedSlotsWritten'
           /\ LifeCycle'
<1> USE DEF IInv, TypeOK, OccupiedSlotsWritten, LifeCycle, Slots, Status, Block
<1>1. CASE StoreInPlace(v)
  <2>1. CASE "buffer" \in allocated
    <3>1. buffer' = Store(buffer, count, v) /\ count' = count + 1
          /\ UNCHANGED <<status, capacity, allocated>> /\ count < capacity
      BY <1>1, <2>1 DEF StoreInPlace
    <3>2. buffer' \in [0 .. capacity - 1 -> Value \cup {Undef}]
          /\ buffer'[count] = v /\ \A i \in 0 .. count - 1 : buffer'[i] = buffer[i]
      BY <3>1 DEF Store
    <3> QED BY <3>1, <3>2
  <2>2. CASE "buffer" \notin allocated
    BY <1>1, <2>2 DEF StoreInPlace
  <2> QED BY <2>1, <2>2
<1>2. CASE GrowAndStore(v)
  <2>1. capacity' = capacity * 2 /\ count' = count + 1 /\ count = capacity /\ capacity > 0
        /\ status' = status /\ allocated' = allocated \cup {"buffer"}
        /\ buffer' = Store(Realloc(buffer, capacity, capacity'), count, v)
    BY <1>2 DEF GrowAndStore
  <2> DEFINE grown == Realloc(buffer, capacity, capacity')
  <2>2. grown \in [0 .. capacity' - 1 -> Value \cup {Undef}]
        /\ \A i \in 0 .. count - 1 : grown[i] = buffer[i]
    BY <2>1 DEF Realloc
  <2>3. buffer' \in [0 .. capacity' - 1 -> Value \cup {Undef}]
        /\ buffer'[count] = v /\ \A i \in 0 .. count - 1 : buffer'[i] = buffer[i]
    BY <2>1, <2>2 DEF Store
  <2> QED BY <2>1, <2>3
<1>3. CASE GrowFails
  BY <1>3 DEF GrowFails
<1> QED BY <1>1, <1>2, <1>3 DEF grow1

\* A pop for the tag of the top returns the top itself.
LEMMA ReturnedTop ==
    ASSUME Top \in Value, NEW t \in Tag, Top.tag = t
    PROVE  Returned(t) = Top
  BY DEF Returned, Value

LEMMA InitInv == Init => IInv
  BY DEF Init, IInv, TypeOK, OccupiedSlotsWritten, LifeCycle, Slots, Status, Block

LEMMA NextInv == IInv /\ [Next]_vars => IInv'
<1> SUFFICES ASSUME IInv, [Next]_vars PROVE IInv'
  OBVIOUS
<1> USE DEF IInv, TypeOK, OccupiedSlotsWritten, LifeCycle, Slots, Status, Block
<1>1. CASE MainMalloc
  BY <1>1 DEF MainMalloc
<1>2. CASE sigi_init_stack
  <2>1. refcount' = refcount /\ output' = output /\ status' \in Status /\ allocated' \subseteq Block
    BY <1>2 DEF sigi_init_stack
  <2>2. CASE status' = "run"
    <3>1. count' = 0 /\ capacity' = InitialCapacity
          /\ buffer' = [i \in 0 .. InitialCapacity - 1 |-> Undef]
      BY <1>2, <2>2 DEF sigi_init_stack
    <3> QED BY <2>1, <2>2, <3>1, CapacityAssumption
  <2>3. CASE status' = "crashed" /\ UNCHANGED <<count, capacity, buffer>>
    BY <2>1, <2>3
  <2> QED BY <1>2, <2>2, <2>3 DEF sigi_init_stack
<1>3. CASE \E v \in Value : PushScalar(v)
  BY <1>3, Grow1Inv DEF PushScalar
<1>4. ASSUME NEW c \in Closure, sigi_push_closure(c) PROVE IInv'
  BY <1>4, Grow1Inv, ValueFacts DEF sigi_push_closure
<1>5. ASSUME NEW t \in Tag, Pop(t) PROVE IInv'
  <2>1. CASE count # 0
    <3>1. Top \in Value
      BY <2>1 DEF Top
    <3>2. refcount' \in [Closure -> Int] /\ output' \in Value \cup {Undef}
      BY <1>5, <2>1, <3>1, ReturnedTop DEF Pop, DecrIfClosure
    <3> QED BY <1>5, <2>1, <3>2 DEF Pop
  <2>2. CASE count = 0
    BY <1>5, <2>2 DEF Pop
  <2> QED BY <2>1, <2>2
<1>6. CASE sigi_builtin__pp
  BY <1>6 DEF sigi_builtin__pp, Top
<1>7. CASE UserMainReturns
  BY <1>7 DEF UserMainReturns
<1>8. CASE sigi_free_stack
  BY <1>8 DEF sigi_free_stack
<1>9. CASE MainFree
  BY <1>9 DEF MainFree
<1>10. CASE UNCHANGED vars
  BY <1>10 DEF vars
<1> QED
  BY <1>1, <1>2, <1>3, <1>4, <1>5, <1>6, <1>7, <1>8, <1>9, <1>10 DEF Next, Terminated

\* The runtime stack never indexes its buffer outside the allocation, whatever
\* the program calls and whichever allocations fail.
THEOREM StackTypes == Spec => []TypeOK
<1>1. IInv => TypeOK
  BY DEF IInv
<1> QED BY InitInv, NextInv, <1>1, PTL DEF Spec

\* And it never holds a slot that a growth left unwritten.
THEOREM StackMemorySafe == Spec => []OccupiedSlotsWritten
<1>1. IInv => OccupiedSlotsWritten
  BY DEF IInv
<1> QED BY InitInv, NextInv, <1>1, PTL DEF Spec

------------------------------------------------------------------------------
(* What a push and a pop do to the values, the part both remaining theorems use *)

\* v is the new top, and the values below it are where they were.
Pushed(v) ==
    /\ status' = status /\ count' = count + 1
    /\ buffer'[count] = v
    /\ \A i \in Slots(count) : buffer'[i] = buffer[i]

\* grow1 either pushes or ends the program with the values as they were.
LEMMA Grow1Effect ==
    ASSUME IInv, status = "run", NEW v \in Value, grow1(v)
    PROVE  Pushed(v) \/ (status' \in {"aborted", "crashed"} /\ UNCHANGED <<count, buffer>>)
<1> USE DEF IInv, TypeOK, OccupiedSlotsWritten, LifeCycle, Slots
<1>1. CASE StoreInPlace(v)
  BY <1>1 DEF StoreInPlace, Store, Pushed
<1>2. CASE GrowAndStore(v)
  <2>1. capacity' = capacity * 2 /\ count' = count + 1 /\ count = capacity /\ capacity > 0
        /\ status' = status
        /\ buffer' = Store(Realloc(buffer, capacity, capacity'), count, v)
    BY <1>2 DEF GrowAndStore
  <2> DEFINE grown == Realloc(buffer, capacity, capacity')
  <2>2. grown \in [0 .. capacity' - 1 -> Value \cup {Undef}]
        /\ \A i \in 0 .. count - 1 : grown[i] = buffer[i]
    BY <2>1 DEF Realloc
  <2> QED BY <2>1, <2>2 DEF Store, Pushed
<1>3. CASE GrowFails
  BY <1>3 DEF GrowFails
<1> QED BY <1>1, <1>2, <1>3 DEF grow1

\* Before sigi_init_stack has run the buffer has no value, and it has none after.
LEMMA InitStackEffect ==
    ASSUME IInv, sigi_init_stack
    PROVE  count = 0 /\ count' = 0 /\ status' \in {"run", "crashed"} /\ status = "init"
  BY DEF IInv, LifeCycle, sigi_init_stack

------------------------------------------------------------------------------
(* The reference counts *)

LEMMA HoldingFinite ==
    ASSUME IInv, NEW c \in Closure
    PROVE  IsFiniteSet(Holding(c))
<1>1. IsFiniteSet(0 .. count - 1)
  BY FS_Interval DEF IInv, TypeOK
<1>2. Holding(c) \subseteq 0 .. count - 1
  BY DEF Holding, Slots
<1> QED BY <1>1, <1>2, FS_Subset

\* A push of a value adds its slot to what holds the value's closure.
LEMMA PushedHolding ==
    ASSUME IInv, NEW v \in Value, Pushed(v), NEW d \in Closure
    PROVE  IF v = ClosureValue(d)
           THEN Cardinality(Holding(d)') = Cardinality(Holding(d)) + 1
           ELSE Holding(d)' = Holding(d)
<1>1. Slots(count') = Slots(count) \cup {count} /\ count \notin Slots(count)
  BY DEF Pushed, Slots, IInv, TypeOK
<1>2. CASE v = ClosureValue(d)
  <2>1. Holding(d)' = Holding(d) \cup {count} /\ count \notin Holding(d)
    BY <1>1, <1>2 DEF Pushed, Holding
  <2> QED BY <2>1, <1>2, HoldingFinite, FS_AddElement
<1>3. CASE v # ClosureValue(d)
  BY <1>1, <1>3 DEF Pushed, Holding
<1> QED BY <1>2, <1>3

\* A pop takes the slot of the top away from what holds the top's closure.
LEMMA PoppedHolding ==
    ASSUME IInv, count # 0, count' = count - 1, buffer' = buffer, NEW d \in Closure
    PROVE  IF Top = ClosureValue(d)
           THEN Cardinality(Holding(d)') = Cardinality(Holding(d)) - 1
           ELSE Holding(d)' = Holding(d)
<1>1. Slots(count) = Slots(count') \cup {count - 1} /\ count - 1 \notin Slots(count')
  BY DEF Slots, IInv, TypeOK
<1>2. CASE Top = ClosureValue(d)
  <2>1. Holding(d)' = Holding(d) \ {count - 1} /\ count - 1 \in Holding(d)
    BY <1>1, <1>2 DEF Top, Holding
  <2> QED BY <2>1, <1>2, HoldingFinite, FS_RemoveElement
<1>3. CASE Top # ClosureValue(d)
  BY <1>1, <1>3 DEF Top, Holding
<1> QED BY <1>2, <1>3

LEMMA CountsNext == IInv /\ SlotsCounted /\ [Next]_vars => SlotsCounted'
<1> SUFFICES ASSUME IInv, SlotsCounted, [Next]_vars, status' \notin {"aborted", "crashed"},
                    NEW d \in Closure
             PROVE  refcount'[d] = Cardinality(Holding(d)')
  BY DEF SlotsCounted
<1>1. CASE UNCHANGED <<status, count, buffer, refcount>>
  BY <1>1 DEF SlotsCounted, Holding
<1>2. CASE UNCHANGED <<count, buffer, refcount>> /\ status \notin {"aborted", "crashed"}
  BY <1>2 DEF SlotsCounted, Holding
<1>3. CASE MainMalloc \/ UserMainReturns \/ sigi_free_stack \/ MainFree \/ sigi_builtin__pp
  BY <1>2, <1>3 DEF MainMalloc, UserMainReturns, sigi_free_stack, MainFree, sigi_builtin__pp
<1>4. CASE sigi_init_stack
  <2>1. count = 0 /\ count' = 0 /\ status = "init"
    BY <1>4, InitStackEffect
  <2>2. Holding(d) = {} /\ Holding(d)' = {}
    BY <2>1 DEF Holding, Slots
  <2> QED BY <1>4, <2>1, <2>2 DEF sigi_init_stack, SlotsCounted
<1>5. ASSUME NEW v \in Value, PushScalar(v) PROVE refcount'[d] = Cardinality(Holding(d)')
  <2>1. Pushed(v) /\ v # ClosureValue(d) /\ status = "run" /\ refcount' = refcount
    BY <1>5, Grow1Effect, ValueFacts DEF PushScalar
  <2> QED BY <2>1, PushedHolding DEF SlotsCounted
<1>6. ASSUME NEW c \in Closure, sigi_push_closure(c) PROVE refcount'[d] = Cardinality(Holding(d)')
  <2>1. Pushed(ClosureValue(c)) /\ status = "run"
    BY <1>6, Grow1Effect, ValueFacts DEF sigi_push_closure
  <2>2. refcount'[d] = IF d = c THEN refcount[d] + 1 ELSE refcount[d]
    BY <1>6 DEF sigi_push_closure, IInv, TypeOK
  <2>3. ClosureValue(c) \in Value /\ (ClosureValue(c) = ClosureValue(d) <=> c = d)
    BY ValueFacts
  <2> QED BY <2>1, <2>2, <2>3, PushedHolding DEF SlotsCounted
<1>7. ASSUME NEW t \in Tag, Pop(t) PROVE refcount'[d] = Cardinality(Holding(d)')
  <2>1. status = "run" /\ count # 0 /\ count' = count - 1 /\ buffer' = buffer
        /\ DecrIfClosure(Top)
    BY <1>7 DEF Pop
  <2>2. Top \in Value
    BY <2>1 DEF Top, IInv, TypeOK, OccupiedSlotsWritten, Slots
  <2>3. refcount'[d] = IF Top = ClosureValue(d) THEN refcount[d] - 1 ELSE refcount[d]
    BY <2>1, <2>2, ValueFacts DEF DecrIfClosure, IInv, TypeOK
  <2> QED BY <2>1, <2>3, PoppedHolding DEF SlotsCounted
<1> QED
  BY <1>1, <1>3, <1>4, <1>5, <1>6, <1>7 DEF Next, Terminated, vars

\* For every program of pushes, pops and prints, a closure's reference count is
\* the number of slots of the stack that hold it (sigi_push_closure and
\* sigi_pop_closure, at every growth of the buffer).
THEOREM StackReferencesCounted == Spec => []SlotsCounted
<1>1. Init => SlotsCounted
  <2> SUFFICES ASSUME Init, NEW c \in Closure PROVE refcount[c] = Cardinality(Holding(c))
    BY DEF SlotsCounted
  <2>1. Holding(c) = {}
    BY DEF Init, Holding, Slots
  <2> QED BY <2>1, FS_EmptySet DEF Init
<1> QED BY InitInv, NextInv, CountsNext, <1>1, PTL DEF Spec

------------------------------------------------------------------------------
(* The refinement *)

\* Both specifications speak of the same values.
LEMMA SameValues == Abstract!Value = Value /\ Abstract!Tag = Tag /\ Abstract!Undef = Undef
  BY DEF Abstract!Value, Value, Abstract!Tag, Tag, Abstract!Undef, Undef

\* The mapped sequence has the values below the count, the top last.
LEMMA ItemsFacts ==
    ASSUME IInv
    PROVE  /\ AbstractItems \in Seq(Value) /\ Len(AbstractItems) = count
           /\ count # 0 => AbstractItems # <<>> /\ Abstract!Top = Top
           /\ count = 0 => AbstractItems = <<>>
<1> USE DEF IInv, TypeOK, OccupiedSlotsWritten, Slots
<1>1. AbstractItems \in Seq(Value) /\ Len(AbstractItems) = count
  <2>1. AbstractItems \in [1 .. count -> Value]
    BY DEF AbstractItems
  <2> QED BY <2>1
<1>2. ASSUME count # 0 PROVE AbstractItems # <<>> /\ Abstract!Top = Top
  <2>1. AbstractItems[count] = buffer[count - 1]
    BY <1>2 DEF AbstractItems
  <2> QED BY <1>1, <1>2, <2>1 DEF Abstract!Top, Top
<1> QED BY <1>1, <1>2

LEMMA PushedItems ==
    ASSUME IInv, IInv', NEW v \in Value, Pushed(v)
    PROVE  AbstractItems' = Append(AbstractItems, v)
<1>1. AbstractItems \in Seq(Value) /\ Len(AbstractItems) = count
  BY ItemsFacts
<1>2. AbstractItems' = [i \in 1 .. count + 1 |-> buffer'[i - 1]]
  BY DEF AbstractItems, Pushed
<1>3. AbstractItems' \in Seq(Value) /\ Len(AbstractItems') = count + 1
  <2>1. count' = count + 1 /\ count' \in Nat /\ \A i \in 0 .. count' - 1 : buffer'[i] \in Value
    BY DEF Pushed, IInv, TypeOK, OccupiedSlotsWritten, Slots
  <2>2. AbstractItems' = [i \in 1 .. count' |-> buffer'[i - 1]]
    BY DEF AbstractItems
  <2>3. AbstractItems' \in [1 .. count' -> Value]
    BY <2>1, <2>2
  <2> QED BY <2>1, <2>3
<1>4. Append(AbstractItems, v) \in Seq(Value) /\ Len(Append(AbstractItems, v)) = count + 1
      /\ Append(AbstractItems, v)[count + 1] = v
      /\ \A i \in 1 .. count : Append(AbstractItems, v)[i] = AbstractItems[i]
  BY <1>1, AppendProperties
<1>5. ASSUME NEW i \in 1 .. count + 1 PROVE AbstractItems'[i] = Append(AbstractItems, v)[i]
  <2>1. CASE i = count + 1
    BY <1>2, <1>4, <2>1 DEF Pushed, IInv, TypeOK
  <2>2. CASE i \in 1 .. count
    <3>1. AbstractItems[i] = buffer[i - 1] /\ AbstractItems'[i] = buffer'[i - 1]
      BY <1>2, <2>2 DEF AbstractItems
    <3>2. i - 1 \in Slots(count)
      BY <2>2 DEF Slots, IInv, TypeOK
    <3> QED BY <1>4, <2>2, <3>1, <3>2 DEF Pushed
  <2>3. i = count + 1 \/ i \in 1 .. count
    BY DEF IInv, TypeOK
  <2> QED BY <2>1, <2>2, <2>3
<1> QED BY <1>3, <1>4, <1>5, SeqEqual

LEMMA PoppedItems ==
    ASSUME IInv, count # 0, count' = count - 1, buffer' = buffer
    PROVE  AbstractItems' = Abstract!Rest
<1>1. AbstractItems \in Seq(Value) /\ Len(AbstractItems) = count
  BY ItemsFacts
<1>2. Abstract!Rest = [i \in 1 .. count - 1 |-> AbstractItems[i]]
  BY <1>1 DEF Abstract!Rest, IInv, TypeOK
<1> QED BY <1>2 DEF AbstractItems, IInv, TypeOK

LEMMA AbstractStep == IInv /\ IInv' /\ [Next]_vars => [Abstract!Next]_(Abstract!vars)
<1> SUFFICES ASSUME IInv, IInv', [Next]_vars PROVE [Abstract!Next]_(Abstract!vars)
  OBVIOUS
<1> USE DEF AbstractStatus
<1>1. CASE UNCHANGED <<count, buffer, output>> /\ AbstractStatus' = AbstractStatus
  BY <1>1 DEF Abstract!vars, AbstractItems
<1>2. CASE MainMalloc
  <2>1. UNCHANGED <<count, buffer, output>>
    BY <1>2 DEF MainMalloc
  <2>2. AbstractItems' = AbstractItems
    BY <2>1 DEF AbstractItems
  <2> QED BY <1>2, <2>1, <2>2 DEF MainMalloc, Abstract!Next, Abstract!Start, Abstract!vars
<1>3. CASE sigi_init_stack
  <2>1. count = 0 /\ count' = 0 /\ status' \in {"run", "crashed"} /\ status = "init"
    BY <1>3, InitStackEffect
  <2>2. AbstractItems = <<>> /\ AbstractItems' = <<>>
    BY <2>1 DEF AbstractItems
  <2> QED BY <1>3, <2>1, <2>2 DEF sigi_init_stack, Abstract!Next, Abstract!Start
<1>4. ASSUME NEW v \in Value, status = "run", grow1(v), output' = output
      PROVE  Abstract!Push(v)
  <2>1. CASE Pushed(v)
    BY <1>4, <2>1, PushedItems DEF Pushed, Abstract!Push
  <2>2. CASE status' \in {"aborted", "crashed"} /\ UNCHANGED <<count, buffer>>
    BY <1>4, <2>2 DEF Abstract!Push, AbstractItems
  <2> QED BY <1>4, <2>1, <2>2, Grow1Effect
<1>5. CASE \E v \in Value : PushScalar(v)
  BY <1>4, <1>5, SameValues DEF PushScalar, Abstract!Next
<1>6. CASE \E c \in Closure : sigi_push_closure(c)
  BY <1>4, <1>6, ValueFacts, SameValues DEF sigi_push_closure, Abstract!Next
<1>7. ASSUME NEW t \in Tag, Pop(t) PROVE Abstract!Pop(t)
  <2>1. CASE count # 0
    <3>1. AbstractItems' = Abstract!Rest /\ AbstractItems # <<>> /\ Abstract!Top = Top
      BY <1>7, <2>1, PoppedItems, ItemsFacts DEF Pop
    <3>2. Top \in Value
      BY <2>1 DEF Top, IInv, TypeOK, OccupiedSlotsWritten, Slots
    <3> QED BY <1>7, <2>1, <3>1, <3>2, ReturnedTop DEF Pop, Abstract!Pop
  <2>2. CASE count = 0
    <3>1. AbstractItems = <<>> /\ AbstractItems' = AbstractItems
      BY <1>7, <2>2, ItemsFacts DEF Pop, AbstractItems
    <3> QED BY <1>7, <2>2, <3>1 DEF Pop, Abstract!Pop
  <2> QED BY <2>1, <2>2
<1>8. CASE sigi_builtin__pp
  <2>1. AbstractItems' = AbstractItems
    BY <1>8 DEF sigi_builtin__pp, AbstractItems
  <2> QED BY <1>8, <2>1, ItemsFacts DEF sigi_builtin__pp, Abstract!Next, Abstract!Peek, IInv, TypeOK
<1>9. CASE UserMainReturns
  <2>1. AbstractItems' = AbstractItems
    BY <1>9 DEF UserMainReturns, AbstractItems
  <2> QED BY <1>9, <2>1 DEF UserMainReturns, Abstract!Next, Abstract!Stop
<1>10. CASE sigi_free_stack \/ MainFree
  BY <1>1, <1>10 DEF sigi_free_stack, MainFree
<1>11. CASE UNCHANGED vars
  BY <1>1, <1>11 DEF vars
<1> QED
  BY SameValues, <1>2, <1>3, <1>5, <1>6, <1>7, <1>8, <1>9, <1>10, <1>11
  DEF Next, Terminated, Abstract!Next

\* The growing array of runtime/sigi.c implements the LIFO sequence: for every
\* capacity and every program, what a pop hands out is the most recent value
\* not popped yet, under its own tag, or the program ends.
THEOREM StackImplementsSequence == Spec => ImplementsValueStack
<1>1. Init => Abstract!Init
  BY InitInv, ItemsFacts, SameValues DEF Init, Abstract!Init, AbstractStatus
<1> QED
  BY InitInv, NextInv, AbstractStep, <1>1, PTL DEF Spec, ImplementsValueStack, Abstract!Spec
------------------------------------------------------------------------------
(* What a growth does *)

\* A step that changes the capacity of a running stack is a growth: it doubles
\* the capacity and keeps every value.
Growth ==
    /\ capacity' = 2 * capacity
    /\ \A i \in Slots(count) : buffer'[i] = buffer[i]

LEMMA Grow1Growth ==
    ASSUME IInv, status = "run", NEW v \in Value, grow1(v), capacity' # capacity
    PROVE  Growth
<1>1. GrowAndStore(v)
  BY DEF grow1, StoreInPlace, GrowFails
<1>2. capacity' = 2 * capacity /\ count' = count + 1
  BY <1>1 DEF GrowAndStore, IInv, TypeOK
<1>3. Pushed(v)
  BY <1>2, Grow1Effect DEF IInv, TypeOK
<1> QED BY <1>2, <1>3 DEF Pushed, Growth

\* The buffer only ever doubles, and each value of the stack is in its slot after
\* realloc, so that a pop after a growth finds what was pushed before it.
THEOREM GrowthIsHarmless == Spec => GrowthKeepsValues
<1> DEFINE Harmless == status = "run" /\ capacity' # capacity => Growth
<1>1. IInv /\ [Next]_vars => [Harmless]_vars
  <2> SUFFICES ASSUME IInv, Next, status = "run", capacity' # capacity PROVE Growth
    BY DEF vars
  <2>1. ASSUME NEW v \in Value, PushScalar(v) PROVE Growth
    BY <2>1, Grow1Growth DEF PushScalar
  <2>2. ASSUME NEW c \in Closure, sigi_push_closure(c) PROVE Growth
    BY <2>2, Grow1Growth, ValueFacts DEF sigi_push_closure
  <2>3. ~(MainMalloc \/ sigi_init_stack \/ sigi_builtin__pp \/ UserMainReturns \/ sigi_free_stack
          \/ MainFree \/ Terminated \/ \E t \in Tag : Pop(t))
    BY DEF MainMalloc, sigi_init_stack, sigi_builtin__pp, UserMainReturns, sigi_free_stack,
           MainFree, Terminated, Pop, vars
  <2> QED BY <2>1, <2>2, <2>3 DEF Next
<1> QED BY InitInv, NextInv, <1>1, PTL DEF Spec, GrowthKeepsValues, Growth

=============================================================================
