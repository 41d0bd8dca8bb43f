------------------------- MODULE ClosureProgramProofs -------------------------
(***************************************************************************)
(* Theorems about ClosureProgram: the reference counts of the runtime and  *)
(* of the code the lowering emits are right for every program, any number  *)
(* of closures, captures, values and frames, and any use of check_drop;    *)
(* with careful check_drops variables are safe and nothing leaks.          *)
(***************************************************************************)
EXTENDS ClosureProgram, FiniteSetTheorems, SequenceTheorems, TLAPS

\* What the invariants of ClosureProgram need to be inductive: closures not yet
\* allocated have released nothing, the live ones are finitely many, and only a
\* running program is in the middle of a drop.
Allocations ==
    /\ \A c \in Closure : alloc[c] = "unused" => released[c] = 0
    /\ IsFiniteSet(Live)
    /\ dropping # <<>> => status = "run"

IInv == TypeOK /\ RefCountExact /\ CountedRefsLive /\ DropChain /\ Allocations

------------------------------------------------------------------------------
(* Sequences *)

\* A list of captures is a sequence no longer than MaxCaptures.
LEMMA CaptureListFacts ==
    ASSUME NEW caps \in CaptureLists
    PROVE  /\ caps \in Seq(Item)
           /\ Len(caps) \in Nat /\ Len(caps) <= MaxCaptures
           /\ caps \in [1 .. Len(caps) -> Item]
<1>1. PICK n \in 0 .. MaxCaptures : caps \in [1 .. n -> Item]
  BY DEF CaptureLists
<1>2. caps \in Seq(Item) /\ Len(caps) = n /\ n \in Nat
  BY <1>1, BoundsAssumption
<1> QED BY <1>1, <1>2, BoundsAssumption

\* A list of arguments is a sequence of closures.
LEMMA ArgListFacts ==
    ASSUME NEW args \in ArgLists
    PROVE  args \in Seq(Item) /\ Len(args) \in Nat
<1>1. PICK n \in 0 .. NumVars : args \in [1 .. n -> Closure]
  BY DEF ArgLists
<1>2. args \in [1 .. n -> Item] /\ n \in Nat
  BY <1>1, BoundsAssumption DEF Item
<1>3. args \in Seq(Item)
  BY <1>2, SeqDef
<1> QED BY <1>3, LenProperties

\* Everything but the last element of a sequence.
LEMMA FrontFacts ==
    ASSUME NEW S, NEW s \in Seq(S), s # <<>>
    PROVE  /\ Len(s) \in Nat \ {0} /\ s[Len(s)] \in S
           /\ SubSeq(s, 1, Len(s) - 1) \in Seq(S)
           /\ Len(SubSeq(s, 1, Len(s) - 1)) = Len(s) - 1
           /\ \A i \in 1 .. Len(s) - 1 : SubSeq(s, 1, Len(s) - 1)[i] = s[i]
<1>1. Len(s) \in Nat \ {0} /\ \A i \in 1 .. Len(s) : s[i] \in S
  BY EmptySeq, LenProperties
<1>2. \A i \in 1 .. Len(s) - 1 : s[i] \in S
  BY <1>1
<1> DEFINE front == SubSeq(s, 1, Len(s) - 1)
<1>3. /\ front \in Seq(S)
      /\ Len(front) = IF 1 <= Len(s) - 1 THEN Len(s) - 1 - 1 + 1 ELSE 0
      /\ \A i \in 1 .. Len(s) - 1 - 1 + 1 : front[i] = s[1 + i - 1]
  BY <1>1, <1>2, SubSeqProperties
<1> HIDE DEF front
<1>4. Len(front) = Len(s) - 1
  <2>1. PICK n \in Nat \ {0} : n = Len(s)
    BY <1>1
  <2>2. Len(front) = IF 1 <= n - 1 THEN n - 1 - 1 + 1 ELSE 0
    BY <1>3, <2>1
  <2> QED BY <2>1, <2>2
<1>5. ASSUME NEW i \in 1 .. Len(s) - 1 PROVE front[i] = s[i]
  <2>1. i \in 1 .. Len(s) - 1 - 1 + 1 /\ 1 + i - 1 = i
    BY <1>1
  <2> QED BY <1>3, <2>1
<1> QED BY <1>1, <1>3, <1>4, <1>5 DEF front

------------------------------------------------------------------------------
(* Types *)

LEMMA BindType ==
    ASSUME TypeOK, Running, NEW v \in Var, NEW c \in Closure \cup {None}
    PROVE  Bind(v, c) \in Seq(Frame) /\ Bind(v, c) # <<>>
<1>1. frames \in Seq(Frame) /\ frames # <<>>
  BY DEF TypeOK, Running
<1>2. Len(frames) \in 1 .. Len(frames) /\ frame \in Frame
  BY <1>1, FrontFacts DEF frame
<1>3. [frame EXCEPT ![v] = c] \in Frame
  BY <1>2 DEF Frame
<1>4. Bind(v, c) = [frames EXCEPT ![Len(frames)] = [frame EXCEPT ![v] = c]]
  BY <1>1, <1>2 DEF Bind, frame
<1> QED BY <1>1, <1>2, <1>3, <1>4, ExceptSeq, EmptySeq

LEMMA ParamsType ==
    ASSUME NEW given
    PROVE  Params(given) \in Frame
  BY DEF Params, Frame

LEMMA DroppedType ==
    ASSUME TypeOK, dropping # <<>>
    PROVE  /\ Len(dropping) \in Nat \ {0} /\ dropped \in Closure
           /\ Len(captures[dropped]) \in Nat /\ Len(captures[dropped]) <= MaxCaptures
           /\ released[dropped] \in Nat
           /\ \A k \in 1 .. Len(captures[dropped]) : captures[dropped][k] \in Item
<1>1. Len(dropping) \in Nat \ {0} /\ dropped \in Closure
  BY FrontFacts DEF TypeOK, dropped
<1>2. captures[dropped] \in CaptureLists
  BY <1>1 DEF TypeOK
<1> QED BY <1>1, <1>2, CaptureListFacts DEF TypeOK

LEMMA TypeInit == Init => TypeOK
<1> SUFFICES ASSUME Init PROVE TypeOK
  OBVIOUS
<1>1. <<>> \in CaptureLists
  <2>1. <<>> \in [1 .. 0 -> Item] /\ 0 \in 0 .. MaxCaptures
    BY BoundsAssumption
  <2> QED BY <2>1 DEF CaptureLists
<1>2. EmptyFrame \in Frame
  BY DEF EmptyFrame, Frame
<1>3. frames \in Seq(Frame) /\ frames # <<>>
  BY <1>2 DEF Init
<1> QED BY <1>1, <1>3 DEF Init, TypeOK

\* A call pushes a frame.
LEMMA FramePushed ==
    ASSUME NEW f \in Frame, frames \in Seq(Frame), frames' = Append(frames, f)
    PROVE  frames' \in Seq(Frame) /\ frames' # <<>>
  BY AppendProperties

\* The return of a closure pops a frame and binds a variable of the one below.
LEMMA ReturnedTo ==
    ASSUME TypeOK, NEW u \in Var, NEW v \in Var, NEW c \in Closure, ReturnClosure(u, v, c)
    PROVE  /\ frames' \in Seq(Frame) /\ frames' # <<>>
           /\ Len(frames) \in Nat \ {0, 1} /\ Len(frames') = Len(frames) - 1
           /\ \A f \in 1 .. Len(frames) - 1, w \in Var :
                  frames'[f][w] = IF f = Len(frames) - 1 /\ w = v THEN c ELSE frames[f][w]
<1>1. PICK n, front : n = Len(frames) /\ front = SubSeq(frames, 1, n - 1)
  OBVIOUS
<1>2. frames \in Seq(Frame) /\ frames # <<>> /\ n > 1
      /\ frames' = [front EXCEPT ![n - 1] = [front[n - 1] EXCEPT ![v] = c]]
  BY <1>1 DEF ReturnClosure, Running, TypeOK
<1>3. /\ n \in Nat \ {0, 1} /\ front \in Seq(Frame) /\ Len(front) = n - 1
      /\ \A f \in 1 .. n - 1 : front[f] = frames[f]
  <2>1. /\ Len(frames) \in Nat \ {0}
        /\ SubSeq(frames, 1, Len(frames) - 1) \in Seq(Frame)
        /\ Len(SubSeq(frames, 1, Len(frames) - 1)) = Len(frames) - 1
        /\ \A f \in 1 .. Len(frames) - 1 : SubSeq(frames, 1, Len(frames) - 1)[f] = frames[f]
    BY <1>2, FrontFacts
  <2>2. /\ n \in Nat \ {0} /\ front \in Seq(Frame) /\ Len(front) = n - 1
        /\ \A f \in 1 .. n - 1 : front[f] = frames[f]
    BY <1>1, <2>1, Zenon
  <2> QED BY <1>2, <2>2
<1>4. n - 1 \in 1 .. Len(front) /\ front[n - 1] \in Frame
  BY <1>3, ElementOfSeq
<1>5. PICK bound : bound = [front[n - 1] EXCEPT ![v] = c]
  OBVIOUS
<1>6. bound \in Frame /\ \A w \in Var : bound[w] = IF w = v THEN c ELSE front[n - 1][w]
  BY <1>4, <1>5 DEF Frame
<1>7. frames' = [front EXCEPT ![n - 1] = bound]
  BY <1>2, <1>5
<1>8. /\ frames' \in Seq(Frame) /\ Len(frames') = n - 1
      /\ \A f \in 1 .. n - 1 : frames'[f] = IF f = n - 1 THEN bound ELSE front[f]
  BY <1>3, <1>4, <1>6, <1>7, ExceptSeq
<1>9. frames' # <<>>
  BY <1>3, <1>8, EmptySeq
<1> QED BY <1>1, <1>3, <1>6, <1>8, <1>9

LEMMA TypeNext == TypeOK /\ [Next]_vars => TypeOK'
<1> SUFFICES ASSUME TypeOK, [Next]_vars PROVE TypeOK'
  OBVIOUS
<1> USE DEF TypeOK, heap
<1>1. ASSUME NEW v \in Var, NEW c \in Closure, NEW caps \in CaptureLists, Box(v, c, caps)
      PROVE  TypeOK'
  <2>1. \A d \in Closure : Cardinality(Captured(caps, d)) \in Nat
    <3> TAKE d \in Closure
    <3>1. IsFiniteSet(1 .. Len(caps))
      BY CaptureListFacts, FS_Interval
    <3> QED BY <3>1, FS_Subset, FS_CardinalityType DEF Captured
  <2>2. refcount' \in [Closure -> Int]
    BY <1>1, <2>1 DEF Box
  <2>3. frames' \in Seq(Frame) /\ frames' # <<>>
    BY <1>1, BindType DEF Box
  <2> QED BY <1>1, <2>2, <2>3 DEF Box
<1>2. CASE BoxWithoutMemory
  BY <1>2 DEF BoxWithoutMemory
<1>3. ASSUME NEW v \in Var, NEW c \in Closure, NEW args \in ArgLists, CallClosure(v, c, args)
      PROVE  TypeOK'
  <2>1. /\ Params(captures[c] \o args) \in Frame
        /\ frames' = Append(frames, Params(captures[c] \o args))
        /\ UNCHANGED <<heap, stack, status>>
    BY <1>3, ParamsType DEF CallClosure
  <2>2. frames' \in Seq(Frame) /\ frames' # <<>>
    BY <2>1, FramePushed
  <2> QED BY <2>1, <2>2
<1>4. ASSUME NEW args \in ArgLists, CallFunction(args) PROVE TypeOK'
  <2>1. Params(args) \in Frame
    BY ParamsType
  <2>2. frames' \in Seq(Frame) /\ frames' # <<>>
    BY <1>4, <2>1, FramePushed DEF CallFunction
  <2> QED BY <1>4, <2>2 DEF CallFunction
<1>5. CASE Return
  <2>1. frames # <<>> /\ frames' = SubSeq(frames, 1, Len(frames) - 1)
    BY <1>5 DEF Return, Running
  <2>2. frames' \in Seq(Frame) /\ Len(frames') = Len(frames) - 1 /\ Len(frames) \in Nat
    BY <2>1, FrontFacts
  <2>3. Len(frames) # 1 => frames' # <<>>
    BY <2>2, EmptySeq
  <2> QED BY <1>5, <2>2, <2>3 DEF Return
<1>18. ASSUME NEW u \in Var, NEW v \in Var, NEW c \in Closure, ReturnClosure(u, v, c) PROVE TypeOK'
  BY <1>18, ReturnedTo DEF ReturnClosure
<1>6. ASSUME NEW t \in Scalar, PushScalar(t) PROVE TypeOK'
  BY <1>6, AppendProperties DEF PushScalar, Item
<1>7. ASSUME NEW v \in Var, NEW c \in Closure, PushClosure(v, c) PROVE TypeOK'
  BY <1>7, AppendProperties DEF PushClosure, Item
<1>8. ASSUME NEW v \in Var, NEW c \in Closure, PopClosure(v, c) PROVE TypeOK'
  BY <1>8, BindType, FrontFacts DEF PopClosure, Popped
<1>9. ASSUME NEW t \in Scalar, PopScalar(t) PROVE TypeOK'
  BY <1>9, FrontFacts DEF PopScalar, Popped
<1>10. CASE PopAborts
  BY <1>10, FrontFacts DEF PopAborts, Popped
<1>11. ASSUME NEW v \in Var, NEW c \in Closure, CheckDrop(v, c) PROVE TypeOK'
  <2>1. <<c>> \in Seq(Closure) /\ <<>> \in Seq(Closure)
    OBVIOUS
  <2> QED BY <1>11, <2>1, BindType DEF CheckDrop
<1>12. ASSUME NEW v \in Var, Forget(v) PROVE TypeOK'
  BY <1>12, BindType DEF Forget
<1>13. ASSUME NEW v \in Var, UseStale(v) PROVE TypeOK'
  BY <1>13 DEF UseStale
<1>14. CASE ReleaseScalar
  <2>1. dropping # <<>> /\ UNCHANGED <<alloc, refcount, captures, dropping, stack, frames, status>>
    BY <1>14 DEF ReleaseScalar
  <2>2. released' = [released EXCEPT ![dropped] = @ + 1] /\ dropped \in Closure
    BY <1>14, <2>1, DroppedType DEF ReleaseScalar
  <2>3. released' \in [Closure -> Nat]
    BY <2>2
  <2> QED BY <2>1, <2>3
<1>15. CASE closure_decr_then_drop
  <2>1. dropping # <<>> /\ nextField \in Closure
    BY <1>15 DEF closure_decr_then_drop
  <2>2. refcount' \in [Closure -> Int]
    BY <1>15, <2>1 DEF closure_decr_then_drop
  <2>3. released' \in [Closure -> Nat]
    <3>1. released' = [released EXCEPT ![dropped] = released[dropped] + 1]
      BY <1>15 DEF closure_decr_then_drop
    <3>2. dropped \in Closure /\ released[dropped] \in Nat /\ released \in [Closure -> Nat]
      BY <2>1, DroppedType
    <3> QED BY <3>1, <3>2
  <2>4. dropping' \in Seq(Closure)
    BY <1>15, <2>1, AppendProperties DEF closure_decr_then_drop
  <2> QED BY <1>15, <2>2, <2>3, <2>4 DEF closure_decr_then_drop
<1>16. CASE Free
  <2>1. dropping' \in Seq(Closure) /\ dropped \in Closure
    BY <1>16, DroppedType, FrontFacts DEF Free
  <2>2. alloc' \in [Closure -> {"unused", "live", "freed"}]
    BY <1>16, <2>1 DEF Free
  <2> QED BY <1>16, <2>1, <2>2 DEF Free
<1>17. CASE UNCHANGED vars
  BY <1>17 DEF vars
<1> QED
  BY <1>1, <1>2, <1>3, <1>4, <1>5, <1>6, <1>7, <1>8, <1>9, <1>10, <1>11, <1>12,
     <1>13, <1>14, <1>15, <1>16, <1>17, <1>18 DEF Next, ProgramStep, DropStep, Terminated

\* The type invariant of the program, its heap and its drops.
THEOREM ClosureTypes == Spec => []TypeOK
  BY TypeInit, TypeNext, PTL DEF Spec, SafetySpec

------------------------------------------------------------------------------
(* What the operations do to the references *)

LEMMA RefsFinite ==
    ASSUME TypeOK, Allocations, NEW d \in Closure
    PROVE  /\ IsFiniteSet(SlotRefs(d)) /\ Cardinality(SlotRefs(d)) \in Nat
           /\ IsFiniteSet(FieldRefs(d)) /\ Cardinality(FieldRefs(d)) \in Nat
<1>1. IsFiniteSet(1 .. Len(stack))
  BY FS_Interval, LenProperties DEF TypeOK
<1>2. IsFiniteSet(SlotRefs(d))
  BY <1>1, FS_Subset DEF SlotRefs
<1>3. IsFiniteSet(1 .. MaxCaptures)
  BY FS_Interval, BoundsAssumption
<1>4. IsFiniteSet(Live \X (1 .. MaxCaptures))
  BY <1>3, FS_Product DEF Allocations
<1>5. IsFiniteSet(FieldRefs(d))
  BY <1>4, FS_Subset DEF FieldRefs
<1> QED BY <1>2, <1>5, FS_CardinalityType

\* An operation that leaves the heap alone leaves the fields alone.
LEMMA FieldsKept ==
    ASSUME UNCHANGED <<alloc, captures, released>>, NEW d
    PROVE  FieldRefs(d)' = FieldRefs(d) /\ Live' = Live
  BY DEF FieldRefs, Live

LEMMA SlotsKept ==
    ASSUME UNCHANGED stack, NEW d
    PROVE  SlotRefs(d)' = SlotRefs(d)
  BY DEF SlotRefs

\* A push adds the slot it fills to what holds the value.
LEMMA SlotsPushed ==
    ASSUME TypeOK, NEW x \in Item, stack' = Append(stack, x), NEW d
    PROVE  /\ SlotRefs(d)' = IF x = d THEN SlotRefs(d) \cup {Len(stack) + 1} ELSE SlotRefs(d)
           /\ Len(stack) + 1 \notin SlotRefs(d)
<1>1. Len(stack) \in Nat /\ Len(stack') = Len(stack) + 1 /\ stack'[Len(stack) + 1] = x
      /\ \A i \in 1 .. Len(stack) : stack'[i] = stack[i]
  BY AppendProperties, LenProperties DEF TypeOK
<1>2. 1 .. Len(stack') = (1 .. Len(stack)) \cup {Len(stack) + 1}
      /\ Len(stack) + 1 \notin 1 .. Len(stack)
  BY <1>1
<1> QED BY <1>1, <1>2 DEF SlotRefs

\* A pop takes the slot of the top away from what holds the top.
LEMMA SlotsPopped ==
    ASSUME TypeOK, stack # <<>>, stack' = Popped, NEW d
    PROVE  /\ SlotRefs(d)' = SlotRefs(d) \ {Len(stack)}
           /\ Top = d <=> Len(stack) \in SlotRefs(d)
<1>1. Len(stack) \in Nat \ {0} /\ Len(stack') = Len(stack) - 1
      /\ \A i \in 1 .. Len(stack) - 1 : stack'[i] = stack[i]
  BY FrontFacts DEF TypeOK, Popped
<1>2. 1 .. Len(stack') = (1 .. Len(stack)) \ {Len(stack)} /\ Len(stack) \in 1 .. Len(stack)
  BY <1>1
<1> QED BY <1>1, <1>2 DEF SlotRefs, Top

\* A box adds one field for every capture that holds a closure.
LEMMA FieldsBoxed ==
    ASSUME IInv, NEW v \in Var, NEW c \in Closure, NEW caps \in CaptureLists, Box(v, c, caps),
           NEW d \in Closure
    PROVE  /\ Live' = Live \cup {c} /\ c \notin Live
           /\ FieldRefs(d)' = FieldRefs(d) \cup ({c} \X Captured(caps, d))
           /\ FieldRefs(d) \cap ({c} \X Captured(caps, d)) = {}
           /\ IsFiniteSet({c} \X Captured(caps, d))
           /\ Cardinality({c} \X Captured(caps, d)) = Cardinality(Captured(caps, d))
           /\ Cardinality(Captured(caps, d)) \in Nat
<1>1. /\ alloc' = [alloc EXCEPT ![c] = "live"] /\ captures' = [captures EXCEPT ![c] = caps]
      /\ released' = released /\ alloc[c] = "unused"
  BY DEF Box
<1>2. Live' = Live \cup {c} /\ c \notin Live
  BY <1>1 DEF IInv, TypeOK, Live
<1>3. /\ captures'[c] = caps /\ \A e \in Live : captures'[e] = captures[e] /\ e # c
      /\ released[c] = 0
  BY <1>1, <1>2 DEF IInv, TypeOK, Allocations, Live
<1>4. Len(caps) \in Nat /\ Len(caps) <= MaxCaptures
  BY CaptureListFacts
<1>5. FieldRefs(d)' = FieldRefs(d) \cup ({c} \X Captured(caps, d))
  <2>1. ASSUME NEW r \in FieldRefs(d)' PROVE r \in FieldRefs(d) \cup ({c} \X Captured(caps, d))
    BY <1>1, <1>2, <1>3, <1>4 DEF FieldRefs, Captured
  <2>2. ASSUME NEW r \in FieldRefs(d) PROVE r \in FieldRefs(d)'
    BY <1>1, <1>2, <1>3 DEF FieldRefs
  <2>3. ASSUME NEW k \in Captured(caps, d) PROVE <<c, k>> \in FieldRefs(d)'
    <3>1. k \in 1 .. MaxCaptures /\ k \in released'[c] + 1 .. Len(captures'[c]) /\ captures'[c][k] = d
      BY <1>1, <1>3, <1>4, BoundsAssumption DEF Captured
    <3> QED BY <1>2, <3>1 DEF FieldRefs
  <2> QED BY <2>1, <2>2, <2>3
<1>6. FieldRefs(d) \cap ({c} \X Captured(caps, d)) = {}
  BY <1>2 DEF FieldRefs
<1>7. IsFiniteSet(1 .. Len(caps))
  BY <1>4, FS_Interval
<1>8. IsFiniteSet(Captured(caps, d)) /\ Cardinality(Captured(caps, d)) \in Nat
  BY <1>7, FS_Subset, FS_CardinalityType DEF Captured
<1>9. IsFiniteSet({c}) /\ Cardinality({c}) = 1
  BY FS_Singleton
<1>10. IsFiniteSet({c} \X Captured(caps, d))
       /\ Cardinality({c} \X Captured(caps, d)) = 1 * Cardinality(Captured(caps, d))
  BY <1>8, <1>9, FS_Product
<1> QED BY <1>2, <1>5, <1>6, <1>8, <1>10

\* The drop function's step over a field takes that field away.
LEMMA FieldsReleased ==
    ASSUME TypeOK, dropping # <<>>, released[dropped] < Len(captures[dropped]), dropped \in Live,
           released' = [released EXCEPT ![dropped] = @ + 1], UNCHANGED <<alloc, captures>>, NEW d
    PROVE  /\ FieldRefs(d)' = FieldRefs(d) \ {<<dropped, released[dropped] + 1>>}
           /\ nextField = d <=> <<dropped, released[dropped] + 1>> \in FieldRefs(d)
<1> DEFINE k == released[dropped] + 1
<1>1. /\ dropped \in Closure /\ released[dropped] \in Nat /\ k \in Nat \ {0}
      /\ Len(captures[dropped]) \in Nat /\ k <= Len(captures[dropped]) /\ k <= MaxCaptures
  BY DroppedType, BoundsAssumption
<1>2. released'[dropped] = k /\ \A e \in Closure : e # dropped => released'[e] = released[e]
  BY <1>1 DEF TypeOK
<1>3. Live' = Live /\ Live \subseteq Closure
  BY DEF Live
<1>4. ASSUME NEW e \in Live, NEW j \in 1 .. MaxCaptures
      PROVE  j \in released'[e] + 1 .. Len(captures[e])
                <=> j \in released[e] + 1 .. Len(captures[e]) /\ <<e, j>> # <<dropped, k>>
  <2>1. CASE e = dropped
    BY <1>1, <1>2, <2>1
  <2>2. CASE e # dropped
    BY <1>2, <1>3, <2>2
  <2> QED BY <2>1, <2>2
<1>5. FieldRefs(d)' = FieldRefs(d) \ {<<dropped, k>>}
  BY <1>3, <1>4 DEF FieldRefs
<1>6. k \in 1 .. MaxCaptures /\ k \in released[dropped] + 1 .. Len(captures[dropped])
  BY <1>1, BoundsAssumption
<1>7. captures[dropped][k] = d <=> <<dropped, k>> \in FieldRefs(d)
  BY <1>6 DEF FieldRefs
<1> QED BY <1>5, <1>7 DEF nextField

\* Freeing a closure whose fields are all released takes no field away.
LEMMA FieldsFreed ==
    ASSUME TypeOK, Free, dropped \in Live, NEW d
    PROVE  FieldRefs(d)' = FieldRefs(d) /\ Live' = Live \ {dropped}
<1>1. /\ dropping # <<>> /\ released[dropped] = Len(captures[dropped])
      /\ alloc' = [alloc EXCEPT ![dropped] = "freed"] /\ UNCHANGED <<captures, released>>
  BY DEF Free
<1>2. Live' = Live \ {dropped}
  BY <1>1, DroppedType DEF Live, TypeOK
<1>3. Len(captures[dropped]) + 1 .. Len(captures[dropped]) = {}
  BY <1>1, DroppedType
<1> QED BY <1>1, <1>2, <1>3 DEF FieldRefs

------------------------------------------------------------------------------
(* The counts *)

\* Nothing counted holds a closure that is not live.
NoDangling == \A d \in Closure \ Live : SlotRefs(d) = {} /\ FieldRefs(d) = {}

LEMMA LiveIffNoDangling == TypeOK => (CountedRefsLive <=> NoDangling)
<1> SUFFICES ASSUME TypeOK PROVE CountedRefsLive <=> NoDangling
  OBVIOUS
<1>1. ASSUME CountedRefsLive PROVE NoDangling
  BY <1>1 DEF CountedRefsLive, NoDangling, SlotRefs, FieldRefs
<1>2. ASSUME NoDangling PROVE CountedRefsLive
  <2>1. ASSUME NEW i \in 1 .. Len(stack), stack[i] \in Closure PROVE stack[i] \in Live
    BY <1>2, <2>1 DEF NoDangling, SlotRefs
  <2>2. ASSUME NEW c \in Live, NEW k \in released[c] + 1 .. Len(captures[c]),
               captures[c][k] \in Closure
        PROVE  captures[c][k] \in Live
    <3>1. captures[c] \in CaptureLists /\ released[c] \in Nat
      BY DEF TypeOK, Live
    <3>2. k \in 1 .. MaxCaptures
      BY <3>1, CaptureListFacts, BoundsAssumption
    <3>3. <<c, k>> \in FieldRefs(captures[c][k])
      BY <3>2 DEF FieldRefs
    <3> QED BY <1>2, <2>2, <3>3 DEF NoDangling
  <2> QED BY <2>1, <2>2 DEF CountedRefsLive
<1> QED BY <1>1, <1>2

\* The innermost closure of a drop is live, and its count is zero.
LEMMA DroppedFacts ==
    ASSUME IInv, dropping # <<>>
    PROVE  /\ dropped \in Live /\ refcount[dropped] = 0 /\ status = "run"
           /\ SlotRefs(dropped) = {} /\ FieldRefs(dropped) = {}
<1>1. Len(dropping) \in 1 .. Len(dropping)
  BY DroppedType DEF IInv
<1>2. dropped \in Live /\ refcount[dropped] = 0
  BY <1>1 DEF IInv, DropChain, dropped
<1>3. status = "run"
  BY DEF IInv, Allocations
<1>4. Cardinality(SlotRefs(dropped)) + Cardinality(FieldRefs(dropped)) = 0
  BY <1>2, <1>3 DEF IInv, RefCountExact
<1>5. dropped \in Closure
  BY <1>2 DEF Live
<1>6. Cardinality(SlotRefs(dropped)) = 0 /\ Cardinality(FieldRefs(dropped)) = 0
  BY <1>4, <1>5, RefsFinite DEF IInv
<1> QED BY <1>2, <1>3, <1>5, <1>6, RefsFinite, FS_EmptySet DEF IInv

\* Exactness for one closure.
Exact(d) == refcount[d] = Cardinality(SlotRefs(d)) + Cardinality(FieldRefs(d))

LEMMA RefsNext ==
    ASSUME IInv, [Next]_vars
    PROVE  RefCountExact' /\ NoDangling'
<1> USE DEF heap
<1>0. TypeOK /\ NoDangling /\ Allocations /\ DropChain
      /\ (status # "aborted" => \A d \in Live : Exact(d))
  BY LiveIffNoDangling DEF IInv, RefCountExact, Exact
<1> SUFFICES /\ status' # "aborted" => \A d \in Live' : Exact(d)'
             /\ \A d \in Closure \ Live' : SlotRefs(d)' = {} /\ FieldRefs(d)' = {}
  BY DEF RefCountExact, Exact, NoDangling
<1> DEFINE Goal == /\ status' # "aborted" => \A d \in Live' : Exact(d)'
                   /\ \A d \in Closure \ Live' : SlotRefs(d)' = {} /\ FieldRefs(d)' = {}
<1> HIDE DEF Goal
<1>1. ASSUME NEW v \in Var, NEW c \in Closure, NEW caps \in CaptureLists, Box(v, c, caps)
      PROVE  Goal
  <2>1. \A d \in Closure : SlotRefs(d)' = SlotRefs(d)
    BY <1>1, SlotsKept DEF Box
  <2>2. \A d \in Closure \ Live : Captured(caps, d) = {}
    BY <1>1, ScalarAssumption DEF Box, Holds, Captured
  <2>3. Live' = Live \cup {c} /\ c \notin Live
    BY <1>1, FieldsBoxed
  <2>4. ASSUME NEW d \in Live' PROVE Exact(d)'
    <3>1. CASE d = c
      <4>1. SlotRefs(c)' = {} /\ FieldRefs(c)' = {}
        BY <1>0, <1>1, <2>1, <2>2, <2>3, FieldsBoxed DEF NoDangling
      <4>2. refcount'[c] = 0
        BY <1>1 DEF Box
      <4> QED BY <3>1, <4>1, <4>2, FS_EmptySet DEF Exact
    <3>2. CASE d # c
      <4>1. d \in Live /\ d \in Closure
        BY <2>3, <3>2 DEF Live
      <4>2. refcount'[d] = refcount[d] + Cardinality(Captured(caps, d))
        BY <1>1, <3>2, <4>1 DEF Box
      <4>3. Exact(d)
        BY <1>0, <1>1, <4>1 DEF Box, Running
      <4> DEFINE New == {c} \X Captured(caps, d)
      <4>4. /\ FieldRefs(d)' = FieldRefs(d) \cup New /\ FieldRefs(d) \cap New = {}
            /\ IsFiniteSet(New) /\ Cardinality(New) = Cardinality(Captured(caps, d))
            /\ Cardinality(Captured(caps, d)) \in Nat
        BY <1>1, <4>1, FieldsBoxed
      <4> HIDE DEF New
      <4>5. Cardinality(FieldRefs(d)') = Cardinality(FieldRefs(d)) + Cardinality(New)
        <5>1. IsFiniteSet(FieldRefs(d)) /\ Cardinality(FieldRefs(d)) \in Nat
          BY <1>0, <4>1, RefsFinite
        <5>2. Cardinality(FieldRefs(d) \cup New)
                = Cardinality(FieldRefs(d)) + Cardinality(New) - Cardinality({})
          BY <4>4, <5>1, FS_Union
        <5> QED BY <4>4, <5>1, <5>2, FS_EmptySet
      <4>6. Cardinality(SlotRefs(d)) \in Nat /\ Cardinality(FieldRefs(d)) \in Nat
        BY <1>0, <4>1, RefsFinite
      <4> QED BY <2>1, <4>1, <4>2, <4>3, <4>4, <4>5, <4>6 DEF Exact
    <3> QED BY <3>1, <3>2
  <2>5. ASSUME NEW d \in Closure \ Live' PROVE SlotRefs(d)' = {} /\ FieldRefs(d)' = {}
    <3>1. d \in Closure \ Live
      BY <2>3
    <3>2. SlotRefs(d) = {} /\ FieldRefs(d) = {} /\ {c} \X Captured(caps, d) = {}
      BY <1>0, <2>2, <3>1 DEF NoDangling
    <3>3. FieldRefs(d)' = FieldRefs(d) \cup ({c} \X Captured(caps, d))
      BY <1>1, <3>1, FieldsBoxed
    <3> QED BY <2>1, <3>2, <3>3
  <2> QED BY <2>4, <2>5 DEF Goal
<1>2. ASSUME UNCHANGED <<alloc, refcount, captures, released, stack>>,
             status' # "aborted" => status # "aborted"
      PROVE  Goal
  <2>1. Live' = Live /\ \A d : SlotRefs(d)' = SlotRefs(d) /\ FieldRefs(d)' = FieldRefs(d)
    BY <1>2, SlotsKept, FieldsKept
  <2>2. \A d : Exact(d)' <=> Exact(d)
    BY <1>2, <2>1 DEF Exact
  <2> QED BY <1>0, <1>2, <2>1, <2>2 DEF NoDangling, Goal
<1>3. ASSUME BoxWithoutMemory \/ Return \/ UNCHANGED vars PROVE Goal
  BY <1>2, <1>3 DEF BoxWithoutMemory, Return, vars, Running
<1>4. ASSUME NEW v \in Var, NEW c \in Closure, CheckDrop(v, c) \/ \E u \in Var : ReturnClosure(u, v, c)
      PROVE  Goal
  BY <1>2, <1>4 DEF CheckDrop, ReturnClosure, Running
<1>17. ASSUME NEW args \in ArgLists,
              CallFunction(args) \/ \E v \in Var, c \in Closure : CallClosure(v, c, args)
       PROVE  Goal
  BY <1>2, <1>17 DEF CallClosure, CallFunction, Running
<1>5. ASSUME NEW v \in Var, Forget(v) \/ UseStale(v) PROVE Goal
  BY <1>2, <1>5 DEF Forget, UseStale, Running
<1>6. ASSUME NEW t \in Scalar, PushScalar(t) PROVE Goal
  <2>1. t \in Item /\ stack' = Append(stack, t) /\ status = "run"
        /\ UNCHANGED <<alloc, refcount, captures, released>>
    BY <1>6 DEF PushScalar, Item, Running
  <2>2. \A d \in Closure : SlotRefs(d)' = SlotRefs(d)
    BY <1>0, <2>1, ScalarAssumption, SlotsPushed
  <2>3. Live' = Live /\ Live \subseteq Closure /\ \A d : FieldRefs(d)' = FieldRefs(d)
    BY <2>1, FieldsKept DEF Live
  <2> QED BY <1>0, <2>1, <2>2, <2>3 DEF Exact, NoDangling, Goal
<1>7. ASSUME NEW v \in Var, NEW c \in Closure, PushClosure(v, c) PROVE Goal
  <2>1. /\ c \in Item /\ c \in Live /\ stack' = Append(stack, c) /\ status = "run"
        /\ UNCHANGED <<alloc, captures, released>>
        /\ \A d \in Closure : refcount'[d] = IF d = c THEN refcount[d] + 1 ELSE refcount[d]
    BY <1>0, <1>7 DEF PushClosure, Holds, Item, Running, TypeOK
  <2>2. Live' = Live /\ Live \subseteq Closure /\ \A d : FieldRefs(d)' = FieldRefs(d)
    BY <2>1, FieldsKept DEF Live
  <2>3. \A d \in Closure : d # c => SlotRefs(d)' = SlotRefs(d)
    BY <1>0, <2>1, SlotsPushed
  <2>4. Cardinality(SlotRefs(c)') = Cardinality(SlotRefs(c)) + 1
    <3>1. SlotRefs(c)' = SlotRefs(c) \cup {Len(stack) + 1} /\ Len(stack) + 1 \notin SlotRefs(c)
      BY <1>0, <2>1, SlotsPushed
    <3> QED BY <1>0, <3>1, RefsFinite, FS_AddElement
  <2>5. Cardinality(SlotRefs(c)) \in Nat /\ Cardinality(FieldRefs(c)) \in Nat
    BY <1>0, RefsFinite
  <2>6. ASSUME NEW d \in Live' PROVE Exact(d)'
    <3>1. CASE d = c
      BY <1>0, <2>1, <2>2, <2>4, <2>5, <3>1 DEF Exact
    <3>2. CASE d # c
      BY <1>0, <2>1, <2>2, <2>3, <3>2 DEF Exact
    <3> QED BY <3>1, <3>2
  <2> QED BY <1>0, <2>1, <2>2, <2>3, <2>6 DEF NoDangling, Goal
<1>8. ASSUME NEW v \in Var, NEW c \in Closure, PopClosure(v, c) PROVE Goal
  <2>1. /\ stack # <<>> /\ Top = c /\ stack' = Popped /\ status = "run"
        /\ UNCHANGED <<alloc, captures, released>>
        /\ \A d \in Closure : refcount'[d] = IF d = c THEN refcount[d] - 1 ELSE refcount[d]
    BY <1>0, <1>8 DEF PopClosure, Running, TypeOK
  <2>2. Live' = Live /\ Live \subseteq Closure /\ \A d : FieldRefs(d)' = FieldRefs(d)
    BY <2>1, FieldsKept DEF Live
  <2>3. \A d \in Closure : SlotRefs(d)' = SlotRefs(d) \ {Len(stack)}
                           /\ (d = c <=> Len(stack) \in SlotRefs(d))
    BY <1>0, <2>1, SlotsPopped
  <2>4. Cardinality(SlotRefs(c)') = Cardinality(SlotRefs(c)) - 1
    BY <1>0, <2>3, RefsFinite, FS_RemoveElement
  <2>5. Cardinality(SlotRefs(c)) \in Nat /\ Cardinality(FieldRefs(c)) \in Nat
    BY <1>0, RefsFinite
  <2>6. ASSUME NEW d \in Live' PROVE Exact(d)'
    <3>1. CASE d = c
      BY <1>0, <2>1, <2>2, <2>4, <2>5, <3>1 DEF Exact
    <3>2. CASE d # c
      <4>1. SlotRefs(d)' = SlotRefs(d)
        BY <2>2, <2>3, <3>2
      <4> QED BY <1>0, <2>1, <2>2, <3>2, <4>1 DEF Exact
    <3> QED BY <3>1, <3>2
  <2> QED BY <1>0, <2>1, <2>2, <2>3, <2>6 DEF NoDangling, Goal
<1>9. ASSUME NEW t \in Scalar, PopScalar(t) PROVE Goal
  <2>1. /\ stack # <<>> /\ Top = t /\ stack' = Popped /\ status = "run"
        /\ UNCHANGED <<alloc, refcount, captures, released>>
    BY <1>9 DEF PopScalar, Running
  <2>2. \A d \in Closure : SlotRefs(d)' = SlotRefs(d)
    BY <1>0, <2>1, SlotsPopped, ScalarAssumption
  <2>3. Live' = Live /\ Live \subseteq Closure /\ \A d : FieldRefs(d)' = FieldRefs(d)
    BY <2>1, FieldsKept DEF Live
  <2> QED BY <1>0, <2>1, <2>2, <2>3 DEF Exact, NoDangling, Goal
<1>10. ASSUME PopAborts PROVE Goal
  <2>1. UNCHANGED <<alloc, captures, released>> /\ status' = "aborted"
    BY <1>10 DEF PopAborts
  <2>2. Live' = Live /\ \A d : FieldRefs(d)' = FieldRefs(d)
    BY <2>1, FieldsKept
  <2>3. \A d : SlotRefs(d)' \subseteq SlotRefs(d)
    BY <1>0, <1>10, SlotsPopped, SlotsKept DEF PopAborts
  <2> QED BY <1>0, <2>1, <2>2, <2>3 DEF NoDangling, Goal
<1>11. ASSUME ReleaseScalar PROVE Goal
  <2>1. /\ dropping # <<>> /\ released[dropped] < Len(captures[dropped]) /\ nextField \in Scalar
        /\ released' = [released EXCEPT ![dropped] = @ + 1]
        /\ UNCHANGED <<alloc, captures, refcount, stack, status>>
    BY <1>11 DEF ReleaseScalar
  <2>2. dropped \in Live /\ status = "run"
    BY <2>1, DroppedFacts
  <2>3. \A d \in Closure : FieldRefs(d)' = FieldRefs(d) /\ SlotRefs(d)' = SlotRefs(d)
    BY <1>0, <2>1, <2>2, FieldsReleased, SlotsKept, ScalarAssumption
  <2>4. Live' = Live /\ Live \subseteq Closure
    BY <2>1 DEF Live
  <2> QED BY <1>0, <2>1, <2>2, <2>3, <2>4 DEF Exact, NoDangling, Goal
<1>12. ASSUME closure_decr_then_drop PROVE Goal
  <2>0. PICK e, field : e = nextField /\ field = <<dropped, released[dropped] + 1>>
    OBVIOUS
  <2>1. /\ dropping # <<>> /\ released[dropped] < Len(captures[dropped]) /\ e \in Closure
        /\ released' = [released EXCEPT ![dropped] = @ + 1]
        /\ UNCHANGED <<alloc, captures, stack, status>>
        /\ \A d \in Closure : refcount'[d] = IF d = e THEN refcount[d] - 1 ELSE refcount[d]
    BY <1>0, <1>12, <2>0 DEF closure_decr_then_drop, TypeOK
  <2>2. dropped \in Live /\ status = "run"
    BY <2>1, DroppedFacts
  <2>3. \A d \in Closure : /\ FieldRefs(d)' = FieldRefs(d) \ {field}
                           /\ e = d <=> field \in FieldRefs(d)
                           /\ SlotRefs(d)' = SlotRefs(d)
    BY <1>0, <2>0, <2>1, <2>2, FieldsReleased, SlotsKept
  <2>4. Live' = Live /\ Live \subseteq Closure
    BY <2>1 DEF Live
  <2>5. Cardinality(FieldRefs(e)') = Cardinality(FieldRefs(e)) - 1
    BY <1>0, <2>1, <2>3, RefsFinite, FS_RemoveElement
  <2>6. Cardinality(SlotRefs(e)) \in Nat /\ Cardinality(FieldRefs(e)) \in Nat
    BY <1>0, <2>1, RefsFinite
  <2>7. ASSUME NEW d \in Live' PROVE Exact(d)'
    <3>1. CASE d = e
      BY <1>0, <2>1, <2>2, <2>3, <2>4, <2>5, <2>6, <3>1 DEF Exact
    <3>2. CASE d # e
      <4>1. FieldRefs(d)' = FieldRefs(d) /\ SlotRefs(d)' = SlotRefs(d)
        BY <2>3, <2>4, <3>2
      <4> QED BY <1>0, <2>1, <2>2, <2>4, <3>2, <4>1 DEF Exact
    <3> QED BY <3>1, <3>2
  <2> QED BY <1>0, <2>1, <2>3, <2>4, <2>7 DEF NoDangling, Goal
<1>13. ASSUME Free PROVE Goal
  <2>1. dropping # <<>> /\ UNCHANGED <<refcount, stack, status>>
    BY <1>13 DEF Free
  <2>2. dropped \in Live /\ status = "run" /\ SlotRefs(dropped) = {} /\ FieldRefs(dropped) = {}
    BY <2>1, DroppedFacts
  <2>3. Live' = Live \ {dropped} /\ \A d : FieldRefs(d)' = FieldRefs(d) /\ SlotRefs(d)' = SlotRefs(d)
    BY <1>0, <1>13, <2>1, <2>2, FieldsFreed, SlotsKept
  <2> QED BY <1>0, <2>1, <2>2, <2>3 DEF Exact, NoDangling, Goal
<1>14. ASSUME ProgramStep PROVE Goal
  BY <1>14, <1>1, <1>3, <1>6, <1>7, <1>8, <1>9, <1>10, <1>4, <1>5, <1>17 DEF ProgramStep
<1>15. ASSUME DropStep PROVE Goal
  BY <1>15, <1>11, <1>12, <1>13 DEF DropStep
<1>16. Goal
  BY <1>3, <1>14, <1>15 DEF Next, Terminated
<1> QED BY <1>16 DEF Goal

------------------------------------------------------------------------------
(* Drops *)

\* A step of the program itself changes the drop in progress only by starting one.
LEMMA ProgramStepDropping ==
    ASSUME ProgramStep, TypeOK
    PROVE  /\ dropping = <<>> /\ status = "run"
           /\ \/ dropping' = <<>>
              \/ /\ status' = "run" /\ UNCHANGED <<alloc, refcount>>
                 /\ \E c \in Live : refcount[c] = 0 /\ dropping' = <<c>>
<1> USE DEF heap, Running
<1>1. ASSUME NEW v \in Var, NEW c \in Closure, CheckDrop(v, c)
      PROVE  /\ dropping = <<>> /\ status = "run"
             /\ \/ dropping' = <<>>
                \/ /\ status' = "run" /\ UNCHANGED <<alloc, refcount>>
                   /\ \E d \in Live : refcount[d] = 0 /\ dropping' = <<d>>
  BY <1>1 DEF CheckDrop, Holds
<1>2. CASE \/ \E v \in Var, c \in Closure, caps \in CaptureLists : Box(v, c, caps)
           \/ BoxWithoutMemory
           \/ \E v \in Var, c \in Closure, args \in ArgLists : CallClosure(v, c, args)
           \/ \E args \in ArgLists : CallFunction(args)
           \/ Return
           \/ \E u, v \in Var, c \in Closure : ReturnClosure(u, v, c)
  BY <1>2 DEF Box, BoxWithoutMemory, CallClosure, CallFunction, Return, ReturnClosure
<1>3. CASE \/ \E t \in Scalar : PushScalar(t)
           \/ \E v \in Var, c \in Closure : PushClosure(v, c)
           \/ \E v \in Var, c \in Closure : PopClosure(v, c)
           \/ \E t \in Scalar : PopScalar(t)
           \/ PopAborts
           \/ \E v \in Var : Forget(v)
           \/ \E v \in Var : UseStale(v)
  BY <1>3 DEF PushScalar, PushClosure, PopClosure, PopScalar, PopAborts, Forget, UseStale
<1> QED BY <1>1, <1>2, <1>3 DEF ProgramStep

\* The innermost activation is the last one, and only it is of its closure.
LEMMA InnermostOnly ==
    ASSUME IInv, dropping # <<>>
    PROVE  /\ Len(dropping) \in Nat \ {0}
           /\ \A i \in 1 .. Len(dropping) : dropping[i] \in Live /\ dropping[i] \in Closure
           /\ \A i \in 1 .. Len(dropping) - 1 : dropping[i] # dropped
  BY DroppedType DEF IInv, DropChain, dropped, Live

LEMMA ChainNext == IInv /\ [Next]_vars => DropChain'
<1> SUFFICES ASSUME IInv, [Next]_vars PROVE DropChain'
  OBVIOUS
<1> USE DEF heap
<1>1. CASE UNCHANGED vars
  BY <1>1 DEF vars, IInv, DropChain, Live
<1>2. CASE ProgramStep
  <2>1. CASE dropping' = <<>>
    BY <2>1 DEF DropChain
  <2>2. CASE dropping' # <<>>
    <3>1. PICK c \in Live : refcount'[c] = 0 /\ dropping' = <<c>> /\ Live' = Live
      BY <1>2, <2>2, ProgramStepDropping DEF IInv, Live
    <3>2. Len(dropping') = 1 /\ dropping'[1] = c
      BY <3>1
    <3> QED BY <3>1, <3>2 DEF DropChain
  <2> QED BY <2>1, <2>2
<1>3. CASE ReleaseScalar
  <2>1. /\ dropping # <<>>
        /\ released' = [released EXCEPT ![dropped] = @ + 1]
        /\ UNCHANGED <<alloc, captures, refcount, dropping>>
    BY <1>3 DEF ReleaseScalar
  <2>2. \A i \in 1 .. Len(dropping) - 1 : released'[dropping[i]] = released[dropping[i]]
    <3>1. \A i \in 1 .. Len(dropping) - 1 : dropping[i] \in Closure /\ dropping[i] # dropped
      BY <2>1, InnermostOnly
    <3>2. \A x \in Closure : x # dropped => released'[x] = released[x]
      BY <2>1 DEF IInv, TypeOK
    <3> QED BY <3>1, <3>2
  <2>3. Live' = Live
    BY <2>1 DEF Live
  <2> QED BY <2>1, <2>2, <2>3 DEF IInv, DropChain
<1>4. CASE closure_decr_then_drop
  <2>1. PICK e, n, d : e = nextField /\ n = Len(dropping) /\ d = dropped
    OBVIOUS
  <2>2. /\ dropping # <<>> /\ released[d] < Len(captures[d]) /\ e \in Closure
        /\ released' = [released EXCEPT ![d] = @ + 1]
        /\ refcount' = [refcount EXCEPT ![e] = @ - 1]
        /\ dropping' = IF refcount'[e] = 0 THEN Append(dropping, e) ELSE dropping
        /\ UNCHANGED <<alloc, captures>>
    BY <1>4, <2>1 DEF closure_decr_then_drop
  <2>3. /\ d \in Live /\ d \in Closure /\ released[d] \in Nat /\ Len(captures[d]) \in Nat
        /\ status = "run" /\ n \in Nat \ {0} /\ dropping[n] = d /\ Live' = Live
    BY <2>1, <2>2, DroppedFacts, DroppedType DEF IInv, dropped, Live
  <2>4. e \in Live /\ refcount[e] # 0
    <3>1. <<dropped, released[dropped] + 1>> \in FieldRefs(e)
      BY <2>1, <2>2, <2>3, FieldsReleased DEF IInv
    <3>2. e \in Live
      BY <2>2, <3>1, LiveIffNoDangling DEF IInv, NoDangling
    <3>3. Cardinality(FieldRefs(e)) # 0 /\ Cardinality(FieldRefs(e)) \in Nat
          /\ Cardinality(SlotRefs(e)) \in Nat
      BY <2>2, <3>1, RefsFinite, FS_EmptySet DEF IInv
    <3> QED BY <2>3, <3>2, <3>3 DEF IInv, RefCountExact
  <2>5. \A i \in 1 .. n : dropping[i] \in Live /\ dropping[i] \in Closure /\ dropping[i] # e
                          /\ refcount'[dropping[i]] = 0
    BY <2>1, <2>2, <2>4, InnermostOnly DEF IInv, DropChain, TypeOK
  <2>6. \A i \in 1 .. n - 1 : released'[dropping[i]] = released[dropping[i]]
    <3>1. \A i \in 1 .. n - 1 : dropping[i] \in Closure /\ dropping[i] # d
      BY <2>1, <2>2, <2>3, <2>5, InnermostOnly
    <3>2. \A x \in Closure : x # d => released'[x] = released[x]
      BY <2>2 DEF IInv, TypeOK
    <3> QED BY <3>1, <3>2
  <2>7. /\ released'[d] \in 1 .. Len(captures[d]) /\ captures[d][released'[d]] = e
    <3>1. released'[d] = released[d] + 1
      BY <2>2, <2>3 DEF IInv, TypeOK
    <3> QED BY <2>1, <2>2, <2>3, <3>1 DEF nextField
  <2>8. CASE refcount'[e] # 0
    BY <2>1, <2>2, <2>3, <2>5, <2>6, <2>8 DEF IInv, DropChain
  <2>9. CASE refcount'[e] = 0
    <3>1. /\ Len(dropping') = n + 1 /\ dropping'[n + 1] = e
          /\ \A i \in 1 .. n : dropping'[i] = dropping[i]
      BY <2>1, <2>2, <2>9, AppendProperties DEF IInv, TypeOK
    <3>2. \A i \in 1 .. n + 1 : i \in 1 .. n \/ i = n + 1
      BY <2>3
    <3>3. ASSUME NEW i \in 1 .. n + 1 PROVE dropping'[i] \in Live' /\ refcount'[dropping'[i]] = 0
      BY <2>3, <2>4, <2>5, <2>9, <3>1, <3>2
    <3>4. ASSUME NEW i \in 1 .. n + 1, NEW j \in 1 .. n + 1, dropping'[i] = dropping'[j]
          PROVE  i = j
      BY <2>1, <2>5, <3>1, <3>2, <3>4 DEF IInv, DropChain
    <3>5. ASSUME NEW i \in 1 .. n
          PROVE  /\ released'[dropping'[i]] \in 1 .. Len(captures'[dropping'[i]])
                 /\ captures'[dropping'[i]][released'[dropping'[i]]] = dropping'[i + 1]
      <4>1. CASE i = n
        BY <2>2, <2>3, <2>7, <3>1, <4>1
      <4>2. CASE i \in 1 .. n - 1
        <5>1. i \in 1 .. Len(dropping) - 1 /\ i + 1 \in 1 .. n
          BY <2>1, <2>3, <4>2
        <5>2. dropping'[i] = dropping[i] /\ dropping'[i + 1] = dropping[i + 1]
          BY <3>1, <5>1
        <5> QED BY <2>2, <2>6, <4>2, <5>1, <5>2 DEF IInv, DropChain
      <4> QED BY <2>3, <4>1, <4>2
    <3>6. Len(dropping') - 1 = n
      BY <2>3, <3>1
    <3> QED BY <3>1, <3>3, <3>4, <3>5, <3>6 DEF DropChain
  <2> QED BY <2>8, <2>9
<1>5. CASE Free
  <2>1. /\ dropping # <<>> /\ alloc' = [alloc EXCEPT ![dropped] = "freed"]
        /\ dropping' = SubSeq(dropping, 1, Len(dropping) - 1)
        /\ UNCHANGED <<refcount, captures, released>>
    BY <1>5 DEF Free
  <2>2. /\ Len(dropping) \in Nat \ {0} /\ Len(dropping') = Len(dropping) - 1
        /\ \A i \in 1 .. Len(dropping) - 1 : dropping'[i] = dropping[i]
    BY <2>1, FrontFacts DEF IInv, TypeOK
  <2>3. Live' = Live \ {dropped}
    BY <1>5, <2>1, DroppedFacts, FieldsFreed DEF IInv
  <2>4. \A i \in 1 .. Len(dropping) - 1 :
            /\ i \in 1 .. Len(dropping) /\ dropping[i] # dropped
            /\ dropping[i] \in Live /\ refcount[dropping[i]] = 0
    BY <2>1, <2>2, InnermostOnly DEF IInv, DropChain
  <2>5. \A i \in 1 .. Len(dropping') - 1 :
            i \in 1 .. Len(dropping) - 1 /\ i + 1 \in 1 .. Len(dropping) - 1
    BY <2>2
  <2> QED BY <2>1, <2>2, <2>3, <2>4, <2>5 DEF IInv, DropChain
<1> QED BY <1>1, <1>2, <1>3, <1>4, <1>5 DEF Next, DropStep, Terminated

LEMMA AllocationsNext == IInv /\ [Next]_vars => Allocations'
<1> SUFFICES ASSUME IInv, [Next]_vars PROVE Allocations'
  OBVIOUS
<1> USE DEF heap
<1>1. ASSUME UNCHANGED <<alloc, released>>, dropping' # <<>> => status' = "run"
      PROVE  Allocations'
  BY <1>1 DEF IInv, Allocations, Live
<1>2. ASSUME NEW v \in Var, NEW c \in Closure, NEW caps \in CaptureLists, Box(v, c, caps)
      PROVE  Allocations'
  <2>1. Live' = Live \cup {c}
    BY <1>2, FieldsBoxed
  <2>2. IsFiniteSet(Live')
    BY <2>1, FS_AddElement DEF IInv, Allocations
  <2>3. \A d \in Closure : alloc'[d] = "unused" => alloc[d] = "unused"
    BY <1>2 DEF Box, IInv, TypeOK
  <2> QED BY <1>2, <2>2, <2>3 DEF Box, IInv, Allocations, Running
<1>3. ASSUME ProgramStep PROVE Allocations'
  <2>1. dropping' # <<>> => status' = "run"
    BY <1>3, ProgramStepDropping DEF IInv
  <2>2. CASE \E v \in Var, c \in Closure, caps \in CaptureLists : Box(v, c, caps)
    BY <1>2, <2>2
  <2>3. CASE ~ \E v \in Var, c \in Closure, caps \in CaptureLists : Box(v, c, caps)
    <3>1. UNCHANGED <<alloc, released>>
      BY <1>3, <2>3 DEF ProgramStep, BoxWithoutMemory, CallClosure, CallFunction, Return, ReturnClosure,
         PushScalar, PushClosure, PopClosure, PopScalar, PopAborts, CheckDrop, Forget, UseStale
    <3> QED BY <1>1, <2>1, <3>1
  <2> QED BY <2>2, <2>3
<1>4. ASSUME ReleaseScalar \/ closure_decr_then_drop PROVE Allocations'
  <2>1. /\ dropping # <<>> /\ released' = [released EXCEPT ![dropped] = @ + 1]
        /\ UNCHANGED <<alloc, status>>
    BY <1>4 DEF ReleaseScalar, closure_decr_then_drop
  <2>2. dropped \in Live /\ status = "run"
    BY <2>1, DroppedFacts
  <2> QED BY <2>1, <2>2 DEF IInv, Allocations, Live, TypeOK
<1>5. ASSUME Free PROVE Allocations'
  <2>1. /\ dropping # <<>> /\ alloc' = [alloc EXCEPT ![dropped] = "freed"]
        /\ UNCHANGED <<released, status>>
    BY <1>5 DEF Free
  <2>2. dropped \in Live /\ status = "run"
    BY <2>1, DroppedFacts
  <2>3. IsFiniteSet(Live')
    BY <1>5, <2>2, FieldsFreed, FS_RemoveElement DEF IInv, Allocations
  <2>4. \A d \in Closure : alloc'[d] = "unused" => alloc[d] = "unused"
    BY <2>1 DEF IInv, TypeOK
  <2> QED BY <2>1, <2>2, <2>3, <2>4 DEF IInv, Allocations
<1>6. ASSUME UNCHANGED vars PROVE Allocations'
  BY <1>1, <1>6 DEF vars, IInv, Allocations
<1> QED BY <1>3, <1>4, <1>5, <1>6 DEF Next, DropStep, Terminated

------------------------------------------------------------------------------
(* The theorems *)

LEMMA HeapInit == Init => IInv
<1> SUFFICES ASSUME Init PROVE IInv
  OBVIOUS
<1>1. Live = {} /\ dropping = <<>> /\ stack = <<>>
  BY DEF Init, Live
<1>2. RefCountExact /\ CountedRefsLive /\ DropChain
  BY <1>1 DEF RefCountExact, CountedRefsLive, DropChain
<1>3. Allocations
  BY <1>1, FS_EmptySet DEF Init, Allocations
<1> QED BY TypeInit, <1>2, <1>3 DEF IInv

LEMMA HeapNext == IInv /\ [Next]_vars => IInv'
<1> SUFFICES ASSUME IInv, [Next]_vars PROVE IInv'
  OBVIOUS
<1>1. TypeOK'
  BY TypeNext DEF IInv
<1>2. RefCountExact' /\ NoDangling'
  BY RefsNext
<1>3. CountedRefsLive'
  BY <1>1, <1>2, LiveIffNoDangling, PTL
<1> QED BY <1>1, <1>2, <1>3, ChainNext, AllocationsNext DEF IInv

\* Whatever the front end does with check_drop, at every moment, also inside a
\* recursive drop: the count of a live closure is exactly the number of slots
\* and unreleased captures that hold it.
THEOREM ReferenceCountsCorrect == Spec => []RefCountExact
<1>1. IInv => RefCountExact
  BY DEF IInv
<1> QED BY HeapInit, HeapNext, <1>1, PTL DEF Spec, SafetySpec

\* And none of these slots and captures holds freed memory: neither a pop nor
\* a recursive drop touches a closure that was freed.
THEOREM CountedReferencesLive == Spec => []CountedRefsLive
<1>1. IInv => CountedRefsLive
  BY DEF IInv
<1> QED BY HeapInit, HeapNext, <1>1, PTL DEF Spec, SafetySpec

\* The recursion of closure_check_drop through the generated drop functions
\* never meets a closure it is already dropping, or one that is still counted.
THEOREM DropsNest == Spec => []DropChain
<1>1. IInv => DropChain
  BY DEF IInv
<1> QED BY HeapInit, HeapNext, <1>1, PTL DEF Spec, SafetySpec

\* No step frees a closure that a slot or a capture still holds.
THEOREM FreesOnlyUnreferenced == Spec => FreeOnlyUnreferenced
<1> DEFINE A == \A c \in Live : alloc'[c] = "freed" =>
                    /\ SlotRefs(c) = {} /\ FieldRefs(c) = {}
                    /\ released[c] = Len(captures[c])
<1>1. IInv /\ [Next]_vars => A \/ UNCHANGED vars
  <2> SUFFICES ASSUME IInv, [Next]_vars, NEW c \in Live, alloc'[c] = "freed", ~UNCHANGED vars
               PROVE  /\ SlotRefs(c) = {} /\ FieldRefs(c) = {}
                      /\ released[c] = Len(captures[c])
    OBVIOUS
  <2>1. c \in Closure /\ alloc[c] = "live"
    BY DEF Live
  <2>2. ASSUME NEW v \in Var, NEW d \in Closure, NEW caps \in CaptureLists, Box(v, d, caps)
        PROVE  FALSE
    BY <2>1, <2>2 DEF Box, IInv, TypeOK
  <2>3. CASE ProgramStep
    <3>1. alloc' = alloc
      BY <2>2, <2>3 DEF heap, ProgramStep, BoxWithoutMemory, CallClosure, CallFunction, Return, ReturnClosure,
         PushScalar, PushClosure, PopClosure, PopScalar, PopAborts, CheckDrop, Forget, UseStale
    <3> QED BY <2>1, <3>1
  <2>4. CASE ReleaseScalar \/ closure_decr_then_drop
    BY <2>1, <2>4 DEF ReleaseScalar, closure_decr_then_drop
  <2>5. CASE Free
    <3>1. c = dropped /\ dropping # <<>> /\ released[dropped] = Len(captures[dropped])
      BY <2>1, <2>5 DEF Free, IInv, TypeOK
    <3> QED BY <3>1, DroppedFacts
  <2> QED BY <2>3, <2>4, <2>5 DEF Next, DropStep, Terminated
<1>2. IInv /\ [Next]_vars => [A]_vars
  BY <1>1
<1> QED BY HeapInit, HeapNext, <1>2, PTL DEF Spec, SafetySpec, FreeOnlyUnreferenced

------------------------------------------------------------------------------
(* When check_drop respects the variables of the program (CarefulDrops): no
   variable of any active function dangles, no freed closure is used, and no
   closure is forgotten. *)


\* Only a drop in progress has released captures of a live closure: what a call
\* hands to a worker is all still counted.
ReleasedInDrop ==
    \A c \in Live : released[c] # 0 => \E i \in 1 .. Len(dropping) : dropping[i] = c

\* A set of closures that holds everything the drop in progress may still free,
\* and that no variable refers into.
Doomed(D) ==
    /\ ClosedUnderDrop(D)
    /\ \A i \in 1 .. Len(dropping) : dropping[i] \in D
    /\ \A d \in D : Holders(d) = {}
DropUnseen == \E D \in SUBSET Live : Doomed(D)

CarefulInv == IInv /\ ReleasedInDrop /\ DropUnseen /\ VariablesLive /\ NothingLost

------------------------------------------------------------------------------
(* Variables *)

\* The frames of a running program.
LEMMA FrameFacts ==
    ASSUME TypeOK, Running
    PROVE  /\ Len(frames) \in Nat \ {0} /\ Len(frames) \in 1 .. Len(frames)
           /\ \A f \in 1 .. Len(frames) : frames[f] \in Frame
           /\ frame \in Frame
<1>1. frames \in Seq(Frame) /\ frames # <<>>
  BY DEF TypeOK, Running
<1>2. Len(frames) \in Nat \ {0} /\ \A f \in 1 .. Len(frames) : frames[f] \in Frame
  BY <1>1, EmptySeq, LenProperties
<1> QED BY <1>2 DEF frame

\* An assignment changes one variable of the innermost function.
LEMMA BindFacts ==
    ASSUME TypeOK, Running, NEW v \in Var, NEW c \in Closure \cup {None}, frames' = Bind(v, c)
    PROVE  /\ Len(frames') = Len(frames)
           /\ \A f \in 1 .. Len(frames), u \in Var :
                  frames'[f][u] = IF f = Len(frames) /\ u = v THEN c ELSE frames[f][u]
<1>1. frames \in Seq(Frame) /\ Len(frames) \in 1 .. Len(frames) /\ Len(frames) \in Nat
  BY FrameFacts DEF TypeOK
<1>2. Bind(v, c) = [frames EXCEPT ![Len(frames)] = [frame EXCEPT ![v] = c]]
  BY <1>1 DEF Bind, frame
<1>3. /\ DOMAIN frames' = DOMAIN frames
      /\ frames'[Len(frames)] = [frame EXCEPT ![v] = c]
      /\ \A f \in 1 .. Len(frames) : f # Len(frames) => frames'[f] = frames[f]
  BY <1>1, <1>2, LenProperties
<1>4. Len(frames') = Len(frames)
  <2>1. frames' \in Seq(Frame)
    BY BindType
  <2> QED BY <1>1, <1>3, <2>1, LenProperties
<1>5. frame \in Frame /\ frame = frames[Len(frames)]
  BY FrameFacts DEF frame
<1> QED BY <1>3, <1>4, <1>5 DEF Frame

\* What an assignment does to the variables that hold a closure.
LEMMA HoldersBound ==
    ASSUME TypeOK, Running, NEW v \in Var, NEW c \in Closure \cup {None}, frames' = Bind(v, c), NEW d
    PROVE  Holders(d)' = (Holders(d) \ {<<Len(frames), v>>})
                             \cup (IF c = d THEN {<<Len(frames), v>>} ELSE {})
<1>1. /\ Len(frames') = Len(frames) /\ Len(frames) \in 1 .. Len(frames)
      /\ \A f \in 1 .. Len(frames), u \in Var :
             frames'[f][u] = IF f = Len(frames) /\ u = v THEN c ELSE frames[f][u]
  BY BindFacts, FrameFacts
<1>2. ASSUME NEW f \in 1 .. Len(frames), NEW u \in Var
      PROVE  <<f, u>> \in Holders(d)'
                 <=> <<f, u>> \in (Holders(d) \ {<<Len(frames), v>>})
                                      \cup (IF c = d THEN {<<Len(frames), v>>} ELSE {})
  BY <1>1 DEF Holders
<1> QED BY <1>1, <1>2 DEF Holders

\* A call adds variables and keeps those there are.
LEMMA HoldersPushed ==
    ASSUME TypeOK, Running, NEW fr \in Frame, frames' = Append(frames, fr), NEW d
    PROVE  /\ Len(frames') = Len(frames) + 1 /\ frames'[Len(frames) + 1] = fr
           /\ \A f \in 1 .. Len(frames) : frames'[f] = frames[f]
           /\ Holders(d) \subseteq Holders(d)'
<1>1. /\ Len(frames') = Len(frames) + 1 /\ frames'[Len(frames) + 1] = fr
      /\ \A f \in 1 .. Len(frames) : frames'[f] = frames[f]
      /\ Len(frames) \in Nat
  BY AppendProperties, FrameFacts DEF TypeOK
<1> QED BY <1>1 DEF Holders

\* A return ends a function whose variables are all dead.
LEMMA HoldersReturned ==
    ASSUME TypeOK, Return, NEW d \in Closure
    PROVE  /\ Len(frames') = Len(frames) - 1
           /\ \A f \in 1 .. Len(frames) - 1 : frames'[f] = frames[f]
           /\ Holders(d)' = Holders(d)
<1>1. Running /\ frame = EmptyFrame /\ frames' = SubSeq(frames, 1, Len(frames) - 1)
  BY DEF Return
<1>2. /\ Len(frames) \in Nat \ {0} /\ Len(frames') = Len(frames) - 1
      /\ \A f \in 1 .. Len(frames) - 1 : frames'[f] = frames[f]
  BY <1>1, FrontFacts DEF TypeOK, Running
<1>3. \A u \in Var : frames[Len(frames)][u] # d
  BY <1>1, NoneAssumption DEF frame, EmptyFrame
<1> QED BY <1>2, <1>3 DEF Holders

\* A closure that is returned moves from a variable of the function to one of
\* its caller.
LEMMA HoldersHandedBack ==
    ASSUME TypeOK, NEW u \in Var, NEW v \in Var, NEW c \in Closure, ReturnClosure(u, v, c),
           NEW d \in Closure, Holders(d) # {}
    PROVE  Holders(d)' # {}
<1>1. PICK n : n = Len(frames)
  OBVIOUS
<1>2. /\ n \in Nat \ {0, 1} /\ Len(frames') = n - 1
      /\ \A f \in 1 .. n - 1, w \in Var :
             frames'[f][w] = IF f = n - 1 /\ w = v THEN c ELSE frames[f][w]
  BY <1>1, ReturnedTo
<1>3. /\ frames[n][u] = c /\ \A w \in Var \ {u} : frames[n][w] = None
      /\ frames[n - 1][v] = None
  BY <1>1 DEF ReturnClosure, frame
<1>4. PICK f \in 1 .. n, w \in Var : frames[f][w] = d
  BY <1>1 DEF Holders
<1>5. CASE f = n
  <2>1. d = c
    BY <1>3, <1>4, <1>5, NoneAssumption
  <2>2. frames'[n - 1][v] = d /\ n - 1 \in 1 .. Len(frames')
    BY <1>2, <2>1
  <2>3. <<n - 1, v>> \in Holders(d)'
    BY <2>2 DEF Holders
  <2> QED BY <2>3
<1>6. CASE f # n
  <2>1. f \in 1 .. n - 1 /\ f \in 1 .. Len(frames') /\ ~(f = n - 1 /\ w = v)
    BY <1>2, <1>3, <1>4, <1>6, NoneAssumption
  <2>2. <<f, w>> \in Holders(d)'
    BY <1>2, <1>4, <2>1 DEF Holders
  <2> QED BY <2>2
<1> QED BY <1>5, <1>6

\* The steps of a drop leave the variables alone.
LEMMA HoldersKept ==
    ASSUME UNCHANGED frames, NEW d
    PROVE  Holders(d)' = Holders(d)
  BY DEF Holders
------------------------------------------------------------------------------
(* Captures are released only by a drop *)

LEMMA ReleasedNext == IInv /\ ReleasedInDrop /\ [Next]_vars => ReleasedInDrop'
<1> SUFFICES ASSUME IInv, ReleasedInDrop, [Next]_vars PROVE ReleasedInDrop'
  OBVIOUS
<1> USE DEF heap
<1>1. ASSUME NEW v \in Var, NEW c \in Closure, NEW caps \in CaptureLists, Box(v, c, caps)
      PROVE  ReleasedInDrop'
  <2>1. released' = released /\ alloc[c] = "unused" /\ UNCHANGED dropping
    BY <1>1 DEF Box
  <2>2. released[c] = 0
    BY <2>1 DEF IInv, Allocations
  <2>3. Live' = Live \cup {c}
    BY <1>1, FieldsBoxed
  <2> QED BY <2>1, <2>2, <2>3 DEF ReleasedInDrop
<1>2. CASE ProgramStep
  <2>1. CASE \E v \in Var, c \in Closure, caps \in CaptureLists : Box(v, c, caps)
    BY <1>1, <2>1
  <2>2. CASE ~ \E v \in Var, c \in Closure, caps \in CaptureLists : Box(v, c, caps)
    <3>1. UNCHANGED <<alloc, released>>
      BY <1>2, <2>2 DEF ProgramStep, BoxWithoutMemory, CallClosure, CallFunction, Return, ReturnClosure,
         PushScalar, PushClosure, PopClosure, PopScalar, PopAborts, CheckDrop, Forget, UseStale
    <3>2. dropping = <<>>
      BY <1>2, ProgramStepDropping DEF IInv
    <3>3. \A c \in Live : released[c] = 0
      BY <3>2 DEF ReleasedInDrop
    <3> QED BY <3>1, <3>3 DEF ReleasedInDrop, Live
  <2> QED BY <2>1, <2>2
<1>3. ASSUME dropping # <<>>, released' = [released EXCEPT ![dropped] = @ + 1], UNCHANGED alloc,
             \A i \in 1 .. Len(dropping) : i \in 1 .. Len(dropping') /\ dropping'[i] = dropping[i]
      PROVE  ReleasedInDrop'
  <2>1. Len(dropping) \in 1 .. Len(dropping) /\ dropping[Len(dropping)] = dropped
    BY <1>3, DroppedType DEF IInv, dropped
  <2>2. \A c \in Closure : c # dropped => released'[c] = released[c]
    BY <1>3 DEF IInv, TypeOK
  <2>3. ASSUME NEW c \in Live, released'[c] # 0 PROVE \E i \in 1 .. Len(dropping) : dropping[i] = c
    BY <2>1, <2>2, <2>3 DEF ReleasedInDrop, Live
  <2> QED BY <1>3, <2>3 DEF ReleasedInDrop, Live
<1>4. CASE ReleaseScalar
  BY <1>3, <1>4 DEF ReleaseScalar
<1>5. CASE closure_decr_then_drop
  <2>1. /\ dropping # <<>> /\ released' = [released EXCEPT ![dropped] = @ + 1]
        /\ UNCHANGED alloc /\ nextField \in Closure
        /\ dropping' = Append(dropping, nextField) \/ dropping' = dropping
    BY <1>5 DEF closure_decr_then_drop
  <2>2. \A i \in 1 .. Len(dropping) : i \in 1 .. Len(dropping') /\ dropping'[i] = dropping[i]
    <3>1. dropping \in Seq(Closure) /\ Len(dropping) \in Nat
      BY LenProperties DEF IInv, TypeOK
    <3>2. CASE dropping' = Append(dropping, nextField)
      BY <2>1, <3>1, <3>2, AppendProperties
    <3> QED BY <2>1, <3>2
  <2> QED BY <1>3, <2>1, <2>2
<1>6. CASE Free
  <2>1. /\ dropping # <<>> /\ UNCHANGED released
        /\ dropping' = SubSeq(dropping, 1, Len(dropping) - 1)
    BY <1>6 DEF Free
  <2>2. /\ Len(dropping) \in Nat \ {0} /\ Len(dropping') = Len(dropping) - 1
        /\ \A i \in 1 .. Len(dropping) - 1 : dropping'[i] = dropping[i]
    BY <2>1, FrontFacts DEF IInv, TypeOK
  <2>3. Live' = Live \ {dropped}
    BY <1>6, <2>1, DroppedFacts, FieldsFreed DEF IInv
  <2>4. ASSUME NEW c \in Live', released'[c] # 0 PROVE \E i \in 1 .. Len(dropping') : dropping'[i] = c
    <3>1. PICK i \in 1 .. Len(dropping) : dropping[i] = c
      BY <2>1, <2>3, <2>4 DEF ReleasedInDrop
    <3>2. i \in 1 .. Len(dropping) - 1
      BY <2>2, <2>3, <3>1 DEF dropped
    <3> QED BY <2>2, <3>1, <3>2
  <2> QED BY <2>4 DEF ReleasedInDrop
<1>7. CASE UNCHANGED vars
  BY <1>7 DEF vars, ReleasedInDrop, Live
<1> QED BY <1>2, <1>4, <1>5, <1>6, <1>7 DEF Next, DropStep, Terminated

------------------------------------------------------------------------------
(* What a drop can free *)

\* Cascade(c) is the least set with c that is closed under dropping.
LEMMA CascadeClosed ==
    ASSUME NEW c \in Live
    PROVE  /\ c \in Cascade(c) /\ Cascade(c) \in SUBSET Live
           /\ ClosedUnderDrop(Cascade(c))
<1>1. c \in Cascade(c) /\ Cascade(c) \in SUBSET Live
  BY DEF Cascade
<1>2. ASSUME NEW d \in Live \ Cascade(c), FieldRefs(d) # {}, SlotRefs(d) = {}
      PROVE  \E r \in FieldRefs(d) : r[1] \notin Cascade(c)
  <2>1. PICK D \in SUBSET Live : c \in D /\ ClosedUnderDrop(D) /\ d \notin D
    BY <1>2 DEF Cascade
  <2>2. PICK r \in FieldRefs(d) : r[1] \notin D
    BY <1>2, <2>1 DEF ClosedUnderDrop
  <2>3. r[1] \notin Cascade(c)
    BY <2>1, <2>2 DEF Cascade
  <2> QED BY <2>2, <2>3
<1> QED BY <1>1, <1>2 DEF ClosedUnderDrop

\* Every check_drop of a careful program starts a drop that no variable sees,
\* and what it frees on the way stays in that set.
LEMMA UnseenNext ==
    ASSUME CarefulDrops
    PROVE  IInv /\ DropUnseen /\ [Next]_vars => DropUnseen'
<1> SUFFICES ASSUME IInv, DropUnseen, [Next]_vars PROVE DropUnseen'
  OBVIOUS
<1> USE DEF heap
<1>1. ASSUME dropping' = <<>> PROVE DropUnseen'
  <2>1. {} \in SUBSET Live' /\ Doomed({})'
    BY <1>1 DEF Doomed, ClosedUnderDrop
  <2> QED BY <2>1 DEF DropUnseen
<1>2. ASSUME NEW v \in Var, NEW c \in Closure, CheckDrop(v, c), dropping' # <<>> PROVE DropUnseen'
  <2>1. /\ c \in Live /\ refcount[c] = 0 /\ dropping' = <<c>> /\ Running
        /\ frames' = Bind(v, None) /\ UNCHANGED <<alloc, captures, released, stack>>
        /\ \A d \in Cascade(c) : Holders(d) \subseteq {<<Len(frames), v>>}
    BY <1>2 DEF CheckDrop, Holds
  <2>2. PICK D : D = Cascade(c)
    OBVIOUS
  <2>3. c \in D /\ D \in SUBSET Live /\ ClosedUnderDrop(D)
    BY <2>1, <2>2, CascadeClosed
  <2>4. Live' = Live /\ \A d : SlotRefs(d)' = SlotRefs(d) /\ FieldRefs(d)' = FieldRefs(d)
    BY <2>1, SlotsKept, FieldsKept
  <2>5. ClosedUnderDrop(D)'
    BY <2>3, <2>4 DEF ClosedUnderDrop
  <2>6. ASSUME NEW d \in D PROVE Holders(d)' = {}
    <3>1. d # None
      BY <2>3, NoneAssumption DEF Live
    <3>2. Holders(d)' = Holders(d) \ {<<Len(frames), v>>}
      BY <2>1, <3>1, HoldersBound DEF IInv
    <3> QED BY <2>1, <2>2, <3>2
  <2>7. Len(dropping') = 1 /\ dropping'[1] = c
    BY <2>1
  <2>8. Doomed(D)'
    BY <2>3, <2>5, <2>6, <2>7 DEF Doomed
  <2> QED BY <2>3, <2>4, <2>8 DEF DropUnseen
<1>3. CASE ProgramStep
  <2>1. CASE \E v \in Var, c \in Closure : CheckDrop(v, c)
    BY <1>1, <1>2, <2>1
  <2>2. CASE ~ \E v \in Var, c \in Closure : CheckDrop(v, c)
    <3>1. UNCHANGED dropping
      BY <1>3, <2>2 DEF ProgramStep, Box, BoxWithoutMemory, CallClosure, CallFunction, Return, ReturnClosure,
         PushScalar, PushClosure, PopClosure, PopScalar, PopAborts, Forget, UseStale
    <3> QED BY <1>1, <1>3, <3>1, ProgramStepDropping DEF IInv
  <2> QED BY <2>1, <2>2
<1>4. PICK D \in SUBSET Live : Doomed(D)
  BY DEF DropUnseen
<1>5. ASSUME dropping # <<>> PROVE dropped \in D
  BY <1>4, <1>5, DroppedType DEF Doomed, dropped, IInv
<1>6. CASE ReleaseScalar
  <2>1. /\ dropping # <<>> /\ released[dropped] < Len(captures[dropped]) /\ nextField \in Scalar
        /\ released' = [released EXCEPT ![dropped] = @ + 1]
        /\ UNCHANGED <<alloc, captures, dropping, stack, frames>>
    BY <1>6 DEF ReleaseScalar
  <2>2. \A d \in Closure : FieldRefs(d)' = FieldRefs(d) /\ SlotRefs(d)' = SlotRefs(d)
    BY <2>1, DroppedFacts, FieldsReleased, SlotsKept, ScalarAssumption DEF IInv
  <2>3. Live' = Live /\ Live \subseteq Closure /\ \A d : Holders(d)' = Holders(d)
    BY <2>1, HoldersKept DEF Live
  <2>4. Doomed(D)'
    BY <1>4, <2>1, <2>2, <2>3 DEF Doomed, ClosedUnderDrop
  <2> QED BY <2>3, <2>4 DEF DropUnseen
<1>7. CASE closure_decr_then_drop
  <2>1. PICK e, field : e = nextField /\ field = <<dropped, released[dropped] + 1>>
    OBVIOUS
  <2>2. /\ dropping # <<>> /\ released[dropped] < Len(captures[dropped]) /\ e \in Closure
        /\ released' = [released EXCEPT ![dropped] = @ + 1]
        /\ dropping' = IF refcount'[e] = 0 THEN Append(dropping, e) ELSE dropping
        /\ UNCHANGED <<alloc, captures, stack, frames, status>>
    BY <1>7, <2>1 DEF closure_decr_then_drop
  <2>3. \A d : /\ FieldRefs(d)' = FieldRefs(d) \ {field}
               /\ e = d <=> field \in FieldRefs(d)
               /\ SlotRefs(d)' = SlotRefs(d) /\ Holders(d)' = Holders(d)
    BY <2>1, <2>2, DroppedFacts, FieldsReleased, SlotsKept, HoldersKept DEF IInv
  <2>4. Live' = Live /\ Live \subseteq Closure /\ field[1] \in D
    BY <1>5, <2>1, <2>2 DEF Live
  <2>5. ASSUME NEW d \in Live \ D, FieldRefs(d)' # {}, SlotRefs(d)' = {}
        PROVE  \E r \in FieldRefs(d)' : r[1] \notin D
    <3>1. FieldRefs(d) # {} /\ SlotRefs(d) = {}
      BY <2>3, <2>5
    <3>2. PICK r \in FieldRefs(d) : r[1] \notin D
      BY <1>4, <3>1 DEF Doomed, ClosedUnderDrop
    <3>3. r # field
      BY <2>4, <3>2
    <3> QED BY <2>3, <3>2, <3>3
  <2>6. ClosedUnderDrop(D)'
    BY <2>4, <2>5 DEF ClosedUnderDrop
  <2>7. ASSUME refcount'[e] = 0 PROVE e \in D
    <3>1. e \in Live
      BY <2>2, <2>3, LiveIffNoDangling DEF IInv, NoDangling
    <3>2. SlotRefs(e)' = {} /\ FieldRefs(e)' = {}
      <4>1. status' = "run" /\ TypeOK' /\ Allocations' /\ RefCountExact'
        BY <2>2, DroppedFacts, HeapNext DEF IInv
      <4>2. Cardinality(SlotRefs(e)') + Cardinality(FieldRefs(e)') = 0
        BY <2>4, <2>7, <3>1, <4>1 DEF RefCountExact
      <4>3. /\ IsFiniteSet(SlotRefs(e)') /\ Cardinality(SlotRefs(e)') \in Nat
            /\ IsFiniteSet(FieldRefs(e)') /\ Cardinality(FieldRefs(e)') \in Nat
        BY <2>2, <2>3, RefsFinite, FS_Subset, FS_CardinalityType DEF IInv
      <4>4. Cardinality(SlotRefs(e)') = 0 /\ Cardinality(FieldRefs(e)') = 0
        BY <4>2, <4>3
      <4> QED BY <4>3, <4>4, FS_EmptySet
    <3>3. FieldRefs(e) # {} /\ SlotRefs(e) = {}
      BY <2>3, <3>2
    <3>4. \A r \in FieldRefs(e) : r[1] \in D
      BY <2>3, <2>4, <3>2
    <3> QED BY <1>4, <3>1, <3>3, <3>4 DEF Doomed, ClosedUnderDrop
  <2>8. \A i \in 1 .. Len(dropping') : dropping'[i] \in D
    <3>1. CASE refcount'[e] # 0
      BY <1>4, <2>2, <3>1 DEF Doomed
    <3>2. CASE refcount'[e] = 0
      <4>1. /\ Len(dropping) \in Nat /\ Len(dropping') = Len(dropping) + 1
            /\ dropping'[Len(dropping) + 1] = e
            /\ \A i \in 1 .. Len(dropping) : dropping'[i] = dropping[i]
        BY <2>2, <3>2, AppendProperties, LenProperties DEF IInv, TypeOK
      <4>2. \A i \in 1 .. Len(dropping') : i \in 1 .. Len(dropping) \/ i = Len(dropping) + 1
        BY <4>1
      <4> QED BY <1>4, <2>7, <3>2, <4>1, <4>2 DEF Doomed
    <3> QED BY <3>1, <3>2
  <2>9. Doomed(D)'
    BY <1>4, <2>3, <2>6, <2>8 DEF Doomed
  <2> QED BY <2>4, <2>9 DEF DropUnseen
<1>8. CASE Free
  <2>1. PICK x : x = dropped
    OBVIOUS
  <2>2. /\ dropping # <<>> /\ UNCHANGED <<stack, frames>>
        /\ dropping' = SubSeq(dropping, 1, Len(dropping) - 1)
    BY <1>8 DEF Free
  <2>3. /\ Live' = Live \ {x}
        /\ \A d : /\ FieldRefs(d)' = FieldRefs(d) /\ SlotRefs(d)' = SlotRefs(d)
                  /\ Holders(d)' = Holders(d)
    BY <1>8, <2>1, <2>2, DroppedFacts, FieldsFreed, SlotsKept, HoldersKept DEF IInv
  <2>4. ASSUME NEW i \in 1 .. Len(dropping') PROVE dropping'[i] \in D \ {x}
    <3>1. /\ Len(dropping) \in Nat \ {0} /\ Len(dropping') = Len(dropping) - 1
          /\ \A j \in 1 .. Len(dropping) - 1 : dropping'[j] = dropping[j]
      BY <2>2, FrontFacts DEF IInv, TypeOK
    <3>2. i \in 1 .. Len(dropping) - 1 /\ i \in 1 .. Len(dropping)
      BY <3>1
    <3> QED BY <1>4, <2>1, <2>2, <3>1, <3>2, InnermostOnly DEF Doomed
  <2>5. ClosedUnderDrop(D \ {x})'
    BY <1>4, <2>3 DEF Doomed, ClosedUnderDrop
  <2>6. Doomed(D \ {x})' /\ D \ {x} \in SUBSET Live'
    BY <1>4, <2>3, <2>4, <2>5 DEF Doomed
  <2> QED BY <2>6 DEF DropUnseen
<1>9. CASE UNCHANGED vars
  BY <1>4, <1>9 DEF vars, DropUnseen, Doomed, ClosedUnderDrop, Live, SlotRefs, FieldRefs, Holders
<1> QED BY <1>3, <1>6, <1>7, <1>8, <1>9 DEF Next, DropStep, Terminated
------------------------------------------------------------------------------
(* No dangling variable *)

LEMMA VariablesNext ==
    IInv /\ ReleasedInDrop /\ DropUnseen /\ VariablesLive /\ [Next]_vars => VariablesLive'
<1> SUFFICES ASSUME IInv, ReleasedInDrop, DropUnseen, VariablesLive, [Next]_vars
             PROVE  VariablesLive'
  OBVIOUS
<1> USE DEF heap
<1>1. ASSUME UNCHANGED <<alloc, frames>> PROVE VariablesLive'
  BY <1>1 DEF VariablesLive, Live
\* An assignment of a live closure or of None.
<1>2. ASSUME Running, NEW v \in Var, NEW c \in Closure \cup {None}, frames' = Bind(v, c),
             c \in Live' \cup {None}, Live \subseteq Live'
      PROVE  VariablesLive'
  BY <1>2, BindFacts DEF VariablesLive, IInv
\* A call whose parameters are live.
<1>3. ASSUME Running, NEW fr \in Frame, frames' = Append(frames, fr), UNCHANGED alloc,
             \A u \in Var : fr[u] \in Live \cup {None}
      PROVE  VariablesLive'
  <2>1. /\ Len(frames') = Len(frames) + 1 /\ frames'[Len(frames) + 1] = fr
        /\ \A f \in 1 .. Len(frames) : frames'[f] = frames[f]
    BY <1>3, HoldersPushed DEF IInv
  <2>2. \A f \in 1 .. Len(frames') : f \in 1 .. Len(frames) \/ f = Len(frames) + 1
    BY <1>3, <2>1, FrameFacts DEF IInv
  <2> QED BY <1>3, <2>1, <2>2 DEF VariablesLive, Live
<1>4. ASSUME NEW v \in Var, NEW c \in Closure, NEW caps \in CaptureLists, Box(v, c, caps)
      PROVE  VariablesLive'
  <2>1. Running /\ frames' = Bind(v, c)
    BY <1>4 DEF Box
  <2>2. Live' = Live \cup {c}
    BY <1>4, FieldsBoxed
  <2> QED BY <1>2, <2>1, <2>2
\* A variable of the caller is live, and so is an argument.
<1>16. ASSUME NEW args, Running, Passed(args), NEW k \in 1 .. Len(args), args[k] \in Closure
       PROVE  args[k] \in Live
  <2>1. PICK u \in Var : frames[Len(frames)][u] = args[k]
    BY <1>16 DEF Passed, frame
  <2>2. Len(frames) \in 1 .. Len(frames)
    BY <1>16, FrameFacts DEF IInv
  <2> QED BY <1>16, <2>1, <2>2, NoneAssumption DEF VariablesLive
<1>14. ASSUME NEW given, \A k \in 1 .. Len(given) : given[k] \in Closure => given[k] \in Live
       PROVE  \A u \in Var : Params(given)[u] \in Live \cup {None}
  <2> TAKE u \in Var
  <2>1. Params(given)[u] = IF u \in 1 .. Len(given) /\ given[u] \in Closure THEN given[u] ELSE None
    BY DEF Params
  <2> QED BY <1>14, <2>1
<1>5. ASSUME NEW v \in Var, NEW c \in Closure, NEW args \in ArgLists, CallClosure(v, c, args)
      PROVE  VariablesLive'
  <2>0. PICK given : given = captures[c] \o args
    OBVIOUS
  <2>1. Running /\ c \in Live /\ frames' = Append(frames, Params(given)) /\ UNCHANGED alloc
        /\ Passed(args)
    BY <1>5, <2>0 DEF CallClosure, Holds
  <2>2. released[c] = 0
    BY <2>1 DEF ReleasedInDrop, Running
  <2>3. Len(captures[c]) \in Nat /\ captures[c] \in Seq(Item)
    BY CaptureListFacts DEF IInv, TypeOK
  <2>4. args \in Seq(Item) /\ Len(args) \in Nat
    BY ArgListFacts
  <2>5. /\ Len(given) = Len(captures[c]) + Len(args)
        /\ \A k \in 1 .. Len(given) : given[k] = IF k <= Len(captures[c]) THEN captures[c][k]
                                                  ELSE args[k - Len(captures[c])]
    BY <2>0, <2>3, <2>4, ConcatProperties
  <2>6. ASSUME NEW k \in 1 .. Len(given), given[k] \in Closure PROVE given[k] \in Live
    <3>1. CASE k <= Len(captures[c])
      <4>1. k \in released[c] + 1 .. Len(captures[c]) /\ given[k] = captures[c][k]
        BY <2>2, <2>3, <2>5, <3>1
      <4> QED BY <2>1, <2>6, <4>1 DEF IInv, CountedRefsLive
    <3>2. CASE ~(k <= Len(captures[c]))
      <4>1. k - Len(captures[c]) \in 1 .. Len(args) /\ given[k] = args[k - Len(captures[c])]
        BY <2>3, <2>4, <2>5, <3>2
      <4> QED BY <1>16, <2>1, <2>6, <4>1
    <3> QED BY <3>1, <3>2
  <2> QED BY <1>3, <1>14, <2>1, <2>6, ParamsType
<1>6. ASSUME NEW args \in ArgLists, CallFunction(args) PROVE VariablesLive'
  <2>1. Running /\ Passed(args) /\ frames' = Append(frames, Params(args)) /\ UNCHANGED alloc
    BY <1>6 DEF CallFunction
  <2>2. \A k \in 1 .. Len(args) : args[k] \in Closure => args[k] \in Live
    BY <1>16, <2>1
  <2> QED BY <1>3, <1>14, <2>1, <2>2, ParamsType
<1>15. ASSUME NEW u \in Var, NEW v \in Var, NEW c \in Closure, ReturnClosure(u, v, c)
       PROVE  VariablesLive'
  <2>1. PICK n : n = Len(frames)
    OBVIOUS
  <2>2. /\ n \in Nat \ {0, 1} /\ Len(frames') = n - 1
        /\ \A f \in 1 .. n - 1, w \in Var :
               frames'[f][w] = IF f = n - 1 /\ w = v THEN c ELSE frames[f][w]
    BY <1>15, <2>1, ReturnedTo DEF IInv
  <2>3. frames[n][u] = c /\ UNCHANGED alloc
    BY <1>15, <2>1 DEF ReturnClosure, frame
  <2>4. \A f \in 1 .. n, w \in Var : frames[f][w] \in Live \cup {None}
    BY <2>1 DEF VariablesLive
  <2>5. c \in Live
    BY <2>2, <2>3, <2>4, NoneAssumption
  <2>6. ASSUME NEW f \in 1 .. n - 1, NEW w \in Var PROVE frames'[f][w] \in Live \cup {None}
    <3>1. f \in 1 .. n
      BY <2>2
    <3> QED BY <2>2, <2>4, <2>5, <3>1
  <2> QED BY <2>2, <2>3, <2>6 DEF VariablesLive, Live
<1>7. CASE Return
  <2>1. /\ frames # <<>> /\ frames' = SubSeq(frames, 1, Len(frames) - 1) /\ UNCHANGED alloc
    BY <1>7 DEF Return, Running, IInv, TypeOK
  <2>2. /\ Len(frames) \in Nat \ {0} /\ Len(frames') = Len(frames) - 1
        /\ \A f \in 1 .. Len(frames) - 1 : frames'[f] = frames[f] /\ f \in 1 .. Len(frames)
    BY <2>1, FrontFacts DEF IInv, TypeOK
  <2> QED BY <2>1, <2>2 DEF VariablesLive, Live
<1>8. ASSUME NEW v \in Var, NEW c \in Closure, PopClosure(v, c) PROVE VariablesLive'
  <2>1. /\ Running /\ stack # <<>> /\ Top = c /\ frames' = Bind(v, c) /\ UNCHANGED alloc
    BY <1>8 DEF PopClosure
  <2>2. Len(stack) \in 1 .. Len(stack)
    BY <2>1, FrontFacts DEF IInv, TypeOK
  <2>3. c \in Live /\ Live' = Live
    BY <2>1, <2>2 DEF IInv, CountedRefsLive, Top, Live
  <2> QED BY <1>2, <2>1, <2>3
<1>9. ASSUME NEW v \in Var, NEW c \in Closure, CheckDrop(v, c) PROVE VariablesLive'
  BY <1>2, <1>9 DEF CheckDrop, Live
<1>10. ASSUME NEW v \in Var, Forget(v) PROVE VariablesLive'
  BY <1>2, <1>10 DEF Forget, Live
<1>11. CASE Free
  <2>1. dropping # <<>> /\ UNCHANGED frames
    BY <1>11 DEF Free
  <2>2. Live' = Live \ {dropped} /\ dropped \in Live
    BY <1>11, <2>1, DroppedFacts, FieldsFreed DEF IInv
  <2>3. Holders(dropped) = {}
    BY <2>1, DroppedType DEF DropUnseen, Doomed, dropped, IInv
  <2>4. ASSUME NEW f \in 1 .. Len(frames), NEW v \in Var PROVE frames[f][v] # dropped
    <3>1. <<f, v>> \notin Holders(dropped)
      BY <2>3
    <3> QED BY <3>1 DEF Holders
  <2> QED BY <2>1, <2>2, <2>4 DEF VariablesLive
<1>12. CASE ProgramStep
  <2>1. CASE \/ BoxWithoutMemory \/ PopAborts
             \/ \E t \in Scalar : PushScalar(t) \/ PopScalar(t)
             \/ \E v \in Var, c \in Closure : PushClosure(v, c)
             \/ \E v \in Var : UseStale(v)
    BY <1>1, <2>1 DEF BoxWithoutMemory, PopAborts, PushScalar, PopScalar, PushClosure, UseStale
  <2> QED BY <1>4, <1>5, <1>6, <1>7, <1>8, <1>9, <1>10, <1>12, <1>15, <2>1 DEF ProgramStep
<1>13. CASE ReleaseScalar \/ closure_decr_then_drop \/ UNCHANGED vars
  BY <1>1, <1>13 DEF ReleaseScalar, closure_decr_then_drop, vars
<1> QED BY <1>11, <1>12, <1>13 DEF Next, DropStep, Terminated

------------------------------------------------------------------------------
(* Nothing is forgotten *)

\* c is counted, held by a variable, or being dropped.
Kept(c) == refcount[c] > 0 \/ Holders(c) # {} \/ \E i \in 1 .. Len(dropping) : dropping[i] = c

\* While the program runs a count is a number of references.
CountsNat == status # "aborted" => \A c \in Live : refcount[c] \in Nat

LEMMA CountIsNat == IInv => CountsNat
<1> SUFFICES ASSUME IInv, status # "aborted", NEW c \in Live PROVE refcount[c] \in Nat
  BY DEF CountsNat
<1>1. c \in Closure /\ refcount[c] = Cardinality(SlotRefs(c)) + Cardinality(FieldRefs(c))
  BY DEF IInv, RefCountExact, Live
<1> QED BY <1>1, RefsFinite DEF IInv

LEMMA NothingLostNext ==
    ASSUME CarefulDrops
    PROVE  IInv /\ NothingLost /\ [Next]_vars => NothingLost'
<1> SUFFICES ASSUME IInv, \A c \in Live : Kept(c), [Next]_vars, NEW c \in Live'
             PROVE  Kept(c)'
  BY DEF NothingLost, Kept
<1> USE DEF heap
<1>0. c \in Closure /\ c # None /\ Live \subseteq Closure
  BY NoneAssumption DEF Live
<1>1. ASSUME UNCHANGED <<alloc, refcount, dropping>>, Holders(c) \subseteq Holders(c)'
      PROVE  Kept(c)'
  <2>1. Kept(c)
    BY <1>1 DEF Live
  <2> QED BY <1>1, <2>1 DEF Kept
<1>2. ASSUME NEW v \in Var, NEW b \in Closure, NEW caps \in CaptureLists, Box(v, b, caps)
      PROVE  Kept(c)'
  <2>1. /\ Running /\ frame[v] = None /\ frames' = Bind(v, b) /\ UNCHANGED dropping
        /\ c # b => refcount'[c] = refcount[c] + Cardinality(Captured(caps, c))
    BY <1>0, <1>2 DEF Box
  <2>2. Live' = Live \cup {b} /\ Cardinality(Captured(caps, c)) \in Nat
    BY <1>0, <1>2, FieldsBoxed
  <2>3. Holders(c)' = (Holders(c) \ {<<Len(frames), v>>})
                          \cup (IF b = c THEN {<<Len(frames), v>>} ELSE {})
    BY <2>1, HoldersBound DEF IInv
  <2>4. CASE c = b
    BY <2>3, <2>4 DEF Kept
  <2>5. CASE c # b
    <3>1. <<Len(frames), v>> \notin Holders(c)
      BY <1>0, <2>1 DEF Holders, frame
    <3>2. Kept(c) /\ refcount[c] \in Int
      BY <2>2, <2>5, <1>0 DEF IInv, TypeOK
    <3>3. Holders(c)' = Holders(c)
      BY <2>3, <2>5, <3>1
    <3>4. refcount[c] > 0 => refcount'[c] > 0
      BY <2>1, <2>2, <2>5, <3>2
    <3> QED BY <2>1, <3>2, <3>3, <3>4 DEF Kept
  <2> QED BY <2>4, <2>5
<1>3. CASE \E args \in ArgLists : \/ CallFunction(args)
                                   \/ \E v \in Var, d \in Closure : CallClosure(v, d, args)
  <2>0. \A given : Params(given) \in Frame
    BY ParamsType
  <2>1. /\ Running /\ UNCHANGED <<alloc, refcount, dropping>>
        /\ \E fr \in Frame : frames' = Append(frames, fr)
    BY <1>3, <2>0 DEF CallClosure, CallFunction
  <2>2. Holders(c) \subseteq Holders(c)'
    BY <2>1, HoldersPushed DEF IInv
  <2> QED BY <1>1, <2>1, <2>2
<1>4. CASE Return
  <2>1. Holders(c) \subseteq Holders(c)' /\ UNCHANGED <<alloc, refcount, dropping>>
    BY <1>0, <1>4, HoldersReturned DEF IInv, Return
  <2> QED BY <1>1, <2>1
<1>13. ASSUME NEW u \in Var, NEW v \in Var, NEW d \in Closure, ReturnClosure(u, v, d) PROVE Kept(c)'
  <2>1. UNCHANGED <<alloc, refcount, dropping>> /\ c \in Live
    BY <1>13 DEF ReturnClosure, Live
  <2>2. Holders(c) # {} => Holders(c)' # {}
    BY <1>0, <1>13, HoldersHandedBack DEF IInv
  <2>3. Kept(c)
    BY <2>1
  <2> QED BY <2>1, <2>2, <2>3 DEF Kept
<1>5. ASSUME NEW v \in Var, NEW d \in Closure, PushClosure(v, d) PROVE Kept(c)'
  <2>1. /\ Running /\ UNCHANGED <<alloc, dropping, frames>>
        /\ refcount' = [refcount EXCEPT ![d] = @ + 1]
    BY <1>5 DEF PushClosure
  <2>2. c \in Live /\ Holders(c)' = Holders(c) /\ refcount[c] \in Int
        /\ (refcount'[c] = refcount[c] \/ refcount'[c] = refcount[c] + 1)
    BY <1>0, <2>1, HoldersKept DEF IInv, TypeOK, Live
  <2> QED BY <2>1, <2>2 DEF Kept
<1>6. ASSUME NEW v \in Var, NEW d \in Closure, PopClosure(v, d) PROVE Kept(c)'
  <2>1. /\ Running /\ frame[v] = None /\ frames' = Bind(v, d) /\ UNCHANGED <<alloc, dropping>>
        /\ refcount' = [refcount EXCEPT ![d] = @ - 1]
    BY <1>6 DEF PopClosure
  <2>2. Holders(c)' = (Holders(c) \ {<<Len(frames), v>>})
                          \cup (IF d = c THEN {<<Len(frames), v>>} ELSE {})
    BY <2>1, HoldersBound DEF IInv
  <2>3. CASE c = d
    BY <2>2, <2>3 DEF Kept
  <2>4. CASE c # d
    <3>1. <<Len(frames), v>> \notin Holders(c)
      BY <1>0, <2>1 DEF Holders, frame
    <3>2. Kept(c) /\ refcount'[c] = refcount[c]
      BY <1>0, <2>1, <2>4 DEF IInv, TypeOK, Live
    <3> QED BY <2>1, <2>2, <2>4, <3>1, <3>2 DEF Kept
  <2> QED BY <2>3, <2>4
<1>7. ASSUME NEW v \in Var, NEW d \in Closure, CheckDrop(v, d) PROVE Kept(c)'
  <2>1. /\ Running /\ frame[v] = d /\ frames' = Bind(v, None) /\ UNCHANGED <<alloc, refcount>>
        /\ dropping' = IF refcount[d] = 0 THEN <<d>> ELSE <<>>
    BY <1>7 DEF CheckDrop, Holds
  <2>2. c \in Live /\ refcount[c] \in Nat
    BY <2>1, CountIsNat DEF CountsNat, Running, Live
  <2>3. CASE c = d
    <3>1. refcount[d] = 0 => 1 \in 1 .. Len(dropping') /\ dropping'[1] = d
      BY <2>1
    <3> QED BY <2>1, <2>2, <2>3, <3>1 DEF Kept
  <2>4. CASE c # d
    <3>1. Holders(c)' = Holders(c)
      <4>1. Holders(c)' = Holders(c) \ {<<Len(frames), v>>}
        BY <1>0, <2>1, HoldersBound DEF IInv
      <4>2. <<Len(frames), v>> \notin Holders(c)
        BY <2>1, <2>4 DEF Holders, frame
      <4> QED BY <4>1, <4>2
    <3>2. refcount[c] > 0 \/ Holders(c) # {}
      BY <2>1, <2>2 DEF Kept, Running
    <3> QED BY <2>1, <3>1, <3>2 DEF Kept
  <2> QED BY <2>3, <2>4
<1>8. ASSUME NEW v \in Var, Forget(v) PROVE Kept(c)'
  <2>1. /\ Running /\ frames' = Bind(v, None) /\ UNCHANGED <<alloc, refcount, dropping>>
        /\ frame[v] \in Live =>
               refcount[frame[v]] # 0 \/ Holders(frame[v]) # {<<Len(frames), v>>}
    BY <1>8 DEF Forget
  <2>2. c \in Live /\ refcount[c] \in Nat /\ Kept(c)
    BY <2>1, CountIsNat DEF CountsNat, Running, Live
  <2>3. Holders(c)' = Holders(c) \ {<<Len(frames), v>>}
    BY <1>0, <2>1, HoldersBound DEF IInv
  <2>4. <<Len(frames), v>> \in Holders(c) <=> frame[v] = c
    BY <2>1, FrameFacts DEF Holders, frame, IInv
  <2>5. CASE frame[v] = c
    BY <2>1, <2>2, <2>3, <2>4, <2>5 DEF Kept
  <2>6. CASE frame[v] # c
    BY <1>1, <2>1, <2>3, <2>4, <2>6
  <2> QED BY <2>5, <2>6
<1>9. CASE ProgramStep
  <2>1. CASE \/ BoxWithoutMemory \/ PopAborts
             \/ \E t \in Scalar : PushScalar(t) \/ PopScalar(t)
             \/ \E v \in Var : UseStale(v)
    <3>1. UNCHANGED <<alloc, refcount, dropping, frames>>
      BY <2>1 DEF BoxWithoutMemory, PopAborts, PushScalar, PopScalar, UseStale
    <3> QED BY <1>1, <3>1, HoldersKept
  <2> QED BY <1>2, <1>3, <1>4, <1>5, <1>6, <1>7, <1>8, <1>9, <1>13, <2>1 DEF ProgramStep
<1>10. CASE ReleaseScalar \/ UNCHANGED vars
  <2>1. UNCHANGED <<alloc, refcount, dropping, frames>>
    BY <1>10 DEF ReleaseScalar, vars
  <2> QED BY <1>1, <2>1, HoldersKept
<1>11. CASE closure_decr_then_drop
  <2>1. PICK e : e = nextField
    OBVIOUS
  <2>2. /\ dropping # <<>> /\ e \in Closure /\ UNCHANGED <<alloc, frames, status>>
        /\ refcount' = [refcount EXCEPT ![e] = @ - 1]
        /\ dropping' = IF refcount'[e] = 0 THEN Append(dropping, e) ELSE dropping
    BY <1>11, <2>1 DEF closure_decr_then_drop
  <2>3. c \in Live /\ Holders(c)' = Holders(c) /\ Kept(c)
    BY <2>2, HoldersKept DEF Live
  <2>4. refcount'[c] \in Nat
    <3>1. IInv' /\ status' # "aborted"
      BY <2>2, HeapNext, DroppedFacts
    <3>2. CountsNat'
      BY <3>1, CountIsNat, PTL
    <3> QED BY <3>1, <3>2 DEF CountsNat
  <2>5. CASE c = e
    <3>1. CASE refcount'[e] = 0
      <4>1. Len(dropping) + 1 \in 1 .. Len(dropping') /\ dropping'[Len(dropping) + 1] = e
        BY <2>2, <3>1, AppendProperties, LenProperties DEF IInv, TypeOK
      <4> QED BY <2>5, <4>1 DEF Kept
    <3> QED BY <2>4, <2>5, <3>1 DEF Kept
  <2>6. CASE c # e
    <3>1. refcount'[c] = refcount[c]
      BY <1>0, <2>2, <2>6 DEF IInv, TypeOK
    <3>2. \A i \in 1 .. Len(dropping) : i \in 1 .. Len(dropping') /\ dropping'[i] = dropping[i]
      BY <2>2, AppendProperties, LenProperties DEF IInv, TypeOK
    <3> QED BY <2>3, <3>1, <3>2 DEF Kept
  <2> QED BY <2>5, <2>6
<1>12. CASE Free
  <2>1. /\ dropping # <<>> /\ UNCHANGED <<refcount, frames>>
        /\ dropping' = SubSeq(dropping, 1, Len(dropping) - 1)
    BY <1>12 DEF Free
  <2>2. /\ Len(dropping) \in Nat \ {0} /\ Len(dropping') = Len(dropping) - 1
        /\ \A i \in 1 .. Len(dropping) - 1 : dropping'[i] = dropping[i]
    BY <2>1, FrontFacts DEF IInv, TypeOK
  <2>3. c \in Live /\ c # dropped /\ Holders(c)' = Holders(c) /\ Kept(c)
    BY <1>12, <2>1, DroppedFacts, FieldsFreed, HoldersKept DEF IInv
  <2>4. \A i \in 1 .. Len(dropping) : dropping[i] = c => i \in 1 .. Len(dropping) - 1
    BY <2>2, <2>3 DEF dropped
  <2> QED BY <2>1, <2>2, <2>3, <2>4 DEF Kept
<1> QED BY <1>9, <1>10, <1>11, <1>12 DEF Next, DropStep, Terminated

------------------------------------------------------------------------------
(* The theorems *)

LEMMA CarefulInit == Init => CarefulInv
<1> SUFFICES ASSUME Init PROVE CarefulInv
  OBVIOUS
<1>1. Live = {} /\ dropping = <<>> /\ frames = <<EmptyFrame>>
  BY DEF Init, Live
<1>2. Doomed({}) /\ {} \in SUBSET Live
  BY <1>1 DEF Doomed, ClosedUnderDrop
<1>3. VariablesLive
  BY <1>1 DEF VariablesLive, EmptyFrame
<1> QED BY <1>1, <1>2, <1>3, HeapInit DEF CarefulInv, ReleasedInDrop, DropUnseen, NothingLost

LEMMA CarefulNext ==
    ASSUME CarefulDrops
    PROVE  CarefulInv /\ [Next]_vars => CarefulInv'
  BY HeapNext, ReleasedNext, UnseenNext, VariablesNext, NothingLostNext DEF CarefulInv

\* When check_drop respects the variables of the program, no variable of any
\* function being executed ever holds freed memory, although closure.call and
\* sigi_pop_closure hand out references that are not counted.
THEOREM NoDanglingVariable ==
    ASSUME CarefulDrops
    PROVE  Spec => []VariablesLive
<1>1. CarefulInv => VariablesLive
  BY DEF CarefulInv
<1> QED BY CarefulInit, CarefulNext, <1>1, PTL DEF Spec, SafetySpec

\* So no operation of such a program is ever undefined.
THEOREM NeverUndefined ==
    ASSUME CarefulDrops
    PROVE  Spec => [](status # "undefined")
<1> DEFINE Defined == status # "undefined"
<1>1. Init => Defined
  BY DEF Init
<1>2. CarefulInv /\ Defined /\ [Next]_vars => Defined'
  <2> SUFFICES ASSUME CarefulInv, status # "undefined", [Next]_vars PROVE status' # "undefined"
    OBVIOUS
  <2>1. ASSUME NEW v \in Var, UseStale(v) PROVE FALSE
    <3>1. Len(frames) \in 1 .. Len(frames)
      BY <2>1, FrameFacts DEF UseStale, CarefulInv, IInv
    <3> QED BY <2>1, <3>1 DEF UseStale, CarefulInv, VariablesLive, frame
  <2> QED BY <2>1 DEF Next, ProgramStep, DropStep, Terminated, vars, Box, BoxWithoutMemory,
         CallClosure, CallFunction, Return, ReturnClosure, PushScalar, PushClosure, PopClosure, PopScalar,
         PopAborts, CheckDrop, Forget, ReleaseScalar, closure_decr_then_drop, Free
<1> HIDE DEF Defined
<1>3. Spec => []Defined
  BY CarefulInit, CarefulNext, <1>1, <1>2, PTL DEF Spec, SafetySpec
<1> QED BY <1>3 DEF Defined

\* Nothing leaks while such a program runs: a closure that is allocated is
\* counted, held by a variable of some active function, or being dropped.
THEOREM NoClosureForgotten ==
    ASSUME CarefulDrops
    PROVE  Spec => []NothingLost
<1>1. CarefulInv => NothingLost
  BY DEF CarefulInv
<1> QED BY CarefulInit, CarefulNext, <1>1, PTL DEF Spec, SafetySpec
=============================================================================
