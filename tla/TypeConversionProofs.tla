------------------------- MODULE TypeConversionProofs -------------------------
(***************************************************************************)
(* Theorems about TypeConversion: for any closure types, to any depth, and *)
(* any number of captures, inputs and results.                             *)
(***************************************************************************)
EXTENDS TypeConversion, SequenceTheorems, WellFoundedInduction, TLAPS

\* Induction over the naturals, as the least counterexample.
LEMMA LeastNat ==
    ASSUME NEW T \in SUBSET Nat, T # {}
    PROVE  \E n \in T : \A m \in T : n <= m
<1>1. IsWellFoundedOn(OpToRel(<, Nat), Nat)
  BY NatLessThanWellFounded
<1>2. PICK x \in T : \A y \in T : ~(<<y, x>> \in OpToRel(<, Nat))
  BY <1>1, WFMin
<1>3. \A m \in T : ~(m < x)
  BY <1>2 DEF OpToRel
<1> QED BY <1>3

------------------------------------------------------------------------------
(* Types by the depth of their closures *)

AllNames == {"i32", "stack", "tensor", "ptr"}
Depths == 0 .. MaxDepth

\* The level d, given the levels before it.
NextLevel(names, f, d) ==
    {Leaf(name) : name \in names} \cup IF d = 0 THEN {} ELSE {"box"} \X Seq(f[d - 1]) \X Seq(f[d - 1])

\* The first k + 1 levels are defined.
Leveled(names, k) == \E f : \A d \in 0 .. k : f[d] = NextLevel(names, f, d)

LEMMA LeveledNext ==
    ASSUME NEW names, NEW k \in Nat, Leveled(names, k)
    PROVE  Leveled(names, k + 1)
<1>1. PICK f : \A d \in 0 .. k : f[d] = NextLevel(names, f, d)
  BY DEF Leveled
<1> DEFINE g == [d \in 0 .. k + 1 |-> IF d = k + 1 THEN NextLevel(names, f, d) ELSE f[d]]
<1>2. ASSUME NEW d \in 0 .. k + 1 PROVE g[d] = NextLevel(names, g, d)
  <2>1. d # 0 => d - 1 \in 0 .. k /\ d - 1 \in 0 .. k + 1 /\ d - 1 # k + 1
    OBVIOUS
  <2>2. d # 0 => g[d - 1] = f[d - 1]
    BY <2>1
  <2>3. NextLevel(names, g, d) = NextLevel(names, f, d)
    BY <2>2, Zenon DEF NextLevel
  <2>4. d # k + 1 => g[d] = f[d] /\ d \in 0 .. k
    OBVIOUS
  <2>5. d = k + 1 => g[d] = NextLevel(names, f, d)
    OBVIOUS
  <2> HIDE DEF g
  <2> QED BY <1>1, <2>3, <2>4, <2>5
<1> HIDE DEF g
<1> QED BY <1>2 DEF Leveled

LEMMA AllLeveled == ASSUME NEW names PROVE \A k \in Nat : Leveled(names, k)
<1> DEFINE Bad == {k \in Nat : ~Leveled(names, k)}
<1> SUFFICES ASSUME Bad # {} PROVE FALSE
  OBVIOUS
<1> Bad \in SUBSET Nat
  OBVIOUS
<1>1. PICK k \in Bad : \A j \in Bad : k <= j
  BY LeastNat
<1>2. k # 0
  <2> DEFINE f == [d \in 0 .. 0 |-> {Leaf(name) : name \in names}]
  <2>1. \A d \in 0 .. 0 : d = 0
    OBVIOUS
  <2>2. f[0] = {Leaf(name) : name \in names}
    <3> 0 \in 0 .. 0
      OBVIOUS
    <3> QED BY Zenon
  <2> HIDE DEF f
  <2>3. \A d \in 0 .. 0 : f[d] = NextLevel(names, f, d)
    BY <2>1, <2>2, Zenon DEF NextLevel
  <2> QED BY <2>3 DEF Leveled
<1>3. Leveled(names, k - 1) /\ k - 1 \in Nat
  BY <1>1, <1>2
<1>4. Leveled(names, (k - 1) + 1)
  BY <1>3, LeveledNext
<1> QED BY <1>1, <1>4

\* The recursive definition of the levels defines them.
LEMMA LevelsDefined ==
    ASSUME NEW names
    PROVE  \A d \in Depths : Levels(names)[d] = NextLevel(names, Levels(names), d)
<1>1. Leveled(names, MaxDepth)
  BY AllLeveled, BoundAssumption
<1>2. PICK f : \A d \in Depths : f[d] = NextLevel(names, f, d)
  BY <1>1, Zenon DEF Leveled, Depths
<1> DEFINE g == [d \in Depths |-> f[d]]
<1>3. ASSUME NEW d \in Depths PROVE g[d] = NextLevel(names, g, d)
  <2>1. d # 0 => d - 1 \in Depths
    BY BoundAssumption DEF Depths
  <2>2. d # 0 => g[d - 1] = f[d - 1]
    BY <2>1
  <2>3. NextLevel(names, g, d) = NextLevel(names, f, d)
    BY <2>2, Zenon DEF NextLevel
  <2>4. g[d] = f[d]
    OBVIOUS
  <2> HIDE DEF g
  <2> QED BY <1>2, <2>3, <2>4
<1>4. g = [d \in Depths |-> NextLevel(names, g, d)]
  BY <1>3
<1> HIDE DEF g
<1>5. \E h : h = [d \in Depths |-> NextLevel(names, h, d)]
  BY <1>4
<1>6. Levels(names) = [d \in Depths |-> NextLevel(names, Levels(names), d)]
  BY <1>5, Zenon DEF Levels, NextLevel, Depths
<1> QED BY <1>6, Zenon

\* What is in a level: leaves and closures of types of the level below.
Of(names, below, ty) ==
    \/ \E name \in names : ty = Leaf(name)
    \/ /\ ty = BoxedClosure(ty[2], ty[3])
       /\ ty[1] = "box"
       /\ ty[2] \in Seq(below) /\ ty[3] \in Seq(below)

LEMMA BoxFacts ==
    ASSUME NEW ins, NEW outs
    PROVE  /\ BoxedClosure(ins, outs)[1] = "box"
           /\ BoxedClosure(ins, outs)[2] = ins
           /\ BoxedClosure(ins, outs)[3] = outs
           /\ \A name : Leaf(name) # BoxedClosure(ins, outs)
BY DEF BoxedClosure, Leaf

LEMMA LeafFacts == \A name : Leaf(name)[1] = name
BY DEF Leaf

LEMMA LeafLevel ==
    ASSUME NEW names, NEW d \in Depths, NEW name \in names
    PROVE  Leaf(name) \in Levels(names)[d]
<1>1. {Leaf(n) : n \in names} \subseteq NextLevel(names, Levels(names), d)
  BY DEF NextLevel
<1>2. Levels(names)[d] = NextLevel(names, Levels(names), d)
  BY LevelsDefined
<1> QED BY <1>1, <1>2

LEMMA BottomLevel ==
    ASSUME NEW names
    PROVE  \A ty \in Levels(names)[0] : \E name \in names : ty = Leaf(name)
<1>1. 0 \in Depths
  BY BoundAssumption DEF Depths
<1>2. NextLevel(names, Levels(names), 0) = {Leaf(name) : name \in names}
  BY DEF NextLevel
<1>3. Levels(names)[0] = NextLevel(names, Levels(names), 0)
  BY <1>1, LevelsDefined
<1> QED BY <1>2, <1>3

LEMMA BoxLevel ==
    ASSUME NEW names, NEW d \in Depths, d # 0,
           NEW ins \in Seq(Levels(names)[d - 1]), NEW outs \in Seq(Levels(names)[d - 1])
    PROVE  BoxedClosure(ins, outs) \in Levels(names)[d]
<1> DEFINE S == Seq(Levels(names)[d - 1])
<1>1. Levels(names)[d] = {Leaf(name) : name \in names} \cup ({"box"} \X S \X S)
  BY LevelsDefined, Zenon DEF NextLevel
<1> HIDE DEF S
<1>2. BoxedClosure(ins, outs) \in {"box"} \X S \X S
  BY DEF BoxedClosure, S
<1> QED BY <1>1, <1>2

LEMMA LevelFacts ==
    ASSUME NEW names, NEW d \in Depths, d # 0, NEW ty \in Levels(names)[d]
    PROVE  Of(names, Levels(names)[d - 1], ty)
<1> DEFINE S == Seq(Levels(names)[d - 1])
<1>1. Levels(names)[d] = {Leaf(name) : name \in names} \cup ({"box"} \X S \X S)
  BY LevelsDefined, Zenon DEF NextLevel
<1>2. ASSUME ty \in {"box"} \X S \X S
      PROVE  ty = BoxedClosure(ty[2], ty[3]) /\ ty[1] = "box" /\ ty[2] \in S /\ ty[3] \in S
  <2> HIDE DEF S
  <2> QED BY <1>2 DEF BoxedClosure
<1> QED BY <1>1, <1>2, Zenon DEF Of

\* Where its components are.
LEMMA ElementsOf ==
    ASSUME NEW S, NEW types \in Seq(S)
    PROVE  \A n \in DOMAIN types : types[n] \in S
BY LenProperties, ElementOfSeq

LEMMA SeqOfElements ==
    ASSUME NEW S, NEW T, NEW types \in Seq(S), \A n \in DOMAIN types : types[n] \in T
    PROVE  types \in Seq(T)
<1>1. Len(types) \in Nat /\ types \in [1 .. Len(types) -> T]
  BY LenProperties
<1> QED BY <1>1, SeqDef

LEMMA SeqGrows == ASSUME NEW S, NEW T, S \subseteq T PROVE Seq(S) \subseteq Seq(T)
BY ElementsOf, SeqOfElements

\* More names and more depth give more types.
LEMMA LevelsGrow ==
    ASSUME NEW names, NEW more, names \subseteq more
    PROVE  \A d \in Depths : /\ Levels(names)[d] \subseteq Levels(more)[d]
                             /\ d # 0 => Levels(names)[d - 1] \subseteq Levels(more)[d]
<1> DEFINE L == Levels(names)
           M == Levels(more)
           Grown(d) == L[d] \subseteq M[d] /\ (d # 0 => L[d - 1] \subseteq M[d])
           Bad == {d \in Depths : ~Grown(d)}
<1> SUFFICES ASSUME Bad # {} PROVE FALSE
  OBVIOUS
<1> Bad \in SUBSET Nat
  BY BoundAssumption DEF Depths
<1>1. PICK d \in Bad : \A e \in Bad : d <= e
  BY LeastNat
<1>2. d \in Depths
  OBVIOUS
<1>3. CASE d = 0
  <2>1. L[0] \subseteq M[0]
    BY <1>2, <1>3, BottomLevel, LeafLevel
  <2> QED BY <1>3, <2>1
<1>4. CASE d # 0
  <2>1. d - 1 \in Depths
    BY <1>2, <1>4, BoundAssumption DEF Depths
  <2>2. d - 1 \notin Bad
    BY <1>1, <1>2, BoundAssumption DEF Depths
  <2>3. Grown(d - 1)
    BY <2>1, <2>2
  <2> HIDE DEF L, M
  <2>4. Seq(L[d - 1]) \subseteq Seq(M[d - 1])
    BY <2>3, SeqGrows
  <2>5. ASSUME NEW ty \in L[d] PROVE ty \in M[d]
    <3>1. Of(names, L[d - 1], ty)
      BY <1>2, <1>4, LevelFacts DEF L
    <3>2. CASE \E name \in names : ty = Leaf(name)
      BY <1>2, <3>2, LeafLevel DEF M
    <3>3. CASE ty = BoxedClosure(ty[2], ty[3]) /\ ty[2] \in Seq(L[d - 1]) /\ ty[3] \in Seq(L[d - 1])
      <4>1. ty[2] \in Seq(M[d - 1]) /\ ty[3] \in Seq(M[d - 1])
        BY <2>4, <3>3
      <4> QED BY <1>2, <1>4, <3>3, <4>1, BoxLevel DEF M
    <3> QED BY <3>1, <3>2, <3>3, Zenon DEF Of
  <2>6. ASSUME NEW ty \in L[d - 1] PROVE ty \in M[d]
    <3>1. CASE \E name \in names : ty = Leaf(name)
      BY <1>2, <3>1, LeafLevel DEF M
    <3>2. CASE ~\E name \in names : ty = Leaf(name)
      <4>1. d - 1 # 0
        BY <3>2, BottomLevel DEF L
      <4>2. Of(names, L[(d - 1) - 1], ty)
        BY <2>1, <4>1, LevelFacts DEF L
      <4>3. ty = BoxedClosure(ty[2], ty[3]) /\ ty[2] \in Seq(L[(d - 1) - 1]) /\ ty[3] \in Seq(L[(d - 1) - 1])
        BY <3>2, <4>2, Zenon DEF Of
      <4>4. L[(d - 1) - 1] \subseteq M[d - 1]
        BY <2>3, <4>1
      <4>5. ty[2] \in Seq(M[d - 1]) /\ ty[3] \in Seq(M[d - 1])
        BY <4>3, <4>4, SeqGrows
      <4> QED BY <1>2, <1>4, <4>3, <4>5, BoxLevel DEF M
    <3> QED BY <3>1, <3>2
  <2> QED BY <1>2, <2>5, <2>6
<1> QED BY <1>3, <1>4

------------------------------------------------------------------------------
(* The converter *)

LEMMA ConversionCases ==
    ASSUME NEW p, NEW g, NEW ty
    PROVE  /\ ty[1] = "box" => Conversion(p, g, ty) = IF FinalConversion(g, ty) # NoType \/ p = "closure"
                                                      THEN FinalConversion(g, ty) ELSE GenericConversion(g, ty)
           /\ ty[1] = "stack" => Conversion(p, g, ty) = IF p = "sigi" THEN Ptr ELSE NoType
           /\ ty[1] = "tensor" => Conversion(p, g, ty) = NoType
           /\ ty[1] \notin {"box", "stack", "tensor"} => Conversion(p, g, ty) = ty
<1>1. CASE ty[1] = "box"
  BY <1>1, Zenon DEF Conversion
<1>2. CASE ty[1] = "stack"
  BY <1>2, Zenon DEF Conversion
<1>3. CASE ty[1] = "tensor"
  BY <1>3, Zenon DEF Conversion
<1>4. CASE ty[1] \notin {"box", "stack", "tensor"}
  BY <1>4, Zenon DEF Conversion
<1> QED BY <1>1, <1>2, <1>3, <1>4

\* A conversion asks the converter only about the components of the type.
LEMMA ConversionAgrees ==
    ASSUME NEW p, NEW g, NEW h, NEW ty,
           ty[1] = "box" => \A i \in {2, 3} : \A n \in DOMAIN ty[i] : g[ty[i][n]] = h[ty[i][n]]
    PROVE  Conversion(p, g, ty) = Conversion(p, h, ty)
<1>1. CASE ty[1] = "box"
  <2>1. \A n \in DOMAIN ty[2] : g[ty[2][n]] = h[ty[2][n]]
    BY <1>1
  <2>2. \A n \in DOMAIN ty[3] : g[ty[3][n]] = h[ty[3][n]]
    BY <1>1
  <2>3. FinalConversion(g, ty) = FinalConversion(h, ty)
    <3>1. ConvertTypes(g, ty[3]) = ConvertTypes(h, ty[3])
      BY <2>2 DEF ConvertTypes
    <3>2. ConvertsAll(g, ty[2]) = ConvertsAll(h, ty[2]) /\ ConvertsAll(g, ty[3]) = ConvertsAll(h, ty[3])
      BY <2>1, <2>2 DEF ConvertsAll
    <3> QED BY <3>1, <3>2 DEF FinalConversion, ConvertsSignature, Packable
  <2>4. /\ ConvertTypeListOrIdentity(g, ty[2]) = ConvertTypeListOrIdentity(h, ty[2])
        /\ ConvertTypeListOrIdentity(g, ty[3]) = ConvertTypeListOrIdentity(h, ty[3])
    BY <2>1, <2>2 DEF ConvertTypeListOrIdentity
  <2>5. GenericConversion(g, ty) = GenericConversion(h, ty)
    BY <2>4 DEF GenericConversion
  <2> QED BY <1>1, <2>3, <2>5, ConversionCases
<1>2. CASE ty[1] # "box"
  BY <1>2, ConversionCases
<1> QED BY <1>1, <1>2

All(d) == Levels(AllNames)[d]

\* The types of level d have a conversion each.
Converted(p, d) == \E g : \A ty \in All(d) : g[ty] = Conversion(p, g, ty)

\* Components are one level lower.
LEMMA ComponentsBelow ==
    ASSUME NEW names \in SUBSET AllNames, NEW d \in Depths, NEW ty \in Levels(names)[d], ty[1] = "box"
    PROVE  /\ d # 0 /\ d - 1 \in Depths
           /\ ty = BoxedClosure(ty[2], ty[3])
           /\ \A i \in {2, 3} : /\ ty[i] \in Seq(Levels(names)[d - 1])
                                /\ \A n \in DOMAIN ty[i] : ty[i][n] \in Levels(names)[d - 1]
<1>1. \A name \in names : ty # Leaf(name)
  BY LeafFacts DEF AllNames
<1>2. d # 0
  BY <1>1, BottomLevel
<1>3. ty = BoxedClosure(ty[2], ty[3]) /\ ty[2] \in Seq(Levels(names)[d - 1]) /\ ty[3] \in Seq(Levels(names)[d - 1])
  BY <1>1, <1>2, LevelFacts, Zenon DEF Of
<1>4. /\ \A n \in DOMAIN ty[2] : ty[2][n] \in Levels(names)[d - 1]
      /\ \A n \in DOMAIN ty[3] : ty[3][n] \in Levels(names)[d - 1]
  BY <1>3, ElementsOf
<1>5. d - 1 \in Depths
  BY <1>2, BoundAssumption DEF Depths
<1> QED BY <1>2, <1>3, <1>4, <1>5

LEMMA ConvertedNext ==
    ASSUME NEW p, NEW d \in Depths, d # 0 => Converted(p, d - 1)
    PROVE  Converted(p, d)
<1>1. PICK g : d # 0 => \A ty \in All(d - 1) : g[ty] = Conversion(p, g, ty)
  BY Zenon DEF Converted
<1> DEFINE h == [ty \in All(d) |-> Conversion(p, g, ty)]
<1>2. ASSUME NEW ty \in All(d) PROVE h[ty] = Conversion(p, h, ty)
  <2>1. h[ty] = Conversion(p, g, ty)
    OBVIOUS
  <2>2. ASSUME ty[1] = "box" PROVE \A i \in {2, 3} : \A n \in DOMAIN ty[i] : g[ty[i][n]] = h[ty[i][n]]
    <3> TAKE i \in {2, 3}
    <3> TAKE n \in DOMAIN ty[i]
    <3>1. d # 0 /\ ty[i][n] \in All(d - 1)
      BY <2>2, ComponentsBelow DEF All
    <3>2. ty[i][n] \in All(d)
      BY <3>1, LevelsGrow DEF All
    <3>3. h[ty[i][n]] = Conversion(p, g, ty[i][n])
      BY <3>2
    <3> HIDE DEF h
    <3> QED BY <1>1, <3>1, <3>3
  <2> HIDE DEF h
  <2> QED BY <2>1, <2>2, ConversionAgrees
<1> HIDE DEF h
<1> QED BY <1>2 DEF Converted

LEMMA AllConverted == ASSUME NEW p PROVE \A d \in Depths : Converted(p, d)
<1> DEFINE Bad == {d \in Depths : ~Converted(p, d)}
<1> SUFFICES ASSUME Bad # {} PROVE FALSE
  OBVIOUS
<1> Bad \in SUBSET Nat
  BY BoundAssumption DEF Depths
<1>1. PICK d \in Bad : \A e \in Bad : d <= e
  BY LeastNat
<1>2. d # 0 => Converted(p, d - 1)
  BY <1>1, BoundAssumption DEF Depths
<1> QED BY <1>1, <1>2, ConvertedNext

\* The recursive definition of the converter defines it.
LEMMA ConverterDefined ==
    ASSUME NEW p
    PROVE  \A ty \in AllTypes : Converter(p)[ty] = Conversion(p, Converter(p), ty)
<1>1. MaxDepth \in Depths /\ AllTypes = All(MaxDepth)
  BY BoundAssumption DEF Depths, AllTypes, TypesOver, All, AllNames
<1>2. PICK g : \A ty \in AllTypes : g[ty] = Conversion(p, g, ty)
  BY <1>1, AllConverted DEF Converted
<1> DEFINE h == [ty \in AllTypes |-> g[ty]]
<1>3. ASSUME NEW ty \in AllTypes PROVE h[ty] = Conversion(p, h, ty)
  <2>1. h[ty] = g[ty]
    OBVIOUS
  <2>2. ASSUME ty[1] = "box" PROVE \A i \in {2, 3} : \A n \in DOMAIN ty[i] : g[ty[i][n]] = h[ty[i][n]]
    <3> TAKE i \in {2, 3}
    <3> TAKE n \in DOMAIN ty[i]
    <3>1. ty[i][n] \in All(MaxDepth - 1) /\ MaxDepth # 0
      BY <1>1, <2>2, ComponentsBelow DEF All
    <3>2. ty[i][n] \in AllTypes
      BY <1>1, <3>1, LevelsGrow DEF All
    <3> QED BY <3>2
  <2> HIDE DEF h
  <2> QED BY <1>2, <2>1, <2>2, ConversionAgrees
<1>4. h = [ty \in AllTypes |-> Conversion(p, h, ty)]
  BY <1>3
<1> HIDE DEF h
<1>5. \E c : c = [ty \in AllTypes |-> Conversion(p, c, ty)]
  BY <1>4
<1>6. Converter(p) = [ty \in AllTypes |-> Conversion(p, Converter(p), ty)]
  BY <1>5, Zenon DEF Converter
<1> QED BY <1>6, Zenon

------------------------------------------------------------------------------
(* What types are converted to *)

LEMMA LevelsReach ==
    ASSUME NEW names
    PROVE  \A d \in Depths : Levels(names)[d] \subseteq TypesOver(names)
<1> DEFINE L == Levels(names)
           Bad == {k \in Depths : ~(L[MaxDepth - k] \subseteq L[MaxDepth])}
<1>1. Bad = {}
  <2> SUFFICES ASSUME Bad # {} PROVE FALSE
    OBVIOUS
  <2> Bad \in SUBSET Nat
    BY BoundAssumption DEF Depths
  <2>1. PICK k \in Bad : \A j \in Bad : k <= j
    BY LeastNat
  <2>2. k \in Depths /\ k # 0 /\ MaxDepth - k \in Depths /\ ~(L[MaxDepth - k] \subseteq L[MaxDepth])
    BY BoundAssumption DEF Depths
  <2>3. k - 1 \in Depths /\ k - 1 \notin Bad
    BY <2>1, <2>2, BoundAssumption DEF Depths
  <2>4. MaxDepth - (k - 1) \in Depths /\ MaxDepth - (k - 1) # 0 /\ (MaxDepth - (k - 1)) - 1 = MaxDepth - k
    BY <2>2, BoundAssumption DEF Depths
  <2>5. L[MaxDepth - k] \subseteq L[MaxDepth - (k - 1)]
    <3>1. L[(MaxDepth - (k - 1)) - 1] \subseteq L[MaxDepth - (k - 1)]
      BY <2>4, LevelsGrow
    <3> QED BY <2>4, <3>1
  <2> QED BY <2>2, <2>3, <2>5
<1>2. ASSUME NEW d \in Depths PROVE L[d] \subseteq L[MaxDepth]
  <2>1. MaxDepth - d \in Depths /\ MaxDepth - (MaxDepth - d) = d
    BY BoundAssumption DEF Depths
  <2> HIDE DEF L
  <2>2. L[MaxDepth - (MaxDepth - d)] \subseteq L[MaxDepth]
    BY <1>1, <2>1
  <2> QED BY <2>1, <2>2
<1> QED BY <1>2 DEF TypesOver

LEMMA AllReach == \A d \in Depths : All(d) \subseteq AllTypes
BY LevelsReach DEF All, AllTypes, AllNames

LEMMA LeafTypes == \A name \in AllNames : Leaf(name) \in AllTypes
<1>1. MaxDepth \in Depths
  BY BoundAssumption DEF Depths
<1> QED BY <1>1, LeafLevel DEF AllTypes, TypesOver, AllNames

Pass == {"closure", "sigi"}

LEMMA ConvertsLeaf ==
    ASSUME NEW p \in Pass
    PROVE  /\ Converter(p)[Leaf("i32")] = Leaf("i32")
           /\ Converter(p)[Ptr] = Ptr
           /\ Converter(p)[Leaf("stack")] = IF p = "sigi" THEN Ptr ELSE NoType
           /\ Converter(p)[Leaf("tensor")] = NoType
<1>1. Ptr = Leaf("ptr")
  BY DEF Ptr, Leaf
<1>2. \A name \in AllNames : Converter(p)[Leaf(name)] = Conversion(p, Converter(p), Leaf(name))
  BY LeafTypes, ConverterDefined
<1>3. \A name \in AllNames : name \notin {"box", "stack", "tensor"} => Converter(p)[Leaf(name)] = Leaf(name)
  BY <1>2, LeafFacts, ConversionCases
<1>4. Converter(p)[Leaf("stack")] = IF p = "sigi" THEN Ptr ELSE NoType
  BY <1>2, LeafFacts, ConversionCases DEF AllNames
<1>5. Converter(p)[Leaf("tensor")] = NoType
  BY <1>2, LeafFacts, ConversionCases DEF AllNames
<1> QED BY <1>1, <1>3, <1>4, <1>5 DEF AllNames

LEMMA ConvertsBox ==
    ASSUME NEW p \in Pass, NEW ty \in AllTypes, ty[1] = "box"
    PROVE  Converter(p)[ty] = IF ConvertsSignature(Converter(p), ty[2], ty[3]) THEN Ptr
                              ELSE IF p = "closure" THEN NoType ELSE GenericConversion(Converter(p), ty)
<1>1. Converter(p)[ty] = Conversion(p, Converter(p), ty)
  BY ConverterDefined
<1>2. Ptr # NoType
  BY DEF Ptr, NoType
<1>3. Conversion(p, Converter(p), ty) =
          IF FinalConversion(Converter(p), ty) # NoType \/ p = "closure"
          THEN FinalConversion(Converter(p), ty) ELSE GenericConversion(Converter(p), ty)
  BY ConversionCases
<1>4. FinalConversion(Converter(p), ty) = IF ConvertsSignature(Converter(p), ty[2], ty[3]) THEN Ptr ELSE NoType
  BY DEF FinalConversion
<1> QED BY <1>1, <1>2, <1>3, <1>4

Lowered == {Ptr, Leaf("i32")}

LEMMA LoweredIsLLVM == \A ty \in Lowered : IsLLVM(ty)
BY DEF Lowered, IsLLVM, Ptr, Leaf

\* Converted to types of LLVM, results are packed.
LEMMA LoweredPack ==
    ASSUME NEW c, NEW types, \A n \in DOMAIN types : c[types[n]] \in Lowered
    PROVE  Packable(c, types)
BY LoweredIsLLVM DEF Packable, AllLLVM, ConvertTypes

\* A converted type of level d is a type of LLVM or, for convert-sigi-to-llvm,
\* a closure type again; converting it changes nothing.
StaysConverted(p, d) ==
    \A ty \in All(d) :
        LET once == Converter(p)[ty]
        IN  once # NoType => /\ once \in Lowered \/ (p = "sigi" /\ once[1] = "box" /\ once \in All(d))
                             /\ Converter(p)[once] = once

LEMMA LeafStays ==
    ASSUME NEW p \in Pass, NEW name \in AllNames, Converter(p)[Leaf(name)] # NoType
    PROVE  /\ Converter(p)[Leaf(name)] \in Lowered
           /\ Converter(p)[Converter(p)[Leaf(name)]] = Converter(p)[Leaf(name)]
<1>1. Ptr = Leaf("ptr")
  BY DEF Ptr, Leaf
<1> QED BY <1>1, ConvertsLeaf DEF AllNames, Lowered

\* A list converted, with what has no conversion left as it is, converts to itself.
LEMMA ListStays ==
    ASSUME NEW p \in Pass, NEW d \in Depths, StaysConverted(p, d), NEW types \in Seq(All(d))
    PROVE  LET list == ConvertTypeListOrIdentity(Converter(p), types)
           IN  /\ ConvertTypeListOrIdentity(Converter(p), list) = list
               /\ ConvertsAll(Converter(p), list) <=> ConvertsAll(Converter(p), types)
               /\ Packable(Converter(p), list) <=> Packable(Converter(p), types)
               /\ list \in Seq(All(d))
<1> DEFINE C == Converter(p)
           list == ConvertTypeListOrIdentity(C, types)
<1>1. DOMAIN types = 1 .. Len(types) /\ Len(types) \in Nat
  BY LenProperties
<1>2. list = [n \in DOMAIN types |-> IF C[types[n]] = NoType THEN types[n] ELSE C[types[n]]]
  BY DEF ConvertTypeListOrIdentity
<1>3. DOMAIN list = DOMAIN types
  BY <1>2
<1> HIDE DEF C, list
<1>4. ASSUME NEW n \in DOMAIN types
      PROVE  /\ list[n] \in All(d)
             /\ C[list[n]] = C[types[n]]
             /\ (IF C[list[n]] = NoType THEN list[n] ELSE C[list[n]]) = list[n]
  <2>1. types[n] \in All(d)
    BY ElementsOf
  <2>2. CASE C[types[n]] = NoType
    BY <1>2, <2>1, <2>2
  <2>3. CASE C[types[n]] # NoType
    <3>1. list[n] = C[types[n]]
      BY <1>2, <2>3
    <3>2. /\ C[types[n]] \in Lowered \/ C[types[n]] \in All(d)
          /\ C[C[types[n]]] = C[types[n]]
      BY <2>1, <2>3 DEF StaysConverted, C
    <3>3. Ptr \in All(d) /\ Leaf("i32") \in All(d)
      <4>1. Leaf("ptr") \in All(d) /\ Leaf("i32") \in All(d)
        BY LeafLevel DEF All, AllNames
      <4> QED BY <4>1 DEF Ptr, Leaf
    <3> QED BY <2>3, <3>1, <3>2, <3>3 DEF Lowered
  <2> QED BY <2>2, <2>3
<1>5. ConvertTypeListOrIdentity(C, list) = list
  <2>1. ConvertTypeListOrIdentity(C, list) = [n \in DOMAIN types |-> IF C[list[n]] = NoType THEN list[n] ELSE C[list[n]]]
    BY <1>3 DEF ConvertTypeListOrIdentity
  <2>2. ConvertTypeListOrIdentity(C, list) = [n \in DOMAIN types |-> list[n]]
    BY <1>4, <2>1
  <2>3. list = [n \in DOMAIN types |-> list[n]]
    BY <1>2
  <2> QED BY <2>2, <2>3
<1>6. ConvertsAll(C, list) <=> ConvertsAll(C, types)
  BY <1>3, <1>4 DEF ConvertsAll
<1>7. list \in [1 .. Len(types) -> All(d)]
  BY <1>1, <1>2, <1>4
<1>8. list \in Seq(All(d))
  BY <1>1, <1>7, SeqDef
<1>9. Packable(C, list) <=> Packable(C, types)
  <2>1. Len(list) = Len(types)
    BY <1>1, <1>3, <1>8, LenProperties
  <2>2. ConvertTypes(C, list) = ConvertTypes(C, types)
    BY <1>3, <1>4 DEF ConvertTypes
  <2> QED BY <2>1, <2>2 DEF Packable
<1> QED BY <1>5, <1>6, <1>8, <1>9 DEF C, list

LEMMA StaysNext ==
    ASSUME NEW p \in Pass, NEW d \in Depths, d # 0 => StaysConverted(p, d - 1)
    PROVE  StaysConverted(p, d)
<1> DEFINE C == Converter(p)
<1> SUFFICES ASSUME NEW ty \in All(d), C[ty] # NoType
             PROVE  /\ C[ty] \in Lowered \/ (p = "sigi" /\ C[ty][1] = "box" /\ C[ty] \in All(d))
                    /\ C[C[ty]] = C[ty]
  BY DEF StaysConverted
<1>1. CASE \E name \in AllNames : ty = Leaf(name)
  BY <1>1, LeafStays
<1>2. CASE ~\E name \in AllNames : ty = Leaf(name)
  <2>1. d # 0
    BY <1>2, BottomLevel DEF All
  <2>2. ty[1] = "box"
    BY <1>2, <2>1, LevelFacts, Zenon DEF All, Of
  <2>3. /\ d - 1 \in Depths
        /\ ty[2] \in Seq(All(d - 1)) /\ ty[3] \in Seq(All(d - 1))
    BY <2>2, ComponentsBelow DEF All
  <2>4. ty \in AllTypes
    BY AllReach
  <2>5. CASE C[ty] = Ptr
    BY <2>5, ConvertsLeaf DEF Lowered
  <2>6. CASE C[ty] # Ptr
    <3> DEFINE ins == ConvertTypeListOrIdentity(C, ty[2])
               outs == ConvertTypeListOrIdentity(C, ty[3])
    <3>1. /\ p = "sigi" /\ C[ty] = BoxedClosure(ins, outs)
          /\ ~ConvertsSignature(C, ty[2], ty[3])
      BY <2>2, <2>4, <2>6, ConvertsBox DEF Pass, GenericConversion
    <3>2. StaysConverted(p, d - 1)
      BY <2>1
    <3>3. /\ ConvertTypeListOrIdentity(C, ins) = ins
          /\ ConvertsAll(C, ins) <=> ConvertsAll(C, ty[2])
          /\ ins \in Seq(All(d - 1))
      BY <2>3, <3>2, ListStays
    <3>4. /\ ConvertTypeListOrIdentity(C, outs) = outs
          /\ ConvertsAll(C, outs) <=> ConvertsAll(C, ty[3])
          /\ Packable(C, outs) <=> Packable(C, ty[3])
          /\ outs \in Seq(All(d - 1))
      BY <2>3, <3>2, ListStays
    <3> HIDE DEF ins, outs, C
    <3>5. BoxedClosure(ins, outs) \in All(d)
      BY <2>1, <3>3, <3>4, BoxLevel DEF All
    <3>6. BoxedClosure(ins, outs) \in AllTypes /\ BoxedClosure(ins, outs)[1] = "box"
      BY <3>5, AllReach, BoxFacts
    <3>7. C[BoxedClosure(ins, outs)] = GenericConversion(C, BoxedClosure(ins, outs))
      <4>1. ~ConvertsSignature(C, BoxedClosure(ins, outs)[2], BoxedClosure(ins, outs)[3])
        BY <3>1, <3>3, <3>4, BoxFacts DEF ConvertsSignature
      <4>2. p # "closure"
        BY <3>1
      <4> QED BY <3>6, <4>1, <4>2, ConvertsBox DEF C
    <3>8. GenericConversion(C, BoxedClosure(ins, outs)) = BoxedClosure(ins, outs)
      BY <3>3, <3>4, BoxFacts DEF GenericConversion
    <3> QED BY <3>1, <3>5, <3>6, <3>7, <3>8
  <2> QED BY <2>5, <2>6
<1> QED BY <1>1, <1>2

LEMMA Stays == ASSUME NEW p \in Pass PROVE \A d \in Depths : StaysConverted(p, d)
<1> DEFINE Bad == {d \in Depths : ~StaysConverted(p, d)}
<1> SUFFICES ASSUME Bad # {} PROVE FALSE
  OBVIOUS
<1> Bad \in SUBSET Nat
  BY BoundAssumption DEF Depths
<1>1. PICK d \in Bad : \A e \in Bad : d <= e
  BY LeastNat
<1>2. d # 0 => StaysConverted(p, d - 1)
  BY <1>1, BoundAssumption DEF Depths
<1> QED BY <1>1, <1>2, StaysNext

------------------------------------------------------------------------------
(* Which types are converted to types of LLVM *)

Names(p) == IF p = "sigi" THEN {"i32", "stack"} ELSE {"i32"}

\* The types of a program: nothing is converted yet.
Plain == {"i32", "stack", "tensor"}

LowersLevel(p, d) == \A ty \in Levels(Names(p))[d] : Converter(p)[ty] \in Lowered

LEMMA LowersNext ==
    ASSUME NEW p \in Pass, NEW d \in Depths, d # 0 => LowersLevel(p, d - 1)
    PROVE  LowersLevel(p, d)
<1>1. Names(p) \in SUBSET AllNames
  BY DEF Names, AllNames
<1>2. Ptr # NoType /\ Leaf("i32") # NoType
  BY DEF Ptr, Leaf, NoType
<1> SUFFICES ASSUME NEW ty \in Levels(Names(p))[d] PROVE Converter(p)[ty] \in Lowered
  BY DEF LowersLevel
<1>3. CASE \E name \in Names(p) : ty = Leaf(name)
  BY <1>3, ConvertsLeaf DEF Names, Lowered
<1>4. CASE ~\E name \in Names(p) : ty = Leaf(name)
  <2>1. d # 0
    BY <1>4, BottomLevel
  <2>2. ty[1] = "box"
    BY <1>4, <2>1, LevelFacts, Zenon DEF Of
  <2>3. /\ \A n \in DOMAIN ty[2] : Converter(p)[ty[2][n]] \in Lowered
        /\ \A n \in DOMAIN ty[3] : Converter(p)[ty[3][n]] \in Lowered
    <3>1. /\ \A n \in DOMAIN ty[2] : ty[2][n] \in Levels(Names(p))[d - 1]
          /\ \A n \in DOMAIN ty[3] : ty[3][n] \in Levels(Names(p))[d - 1]
      BY <1>1, <2>2, ComponentsBelow
    <3> QED BY <2>1, <3>1 DEF LowersLevel
  <2>4. ConvertsSignature(Converter(p), ty[2], ty[3])
    <3>1. ConvertsAll(Converter(p), ty[2]) /\ ConvertsAll(Converter(p), ty[3])
      BY <1>2, <2>3 DEF ConvertsAll, Lowered
    <3> QED BY <2>3, <3>1, LoweredPack DEF ConvertsSignature
  <2>5. ty \in All(d) /\ ty \in AllTypes
    BY <1>1, LevelsGrow, AllReach DEF All
  <2>6. Converter(p)[ty] = Ptr
    BY <2>2, <2>4, <2>5, ConvertsBox
  <2> QED BY <2>6 DEF Lowered
<1> QED BY <1>3, <1>4

\* What has no unsupported leaf in it is converted to a type of LLVM.
LEMMA SupportedLowered ==
    ASSUME NEW p \in Pass
    PROVE  \A ty \in TypesOver(Names(p)) : Converter(p)[ty] \in Lowered
<1> DEFINE Bad == {d \in Depths : ~LowersLevel(p, d)}
<1>1. Bad = {}
  <2> SUFFICES ASSUME Bad # {} PROVE FALSE
    OBVIOUS
  <2> Bad \in SUBSET Nat
    BY BoundAssumption DEF Depths
  <2>1. PICK d \in Bad : \A e \in Bad : d <= e
    BY LeastNat
  <2>2. d # 0 => LowersLevel(p, d - 1)
    BY <2>1, BoundAssumption DEF Depths
  <2> QED BY <2>1, <2>2, LowersNext
<1>2. MaxDepth \in Depths
  BY BoundAssumption DEF Depths
<1>3. LowersLevel(p, MaxDepth)
  BY <1>1, <1>2
<1> QED BY <1>3 DEF LowersLevel, TypesOver

\* convert-closure-to-llvm converts nothing else of a program.
NeedsLevel(d) ==
    \A ty \in Levels(Plain)[d] : Converter("closure")[ty] # NoType => ty \in Levels(Names("closure"))[d]

LEMMA NeedsNext ==
    ASSUME NEW d \in Depths, d # 0 => NeedsLevel(d - 1)
    PROVE  NeedsLevel(d)
<1>1. Plain \in SUBSET AllNames /\ "closure" \in Pass /\ Names("closure") = {"i32"}
  BY DEF Plain, AllNames, Pass, Names
<1> SUFFICES ASSUME NEW ty \in Levels(Plain)[d], Converter("closure")[ty] # NoType
             PROVE  ty \in Levels(Names("closure"))[d]
  BY DEF NeedsLevel
<1>2. CASE \E name \in Plain : ty = Leaf(name)
  <2>1. ty = Leaf("i32")
    BY <1>1, <1>2, ConvertsLeaf DEF Plain
  <2> QED BY <1>1, <2>1, LeafLevel
<1>3. CASE ~\E name \in Plain : ty = Leaf(name)
  <2>1. d # 0
    BY <1>3, BottomLevel
  <2>2. ty[1] = "box"
    BY <1>3, <2>1, LevelFacts, Zenon DEF Of
  <2>3. /\ ty = BoxedClosure(ty[2], ty[3])
        /\ \A i \in {2, 3} : /\ ty[i] \in Seq(Levels(Plain)[d - 1])
                             /\ \A n \in DOMAIN ty[i] : ty[i][n] \in Levels(Plain)[d - 1]
    BY <1>1, <2>2, ComponentsBelow
  <2>4. ty \in All(d) /\ ty \in AllTypes
    BY <1>1, LevelsGrow, AllReach DEF All
  <2>5. ConvertsAll(Converter("closure"), ty[2]) /\ ConvertsAll(Converter("closure"), ty[3])
    BY <1>1, <2>2, <2>4, ConvertsBox DEF ConvertsSignature
  <2>6. ASSUME NEW i \in {2, 3} PROVE ty[i] \in Seq(Levels(Names("closure"))[d - 1])
    <3>1. \A n \in DOMAIN ty[i] : ty[i][n] \in Levels(Names("closure"))[d - 1]
      BY <2>1, <2>3, <2>5 DEF NeedsLevel, ConvertsAll
    <3>2. ty[i] \in Seq(Levels(Plain)[d - 1])
      BY <2>3
    <3> HIDE DEF Names
    <3> QED BY <3>1, <3>2, SeqOfElements
  <2>7. ty[2] \in Seq(Levels(Names("closure"))[d - 1]) /\ ty[3] \in Seq(Levels(Names("closure"))[d - 1])
    BY <2>6
  <2>8. BoxedClosure(ty[2], ty[3]) \in Levels(Names("closure"))[d]
    BY <2>1, <2>7, BoxLevel
  <2> QED BY <2>3, <2>8
<1> QED BY <1>2, <1>3

LEMMA ClosureNeedsSupported ==
    \A ty \in TypesOver(Plain) : Converter("closure")[ty] # NoType => ty \in TypesOver(Names("closure"))
<1> DEFINE Bad == {d \in Depths : ~NeedsLevel(d)}
<1>1. Bad = {}
  <2> SUFFICES ASSUME Bad # {} PROVE FALSE
    OBVIOUS
  <2> Bad \in SUBSET Nat
    BY BoundAssumption DEF Depths
  <2>1. PICK d \in Bad : \A e \in Bad : d <= e
    BY LeastNat
  <2>2. d # 0 => NeedsLevel(d - 1)
    BY <2>1, BoundAssumption DEF Depths
  <2> QED BY <2>1, <2>2, NeedsNext
<1>2. MaxDepth \in Depths
  BY BoundAssumption DEF Depths
<1>3. NeedsLevel(MaxDepth)
  BY <1>1, <1>2
<1> QED BY <1>3 DEF NeedsLevel, TypesOver

\* convert-sigi-to-llvm asks for no unsupported leaf among the components.
LEMMA SigiNeedsShallow ==
    \A ty \in TypesOver(Plain) :
        Converter("sigi")[ty] \in Lowered =>
            \/ ty \in TypesOver(Names("sigi"))
            \/ /\ ty[1] = "box"
               /\ \A types \in {ty[2], ty[3]} : \A n \in DOMAIN types : types[n] # Leaf("tensor")
<1>1. /\ Plain \in SUBSET AllNames /\ "sigi" \in Pass /\ Names("sigi") = {"i32", "stack"}
      /\ MaxDepth \in Depths /\ MaxDepth # 0
  BY BoundAssumption DEF Plain, AllNames, Pass, Names, Depths
<1>2. \A outs, ins : BoxedClosure(ins, outs) \notin Lowered
  BY DEF BoxedClosure, Lowered, Ptr, Leaf
<1> SUFFICES ASSUME NEW ty \in TypesOver(Plain), Converter("sigi")[ty] \in Lowered
             PROVE  \/ ty \in TypesOver(Names("sigi"))
                    \/ /\ ty[1] = "box"
                       /\ \A types \in {ty[2], ty[3]} : \A n \in DOMAIN types : types[n] # Leaf("tensor")
  OBVIOUS
<1>3. CASE \E name \in Plain : ty = Leaf(name)
  <2>1. NoType \notin Lowered
    BY DEF NoType, Lowered, Ptr, Leaf
  <2>2. ty # Leaf("tensor")
    BY <1>1, <2>1, ConvertsLeaf
  <2>3. \A name \in Names("sigi") : Leaf(name) \in TypesOver(Names("sigi"))
    BY <1>1, LeafLevel DEF TypesOver
  <2> QED BY <1>1, <1>3, <2>2, <2>3 DEF Plain
<1>4. CASE ~\E name \in Plain : ty = Leaf(name)
  <2>1. ty \in Levels(Plain)[MaxDepth]
    BY DEF TypesOver
  <2>2. ty[1] = "box"
    BY <1>1, <1>4, <2>1, LevelFacts, Zenon DEF Of
  <2>3. ty \in AllTypes
    BY <1>1, <2>1, LevelsGrow, AllReach DEF All
  <2>4. ConvertsAll(Converter("sigi"), ty[2]) /\ ConvertsAll(Converter("sigi"), ty[3])
    BY <1>1, <1>2, <2>2, <2>3, ConvertsBox DEF GenericConversion, ConvertsSignature
  <2>5. Converter("sigi")[Leaf("tensor")] = NoType
    BY <1>1, ConvertsLeaf
  <2> QED BY <2>2, <2>4, <2>5 DEF ConvertsAll
<1> QED BY <1>3, <1>4

------------------------------------------------------------------------------
(* Lists of types *)

LEMMA ConcatFacts ==
    ASSUME NEW S, NEW s \in Seq(S), NEW t \in Seq(S)
    PROVE  /\ s \o t \in Seq(S)
           /\ Len(s) \in Nat /\ DOMAIN s = 1 .. Len(s) /\ Len(t) \in Nat /\ DOMAIN t = 1 .. Len(t)
           /\ Len(s \o t) = Len(s) + Len(t)
           /\ DOMAIN (s \o t) = 1 .. Len(s) + Len(t)
           /\ \A n \in DOMAIN s : (s \o t)[n] = s[n] /\ n \in DOMAIN (s \o t)
           /\ \A n \in DOMAIN t : (s \o t)[Len(s) + n] = t[n] /\ Len(s) + n \in DOMAIN (s \o t)
           /\ \A n \in DOMAIN (s \o t) : n \in DOMAIN s \/ \E k \in DOMAIN t : n = Len(s) + k
<1>1. Len(s) \in Nat /\ DOMAIN s = 1 .. Len(s) /\ Len(t) \in Nat /\ DOMAIN t = 1 .. Len(t)
  BY LenProperties
<1>2. /\ s \o t \in Seq(S) /\ Len(s \o t) = Len(s) + Len(t)
      /\ \A n \in 1 .. Len(s) + Len(t) : (s \o t)[n] = IF n <= Len(s) THEN s[n] ELSE t[n - Len(s)]
  BY ConcatProperties
<1>3. DOMAIN (s \o t) = 1 .. Len(s) + Len(t)
  BY <1>2, LenProperties
<1>4. ASSUME NEW n \in DOMAIN s PROVE (s \o t)[n] = s[n] /\ n \in DOMAIN (s \o t)
  BY <1>1, <1>2, <1>3
<1>5. ASSUME NEW n \in DOMAIN t PROVE (s \o t)[Len(s) + n] = t[n] /\ Len(s) + n \in DOMAIN (s \o t)
  <2>1. n \in 1 .. Len(t) /\ Len(s) + n \in 1 .. Len(s) + Len(t) /\ ~(Len(s) + n <= Len(s)) /\ (Len(s) + n) - Len(s) = n
    BY <1>1
  <2> QED BY <1>2, <1>3, <2>1
<1>6. ASSUME NEW n \in DOMAIN (s \o t), n \notin DOMAIN s PROVE \E k \in DOMAIN t : n = Len(s) + k
  <2>1. n - Len(s) \in DOMAIN t /\ n = Len(s) + (n - Len(s))
    BY <1>1, <1>3, <1>6
  <2> QED BY <2>1
<1> QED BY <1>1, <1>2, <1>3, <1>4, <1>5, <1>6

Elements(s) == {s[n] : n \in DOMAIN s}

LEMMA ConcatElements ==
    ASSUME NEW S, NEW s \in Seq(S), NEW t \in Seq(S)
    PROVE  Elements(s \o t) = Elements(s) \cup Elements(t)
<1>1. ASSUME NEW x \in Elements(s \o t) PROVE x \in Elements(s) \cup Elements(t)
  <2>1. PICK n \in DOMAIN (s \o t) : x = (s \o t)[n]
    BY DEF Elements
  <2>2. CASE n \in DOMAIN s
    BY <2>1, <2>2, ConcatFacts DEF Elements
  <2>3. CASE n \notin DOMAIN s
    <3>1. PICK k \in DOMAIN t : n = Len(s) + k
      BY <2>3, ConcatFacts
    <3>2. x = t[k]
      BY <2>1, <3>1, ConcatFacts
    <3> QED BY <3>2 DEF Elements
  <2> QED BY <2>2, <2>3
<1>2. ASSUME NEW x \in Elements(s) PROVE x \in Elements(s \o t)
  <2>1. PICK n \in DOMAIN s : x = s[n]
    BY DEF Elements
  <2>2. x = (s \o t)[n] /\ n \in DOMAIN (s \o t)
    BY <2>1, ConcatFacts
  <2> QED BY <2>2 DEF Elements
<1>3. ASSUME NEW x \in Elements(t) PROVE x \in Elements(s \o t)
  <2>1. PICK n \in DOMAIN t : x = t[n]
    BY DEF Elements
  <2>2. x = (s \o t)[Len(s) + n] /\ Len(s) + n \in DOMAIN (s \o t)
    BY <2>1, ConcatFacts
  <2> QED BY <2>2 DEF Elements
<1> QED BY <1>1, <1>2, <1>3

LEMMA ConvertsElements ==
    ASSUME NEW c, NEW s
    PROVE  ConvertsAll(c, s) <=> \A ty \in Elements(s) : c[ty] # NoType
BY DEF ConvertsAll, Elements

LEMMA ConvertTypesSeq ==
    ASSUME NEW c, NEW S, NEW s \in Seq(S), NEW T, \A ty \in S : c[ty] \in T
    PROVE  ConvertTypes(c, s) \in Seq(T)
<1>1. Len(s) \in Nat /\ DOMAIN s = 1 .. Len(s)
  BY LenProperties
<1>2. \A n \in DOMAIN s : c[s[n]] \in T
  BY ElementsOf
<1>3. ConvertTypes(c, s) \in [1 .. Len(s) -> T]
  BY <1>1, <1>2 DEF ConvertTypes
<1> QED BY <1>1, <1>3, SeqDef

LEMMA ConvertTypesFacts ==
    ASSUME NEW c, NEW S, NEW s \in Seq(S)
    PROVE  /\ Len(ConvertTypes(c, s)) = Len(s)
           /\ DOMAIN ConvertTypes(c, s) = DOMAIN s
           /\ \A n \in DOMAIN s : ConvertTypes(c, s)[n] = c[s[n]]
<1> DEFINE T == {c[ty] : ty \in S}
<1>1. Len(s) \in Nat /\ DOMAIN s = 1 .. Len(s)
  BY LenProperties
<1>2. DOMAIN ConvertTypes(c, s) = DOMAIN s /\ \A n \in DOMAIN s : ConvertTypes(c, s)[n] = c[s[n]]
  BY DEF ConvertTypes
<1>3. \A ty \in S : c[ty] \in T
  OBVIOUS
<1> HIDE DEF T
<1>4. ConvertTypes(c, s) \in Seq(T)
  BY <1>3, ConvertTypesSeq
<1>5. Len(ConvertTypes(c, s)) = Len(s)
  BY <1>1, <1>2, <1>4, LenProperties
<1> QED BY <1>2, <1>5

\* A list is converted piece by piece.
LEMMA ConvertTypesConcat ==
    ASSUME NEW c, NEW S, NEW s \in Seq(S), NEW t \in Seq(S)
    PROVE  ConvertTypes(c, s \o t) = ConvertTypes(c, s) \o ConvertTypes(c, t)
<1> DEFINE T == {c[ty] : ty \in S}
           a == ConvertTypes(c, s)
           b == ConvertTypes(c, t)
           ab == ConvertTypes(c, s \o t)
<1>0. \A ty \in S : c[ty] \in T
  OBVIOUS
<1> HIDE DEF T
<1>1. s \o t \in Seq(S)
  BY ConcatFacts
<1>2. a \in Seq(T) /\ Len(a) = Len(s) /\ DOMAIN a = DOMAIN s /\ \A n \in DOMAIN s : a[n] = c[s[n]]
  BY <1>0, ConvertTypesSeq, ConvertTypesFacts
<1>3. b \in Seq(T) /\ DOMAIN b = DOMAIN t /\ Len(b) = Len(t) /\ \A n \in DOMAIN t : b[n] = c[t[n]]
  BY <1>0, ConvertTypesSeq, ConvertTypesFacts
<1>4. /\ ab \in Seq(T) /\ Len(ab) = Len(s \o t) /\ DOMAIN ab = DOMAIN (s \o t)
      /\ \A n \in DOMAIN (s \o t) : ab[n] = c[(s \o t)[n]]
  <2>1. ASSUME NEW u \in Seq(S)
        PROVE  /\ ConvertTypes(c, u) \in Seq(T) /\ Len(ConvertTypes(c, u)) = Len(u)
               /\ DOMAIN ConvertTypes(c, u) = DOMAIN u
               /\ \A n \in DOMAIN u : ConvertTypes(c, u)[n] = c[u[n]]
    BY <1>0, ConvertTypesSeq, ConvertTypesFacts
  <2> QED BY <1>1, <2>1
<1> HIDE DEF a, b, ab
<1>5. a \o b \in Seq(T) /\ Len(a \o b) = Len(a) + Len(b)
  BY <1>2, <1>3, ConcatFacts
<1>6. Len(ab) = Len(a \o b) /\ Len(ab) = Len(s) + Len(t)
  BY <1>2, <1>3, <1>4, <1>5, ConcatFacts
<1>7. ASSUME NEW n \in 1 .. Len(ab) PROVE ab[n] = (a \o b)[n]
  <2>1. n \in DOMAIN (s \o t)
    BY <1>6, ConcatFacts
  <2>2. CASE n \in DOMAIN s
    <3>1. ab[n] = c[s[n]]
      BY <1>4, <2>1, <2>2, ConcatFacts
    <3>2. (a \o b)[n] = a[n]
      BY <1>2, <1>3, <2>2, ConcatFacts
    <3> QED BY <1>2, <2>2, <3>1, <3>2
  <2>3. CASE n \notin DOMAIN s
    <3>1. PICK k \in DOMAIN t : n = Len(s) + k
      BY <2>1, <2>3, ConcatFacts
    <3>2. ab[n] = c[t[k]]
      BY <1>4, <2>1, <3>1, ConcatFacts
    <3>3. (a \o b)[Len(a) + k] = b[k]
      BY <1>2, <1>3, ConcatFacts
    <3> QED BY <1>2, <1>3, <3>1, <3>2, <3>3
  <2> QED BY <2>2, <2>3
<1>8. ab = a \o b
  BY <1>4, <1>5, <1>6, <1>7, SeqEqual
<1> QED BY <1>8 DEF a, b, ab

------------------------------------------------------------------------------
(* The invariant *)

\* A closure of types of the program.
BoxIs ==
    /\ pass \in Passes /\ caller \in Passes
    /\ box.captures \in Seq(Types) /\ box.ins \in Seq(Types) /\ box.outs \in Seq(Types)

\* What each pattern makes of the box, once it has been applied.
Lifted ==
    worker # NotYet =>
        /\ ConvertsAll(Converter(pass), box.ins) /\ ConvertsAll(Converter(pass), box.outs)
        /\ ConvertsAll(Converter(pass), box.captures)
        /\ worker = [params |-> ConvertTypes(Converter(pass), Params),
                     result |-> PackResults(ConvertTypes(Converter(pass), box.outs))]
        /\ wrapper = [params |-> <<Ptr>> \o ConvertTypes(Converter(pass), box.ins),
                      result |-> PackResults(ConvertTypes(Converter(pass), box.outs))]
Returned == returned # NotYet => returned = [operands |-> ConvertTypes(Converter(pass), box.outs)]
Called ==
    site # NotYet =>
        /\ ConvertsAll(Converter(caller), box.ins) /\ ConvertsAll(Converter(caller), box.outs)
        /\ site = [callee |-> Converter(caller)[BoxedClosure(box.ins, box.outs)],
                   args |-> <<Ptr>> \o ConvertTypes(Converter(caller), box.ins),
                   results |-> ConvertTypes(Converter(caller), box.outs)]

\* A pass is asked for a type it does not support.
Unsupported == \E p \in {pass, caller} : \E ty \in TypesFor(p) : ~Supported(p, ty)

\* Why the verdict is what it is.
Justified ==
    /\ verdict \in {"converting", "failed", "accepted", "rejected"}
    /\ verdict = "failed" => Unsupported
    /\ verdict \in {"accepted", "rejected"} => worker # NotYet /\ returned # NotYet /\ site # NotYet
    /\ verdict = "accepted" => Verifies
    /\ verdict = "rejected" => ~Verifies

Inv == BoxIs /\ Lifted /\ Returned /\ Called /\ Justified

\* The types of a program are one level below all there are.
LEMMA TypesLevel ==
    /\ Types \subseteq Levels(Plain)[MaxDepth - 1]
    /\ Types \subseteq TypesOver(Plain)
    /\ Types \subseteq AllTypes
    /\ MaxDepth - 1 \in Depths /\ MaxDepth \in Depths /\ MaxDepth # 0
<1>1. MaxDepth - 1 \in Depths /\ MaxDepth \in Depths /\ MaxDepth # 0
  BY BoundAssumption DEF Depths
<1>2. Leaves \subseteq Plain
  BY LeafAssumption DEF Plain
<1>3. \A name \in Leaves : Leaf(name) \in Levels(Plain)[MaxDepth - 1]
  BY <1>1, <1>2, LeafLevel
<1>4. Nested \subseteq Levels(Plain)[MaxDepth - 1]
  BY <1>1, <1>2, NestedAssumption, LevelsGrow
<1>5. Types \subseteq Levels(Plain)[MaxDepth - 1]
  BY <1>3, <1>4 DEF Types
<1>6. Types \subseteq TypesOver(Plain)
  BY <1>1, <1>5, LevelsReach
<1>7. TypesOver(Plain) \subseteq AllTypes
  <2>1. Plain \subseteq AllNames
    BY DEF Plain, AllNames
  <2>2. Levels(Plain)[MaxDepth] \subseteq All(MaxDepth)
    BY <1>1, <2>1, LevelsGrow DEF All
  <2> QED BY <1>1, <2>2, AllReach DEF TypesOver
<1> QED BY <1>1, <1>5, <1>6, <1>7

LEMMA TypesForAre ==
    ASSUME BoxIs
    PROVE  /\ TypesFor(pass) = Elements(box.captures) \cup Elements(box.ins) \cup Elements(box.outs)
           /\ \A p \in {pass, caller} : /\ Elements(box.ins) \cup Elements(box.outs) \subseteq TypesFor(p)
                                        /\ TypesFor(p) \subseteq Types
           /\ caller # pass => TypesFor(caller) = Elements(box.ins) \cup Elements(box.outs)
           /\ Params \in Seq(Types)
<1>1. Params \in Seq(Types) /\ Elements(Params) = Elements(box.captures) \cup Elements(box.ins)
  BY ConcatElements, ConcatFacts DEF BoxIs, Params
<1>2. box.outs \in Seq(Types) /\ box.ins \in Seq(Types)
  BY DEF BoxIs
<1>3. Elements(Params \o box.outs) = Elements(Params) \cup Elements(box.outs) /\ Params \o box.outs \in Seq(Types)
  BY <1>1, <1>2, ConcatElements, ConcatFacts
<1>4. Elements(box.ins \o box.outs) = Elements(box.ins) \cup Elements(box.outs) /\ box.ins \o box.outs \in Seq(Types)
  BY <1>2, ConcatElements, ConcatFacts
<1>5. TypesFor(pass) = Elements(Params \o box.outs)
  BY DEF TypesFor, Elements
<1>6. caller # pass => TypesFor(caller) = Elements(box.ins \o box.outs)
  BY DEF TypesFor, Elements
<1>7. /\ Elements(Params \o box.outs) \subseteq Types
      /\ Elements(box.ins \o box.outs) \subseteq Types
  <2>1. ASSUME NEW types \in Seq(Types) PROVE Elements(types) \subseteq Types
    BY ElementsOf DEF Elements
  <2> QED BY <1>3, <1>4, <2>1
<1> QED BY <1>1, <1>3, <1>4, <1>5, <1>6, <1>7

LEMMA PassIs == BoxIs => pass \in Pass /\ caller \in Pass
BY PassAssumption DEF BoxIs, Pass

\* A type that is not converted to a type of LLVM is not supported.
LEMMA UnsupportedType ==
    ASSUME BoxIs, NEW p \in {pass, caller}, NEW ty \in TypesFor(p), Converter(p)[ty] \notin Lowered
    PROVE  Unsupported
<1>1. p \in Pass
  BY PassIs
<1>2. ty \notin TypesOver(Names(p))
  BY <1>1, SupportedLowered
<1>3. ~Supported(p, ty)
  BY <1>2, Zenon DEF Supported, Names
<1> QED BY <1>3 DEF Unsupported

\* The closure type of the box.
LEMMA CalleeIs ==
    ASSUME BoxIs
    PROVE  /\ BoxedClosure(box.ins, box.outs) \in AllTypes
           /\ BoxedClosure(box.ins, box.outs)[1] = "box"
           /\ BoxedClosure(box.ins, box.outs)[2] = box.ins /\ BoxedClosure(box.ins, box.outs)[3] = box.outs
<1>1. Types \subseteq All(MaxDepth - 1) /\ MaxDepth - 1 \in Depths /\ MaxDepth \in Depths /\ MaxDepth # 0
  <2>1. Levels(Plain)[MaxDepth - 1] \subseteq Levels(AllNames)[MaxDepth - 1]
    <3>1. Plain \subseteq AllNames
      BY DEF Plain, AllNames
    <3> QED BY <3>1, TypesLevel, LevelsGrow
  <2> QED BY <2>1, TypesLevel DEF All
<1>2. box.ins \in Seq(All(MaxDepth - 1)) /\ box.outs \in Seq(All(MaxDepth - 1))
  BY <1>1, SeqGrows DEF BoxIs
<1>3. BoxedClosure(box.ins, box.outs) \in All(MaxDepth)
  BY <1>1, <1>2, BoxLevel DEF All
<1>4. BoxedClosure(box.ins, box.outs) \in AllTypes
  BY <1>1, <1>3, AllReach
<1> QED BY <1>4, BoxFacts

\* It is a pointer when its signature converts, and always something for sigi.
LEMMA CalleeConverts ==
    ASSUME BoxIs, NEW p \in {pass, caller}
    PROVE  /\ ConvertsSignature(Converter(p), box.ins, box.outs)
                 => Converter(p)[BoxedClosure(box.ins, box.outs)] = Ptr
           /\ Converter(p)[BoxedClosure(box.ins, box.outs)] = NoType
                 => ~ConvertsSignature(Converter(p), box.ins, box.outs)
<1>1. p \in Pass /\ Ptr # NoType
  BY PassIs DEF Ptr, NoType
<1>2. Converter(p)[BoxedClosure(box.ins, box.outs)]
         = IF ConvertsSignature(Converter(p), box.ins, box.outs) THEN Ptr
           ELSE IF p = "closure" THEN NoType
           ELSE GenericConversion(Converter(p), BoxedClosure(box.ins, box.outs))
  BY <1>1, CalleeIs, ConvertsBox
<1> QED BY <1>1, <1>2

\* Each way for a pattern not to match.
LEMMA NoMatch ==
    ASSUME BoxIs, NEW p \in {pass, caller},
           \/ ~ConvertsSignature(Converter(p), box.ins, box.outs)
           \/ ~ConvertsAll(Converter(p), box.ins)
           \/ ~ConvertsAll(Converter(p), box.outs)
           \/ Converter(p)[BoxedClosure(box.ins, box.outs)] = NoType
           \/ p = pass /\ ~ConvertsAll(Converter(p), box.captures)
    PROVE  Unsupported
<1>1. NoType \notin Lowered
  BY DEF NoType, Lowered, Ptr, Leaf
<1>2. \/ ~ConvertsSignature(Converter(p), box.ins, box.outs)
      \/ p = pass /\ ~ConvertsAll(Converter(p), box.captures)
  BY CalleeConverts DEF ConvertsSignature
<1>3. CASE p = pass /\ ~ConvertsAll(Converter(p), box.captures)
  <2>1. \E ty \in TypesFor(p) : Converter(p)[ty] = NoType
    BY <1>3, TypesForAre, ConvertsElements
  <2> QED BY <1>1, <2>1, UnsupportedType
<1>4. CASE ~ConvertsSignature(Converter(p), box.ins, box.outs)
  <2>1. \E ty \in Elements(box.ins) \cup Elements(box.outs) : Converter(p)[ty] \notin Lowered
    <3>1. CASE ~ConvertsAll(Converter(p), box.ins)
      BY <1>1, <3>1, ConvertsElements
    <3>2. CASE ~ConvertsAll(Converter(p), box.outs)
      BY <1>1, <3>2, ConvertsElements
    <3>3. CASE ~Packable(Converter(p), box.outs)
      <4>1. PICK n \in DOMAIN box.outs : Converter(p)[box.outs[n]] \notin Lowered
        BY <3>3, LoweredPack
      <4> QED BY <4>1 DEF Elements
    <3> QED BY <1>4, <3>1, <3>2, <3>3 DEF ConvertsSignature
  <2>2. \E ty \in TypesFor(p) : Converter(p)[ty] \notin Lowered
    BY <2>1, TypesForAre
  <2> QED BY <2>2, UnsupportedType
<1> QED BY <1>2, <1>3, <1>4

LEMMA ListsAreSeqs == \A S : \A n \in Nat : Lists(S, n) \subseteq Seq(S)
BY SeqDef DEF Lists

LEMMA InvInit == Init => Inv
<1> SUFFICES ASSUME Init PROVE Inv
  OBVIOUS
<1>1. BoxIs
  <2>1. PICK captures \in Lists(Capturable, 1), ins \in Lists(Types, MaxInputs), outs \in Lists(Types, MaxResults) :
            box = [captures |-> captures, ins |-> ins, outs |-> outs]
    BY DEF Init
  <2>2. captures \in Seq(Capturable) /\ ins \in Seq(Types) /\ outs \in Seq(Types)
    BY ListsAreSeqs, BoundAssumption
  <2>3. captures \in Seq(Types)
    <3>1. Capturable \subseteq Types
      BY DEF Capturable
    <3> QED BY <2>2, <3>1, SeqGrows
  <2> QED BY <2>1, <2>2, <2>3 DEF BoxIs, Init
<1>2. worker = NotYet /\ returned = NotYet /\ site = NotYet /\ verdict = "converting"
  BY DEF Init
<1> QED BY <1>1, <1>2 DEF Inv, Lifted, Returned, Called, Justified

\* A pattern that does not match.
LEMMA FailStep ==
    ASSUME Inv, Fail, UNCHANGED <<pass, caller, box>>, Unsupported
    PROVE  Inv'
<1>1. verdict' = "failed" /\ UNCHANGED <<pass, caller, box, worker, wrapper, returned, site>>
  BY DEF Fail, emitted
<1>2. BoxIs' /\ Lifted' /\ Returned' /\ Called'
  BY <1>1 DEF Inv, BoxIs, Lifted, Returned, Called, Params
<1>3. Unsupported'
  <2>1. \A p : TypesFor(p)' = TypesFor(p)
    BY <1>1 DEF TypesFor, Params
  <2>2. PICK p \in {pass, caller} : \E ty \in TypesFor(p) : ~Supported(p, ty)
    BY DEF Unsupported
  <2>3. p \in {pass', caller'} /\ \E ty \in TypesFor(p)' : ~Supported(p, ty)
    BY <1>1, <2>1, <2>2
  <2> QED BY <2>3 DEF Unsupported
<1>4. Justified'
  BY <1>1, <1>3 DEF Justified
<1> QED BY <1>2, <1>4 DEF Inv

LEMMA ConvertBoxStep ==
    ASSUME Inv, verdict = "converting", ConvertBox
    PROVE  Inv'
<1>1. worker = NotYet /\ UNCHANGED <<pass, caller, box>>
  BY DEF ConvertBox
<1> DEFINE Matches == /\ ConvertsSignature(Converter(pass), box.ins, box.outs)
                      /\ ConvertsAll(Converter(pass), box.captures)
<1>2. CASE ~Matches
  <2>1. Fail
    BY <1>2, Zenon DEF ConvertBox
  <2>2. Unsupported
    BY <1>2, NoMatch DEF Inv
  <2> QED BY <1>1, <2>1, <2>2, FailStep
<1>3. CASE Matches
  <2>1. /\ wrapper' = InsertClosureParameter(ConvertFunType(pass, box.ins, box.outs))
        /\ worker' = [params |-> ConvertTypes(Converter(pass), WorkerParams),
                      result |-> ConvertFunType(pass, box.ins, box.outs).result]
        /\ UNCHANGED <<returned, site, verdict>>
    BY <1>3, Zenon DEF ConvertBox
  <2>2. ConvertFunType(pass, box.ins, box.outs).params = ConvertTypes(Converter(pass), box.ins)
    BY DEF ConvertFunType
  <2>3. ConvertFunType(pass, box.ins, box.outs).result = PackResults(ConvertTypes(Converter(pass), box.outs))
    BY DEF ConvertFunType
  <2>4. wrapper' = [params |-> <<Ptr>> \o ConvertTypes(Converter(pass), box.ins),
                    result |-> PackResults(ConvertTypes(Converter(pass), box.outs))]
    BY <2>1, <2>2, <2>3 DEF InsertClosureParameter
  <2>5. worker' = [params |-> ConvertTypes(Converter(pass), Params),
                   result |-> PackResults(ConvertTypes(Converter(pass), box.outs))]
    BY <2>1, <2>3 DEF WorkerParams
  <2>6. pass' = pass /\ caller' = caller /\ box' = box /\ Params' = Params
    BY <1>1 DEF Params
  <2>7. Lifted'
    BY <1>3, <2>4, <2>5, <2>6 DEF Lifted, ConvertsSignature
  <2>8. BoxIs' /\ Returned' /\ Called' /\ Justified'
    BY <2>1, <2>6 DEF Inv, BoxIs, Returned, Called, Justified
  <2> QED BY <2>7, <2>8 DEF Inv
<1> QED BY <1>2, <1>3

LEMMA ConvertReturnStep ==
    ASSUME Inv, verdict = "converting", ConvertReturn
    PROVE  Inv'
<1>1. UNCHANGED <<pass, caller, box>>
  BY DEF ConvertReturn
<1>2. CASE ~ConvertsAll(Converter(pass), box.outs)
  <2>1. Fail
    BY <1>2, Zenon DEF ConvertReturn
  <2>2. Unsupported
    BY <1>2, NoMatch DEF Inv
  <2> QED BY <1>1, <2>1, <2>2, FailStep
<1>3. CASE ConvertsAll(Converter(pass), box.outs)
  <2>1. /\ returned' = [operands |-> ConvertTypes(Converter(pass), box.outs)]
        /\ UNCHANGED <<worker, wrapper, site, verdict>>
    BY <1>3, Zenon DEF ConvertReturn
  <2> QED BY <1>1, <2>1 DEF Inv, BoxIs, Lifted, Returned, Called, Justified, Params
<1> QED BY <1>2, <1>3

LEMMA ConvertCallStep ==
    ASSUME Inv, verdict = "converting", ConvertCall
    PROVE  Inv'
<1>1. UNCHANGED <<pass, caller, box>>
  BY DEF ConvertCall
<1> DEFINE Matches == /\ Converter(caller)[BoxedClosure(box.ins, box.outs)] # NoType
                      /\ ConvertsAll(Converter(caller), box.ins) /\ ConvertsAll(Converter(caller), box.outs)
<1>2. CASE ~Matches
  <2>1. Fail
    BY <1>2, Zenon DEF ConvertCall
  <2>2. Unsupported
    BY <1>2, NoMatch DEF Inv
  <2> QED BY <1>1, <2>1, <2>2, FailStep
<1>3. CASE Matches
  <2>1. /\ site' = [callee |-> Converter(caller)[BoxedClosure(box.ins, box.outs)],
                    args |-> CallArgs,
                    results |-> ConvertTypes(Converter(caller), box.outs)]
        /\ UNCHANGED <<worker, wrapper, returned, verdict>>
    BY <1>3, Zenon DEF ConvertCall
  <2>2. CallArgs = <<Ptr>> \o ConvertTypes(Converter(caller), box.ins)
    BY DEF CallArgs
  <2>3. Called'
    BY <1>1, <1>3, <2>1, <2>2 DEF Called
  <2>4. BoxIs' /\ Lifted' /\ Returned' /\ Justified'
    BY <1>1, <2>1 DEF Inv, BoxIs, Lifted, Returned, Justified, Params
  <2> QED BY <2>3, <2>4 DEF Inv
<1> QED BY <1>2, <1>3

LEMMA VerifyStep ==
    ASSUME Inv, verdict = "converting", Verify
    PROVE  Inv'
<1>1. /\ worker # NotYet /\ returned # NotYet /\ site # NotYet
      /\ verdict' = IF Verifies THEN "accepted" ELSE "rejected"
      /\ UNCHANGED <<pass, caller, box, worker, wrapper, returned, site>>
  BY DEF Verify, emitted
<1>2. BoxIs' /\ Lifted' /\ Returned' /\ Called'
  BY <1>1 DEF Inv, BoxIs, Lifted, Returned, Called, Params
<1>3. Verifies' <=> Verifies
  BY <1>1 DEF Verifies, AllLLVM, IsLLVM
<1>4. Justified'
  BY <1>1, <1>3 DEF Justified
<1> QED BY <1>2, <1>4 DEF Inv

LEMMA InvNext == Inv /\ [Next]_vars => Inv'
<1> SUFFICES ASSUME Inv, [Next]_vars PROVE Inv'
  OBVIOUS
<1>1. CASE UNCHANGED vars
  <2>1. UNCHANGED <<pass, caller, box, worker, wrapper, returned, site, verdict>>
    BY <1>1 DEF vars
  <2>2. BoxIs' /\ Lifted' /\ Returned' /\ Called'
    BY <2>1 DEF Inv, BoxIs, Lifted, Returned, Called, Params
  <2>3. /\ Verifies' <=> Verifies
        /\ Unsupported => Unsupported'
    BY <2>1 DEF Verifies, AllLLVM, IsLLVM, Unsupported, TypesFor, Params, Supported
  <2>4. Justified'
    BY <2>1, <2>3 DEF Inv, Justified
  <2> QED BY <2>2, <2>4 DEF Inv
<1>2. CASE Next
  <2>1. CASE verdict = "converting" /\ ConvertBox
    BY <2>1, ConvertBoxStep
  <2>2. CASE verdict = "converting" /\ ConvertReturn
    BY <2>2, ConvertReturnStep
  <2>3. CASE verdict = "converting" /\ ConvertCall
    BY <2>3, ConvertCallStep
  <2>4. CASE verdict = "converting" /\ Verify
    BY <2>4, VerifyStep
  <2>5. CASE Done
    BY <1>1, <2>5 DEF Done
  <2> QED BY <1>2, <2>1, <2>2, <2>3, <2>4, <2>5 DEF Next
<1> QED BY <1>1, <1>2

LEMMA InvHolds == Spec => []Inv
BY InvInit, InvNext, PTL DEF Spec

------------------------------------------------------------------------------
(* The theorems *)

\* What each pattern emits has the length of the list of types it was made of.
LEMMA TypesHoldInv == Inv => TypeOK
<1> SUFFICES ASSUME Inv PROVE TypeOK
  OBVIOUS
<1>1. ASSUME worker # NotYet PROVE Len(worker.params) = Len(box.captures) + Len(box.ins)
  <2>1. worker.params = ConvertTypes(Converter(pass), Params)
    BY <1>1 DEF Inv, Lifted
  <2>2. Params \in Seq(Types) /\ Len(Params) = Len(box.captures) + Len(box.ins)
    BY ConcatFacts DEF Inv, BoxIs, Params
  <2>3. Len(ConvertTypes(Converter(pass), Params)) = Len(Params)
    BY <2>2, ConvertTypesFacts
  <2> QED BY <2>1, <2>2, <2>3
<1> QED BY <1>1 DEF Inv, BoxIs, Justified, TypeOK

\* The types of what is emitted: the worker takes what the region takes, and the
\* verifier is asked only when box, return and call have been converted.
THEOREM TypesHold == Spec => []TypeOK
BY InvHolds, TypesHoldInv, PTL

\* What convert-closure-to-llvm converts, convert-sigi-to-llvm converts alike.
Alike(d) ==
    \A ty \in All(d) : Converter("closure")[ty] # NoType => Converter("sigi")[ty] = Converter("closure")[ty]

LEMMA AlikeNext ==
    ASSUME NEW d \in Depths, d # 0 => Alike(d - 1)
    PROVE  Alike(d)
<1>1. "closure" \in Pass /\ "sigi" \in Pass /\ AllNames \in SUBSET AllNames
  BY DEF Pass
<1> SUFFICES ASSUME NEW ty \in All(d), Converter("closure")[ty] # NoType
             PROVE  Converter("sigi")[ty] = Converter("closure")[ty]
  BY DEF Alike
<1>2. CASE \E name \in AllNames : ty = Leaf(name)
  <2>1. Ptr = Leaf("ptr")
    BY DEF Ptr, Leaf
  <2> QED BY <1>1, <1>2, <2>1, ConvertsLeaf DEF AllNames
<1>3. CASE ~\E name \in AllNames : ty = Leaf(name)
  <2>1. d # 0
    BY <1>3, BottomLevel DEF All
  <2>2. ty[1] = "box"
    BY <1>3, <2>1, LevelFacts, Zenon DEF All, Of
  <2>3. /\ \A n \in DOMAIN ty[2] : ty[2][n] \in All(d - 1)
        /\ \A n \in DOMAIN ty[3] : ty[3][n] \in All(d - 1)
    BY <1>1, <2>2, ComponentsBelow DEF All
  <2>4. ty \in AllTypes
    BY AllReach
  <2>5. ConvertsSignature(Converter("closure"), ty[2], ty[3]) /\ Converter("closure")[ty] = Ptr
    BY <1>1, <2>2, <2>4, ConvertsBox
  <2>6. ConvertsAll(Converter("closure"), ty[2]) /\ ConvertsAll(Converter("closure"), ty[3])
        /\ Packable(Converter("closure"), ty[3])
    BY <2>5 DEF ConvertsSignature
  <2>7. /\ \A n \in DOMAIN ty[2] : Converter("sigi")[ty[2][n]] = Converter("closure")[ty[2][n]]
        /\ \A n \in DOMAIN ty[3] : Converter("sigi")[ty[3][n]] = Converter("closure")[ty[3][n]]
    BY <2>1, <2>3, <2>6 DEF Alike, ConvertsAll
  <2>8. ConvertsAll(Converter("sigi"), ty[2]) /\ ConvertsAll(Converter("sigi"), ty[3])
    BY <2>6, <2>7 DEF ConvertsAll
  <2>9. ConvertTypes(Converter("sigi"), ty[3]) = ConvertTypes(Converter("closure"), ty[3])
    BY <2>7 DEF ConvertTypes
  <2>10. Packable(Converter("sigi"), ty[3])
    BY <2>6, <2>9 DEF Packable
  <2>11. Converter("sigi")[ty] = Ptr
    BY <1>1, <2>2, <2>4, <2>8, <2>10, ConvertsBox DEF ConvertsSignature
  <2> QED BY <2>5, <2>11
<1> QED BY <1>2, <1>3

LEMMA AllAlike == \A d \in Depths : Alike(d)
<1> DEFINE Bad == {d \in Depths : ~Alike(d)}
<1> SUFFICES ASSUME Bad # {} PROVE FALSE
  OBVIOUS
<1> Bad \in SUBSET Nat
  BY BoundAssumption DEF Depths
<1>1. PICK d \in Bad : \A e \in Bad : d <= e
  BY LeastNat
<1>2. d # 0 => Alike(d - 1)
  BY <1>1, BoundAssumption DEF Depths
<1> QED BY <1>1, <1>2, AlikeNext

\* A list that both passes convert, they convert to the same types.
LEMMA ListsAlike ==
    ASSUME NEW p \in Pass, NEW q \in Pass, NEW types \in Seq(Types),
           ConvertsAll(Converter(p), types), ConvertsAll(Converter(q), types)
    PROVE  ConvertTypes(Converter(p), types) = ConvertTypes(Converter(q), types)
<1>1. ASSUME NEW n \in DOMAIN types PROVE Converter(p)[types[n]] = Converter(q)[types[n]]
  <2>1. types[n] \in All(MaxDepth) /\ MaxDepth \in Depths
    BY ElementsOf, TypesLevel DEF All, AllTypes, TypesOver, AllNames
  <2>2. Converter(p)[types[n]] # NoType /\ Converter(q)[types[n]] # NoType
    BY DEF ConvertsAll
  <2> QED BY <2>1, <2>2, AllAlike DEF Alike, Pass
<1> QED BY <1>1 DEF ConvertTypes

\* The indirect call passes what the wrapper takes and expects what it returns,
\* although they are converted apart, in any order and maybe by different passes
\* (ClosureToLLVM.cpp:50-63, 511-535).
THEOREM CallsFit == Spec => []IndirectCallFits
<1>1. ASSUME Inv, verdict = "accepted"
      PROVE  site.args = wrapper.params /\ PackResults(site.results) = wrapper.result
  <2>1. worker # NotYet /\ site # NotYet
    BY <1>1 DEF Inv, Justified
  <2>2. /\ ConvertsAll(Converter(pass), box.ins) /\ ConvertsAll(Converter(pass), box.outs)
        /\ wrapper.params = <<Ptr>> \o ConvertTypes(Converter(pass), box.ins)
        /\ wrapper.result = PackResults(ConvertTypes(Converter(pass), box.outs))
    BY <1>1, <2>1 DEF Inv, Lifted
  <2>3. /\ ConvertsAll(Converter(caller), box.ins) /\ ConvertsAll(Converter(caller), box.outs)
        /\ site.args = <<Ptr>> \o ConvertTypes(Converter(caller), box.ins)
        /\ site.results = ConvertTypes(Converter(caller), box.outs)
    BY <1>1, <2>1 DEF Inv, Called
  <2>4. /\ pass \in Pass /\ caller \in Pass
        /\ box.ins \in Seq(Types) /\ box.outs \in Seq(Types)
    BY <1>1, PassIs DEF Inv, BoxIs
  <2>5. ConvertTypes(Converter(pass), box.ins) = ConvertTypes(Converter(caller), box.ins)
    BY <2>2, <2>3, <2>4, ListsAlike
  <2>6. ConvertTypes(Converter(pass), box.outs) = ConvertTypes(Converter(caller), box.outs)
    BY <2>2, <2>3, <2>4, ListsAlike
  <2> QED BY <2>2, <2>3, <2>5, <2>6
<1>2. Inv => IndirectCallFits
  BY <1>1 DEF IndirectCallFits
<1> QED BY <1>2, InvHolds, PTL

\* What is accepted has only types that are converted, and not to closures.
LEMMA AcceptedLowered ==
    ASSUME Inv, verdict = "accepted", NEW p \in {pass, caller}, NEW ty \in TypesFor(p)
    PROVE  Converter(p)[ty] \in Lowered
<1>1. worker # NotYet /\ site # NotYet /\ Verifies
  BY DEF Inv, Justified
<1>2. /\ ConvertsAll(Converter(pass), box.ins) /\ ConvertsAll(Converter(pass), box.outs)
      /\ ConvertsAll(Converter(pass), box.captures)
      /\ worker.params = ConvertTypes(Converter(pass), Params)
  BY <1>1 DEF Inv, Lifted
<1>3. /\ ConvertsAll(Converter(caller), box.ins) /\ ConvertsAll(Converter(caller), box.outs)
      /\ site.args = <<Ptr>> \o ConvertTypes(Converter(caller), box.ins)
      /\ site.results = ConvertTypes(Converter(caller), box.outs)
  BY <1>1 DEF Inv, Called
<1>4. /\ BoxIs /\ Params \in Seq(Types) /\ p \in Pass /\ pass \in Pass /\ caller \in Pass
      /\ box.ins \in Seq(Types) /\ box.outs \in Seq(Types)
  BY TypesForAre, PassIs DEF Inv, BoxIs
<1>5. ty \in Types /\ ty \in AllTypes
  BY <1>4, TypesForAre, TypesLevel
<1>6. ASSUME Converter(p)[ty] # NoType, IsLLVM(Converter(p)[ty]) PROVE Converter(p)[ty] \in Lowered
  <2>1. MaxDepth \in Depths /\ ty \in All(MaxDepth)
    BY <1>5, TypesLevel DEF All, AllTypes, TypesOver, AllNames
  <2>2. Converter(p)[ty] \in Lowered \/ Converter(p)[ty][1] = "box"
    BY <1>4, <1>6, <2>1, Stays DEF StaysConverted
  <2> QED BY <1>6, <2>2 DEF IsLLVM
<1>7. CASE ty \in Elements(box.outs)
  <2>1. PICK n \in DOMAIN box.outs : ty = box.outs[n]
    BY <1>7 DEF Elements
  <2>2. site.results[n] = Converter(caller)[ty] /\ n \in DOMAIN site.results
    BY <1>3, <1>4, <2>1, ConvertTypesFacts
  <2>3. IsLLVM(Converter(caller)[ty]) /\ Converter(caller)[ty] # NoType /\ Converter(pass)[ty] # NoType
    BY <1>1, <1>2, <1>3, <2>1, <2>2 DEF Verifies, AllLLVM, ConvertsAll
  <2>4. Converter(pass)[ty] = Converter(caller)[ty]
    <3>1. MaxDepth \in Depths /\ ty \in All(MaxDepth)
      BY <1>5, TypesLevel DEF All, AllTypes, TypesOver, AllNames
    <3> QED BY <1>4, <2>3, <3>1, AllAlike DEF Alike, Pass
  <2>5. IsLLVM(Converter(p)[ty]) /\ Converter(p)[ty] # NoType
    BY <2>3, <2>4
  <2> QED BY <1>6, <2>5
<1>8. CASE ty \in Elements(box.captures) \cup Elements(box.ins) /\ p = pass
  <2>1. Elements(Params) = Elements(box.captures) \cup Elements(box.ins)
    BY ConcatElements DEF Inv, BoxIs, Params
  <2>2. PICK n \in DOMAIN Params : ty = Params[n]
    BY <1>8, <2>1 DEF Elements
  <2>3. worker.params[n] = Converter(pass)[ty] /\ n \in DOMAIN worker.params
    BY <1>2, <1>4, <2>2, ConvertTypesFacts
  <2>4. IsLLVM(Converter(pass)[ty])
    BY <1>1, <2>3 DEF Verifies, AllLLVM
  <2>5. Converter(pass)[ty] # NoType
    BY <1>2, <1>8, ConvertsElements
  <2> QED BY <1>6, <1>8, <2>4, <2>5
<1>9. CASE ty \in Elements(box.ins) /\ p = caller
  <2> DEFINE args == ConvertTypes(Converter(caller), box.ins)
             Any == {Ptr} \cup {Converter(caller)[t] : t \in Types}
  <2>1. PICK n \in DOMAIN box.ins : ty = box.ins[n]
    BY <1>9 DEF Elements
  <2>2. args[n] = Converter(caller)[ty] /\ n \in DOMAIN args
    BY <1>4, <2>1, ConvertTypesFacts
  <2>3. \A t \in Types : Converter(caller)[t] \in Any
    OBVIOUS
  <2>4. <<Ptr>> \in Seq(Any)
    <3>1. Ptr \in Any
      OBVIOUS
    <3> HIDE DEF Any
    <3> QED BY <3>1
  <2> HIDE DEF Any
  <2>5. args \in Seq(Any)
    BY <1>4, <2>3, ConvertTypesSeq
  <2> HIDE DEF args
  <2>6. (<<Ptr>> \o args)[Len(<<Ptr>>) + n] = args[n] /\ Len(<<Ptr>>) + n \in DOMAIN (<<Ptr>> \o args)
    BY <2>2, <2>4, <2>5, ConcatFacts
  <2>7. IsLLVM(Converter(caller)[ty])
    BY <1>1, <1>3, <2>2, <2>6 DEF Verifies, AllLLVM, args
  <2>8. Converter(caller)[ty] # NoType
    BY <1>3, <2>1 DEF ConvertsAll
  <2> QED BY <1>6, <1>9, <2>7, <2>8
<1>10. /\ p = pass => ty \in Elements(box.captures) \cup Elements(box.ins) \cup Elements(box.outs)
       /\ p # pass => p = caller /\ ty \in Elements(box.ins) \cup Elements(box.outs)
  BY <1>4, TypesForAre
<1> QED BY <1>7, <1>8, <1>9, <1>10

\* What the verifier rejects has several results or a closure that stays one.
LEMMA RejectedForCause ==
    ASSUME Inv, verdict = "rejected", ~(Len(box.outs) > 1), ~LeftOver
    PROVE  FALSE
<1> DEFINE C == Converter(pass)
           K == Converter(caller)
           ins == ConvertTypes(C, box.ins)
           outs == ConvertTypes(C, box.outs)
<1>1. worker # NotYet /\ returned # NotYet /\ site # NotYet /\ ~Verifies
  BY DEF Inv, Justified
<1>2. /\ ConvertsAll(C, box.ins) /\ ConvertsAll(C, box.outs) /\ ConvertsAll(C, box.captures)
      /\ worker.params = ConvertTypes(C, Params) /\ worker.result = PackResults(outs)
      /\ wrapper.params = <<Ptr>> \o ins /\ wrapper.result = PackResults(outs)
  BY <1>1 DEF Inv, Lifted
<1>3. returned.operands = outs
  BY <1>1 DEF Inv, Returned
<1>5. /\ box.captures \in Seq(Types) /\ box.ins \in Seq(Types) /\ box.outs \in Seq(Types)
      /\ pass \in Pass /\ caller \in Pass /\ BoxIs
  BY PassIs DEF Inv, BoxIs
<1>4. /\ ConvertsAll(K, box.ins) /\ ConvertsAll(K, box.outs)
      /\ site.callee = K[BoxedClosure(box.ins, box.outs)] /\ site.args = <<Ptr>> \o ins /\ site.results = outs
  <2>1. /\ ConvertsAll(K, box.ins) /\ ConvertsAll(K, box.outs)
        /\ site.callee = K[BoxedClosure(box.ins, box.outs)]
        /\ site.args = <<Ptr>> \o ConvertTypes(K, box.ins) /\ site.results = ConvertTypes(K, box.outs)
    BY <1>1 DEF Inv, Called
  <2>2. ConvertTypes(K, box.ins) = ins /\ ConvertTypes(K, box.outs) = outs
    BY <1>2, <1>5, <2>1, ListsAlike
  <2> QED BY <2>1, <2>2
<1>6. /\ TypesFor(pass) = Elements(box.captures) \cup Elements(box.ins) \cup Elements(box.outs)
      /\ TypesFor(pass) \subseteq Types
  BY <1>5, TypesForAre
<1>8. ASSUME NEW ty \in TypesFor(pass) PROVE C[ty] \in Lowered
  <2>1. C[ty] # NoType
    BY <1>2, <1>6, ConvertsElements
  <2>2. C[ty][1] # "box"
    BY DEF LeftOver
  <2>3. MaxDepth \in Depths /\ ty \in All(MaxDepth)
    BY <1>6, TypesLevel DEF All, AllTypes, TypesOver, AllNames
  <2> QED BY <1>5, <2>1, <2>2, <2>3, Stays DEF StaysConverted
<1>10. site.callee = Ptr
  <2>1. Packable(K, box.outs)
    BY <1>5, LenProperties DEF Packable
  <2> QED BY <1>4, <1>5, <2>1, CalleeConverts DEF ConvertsSignature
<1> HIDE DEF C, K
<1> DEFINE ptrs == <<Ptr>>
           captures == ConvertTypes(C, box.captures)
<1>11. ptrs \in Seq(Lowered) /\ Len(ptrs) = 1 /\ Tail(ptrs \o ins) = ins
  <2>1. ptrs \in Seq(Lowered) /\ Len(ptrs) = 1
    BY DEF Lowered
  <2>2. ins \in Seq({C[box.ins[n]] : n \in DOMAIN box.ins})
    <3>1. box.ins \in Seq(Elements(box.ins))
      BY <1>5, SeqOfElements DEF Elements
    <3>2. \A ty \in Elements(box.ins) : C[ty] \in {C[box.ins[n]] : n \in DOMAIN box.ins}
      BY DEF Elements
    <3> QED BY <3>1, <3>2, ConvertTypesSeq
  <2> QED BY <2>1, <2>2
<1>12. /\ captures \in Seq(Lowered) /\ ins \in Seq(Lowered) /\ outs \in Seq(Lowered)
       /\ Len(outs) = Len(box.outs)
  <2>1. /\ box.captures \in Seq(Elements(box.captures))
        /\ box.ins \in Seq(Elements(box.ins))
        /\ box.outs \in Seq(Elements(box.outs))
    BY <1>5, SeqOfElements DEF Elements
  <2>2. /\ \A ty \in Elements(box.captures) : C[ty] \in Lowered
        /\ \A ty \in Elements(box.ins) : C[ty] \in Lowered
        /\ \A ty \in Elements(box.outs) : C[ty] \in Lowered
    BY <1>6, <1>8
  <2> QED BY <1>5, <2>1, <2>2, ConvertTypesSeq, ConvertTypesFacts
<1>13. worker.params = captures \o ins
  <2>1. worker.params = ConvertTypes(C, box.captures \o box.ins)
    BY <1>2 DEF Params
  <2>2. \A s, t \in Seq(Types) : ConvertTypes(C, s \o t) = ConvertTypes(C, s) \o ConvertTypes(C, t)
    BY ConvertTypesConcat
  <2> QED BY <1>5, <2>1, <2>2
<1> HIDE DEF captures, ins, outs, ptrs
<1>14. \A list \in Seq(Lowered) : AllLLVM(list)
  BY ElementsOf, LoweredIsLLVM DEF AllLLVM
<1>15. AllLLVM(captures \o ins) /\ AllLLVM(ptrs \o ins) /\ AllLLVM(outs)
  <2>1. captures \o ins \in Seq(Lowered) /\ ptrs \o ins \in Seq(Lowered)
    BY <1>11, <1>12, ConcatFacts
  <2> QED BY <1>12, <1>14, <2>1
<1>16. IsLLVM(PackResults(outs))
  <2>1. Len(outs) \in Nat /\ Len(outs) <= 1
    BY <1>5, <1>12, LenProperties
  <2>2. CASE outs = <<>>
    <3>1. Len(outs) # 1
      BY <2>2
    <3>2. PackResults(outs) = Void
      BY <2>2, <3>1, Zenon DEF PackResults
    <3> QED BY <3>2 DEF IsLLVM, Void
  <2>3. CASE outs # <<>>
    <3>1. Len(outs) = 1 /\ 1 \in DOMAIN outs
      <4>1. Len(outs) # 0
        BY <1>12, <2>3, EmptySeq
      <4>2. DOMAIN outs = 1 .. Len(outs)
        BY <1>12, LenProperties
      <4> QED BY <2>1, <4>1, <4>2
    <3>2. PackResults(outs) = outs[1]
      BY <2>3, <3>1, Zenon DEF PackResults
    <3> QED BY <1>15, <3>1, <3>2 DEF AllLLVM
  <2> QED BY <2>2, <2>3
<1>17. IsLLVM(site.callee)
  BY <1>10, LoweredIsLLVM DEF Lowered
<1>18. Len(outs) <= 1
  BY <1>5, <1>12, LenProperties
<1>19. Verifies
  BY <1>2, <1>3, <1>4, <1>11, <1>13, <1>15, <1>16, <1>17, <1>18 DEF Verifies, captures, ptrs, C
<1> QED BY <1>1, <1>19

\* Supported closures with at most one result are lowered to code that verifies,
\* whatever the order of the patterns; the other verdicts have a cause each.
THEOREM SupportedIsLowered == Spec => []LowersWhatItSupports
<1>1. ASSUME Inv PROVE LowersWhatItSupports
  <2>1. ASSUME verdict = "accepted", NEW p \in {pass, caller}, NEW ty \in TypesFor(p)
        PROVE  Supported(p, ty) \/ HidesWhatIsInside(p, ty)
    <3>1. Converter(p)[ty] \in Lowered
      BY <1>1, <2>1, AcceptedLowered
    <3>2. ty \in TypesOver(Plain) /\ p \in Pass
      BY <1>1, TypesForAre, TypesLevel, PassIs DEF Inv
    <3>3. NoType \notin Lowered
      BY DEF NoType, Lowered, Ptr, Leaf
    <3>4. CASE p = "closure"
      <4>1. ty \in TypesOver(Names("closure"))
        BY <3>1, <3>2, <3>3, <3>4, ClosureNeedsSupported
      <4>2. Names("closure") = {"i32"}
        BY DEF Names
      <4> QED BY <3>4, <4>1, <4>2 DEF Supported
    <3>5. CASE p = "sigi"
      <4>1. \/ ty \in TypesOver(Names("sigi"))
            \/ /\ ty[1] = "box"
               /\ \A types \in {ty[2], ty[3]} : \A n \in DOMAIN types : types[n] # Leaf("tensor")
        BY <3>1, <3>2, <3>5, SigiNeedsShallow
      <4>2. Names("sigi") = {"i32", "stack"}
        BY DEF Names
      <4> QED BY <3>5, <4>1, <4>2 DEF Supported, HidesWhatIsInside
    <3> QED BY <3>2, <3>4, <3>5 DEF Pass
  <2>2. verdict = "failed" => Unsupported
    BY <1>1 DEF Inv, Justified
  <2>3. verdict = "rejected" => Len(box.outs) > 1 \/ LeftOver
    BY <1>1, RejectedForCause
  <2> QED BY <2>1, <2>2, <2>3 DEF LowersWhatItSupports, Unsupported
<1> QED BY <1>1, InvHolds, PTL

\* A type that has been converted once stays as it is: what is converted again, as
\* the region of a func.func that becomes an llvm.func, changes nothing more.
THEOREM ConversionIsStable == Spec => []ConversionStable
<1>1. ASSUME Inv PROVE ConversionStable
  <2> SUFFICES ASSUME NEW p \in {pass, caller}, NEW ty \in TypesFor(p), Converter(p)[ty] # NoType
               PROVE  Converter(p)[Converter(p)[ty]] = Converter(p)[ty]
    BY DEF ConversionStable
  <2>1. p \in Pass /\ MaxDepth \in Depths /\ ty \in All(MaxDepth)
    BY <1>1, TypesForAre, PassIs, TypesLevel DEF Inv, All, AllTypes, TypesOver, AllNames
  <2> QED BY <2>1, Stays DEF StaysConverted
<1> QED BY <1>1, InvHolds, PTL
==============================================================================
