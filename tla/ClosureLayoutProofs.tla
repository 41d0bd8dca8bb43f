------------------------- MODULE ClosureLayoutProofs -------------------------
(***************************************************************************)
(* Theorems about ClosureLayout: for any boxes, whatever they capture, and *)
(* both pointer sizes, the bytes of the closures behave as the objects of  *)
(* ClosureObjects.                                                         *)
(***************************************************************************)
EXTENDS ClosureLayout, FiniteSetTheorems, SequenceTheorems, WellFoundedInduction, TLAPS

\* Induction over the naturals, as the least counterexample.
LEMMA LeastNat ==
    ASSUME NEW T \in SUBSET Nat, T # {}
    PROVE  \E n \in T : \A m \in T : n <= m
<1>1. IsWellFoundedOn(OpToRel(<, Nat), Nat)
  BY NatLessThanWellFounded
<1>2. PICK x \in T : \A y \in T : ~(<<y, x>> \in OpToRel(<, Nat))
  BY <1>1, WFMin
<1>3. \A m \in T : ~(m < x)
  BY <1>2 DEF OpToRel
<1> QED BY <1>3

------------------------------------------------------------------------------
(* The layout of a struct *)

Sizes == {1, 4, 8}

LEMMA SizeFacts == \A p \in PtrSizes : \A ty : SizeOf(p, ty) \in Sizes
<1> SUFFICES ASSUME NEW p \in PtrSizes, NEW ty PROVE SizeOf(p, ty) \in {1, 4, 8, p}
  BY PointerAssumption DEF Sizes
<1>1. CASE ty = "i8"
  BY <1>1, Zenon DEF SizeOf
<1>2. CASE ty = "i32"
  BY <1>2, Zenon DEF SizeOf
<1>3. CASE ty = "i64"
  BY <1>3, Zenon DEF SizeOf
<1>4. CASE ty \notin {"i8", "i32", "i64"}
  BY <1>4, Zenon DEF SizeOf
<1> QED BY <1>1, <1>2, <1>3, <1>4

LEMMA AlignFacts == \A n \in Nat, a \in Sizes : AlignUp(n, a) \in Nat /\ n <= AlignUp(n, a)
BY DEF AlignUp, Sizes

LEMMA LargestFacts == \A S \in SUBSET Sizes : S # {} => Largest(S) \in Sizes
<1> SUFFICES ASSUME NEW S \in SUBSET Sizes, S # {} PROVE \E x \in S : \A y \in S : y <= x
  BY DEF Largest
<1>1. 8 \in S \/ (8 \notin S /\ 4 \in S) \/ S = {1}
  BY DEF Sizes
<1> QED BY <1>1 DEF Sizes

\* Where field n is, given the fields before it.
NextOffset(p, types, f, n) ==
    IF n = 1 THEN 0 ELSE AlignUp(f[n - 1] + SizeOf(p, types[n - 1]), SizeOf(p, types[n]))

\* The first k fields have a place each.
Placed(p, types, k) ==
    \E f \in [1 .. k -> Nat] : \A n \in 1 .. k : f[n] = NextOffset(p, types, f, n)

LEMMA NextOffsetIsNat ==
    ASSUME NEW p \in PtrSizes, NEW types, NEW f, NEW n, n = 1 \/ f[n - 1] \in Nat
    PROVE  NextOffset(p, types, f, n) \in Nat
<1>1. CASE n = 1
  BY <1>1 DEF NextOffset
<1>2. CASE n # 1
  <2>1. SizeOf(p, types[n - 1]) \in Sizes /\ SizeOf(p, types[n]) \in Sizes
    BY SizeFacts
  <2>2. f[n - 1] + SizeOf(p, types[n - 1]) \in Nat
    BY <1>2, <2>1 DEF Sizes
  <2> QED BY <1>2, <2>1, <2>2, AlignFacts DEF NextOffset
<1> QED BY <1>1, <1>2

LEMMA PlacedNext ==
    ASSUME NEW p \in PtrSizes, NEW types, NEW k \in Nat, Placed(p, types, k)
    PROVE  Placed(p, types, k + 1)
<1>1. PICK f \in [1 .. k -> Nat] : \A n \in 1 .. k : f[n] = NextOffset(p, types, f, n)
  BY DEF Placed
<1> DEFINE g == [n \in 1 .. k + 1 |-> IF n = k + 1 THEN NextOffset(p, types, f, n) ELSE f[n]]
<1>2. NextOffset(p, types, f, k + 1) \in Nat
  <2>1. k + 1 = 1 \/ f[(k + 1) - 1] \in Nat
    BY <1>1
  <2> QED BY <2>1, NextOffsetIsNat
<1>3. g \in [1 .. k + 1 -> Nat]
  BY <1>1, <1>2
<1>4. ASSUME NEW n \in 1 .. k + 1 PROVE g[n] = NextOffset(p, types, g, n)
  <2>1. n # 1 => n - 1 \in 1 .. k /\ n - 1 \in 1 .. k + 1 /\ n - 1 # k + 1
    OBVIOUS
  <2>2. n # 1 => g[n - 1] = f[n - 1]
    BY <2>1
  <2>3. NextOffset(p, types, g, n) = NextOffset(p, types, f, n)
    BY <2>2 DEF NextOffset
  <2>4. n # k + 1 => g[n] = f[n] /\ n \in 1 .. k
    OBVIOUS
  <2> QED BY <1>1, <2>3, <2>4
<1> QED BY <1>3, <1>4 DEF Placed

LEMMA AllPlaced == ASSUME NEW p \in PtrSizes, NEW types PROVE \A k \in Nat : Placed(p, types, k)
<1> DEFINE Bad == {k \in Nat : ~Placed(p, types, k)}
<1> SUFFICES ASSUME Bad # {} PROVE FALSE
  OBVIOUS
<1> Bad \in SUBSET Nat
  OBVIOUS
<1>1. PICK k \in Bad : \A j \in Bad : k <= j
  BY LeastNat
<1>2. k # 0
  <2> DEFINE f == [n \in 1 .. 0 |-> 0]
  <2>1. f \in [1 .. 0 -> Nat] /\ \A n \in 1 .. 0 : f[n] = NextOffset(p, types, f, n)
    OBVIOUS
  <2> HIDE DEF f
  <2>2. Placed(p, types, 0)
    BY <2>1, Zenon DEF Placed
  <2> QED BY <2>2
<1>3. Placed(p, types, k - 1) /\ k - 1 \in Nat
  BY <1>1, <1>2
<1>4. Placed(p, types, (k - 1) + 1)
  BY <1>3, PlacedNext
<1> QED BY <1>1, <1>4

\* The recursive definition of the offsets defines them.
LEMMA OffsetsDefined ==
    ASSUME NEW p \in PtrSizes, NEW S, NEW types \in Seq(S)
    PROVE  /\ Offsets(p, types) \in [DOMAIN types -> Nat]
           /\ \A n \in DOMAIN types : Offsets(p, types)[n] = NextOffset(p, types, Offsets(p, types), n)
<1>1. Len(types) \in Nat /\ DOMAIN types = 1 .. Len(types)
  BY LenProperties
<1> Placed(p, types, Len(types))
  BY <1>1, AllPlaced
<1>2. PICK f \in [DOMAIN types -> Nat] : \A n \in DOMAIN types : f[n] = NextOffset(p, types, f, n)
  BY <1>1, Zenon DEF Placed
<1>3. f = [n \in DOMAIN types |-> NextOffset(p, types, f, n)]
  BY <1>2
<1>4. Offsets(p, types) = [n \in DOMAIN types |-> NextOffset(p, types, Offsets(p, types), n)]
  BY <1>3 DEF Offsets, NextOffset
<1>5. ASSUME NEW n \in DOMAIN types PROVE Offsets(p, types)[n] = NextOffset(p, types, Offsets(p, types), n)
  BY <1>4, Zenon
<1> DEFINE Bad == {n \in 1 .. Len(types) : Offsets(p, types)[n] \notin Nat}
<1>6. Bad = {}
  <2> SUFFICES ASSUME Bad # {} PROVE FALSE
    OBVIOUS
  <2> Bad \in SUBSET Nat
    BY <1>1
  <2>1. PICK n \in Bad : \A m \in Bad : n <= m
    BY LeastNat
  <2>2. n = 1 \/ Offsets(p, types)[n - 1] \in Nat
    BY <1>1, <2>1
  <2> QED BY <1>1, <1>5, <2>1, <2>2, NextOffsetIsNat
<1> QED BY <1>1, <1>4, <1>5, <1>6

\* A field starts after the field before it, and so after all before it.
LEMMA OffsetsGrow ==
    ASSUME NEW p \in PtrSizes, NEW S, NEW types \in Seq(S), NEW m \in DOMAIN types, NEW n \in DOMAIN types, m < n
    PROVE  Offsets(p, types)[m] + SizeOf(p, types[m]) <= Offsets(p, types)[n]
<1> DEFINE off == Offsets(p, types)
           size(i) == SizeOf(p, types[i])
<1>1. Len(types) \in Nat /\ DOMAIN types = 1 .. Len(types)
  BY LenProperties
<1>2. off \in [DOMAIN types -> Nat]
  BY OffsetsDefined, Zenon
<1>3. ASSUME NEW j \in DOMAIN types, j # 1 PROVE off[j - 1] + size(j - 1) <= off[j]
  <2>1. off[j] = NextOffset(p, types, off, j)
    BY OffsetsDefined, Zenon
  <2>2. off[j] = AlignUp(off[j - 1] + size(j - 1), size(j))
    BY <1>3, <2>1 DEF NextOffset
  <2>3. size(j - 1) \in Sizes /\ size(j) \in Sizes
    BY SizeFacts
  <2>4. off[j - 1] + size(j - 1) \in Nat
    BY <1>1, <1>2, <1>3, <2>3 DEF Sizes
  <2> QED BY <2>2, <2>3, <2>4, AlignFacts
<1>4. \A j \in DOMAIN types : size(j) \in Nat /\ off[j] \in Nat
  BY <1>2, SizeFacts DEF Sizes
<1> DEFINE Bad == {j \in 1 .. Len(types) : m < j /\ ~(off[m] + size(m) <= off[j])}
<1> HIDE DEF off, size
<1>5. Bad = {}
  <2> SUFFICES ASSUME Bad # {} PROVE FALSE
    OBVIOUS
  <2> Bad \in SUBSET Nat
    BY <1>1
  <2>1. PICK j \in Bad : \A i \in Bad : j <= i
    BY LeastNat
  <2>2. j \in DOMAIN types /\ j # 1 /\ m < j /\ j - 1 \in DOMAIN types
    BY <1>1, <2>1
  <2>3. j - 1 \notin Bad /\ off[j - 1] + size(j - 1) <= off[j]
    BY <1>3, <2>1, <2>2
  <2>4. m = j - 1 \/ off[m] + size(m) <= off[j - 1]
    BY <1>1, <2>2, <2>3
  <2>5. ~(off[m] + size(m) <= off[j])
    BY <2>1
  <2>6. /\ off[m] \in Nat /\ size(m) \in Nat /\ off[j] \in Nat
        /\ off[j - 1] \in Nat /\ size(j - 1) \in Nat
    BY <1>4, <2>2
  <2> HIDE DEF Bad
  <2>7. CASE m = j - 1
    BY <2>3, <2>5, <2>7
  <2>8. CASE off[m] + size(m) <= off[j - 1]
    BY <2>3, <2>5, <2>6, <2>8
  <2> QED BY <2>4, <2>7, <2>8
<1> QED BY <1>1, <1>5 DEF off, size

\* The end of a struct is behind all of its fields, and its alignment one of the sizes.
LEMMA EndFacts ==
    ASSUME NEW p \in PtrSizes, NEW S, NEW types \in Seq(S)
    PROVE  /\ EndOf(p, types) \in Nat
           /\ \A n \in DOMAIN types : Offsets(p, types)[n] + SizeOf(p, types[n]) <= EndOf(p, types)
<1>1. Len(types) \in Nat /\ DOMAIN types = 1 .. Len(types) /\ (types = <<>> <=> Len(types) = 0)
  BY LenProperties, EmptySeq
<1>2. \A n \in DOMAIN types : Offsets(p, types)[n] \in Nat /\ SizeOf(p, types[n]) \in Nat
  BY OffsetsDefined, SizeFacts DEF Sizes
<1>3. CASE types = <<>>
  BY <1>1, <1>3 DEF EndOf
<1>4. CASE types # <<>>
  <2>1. Len(types) \in DOMAIN types
    BY <1>1, <1>4
  <2>2. EndOf(p, types) = Offsets(p, types)[Len(types)] + SizeOf(p, types[Len(types)])
    BY <1>4 DEF EndOf
  <2>3. ASSUME NEW n \in DOMAIN types PROVE Offsets(p, types)[n] + SizeOf(p, types[n]) <= EndOf(p, types)
    <3>1. CASE n = Len(types)
      BY <1>2, <2>1, <2>2, <3>1
    <3>2. CASE n # Len(types)
      <4>1. n < Len(types)
        BY <1>1, <3>2
      <4>2. Offsets(p, types)[n] + SizeOf(p, types[n]) <= Offsets(p, types)[Len(types)]
        BY <2>1, <4>1, OffsetsGrow
      <4> QED BY <1>2, <2>1, <2>2, <4>2
    <3> QED BY <3>1, <3>2
  <2> QED BY <1>2, <2>1, <2>2, <2>3
<1> QED BY <1>3, <1>4

LEMMA StructFacts ==
    ASSUME NEW p \in PtrSizes, NEW S, NEW types \in Seq(S)
    PROVE  /\ AlignOf(p, types) \in Sizes
           /\ StructSize(p, types) \in Nat
           /\ EndOf(p, types) <= StructSize(p, types)
<1>1. {1} \cup {SizeOf(p, types[n]) : n \in DOMAIN types} \in SUBSET Sizes
  BY SizeFacts DEF Sizes
<1>2. AlignOf(p, types) \in Sizes
  BY <1>1, LargestFacts DEF AlignOf
<1> QED BY <1>2, EndFacts, AlignFacts DEF StructSize

\* The header: pointer, count, pointer, where C has them as well.
LEMMA HeaderFacts ==
    ASSUME NEW p \in PtrSizes
    PROVE  /\ Offsets(p, Header)[1] = 0
           /\ Offsets(p, Header)[2] = p
           /\ Offsets(p, Header)[3] = 2 * p
           /\ EndOf(p, Header) = 3 * p
           /\ AlignUp(p + 4, p) = 2 * p
<1>1. /\ Header \in Seq({"ptr", "i32"}) /\ DOMAIN Header = 1 .. 3 /\ Len(Header) = 3 /\ Header # <<>>
      /\ Header[1] = "ptr" /\ Header[2] = "i32" /\ Header[3] = "ptr"
  <2>1. Len(Header) = 3 /\ Header[1] = "ptr" /\ Header[2] = "i32" /\ Header[3] = "ptr"
    BY DEF Header
  <2>2. Header \in Seq({"ptr", "i32"})
    BY DEF Header
  <2>3. DOMAIN Header = 1 .. 3
    BY <2>1, <2>2, LenProperties
  <2>4. Header # <<>>
    BY DEF Header
  <2> QED BY <2>1, <2>2, <2>3, <2>4
<1>2. SizeOf(p, "ptr") = p /\ SizeOf(p, "i32") = 4
  BY Zenon DEF SizeOf
<1>3. p \in {4, 8}
  BY PointerAssumption
<1>4. \A n \in 1 .. 3 : Offsets(p, Header)[n] = NextOffset(p, Header, Offsets(p, Header), n)
  BY <1>1, OffsetsDefined
<1>5. Offsets(p, Header)[1] = 0
  BY <1>4 DEF NextOffset
<1>6. Offsets(p, Header)[2] = AlignUp(0 + p, 4)
  BY <1>1, <1>2, <1>4, <1>5 DEF NextOffset
<1>7. AlignUp(0 + p, 4) = p
  BY <1>3 DEF AlignUp
<1>8. Offsets(p, Header)[3] = AlignUp(p + 4, p)
  BY <1>1, <1>2, <1>4, <1>6, <1>7 DEF NextOffset
<1>9. AlignUp(p + 4, p) = 2 * p
  BY <1>3 DEF AlignUp
<1>10. EndOf(p, Header) = 2 * p + p
  BY <1>1, <1>2, <1>8, <1>9 DEF EndOf
<1> QED BY <1>3, <1>5, <1>6, <1>7, <1>8, <1>9, <1>10

LEMMA FullFacts ==
    ASSUME NEW p \in PtrSizes, NEW b \in Boxes
    PROVE  /\ FieldOffset(p, b, 0) = 0 /\ FieldOffset(p, b, 1) = p /\ FieldOffset(p, b, 2) = 2 * p
           /\ FieldOffset(p, b, 3) \in Nat /\ 3 * p <= FieldOffset(p, b, 3)
           /\ StructSize(p, b.captures) \in Nat
           /\ FullSize(p, b) \in Nat
           /\ FieldOffset(p, b, 3) + StructSize(p, b.captures) <= FullSize(p, b)
           /\ FullSize(p, b) <= Chunk
<1>1. p \in {4, 8} /\ b.captures \in Seq(STRING)
  BY PointerAssumption, BoxAssumption
<1>2. FieldOffset(p, b, 0) = 0 /\ FieldOffset(p, b, 1) = p /\ FieldOffset(p, b, 2) = 2 * p
  BY HeaderFacts DEF FieldOffset
<1>3. AlignOf(p, b.captures) \in Sizes /\ StructSize(p, b.captures) \in Nat
  BY <1>1, StructFacts
<1>4. FieldOffset(p, b, 3) = AlignUp(3 * p, AlignOf(p, b.captures))
  BY HeaderFacts DEF FieldOffset
<1>5. FieldOffset(p, b, 3) \in Nat /\ 3 * p <= FieldOffset(p, b, 3)
  BY <1>1, <1>3, <1>4, AlignFacts
<1>6. Largest({p, AlignOf(p, b.captures)}) \in Sizes
  BY <1>1, <1>3, LargestFacts DEF Sizes
<1>7. FieldOffset(p, b, 3) + StructSize(p, b.captures) \in Nat
  BY <1>3, <1>5
<1>8. FullSize(p, b) \in Nat /\ FieldOffset(p, b, 3) + StructSize(p, b.captures) <= FullSize(p, b)
  BY <1>6, <1>7, AlignFacts DEF FullSize
<1> QED BY <1>2, <1>3, <1>5, <1>8, ChunkAssumption

------------------------------------------------------------------------------
(* The cells of a closure: function -2, count -1, drop function 0, capture n *)

Roles(b) == {-2, -1, 0} \cup DOMAIN b.captures

CellAt(p, b, i) ==
    IF i = -2 THEN 0 ELSE IF i = -1 THEN p ELSE IF i = 0 THEN 2 * p
    ELSE FieldOffset(p, b, 3) + Offsets(p, b.captures)[i]
CellSize(p, b, i) == IF i = -1 THEN 4 ELSE IF i \in {-2, 0} THEN p ELSE SizeOf(p, b.captures[i])
CellValue(b, count, fields, i) ==
    IF i = -2 THEN Wrapper(b) ELSE IF i = -1 THEN <<"count", count>> ELSE IF i = 0 THEN DropFunction(b)
    ELSE fields[i]

\* What Layout says, by cells.
LEMMA LayoutFacts ==
    ASSUME NEW p \in PtrSizes, NEW b \in Boxes
    PROVE  /\ DOMAIN b.captures = 1 .. Len(b.captures) /\ Len(b.captures) \in Nat
           /\ Layout[p][b].fields[0] = CellAt(p, b, -2)
           /\ Layout[p][b].fields[1] = CellAt(p, b, -1)
           /\ Layout[p][b].fields[2] = CellAt(p, b, 0)
           /\ \A n \in DOMAIN b.captures :
                  /\ Layout[p][b].captures[n] = CellAt(p, b, n)
                  /\ Layout[p][b].loads[n] = CellAt(p, b, n)
                  /\ CellSize(p, b, n) = SizeOf(p, b.captures[n])
           /\ Layout[p][b].size = FullSize(p, b)
           /\ Layout[p][b].struct.at \in Nat /\ Layout[p][b].struct.size \in Nat
           /\ Layout[p][b].struct.at + Layout[p][b].struct.size <= FullSize(p, b)
<1>1. DOMAIN b.captures = 1 .. Len(b.captures) /\ Len(b.captures) \in Nat
  BY BoxAssumption, LenProperties
<1>2. Layout[p][b] = [fields |-> [i \in 0 .. 2 |-> FieldOffset(p, b, i)],
               captures |-> [n \in DOMAIN b.captures |-> FieldOffset(p, b, 3) + Offsets(p, b.captures)[n]],
               loads |-> [n \in DOMAIN b.captures |-> FieldOffset(p, b, 3) + Offsets(p, b.captures)[n]],
               struct |-> [at |-> FieldOffset(p, b, 3), size |-> StructSize(p, b.captures)],
               size |-> FullSize(p, b)]
  BY DEF Layout, CapturesField
<1>3. /\ Layout[p][b].fields = [i \in 0 .. 2 |-> FieldOffset(p, b, i)]
      /\ Layout[p][b].captures = [n \in DOMAIN b.captures |-> FieldOffset(p, b, 3) + Offsets(p, b.captures)[n]]
      /\ Layout[p][b].loads = [n \in DOMAIN b.captures |-> FieldOffset(p, b, 3) + Offsets(p, b.captures)[n]]
      /\ Layout[p][b].struct.at = FieldOffset(p, b, 3)
      /\ Layout[p][b].struct.size = StructSize(p, b.captures)
      /\ Layout[p][b].size = FullSize(p, b)
  BY <1>2
<1>4. /\ FieldOffset(p, b, 0) = CellAt(p, b, -2)
      /\ FieldOffset(p, b, 1) = CellAt(p, b, -1)
      /\ FieldOffset(p, b, 2) = CellAt(p, b, 0)
  BY FullFacts DEF CellAt
<1>5. \A n \in DOMAIN b.captures : /\ CellAt(p, b, n) = FieldOffset(p, b, 3) + Offsets(p, b.captures)[n]
                                   /\ CellSize(p, b, n) = SizeOf(p, b.captures[n])
  BY <1>1 DEF CellAt, CellSize
<1>6. /\ Layout[p][b].fields[0] = CellAt(p, b, -2)
      /\ Layout[p][b].fields[1] = CellAt(p, b, -1)
      /\ Layout[p][b].fields[2] = CellAt(p, b, 0)
  BY <1>3, <1>4
<1>7. \A n \in DOMAIN b.captures : /\ Layout[p][b].captures[n] = CellAt(p, b, n)
                                   /\ Layout[p][b].loads[n] = CellAt(p, b, n)
  BY <1>3, <1>5
<1> QED BY <1>1, <1>3, <1>5, <1>6, <1>7, FullFacts

\* The cells lie in the allocation, one after the other.
LEMMA CellFacts ==
    ASSUME NEW p \in PtrSizes, NEW b \in Boxes
    PROVE  /\ \A i \in Roles(b) : /\ CellAt(p, b, i) \in Nat /\ CellSize(p, b, i) \in Nat
                                  /\ CellSize(p, b, i) >= 1
                                  /\ CellAt(p, b, i) + CellSize(p, b, i) <= FullSize(p, b)
           /\ \A i, j \in Roles(b) : i < j => CellAt(p, b, i) + CellSize(p, b, i) <= CellAt(p, b, j)
<1> DEFINE D == DOMAIN b.captures
           full == FullSize(p, b)
           start == FieldOffset(p, b, 3)
<1>1. D = 1 .. Len(b.captures) /\ Len(b.captures) \in Nat /\ b.captures \in Seq(STRING)
  BY LayoutFacts, BoxAssumption
<1>2. /\ start \in Nat /\ 3 * p <= start /\ StructSize(p, b.captures) \in Nat /\ full \in Nat
      /\ start + StructSize(p, b.captures) <= full
  BY FullFacts
<1>3. p \in {4, 8}
  BY PointerAssumption
<1>4. /\ CellAt(p, b, -2) = 0 /\ CellSize(p, b, -2) = p
      /\ CellAt(p, b, -1) = p /\ CellSize(p, b, -1) = 4
      /\ CellAt(p, b, 0) = 2 * p /\ CellSize(p, b, 0) = p
  BY DEF CellAt, CellSize
<1>5. ASSUME NEW n \in D
      PROVE  /\ CellAt(p, b, n) = start + Offsets(p, b.captures)[n]
             /\ CellSize(p, b, n) = SizeOf(p, b.captures[n])
             /\ Offsets(p, b.captures)[n] \in Nat
             /\ SizeOf(p, b.captures[n]) \in Nat /\ SizeOf(p, b.captures[n]) >= 1
             /\ Offsets(p, b.captures)[n] + SizeOf(p, b.captures[n]) <= StructSize(p, b.captures)
  <2>1. CellAt(p, b, n) = start + Offsets(p, b.captures)[n] /\ CellSize(p, b, n) = SizeOf(p, b.captures[n])
    BY <1>1 DEF CellAt, CellSize
  <2>2. SizeOf(p, b.captures[n]) \in Nat /\ SizeOf(p, b.captures[n]) >= 1
    BY SizeFacts DEF Sizes
  <2>3. Offsets(p, b.captures)[n] \in Nat
    BY <1>1, OffsetsDefined
  <2>4. /\ Offsets(p, b.captures)[n] + SizeOf(p, b.captures[n]) <= EndOf(p, b.captures)
        /\ EndOf(p, b.captures) \in Nat /\ EndOf(p, b.captures) <= StructSize(p, b.captures)
    BY <1>1, EndFacts, StructFacts
  <2> QED BY <1>2, <2>1, <2>2, <2>3, <2>4
<1>6. ASSUME NEW m \in D, NEW n \in D, m < n
      PROVE  Offsets(p, b.captures)[m] + SizeOf(p, b.captures[m]) <= Offsets(p, b.captures)[n]
  BY <1>1, <1>6, OffsetsGrow
<1> HIDE DEF D, full, start
<1>7. ASSUME NEW i \in Roles(b)
      PROVE  /\ CellAt(p, b, i) \in Nat /\ CellSize(p, b, i) \in Nat /\ CellSize(p, b, i) >= 1
             /\ CellAt(p, b, i) + CellSize(p, b, i) <= full
  <2>1. i \in {-2, -1, 0} \/ i \in D
    BY DEF Roles, D
  <2>2. CASE i \in {-2, -1, 0}
    BY <1>2, <1>3, <1>4, <2>2
  <2>3. CASE i \in D
    BY <1>2, <1>5, <2>3
  <2> QED BY <2>1, <2>2, <2>3
<1>8. ASSUME NEW i \in Roles(b), NEW j \in Roles(b), i < j
      PROVE  CellAt(p, b, i) + CellSize(p, b, i) <= CellAt(p, b, j)
  <2>1. (i \in {-2, -1, 0} \/ i \in D) /\ (j \in {-2, -1, 0} \/ j \in D)
    BY DEF Roles, D
  <2>2. CASE i \in {-2, -1, 0} /\ j \in {-2, -1, 0}
    BY <1>3, <1>4, <1>8, <2>2
  <2>3. CASE i \in {-2, -1, 0} /\ j \in D
    <3>1. CellAt(p, b, j) = start + Offsets(p, b.captures)[j] /\ Offsets(p, b.captures)[j] \in Nat
      BY <1>5, <2>3
    <3> QED BY <1>2, <1>3, <1>4, <2>3, <3>1
  <2>4. CASE i \in D /\ j \in D
    BY <1>2, <1>5, <1>6, <1>8, <2>4
  <2>5. ~(i \in D /\ j \in {-2, -1, 0})
    BY <1>1, <1>8
  <2> QED BY <2>1, <2>2, <2>3, <2>4, <2>5
<1> QED BY <1>7, <1>8 DEF full

------------------------------------------------------------------------------
(* The heap *)

\* Where malloc allocates next: an address, or the end.
Places == {k * Chunk : k \in 0 .. MaxObjs}

LEMMA Multiples ==
    ASSUME NEW c \in Nat, NEW k \in Nat, NEW m \in Nat
    PROVE  /\ k * c \in Nat /\ (k + 1) * c = k * c + c
           /\ k <= m => k * c <= m * c
           /\ k * c < m * c => k < m
<1>1. k * c \in Nat /\ m * c \in Nat /\ (k + 1) * c = k * c + c
  OBVIOUS
<1>2. ASSUME NEW i \in Nat, NEW j \in Nat, i <= j PROVE i * c <= j * c
  <2>1. PICK d \in Nat : j = i + d
    BY <1>2
  <2>2. j * c = i * c + d * c /\ d * c \in Nat /\ i * c \in Nat
    BY <2>1
  <2> QED BY <2>2
<1>3. k * c < m * c => k < m
  <2>1. m <= k => m * c <= k * c
    BY <1>2
  <2> QED BY <1>1, <2>1
<1> QED BY <1>1, <1>2, <1>3

LEMMA PlaceFacts ==
    /\ Addresses \subseteq Places
    /\ \A n \in Places : n \in Nat /\ n <= MaxObjs * Chunk
    /\ \A m, n \in Places : m < n => m + Chunk <= n
    /\ \A n \in Places : n < MaxObjs * Chunk => n \in Addresses /\ n + Chunk \in Places
    /\ 0 \in Places
<1>1. MaxObjs \in Nat /\ Chunk \in Nat
  BY BoundAssumption
<1>2. Addresses \subseteq Places
  BY <1>1 DEF Addresses, Places
<1>3. ASSUME NEW n \in Places PROVE n \in Nat /\ n <= MaxObjs * Chunk
  <2>1. PICK k \in 0 .. MaxObjs : n = k * Chunk
    BY DEF Places
  <2>2. k \in Nat /\ k <= MaxObjs
    BY <1>1
  <2> QED BY <1>1, <2>1, <2>2, Multiples
<1>4. ASSUME NEW m \in Places, NEW n \in Places, m < n PROVE m + Chunk <= n
  <2>1. PICK k \in 0 .. MaxObjs : m = k * Chunk
    BY DEF Places
  <2>2. PICK l \in 0 .. MaxObjs : n = l * Chunk
    BY DEF Places
  <2>3. k \in Nat /\ l \in Nat /\ k + 1 \in Nat
    BY <1>1
  <2>4. k < l
    BY <1>1, <1>4, <2>1, <2>2, <2>3, Multiples
  <2>5. k + 1 <= l
    BY <2>3, <2>4
  <2>6. (k + 1) * Chunk <= l * Chunk
    BY <1>1, <2>3, <2>5, Multiples
  <2>7. (k + 1) * Chunk = k * Chunk + Chunk
    BY <1>1, <2>3, Multiples
  <2> QED BY <2>1, <2>2, <2>6, <2>7
<1>5. ASSUME NEW n \in Places, n < MaxObjs * Chunk PROVE n \in Addresses /\ n + Chunk \in Places
  <2>1. PICK k \in 0 .. MaxObjs : n = k * Chunk
    BY DEF Places
  <2>2. k \in Nat
    BY <1>1
  <2>3. k < MaxObjs
    BY <1>1, <1>5, <2>1, <2>2, Multiples
  <2>4. k \in 0 .. MaxObjs - 1 /\ k + 1 \in 0 .. MaxObjs
    BY <1>1, <2>2, <2>3
  <2>5. n + Chunk = (k + 1) * Chunk
    BY <1>1, <2>1, <2>2, Multiples
  <2>6. n \in Addresses
    BY <2>1, <2>4 DEF Addresses
  <2>7. n + Chunk \in Places
    BY <2>4, <2>5, Zenon DEF Places
  <2> QED BY <2>6, <2>7
<1>6. 0 \in Places
  <2>1. 0 \in 0 .. MaxObjs /\ 0 = 0 * Chunk
    BY <1>1
  <2> QED BY <2>1, Zenon DEF Places
<1> QED BY <1>2, <1>3, <1>4, <1>5, <1>6

\* A cell of the closure at a: a box, a count and fields.
Cell(p, a, b, count, fields, i) ==
    Store(a + CellAt(p, b, i), CellSize(p, b, i), CellValue(b, count, fields, i))

\* The closures of a heap, each with its box, a count and fields.
Closures(box) == DOMAIN box \subseteq Addresses /\ \A a \in DOMAIN box : box[a] \in Boxes
Heap(p, box, count, fields) ==
    UNION {{Cell(p, a, box[a], count[a], fields[a], i) : i \in Roles(box[a])} : a \in DOMAIN box}

LEMMA HeapCells ==
    ASSUME NEW p, NEW box, NEW count, NEW fields
    PROVE  /\ \A c \in Heap(p, box, count, fields) : \E a \in DOMAIN box : \E i \in Roles(box[a]) :
                  c = Cell(p, a, box[a], count[a], fields[a], i)
           /\ \A a \in DOMAIN box : \A i \in Roles(box[a]) :
                  Cell(p, a, box[a], count[a], fields[a], i) \in Heap(p, box, count, fields)
<1>1. ASSUME NEW c \in Heap(p, box, count, fields)
      PROVE  \E a \in DOMAIN box : \E i \in Roles(box[a]) : c = Cell(p, a, box[a], count[a], fields[a], i)
  BY DEF Heap
<1>2. ASSUME NEW a \in DOMAIN box, NEW i \in Roles(box[a])
      PROVE  Cell(p, a, box[a], count[a], fields[a], i) \in Heap(p, box, count, fields)
  BY DEF Heap
<1> QED BY <1>1, <1>2

LEMMA StoreFacts ==
    \A at, size, v : /\ Store(at, size, v).at = at /\ Store(at, size, v).size = size /\ Store(at, size, v).v = v
                     /\ Bytes(at, size).at = at /\ Bytes(at, size).size = size
BY DEF Store, Bytes

\* Two numbers that are what the arithmetic below is about.
LEMMA Apart ==
    ASSUME NEW x \in Nat, NEW m \in Nat, NEW y \in Nat, NEW n \in Nat, m >= 1, n >= 1
    PROVE  /\ x + m <= y => ~(y < x + m /\ x < y + n)
           /\ x = y => y < x + m /\ x < y + n
OBVIOUS

\* Cells of a heap overlap only if they are the same.
LEMMA CellsApart ==
    ASSUME NEW p \in PtrSizes, NEW box, Closures(box),
           NEW a \in DOMAIN box, NEW i \in Roles(box[a]), NEW c \in DOMAIN box, NEW j \in Roles(box[c]),
           NEW k, NEW l, NEW f, NEW g,
           Overlap(Cell(p, a, box[a], k, f, i), Cell(p, c, box[c], l, g, j))
    PROVE  a = c /\ i = j
<1> DEFINE x == a + CellAt(p, box[a], i)
           m == CellSize(p, box[a], i)
           y == c + CellAt(p, box[c], j)
           n == CellSize(p, box[c], j)
<1>1. /\ box[a] \in Boxes /\ box[c] \in Boxes /\ a \in Places /\ c \in Places /\ a \in Nat /\ c \in Nat
      /\ Chunk \in Nat
  BY PlaceFacts, BoundAssumption DEF Closures
<1>2. /\ CellAt(p, box[a], i) \in Nat /\ m \in Nat /\ m >= 1 /\ CellAt(p, box[a], i) + m <= Chunk
      /\ CellAt(p, box[c], j) \in Nat /\ n \in Nat /\ n >= 1 /\ CellAt(p, box[c], j) + n <= Chunk
  <2>1. \A b \in Boxes : FullSize(p, b) \in Nat /\ FullSize(p, b) <= Chunk
    BY FullFacts
  <2> QED BY <1>1, <2>1, CellFacts
<1>3. x < y + n /\ y < x + m
  BY StoreFacts DEF Overlap, Cell
<1>4. a = c
  <2>1. ~(a < c)
    <3>1. a < c => a + Chunk <= c
      BY <1>1, PlaceFacts
    <3> QED BY <1>1, <1>2, <1>3, <3>1
  <2>2. ~(c < a)
    <3>1. c < a => c + Chunk <= a
      BY <1>1, PlaceFacts
    <3> QED BY <1>1, <1>2, <1>3, <3>1
  <2> QED BY <1>1, <2>1, <2>2
<1>5. i \in Int /\ j \in Int
  <2>1. \A b \in Boxes : Roles(b) \subseteq Int
    BY LayoutFacts DEF Roles
  <2> QED BY <1>1, <2>1
<1>6. ~(i < j)
  <2>1. i < j => CellAt(p, box[a], i) + m <= CellAt(p, box[a], j)
    BY <1>1, <1>4, CellFacts
  <2> QED BY <1>1, <1>2, <1>3, <1>4, <2>1
<1>7. ~(j < i)
  <2>1. j < i => CellAt(p, box[a], j) + n <= CellAt(p, box[a], i)
    BY <1>1, <1>4, CellFacts
  <2> QED BY <1>1, <1>2, <1>3, <1>4, <2>1
<1> QED BY <1>4, <1>5, <1>6, <1>7

\* A load of a cell gives what the cell holds.
LEMMA Loads ==
    ASSUME NEW box, NEW count, NEW fields, ptrSize \in PtrSizes, Closures(box),
           mem = Heap(ptrSize, box, count, fields),
           NEW a \in DOMAIN box, NEW i \in Roles(box[a])
    PROVE  Load(a + CellAt(ptrSize, box[a], i), CellSize(ptrSize, box[a], i))
              = CellValue(box[a], count[a], fields[a], i)
<1> DEFINE at == a + CellAt(ptrSize, box[a], i)
           size == CellSize(ptrSize, box[a], i)
           cell == Cell(ptrSize, a, box[a], count[a], fields[a], i)
           cells == {c \in mem : c.at = at /\ c.size = size}
<1>1. cell.at = at /\ cell.size = size /\ cell.v = CellValue(box[a], count[a], fields[a], i)
  BY StoreFacts DEF Cell
<1>2. cell \in mem
  BY HeapCells
<1>3. at \in Nat /\ size \in Nat /\ size >= 1
  <2>1. a \in Nat /\ box[a] \in Boxes
    BY PlaceFacts DEF Closures
  <2> QED BY <2>1, CellFacts
<1>4. ASSUME NEW c \in cells PROVE c = cell
  <2>1. PICK x \in DOMAIN box : \E j \in Roles(box[x]) : c = Cell(ptrSize, x, box[x], count[x], fields[x], j)
    BY HeapCells
  <2>2. PICK j \in Roles(box[x]) : c = Cell(ptrSize, x, box[x], count[x], fields[x], j)
    BY <2>1
  <2>3. Overlap(cell, c)
    <3> HIDE DEF cell, at, size
    <3> QED BY <1>1, <1>3, Apart DEF Overlap
  <2>4. a = x /\ i = j
    BY <2>2, <2>3, CellsApart
  <2> QED BY <2>2, <2>4
<1>5. cells = {cell}
  <2> HIDE DEF cell, at, size
  <2> QED BY <1>1, <1>2, <1>4
<1>6. Load(at, size) = (CHOOSE c \in cells : TRUE).v
  <2> HIDE DEF cell
  <2> QED BY <1>5 DEF Load
<1>7. (CHOOSE c \in cells : TRUE) = cell
  <2> HIDE DEF cell, cells
  <2> QED BY <1>5
<1> QED BY <1>1, <1>6, <1>7

\* What is stored over a heap leaves the heap it should.
LEMMA StoredIs ==
    ASSUME NEW new, NEW stores \in SUBSET new,
           \A c \in new : c \in mem \/ c \in stores,
           \A c, d \in new : Overlap(c, d) => c = d,
           \A c \in mem : c \in new \/ \E s \in stores : Overlap(c, s)
    PROVE  Stored(stores) = new
BY DEF Stored

\* The whole of a heap: no two of its cells overlap.
LEMMA HeapApart ==
    ASSUME NEW p \in PtrSizes, NEW box, Closures(box), NEW count, NEW fields,
           NEW c \in Heap(p, box, count, fields), NEW d \in Heap(p, box, count, fields), Overlap(c, d)
    PROVE  c = d
<1>1. PICK a \in DOMAIN box : \E i \in Roles(box[a]) : c = Cell(p, a, box[a], count[a], fields[a], i)
  BY HeapCells
<1>2. PICK i \in Roles(box[a]) : c = Cell(p, a, box[a], count[a], fields[a], i)
  BY <1>1
<1>3. PICK x \in DOMAIN box : \E j \in Roles(box[x]) : d = Cell(p, x, box[x], count[x], fields[x], j)
  BY HeapCells
<1>4. PICK j \in Roles(box[x]) : d = Cell(p, x, box[x], count[x], fields[x], j)
  BY <1>3
<1> QED BY <1>2, <1>4, CellsApart, Zenon

\* Counts are stored over a heap, for a set of closures.
LEMMA CountsStored ==
    ASSUME NEW box, NEW count, NEW fields, ptrSize \in PtrSizes, Closures(box),
           mem = Heap(ptrSize, box, count, fields),
           NEW new, NEW X \in SUBSET DOMAIN box, \A a \in DOMAIN box \ X : new[a] = count[a]
    PROVE  Stored({Store(a + ptrSize, 4, <<"count", new[a]>>) : a \in X}) = Heap(ptrSize, box, new, fields)
<1> DEFINE H == Heap(ptrSize, box, new, fields)
           old(a, i) == Cell(ptrSize, a, box[a], count[a], fields[a], i)
           now(a, i) == Cell(ptrSize, a, box[a], new[a], fields[a], i)
           S == {Store(a + ptrSize, 4, <<"count", new[a]>>) : a \in X}
<1>1. \A a \in DOMAIN box : -1 \in Roles(box[a]) /\ Store(a + ptrSize, 4, <<"count", new[a]>>) = now(a, -1)
  BY DEF Roles, Cell, CellAt, CellSize, CellValue
<1>2. S = {now(a, -1) : a \in X}
  BY <1>1
<1>3. \A a \in DOMAIN box : \A i \in Roles(box[a]) : i = -1 \/ now(a, i) = old(a, i)
  BY DEF Cell, CellValue
<1>4. \A a \in DOMAIN box \ X : \A i \in Roles(box[a]) : now(a, i) = old(a, i)
  OBVIOUS
<1>5. \A a \in DOMAIN box : Overlap(old(a, -1), now(a, -1))
  <2> SUFFICES ASSUME NEW a \in DOMAIN box PROVE Overlap(old(a, -1), now(a, -1))
    OBVIOUS
  <2>1. a \in Nat /\ ptrSize \in Nat
    BY PlaceFacts, PointerAssumption DEF Closures
  <2>2. /\ old(a, -1).at = a + ptrSize /\ old(a, -1).size = 4
        /\ now(a, -1).at = a + ptrSize /\ now(a, -1).size = 4
    BY StoreFacts DEF Cell, CellAt, CellSize
  <2> HIDE DEF old, now
  <2> QED BY <2>1, <2>2 DEF Overlap
<1>6. \A a \in DOMAIN box : \A i \in Roles(box[a]) : old(a, i) \in mem /\ now(a, i) \in H
  BY HeapCells
<1>7. \A c \in H : \E a \in DOMAIN box : \E i \in Roles(box[a]) : c = now(a, i)
  BY HeapCells
<1>8. \A c \in mem : \E a \in DOMAIN box : \E i \in Roles(box[a]) : c = old(a, i)
  BY HeapCells
<1>9. \A c, d \in H : Overlap(c, d) => c = d
  BY HeapApart
<1> HIDE DEF H, S, old, now
<1>10. S \in SUBSET H
  BY <1>1, <1>2, <1>6
<1>11. \A c \in H : c \in mem \/ c \in S
  BY <1>2, <1>3, <1>4, <1>6, <1>7
<1>12. \A c \in mem : c \in H \/ \E s \in S : Overlap(c, s)
  BY <1>2, <1>3, <1>4, <1>5, <1>6, <1>8
<1>13. Stored(S) = H
  BY <1>9, <1>10, <1>11, <1>12, StoredIs, Zenon
<1> QED BY <1>13 DEF S, H

------------------------------------------------------------------------------
(* The order of releases *)

\* InOrder enumerates a set: it is a sequence over the set.
LEMMA InOrderFacts ==
    ASSUME NEW S \in SUBSET Nat, IsFiniteSet(S)
    PROVE  InOrder(S) \in Seq(S)
<1> DEFINE Below(i) == {j \in S : j < i}
           rank == [i \in S |-> Cardinality(Below(i)) + 1]
           N == Cardinality(S)
<1>1. N \in Nat
  BY FS_CardinalityType
<1>2. ASSUME NEW i \in S
      PROVE  IsFiniteSet(Below(i)) /\ Cardinality(Below(i)) \in Nat /\ Cardinality(Below(i)) + 1 \in 1 .. N
  <2>1. Below(i) \subseteq S /\ i \in S \ Below(i)
    OBVIOUS
  <2>2. IsFiniteSet(Below(i)) /\ Cardinality(Below(i)) <= N /\ Cardinality(Below(i)) \in Nat
    BY <2>1, FS_Subset, FS_CardinalityType
  <2>3. Cardinality(Below(i)) # N
    BY <2>1, FS_Subset
  <2> HIDE DEF Below
  <2> QED BY <1>1, <2>2, <2>3
<1>3. ASSUME NEW i \in S, NEW j \in S, i < j PROVE Cardinality(Below(i)) < Cardinality(Below(j))
  <2>0. i \in Nat /\ j \in Nat /\ \A x \in S : x \in Nat
    OBVIOUS
  <2>1. \A x \in S : x < i => x < j
    BY <1>3, <2>0
  <2>2. Below(i) \subseteq Below(j)
    BY <2>1
  <2>3. i \in Below(j) /\ i \notin Below(i)
    BY <1>3, <2>0
  <2>4. IsFiniteSet(Below(j)) /\ Cardinality(Below(i)) \in Nat /\ Cardinality(Below(j)) \in Nat
    BY <1>2
  <2> HIDE DEF Below
  <2>5. Cardinality(Below(i)) <= Cardinality(Below(j)) /\ Cardinality(Below(i)) # Cardinality(Below(j))
    BY <2>2, <2>3, <2>4, FS_Subset
  <2> QED BY <2>4, <2>5
<1>4. rank \in [S -> 1 .. N]
  BY <1>2
<1>5. ASSUME NEW i \in S, NEW j \in S, rank[i] = rank[j] PROVE i = j
  <2>1. Cardinality(Below(i)) + 1 = Cardinality(Below(j)) + 1
    BY <1>5
  <2>2. Cardinality(Below(i)) \in Nat /\ Cardinality(Below(j)) \in Nat
    BY <1>2
  <2>3. i \in Nat /\ j \in Nat
    OBVIOUS
  <2> HIDE DEF Below, rank
  <2>4. Cardinality(Below(i)) = Cardinality(Below(j))
    BY <2>1, <2>2
  <2>5. ~(i < j) /\ ~(j < i)
    BY <1>3, <2>2, <2>4
  <2> QED BY <2>3, <2>5
<1>6. \A n \in 1 .. N : \E i \in S : rank[i] = n
  <2> DEFINE Ranks == {rank[i] : i \in S}
  <2>1. rank \in Bijection(S, Ranks)
    BY <1>4, <1>5 DEF Bijection, Injection, Surjection, IsInjective
  <2>2. Cardinality(Ranks) = N
    <3> HIDE DEF rank, Ranks
    <3> QED BY <2>1, FS_Bijection DEF ExistsBijection
  <2>3. Ranks \subseteq 1 .. N
    BY <1>4
  <2>4. IsFiniteSet(1 .. N) /\ Cardinality(1 .. N) = N
    BY <1>1, FS_Interval
  <2>5. Ranks = 1 .. N
    <3> HIDE DEF rank, Ranks
    <3> QED BY <2>2, <2>3, <2>4, FS_Subset
  <2> QED BY <2>5
<1>7. ASSUME NEW n \in 1 .. N PROVE InOrder(S)[n] \in S
  <2>1. PICK i \in S : rank[i] = n
    BY <1>6
  <2>2. Cardinality(Below(i)) \in Nat /\ rank[i] = Cardinality(Below(i)) + 1
    BY <1>2
  <2>3. Cardinality(Below(i)) = n - 1
    <3> HIDE DEF Below, rank
    <3> QED BY <2>1, <2>2
  <2>4. InOrder(S)[n] = CHOOSE j \in S : Cardinality(Below(j)) = n - 1
    BY DEF InOrder
  <2> HIDE DEF Below, rank
  <2> QED BY <2>3, <2>4
<1>8. DOMAIN InOrder(S) = 1 .. N /\ InOrder(S) = [n \in 1 .. N |-> InOrder(S)[n]]
  <2> DEFINE nth(n) == CHOOSE i \in S : Cardinality({j \in S : j < i}) = n - 1
  <2>1. InOrder(S) = [n \in 1 .. N |-> nth(n)]
    BY DEF InOrder
  <2> HIDE DEF nth
  <2> QED BY <2>1
<1> QED BY <1>1, <1>7, <1>8

\* The abstract specification has its own copy of FiniteSets.
LEMMA SameCardinality == \A S : Objects!Cardinality(S) = Cardinality(S)
BY DEF Objects!Cardinality, Cardinality

LEMMA SameOrder == \A S : Objects!InOrder(S) = InOrder(S)
BY DEF Objects!InOrder, InOrder, Objects!Cardinality, Cardinality

\* The numbers of captured closures, and what it takes to release them.
LEMMA ReleasesFacts ==
    ASSUME NEW b \in Boxes, NEW vals \in ValuesFor(b, Addresses)
    PROVE  /\ ClosureCaptures(b) = {n \in DOMAIN vals : vals[n][1] = "closure"}
           /\ DOMAIN vals = DOMAIN b.captures
           /\ Objects!Releases(vals) \in Seq({"release", "free"} \X Addresses)
           /\ ClosureCaptures(b) = {} => Objects!Releases(vals) = <<>>
           /\ Objects!Releases(vals) = [n \in DOMAIN InOrder(ClosureCaptures(b)) |->
                                           <<"release", vals[InOrder(ClosureCaptures(b))[n]][2]>>]
<1> DEFINE S == ClosureCaptures(b)
           refs == InOrder(S)
<1>1. /\ vals \in [DOMAIN b.captures -> {ClosureRef(a) : a \in Addresses} \cup {Scalar(s) : s \in Scalars}]
      /\ \A n \in DOMAIN vals : vals[n][1] = "closure" <=> n \in S
  BY DEF ValuesFor
<1>2. DOMAIN vals = DOMAIN b.captures /\ S \subseteq DOMAIN b.captures
  BY <1>1 DEF ClosureCaptures
<1>3. S = {n \in DOMAIN vals : vals[n][1] = "closure"}
  BY <1>1, <1>2
<1>4. IsFiniteSet(S) /\ S \in SUBSET Nat
  <2>1. b.captures \in Seq(STRING)
    BY BoxAssumption
  <2>2. DOMAIN b.captures = 1 .. Len(b.captures) /\ Len(b.captures) \in Nat
    BY <2>1, LenProperties
  <2>3. IsFiniteSet(DOMAIN b.captures)
    <3>1. \A n \in Nat : IsFiniteSet(1 .. n)
      BY FS_Interval
    <3> QED BY <2>2, <3>1
  <2>4. S \in SUBSET Nat
    BY <1>2, <2>2
  <2> QED BY <1>2, <2>3, <2>4, FS_Subset
<1>5. refs \in Seq(S)
  BY <1>4, InOrderFacts
<1>6. Objects!Releases(vals) = [n \in DOMAIN refs |-> <<"release", vals[refs[n]][2]>>]
  <2>1. Objects!InOrder(S) = refs
    BY SameOrder
  <2> HIDE DEF S, refs
  <2> QED BY <1>3, <2>1 DEF Objects!Releases
<1>7. DOMAIN refs = 1 .. Len(refs) /\ Len(refs) \in Nat /\ \A n \in DOMAIN refs : refs[n] \in S
  BY <1>5, LenProperties, ElementOfSeq
<1>8. ASSUME NEW n \in S PROVE vals[n][2] \in Addresses
  <2>1. vals[n] \in {ClosureRef(a) : a \in Addresses} \cup {Scalar(s) : s \in Scalars} /\ vals[n][1] = "closure"
    BY <1>1, <1>2
  <2>2. \A s : Scalar(s)[1] # "closure"
    BY DEF Scalar
  <2>3. PICK a \in Addresses : vals[n] = ClosureRef(a)
    BY <2>1, <2>2
  <2> QED BY <2>3 DEF ClosureRef
<1> HIDE DEF S, refs
<1>9. Objects!Releases(vals) \in Seq({"release", "free"} \X Addresses)
  <2>1. \A n \in 1 .. Len(refs) : <<"release", vals[refs[n]][2]>> \in {"release", "free"} \X Addresses
    BY <1>7, <1>8
  <2> QED BY <1>6, <1>7, <2>1
<1>10. S = {} => Objects!Releases(vals) = <<>>
  <2> SUFFICES ASSUME S = {} PROVE Objects!Releases(vals) = <<>>
    OBVIOUS
  <2>1. DOMAIN refs = {}
    BY <1>7
  <2>2. Objects!Releases(vals) \in Seq({"release", "free"} \X Addresses) /\ DOMAIN Objects!Releases(vals) = {}
    BY <1>6, <1>9, <2>1
  <2>3. Len(Objects!Releases(vals)) = 0
    BY <2>2, LenProperties
  <2> QED BY <2>2, <2>3, EmptySeq
<1> QED BY <1>2, <1>3, <1>6, <1>9, <1>10 DEF S, refs

------------------------------------------------------------------------------
(* The invariant *)

\* Memory holds these closures, each with its box, its count and its fields, and
\* nothing else; allocations are what the boxes ask for, unless malloc got the
\* undefined size, which the first store shows.
MemoryIs(box, count, fields) ==
    /\ ptrSize \in PtrSizes
    /\ Closures(box) /\ DOMAIN box = DOMAIN allocs
    /\ \A a \in DOMAIN allocs : count[a] \in Int /\ fields[a] \in ValuesFor(box[a], Addresses)
    /\ mem = Heap(ptrSize, box, count, fields)
    /\ wild \in BOOLEAN
    /\ ~wild => \A a \in DOMAIN allocs : allocs[a] = FullSize(ptrSize, box[a])
    /\ \A a \in DOMAIN allocs : allocs[a] \in {0, FullSize(ptrSize, box[a])}
    /\ wild => \E a \in DOMAIN allocs : allocs[a] = 0
    /\ next \in Places /\ \A a \in DOMAIN allocs : a < next
    /\ DOMAIN held = DOMAIN allocs /\ \A a \in DOMAIN held : held[a] \in 0 .. MaxHeld
    /\ pending \in Seq({"release", "free"} \X Addresses)

Holds == \E box, count, fields : MemoryIs(box, count, fields)

\* The closures as the abstract specification has them.
ObjectsOf(box, count, fields) ==
    [a \in DOMAIN box |-> [box |-> box[a].name, count |-> count[a], fields |-> fields[a]]]

ReadsBack(box, count, fields) ==
    [a \in DOMAIN allocs |-> ObjectAt(a)] = ObjectsOf(box, count, fields)

BoundsOf(r, live) == \E a \in DOMAIN live : a <= r.at /\ r.at + r.size <= a + live[a]

\* What loads give, by the field.
LEMMA LoadsOf ==
    ASSUME NEW box, NEW count, NEW fields, MemoryIs(box, count, fields), NEW a \in DOMAIN allocs
    PROVE  /\ Load(a, ptrSize) = Wrapper(box[a])
           /\ CountOf(a) = <<"count", count[a]>>
           /\ Load(a + CDrop, ptrSize) = DropFunction(box[a])
           /\ LoadCaptures(a, box[a]) = fields[a]
           /\ box[a] \in Boxes /\ a \in Nat /\ a \in Addresses
<1>1. /\ ptrSize \in PtrSizes /\ Closures(box) /\ a \in DOMAIN box /\ box[a] \in Boxes /\ ptrSize \in Nat
      /\ a \in Nat /\ a \in Addresses /\ mem = Heap(ptrSize, box, count, fields)
  BY PlaceFacts, PointerAssumption DEF MemoryIs, Closures
<1>2. \A i \in Roles(box[a]) : Load(a + CellAt(ptrSize, box[a], i), CellSize(ptrSize, box[a], i))
                                 = CellValue(box[a], count[a], fields[a], i)
  BY <1>1, Loads
<1>3. -2 \in Roles(box[a]) /\ -1 \in Roles(box[a]) /\ 0 \in Roles(box[a])
  BY DEF Roles
<1>4. Load(a, ptrSize) = Wrapper(box[a])
  <2>1. /\ CellAt(ptrSize, box[a], -2) = 0 /\ CellSize(ptrSize, box[a], -2) = ptrSize
        /\ CellValue(box[a], count[a], fields[a], -2) = Wrapper(box[a]) /\ a + 0 = a
    BY <1>1 DEF CellAt, CellSize, CellValue
  <2> QED BY <1>2, <1>3, <2>1
<1>5. CountOf(a) = <<"count", count[a]>>
  <2>1. /\ CellAt(ptrSize, box[a], -1) = ptrSize /\ CellSize(ptrSize, box[a], -1) = 4
        /\ CellValue(box[a], count[a], fields[a], -1) = <<"count", count[a]>>
    BY DEF CellAt, CellSize, CellValue
  <2> QED BY <1>2, <1>3, <2>1 DEF CountOf, CRefcount
<1>6. Load(a + CDrop, ptrSize) = DropFunction(box[a])
  <2>1. /\ CellAt(ptrSize, box[a], 0) = 2 * ptrSize /\ CellSize(ptrSize, box[a], 0) = ptrSize
        /\ CellValue(box[a], count[a], fields[a], 0) = DropFunction(box[a])
    BY DEF CellAt, CellSize, CellValue
  <2>2. CDrop = 2 * ptrSize
    BY <1>1, HeaderFacts DEF CDrop, CRefcount
  <2> QED BY <1>2, <1>3, <2>1, <2>2
<1>7. LoadCaptures(a, box[a]) = fields[a]
  <2>1. fields[a] \in ValuesFor(box[a], Addresses)
    BY DEF MemoryIs
  <2>2. fields[a] = [n \in DOMAIN box[a].captures |-> fields[a][n]]
    BY <2>1 DEF ValuesFor
  <2>3. ASSUME NEW n \in DOMAIN box[a].captures
        PROVE  Load(a + Layout[ptrSize][box[a]].loads[n], SizeOf(ptrSize, box[a].captures[n])) = fields[a][n]
    <3>1. /\ Layout[ptrSize][box[a]].loads[n] = CellAt(ptrSize, box[a], n)
          /\ CellSize(ptrSize, box[a], n) = SizeOf(ptrSize, box[a].captures[n])
          /\ DOMAIN box[a].captures = 1 .. Len(box[a].captures) /\ Len(box[a].captures) \in Nat
      BY <1>1, LayoutFacts
    <3>2. n \in Roles(box[a]) /\ CellValue(box[a], count[a], fields[a], n) = fields[a][n]
      BY <3>1 DEF Roles, CellValue
    <3> QED BY <1>2, <3>1, <3>2
  <2>4. LoadCaptures(a, box[a])
           = [n \in DOMAIN box[a].captures |->
                 Load(a + Layout[ptrSize][box[a]].loads[n], SizeOf(ptrSize, box[a].captures[n]))]
    BY DEF LoadCaptures
  <2> QED BY <2>2, <2>3, <2>4
<1> QED BY <1>1, <1>4, <1>5, <1>6, <1>7

\* Every box is found by its name.
LEMMA BoxNamedFacts == \A b \in Boxes : BoxNamed(b.name) = b
BY BoxAssumption DEF BoxNamed

LEMMA ReadsBackHolds ==
    ASSUME NEW box, NEW count, NEW fields, MemoryIs(box, count, fields)
    PROVE  ReadsBack(box, count, fields)
<1>1. ASSUME NEW a \in DOMAIN allocs
      PROVE  ObjectAt(a) = [box |-> box[a].name, count |-> count[a], fields |-> fields[a]]
  <2>1. /\ Load(a, ptrSize) = Wrapper(box[a]) /\ CountOf(a) = <<"count", count[a]>>
        /\ LoadCaptures(a, box[a]) = fields[a] /\ box[a] \in Boxes
    BY LoadsOf
  <2>2. Load(a, ptrSize)[2] = box[a].name /\ CountOf(a)[2] = count[a]
    BY <2>1 DEF Wrapper
  <2>3. BoxNamed(Load(a, ptrSize)[2]) = box[a]
    BY <2>1, <2>2, BoxNamedFacts
  <2> QED BY <2>1, <2>2, <2>3 DEF ObjectAt
<1>2. DOMAIN box = DOMAIN allocs
  BY DEF MemoryIs
<1> QED BY <1>1, <1>2 DEF ReadsBack, ObjectsOf

AllRead == \A box, count, fields : MemoryIs(box, count, fields) => ReadsBack(box, count, fields)

LEMMA AllReadHolds == AllRead
BY ReadsBackHolds DEF AllRead

\* What is accessed of a closure lies in its allocation.
LEMMA BoundsFacts ==
    ASSUME NEW box, NEW count, NEW fields, MemoryIs(box, count, fields), ~wild, NEW a \in DOMAIN allocs
    PROVE  /\ BoundsOf(CountBytes(a), allocs)
           /\ BoundsOf(Bytes(a, ptrSize), allocs)
           /\ BoundsOf(Bytes(a + CDrop, ptrSize), allocs)
           /\ BoundsOf(CaptureBytes(a, box[a]), allocs)
<1> DEFINE b == box[a]
           p == ptrSize
<1>1. /\ p \in PtrSizes /\ p \in Nat /\ b \in Boxes /\ a \in Nat /\ allocs[a] = FullSize(p, b)
  <2>1. b \in Boxes /\ a \in Nat
    BY LoadsOf
  <2>2. p \in PtrSizes /\ allocs[a] = FullSize(p, b)
    BY DEF MemoryIs
  <2> QED BY <2>1, <2>2, PointerAssumption
<1>2. /\ FullSize(p, b) \in Nat /\ 3 * p <= FullSize(p, b)
      /\ Layout[p][b].struct.at \in Nat /\ Layout[p][b].struct.size \in Nat
      /\ Layout[p][b].struct.at + Layout[p][b].struct.size <= FullSize(p, b)
  <2> HIDE DEF b, p
  <2>1. FullSize(p, b) \in Nat
    BY <1>1, FullFacts
  <2>2. 3 * p <= FullSize(p, b)
    <3>1. /\ FieldOffset(p, b, 3) \in Nat /\ 3 * p <= FieldOffset(p, b, 3)
          /\ StructSize(p, b.captures) \in Nat
          /\ FieldOffset(p, b, 3) + StructSize(p, b.captures) <= FullSize(p, b)
      BY <1>1, FullFacts
    <3> QED BY <1>1, <2>1, <3>1
  <2>3. /\ Layout[p][b].struct.at \in Nat /\ Layout[p][b].struct.size \in Nat
        /\ Layout[p][b].struct.at + Layout[p][b].struct.size <= FullSize(p, b)
    BY <1>1, LayoutFacts
  <2> QED BY <2>1, <2>2, <2>3
<1>3. p + 4 <= 3 * p /\ CDrop = 2 * p
  <2>1. p \in {4, 8}
    BY <1>1, PointerAssumption
  <2> QED BY <1>1, <2>1, HeaderFacts DEF CDrop, CRefcount
<1>4. BoundsOf(CountBytes(a), allocs)
  BY <1>1, <1>2, <1>3, StoreFacts DEF BoundsOf, CountBytes, CRefcount
<1>5. BoundsOf(Bytes(a, p), allocs)
  BY <1>1, <1>2, <1>3, StoreFacts DEF BoundsOf
<1>6. BoundsOf(Bytes(a + CDrop, p), allocs)
  BY <1>1, <1>2, <1>3, StoreFacts DEF BoundsOf
<1>7. BoundsOf(CaptureBytes(a, b), allocs)
  <2>1. CaptureBytes(a, b) = Bytes(a + Layout[p][b].struct.at, Layout[p][b].struct.size)
    BY DEF CaptureBytes
  <2>2. /\ CaptureBytes(a, b).at = a + Layout[p][b].struct.at
        /\ CaptureBytes(a, b).size = Layout[p][b].struct.size
    BY <2>1, StoreFacts
  <2> HIDE DEF b, p
  <2>3. /\ a <= CaptureBytes(a, b).at
        /\ CaptureBytes(a, b).at + CaptureBytes(a, b).size <= a + allocs[a]
    BY <1>1, <1>2, <2>2
  <2> QED BY <2>3 DEF BoundsOf
<1> QED BY <1>4, <1>5, <1>6, <1>7

\* A drop of a closure, as the abstract specification has it.
DropIs(fields, a, n) == IF n = 0 THEN Objects!Releases(fields) \o <<<<"free", a>>>> ELSE <<>>

LEMMA DropFacts ==
    ASSUME NEW box, NEW count, NEW fields, MemoryIs(box, count, fields), ~wild, NEW a \in DOMAIN allocs, NEW n \in Int
    PROVE  /\ Dropped(a, <<"count", n>>) = DropIs(fields[a], a, n)
           /\ DropIs(fields[a], a, n) \in Seq({"release", "free"} \X Addresses)
           /\ \A r \in DropBytes(a, <<"count", n>>) : BoundsOf(r, allocs)
<1> DEFINE b == box[a]
<1>1. /\ Load(a + CDrop, ptrSize) = DropFunction(b) /\ LoadCaptures(a, b) = fields[a]
      /\ b \in Boxes /\ a \in Addresses
  BY LoadsOf
<1>2. fields[a] \in ValuesFor(b, Addresses)
  BY DEF MemoryIs
<1>3. /\ Objects!Releases(fields[a]) \in Seq({"release", "free"} \X Addresses)
      /\ ClosureCaptures(b) = {} => Objects!Releases(fields[a]) = <<>>
      /\ Objects!Releases(fields[a]) = [k \in DOMAIN InOrder(ClosureCaptures(b)) |->
                                           <<"release", fields[a][InOrder(ClosureCaptures(b))[k]][2]>>]
  BY <1>1, <1>2, ReleasesFacts
<1>4. Releases(a, b) = Objects!Releases(fields[a])
  BY <1>1, <1>3 DEF Releases
<1>5. n = 0 <=> <<"count", n>> = <<"count", 0>>
  OBVIOUS
<1>6. /\ DropFunction(b)[1] = "drop"
      /\ DropFunction(b)[2] = "closure_drop_nothing" <=> ClosureCaptures(b) = {}
      /\ ClosureCaptures(b) # {} => DropFunction(b) = <<"drop", b.name>>
  BY <1>1, BoxAssumption DEF DropFunction
<1>7. ClosureCaptures(b) # {} => BoxNamed(DropFunction(b)[2]) = b
  BY <1>1, <1>6, BoxNamedFacts
<1> HIDE DEF b
<1>8. Dropped(a, <<"count", n>>) = DropIs(fields[a], a, n)
  <2>1. CASE n # 0
    BY <1>5, <2>1 DEF Dropped, DropIs
  <2>2. CASE n = 0
    <3>1. Dropped(a, <<"count", n>>)
             = (IF DropFunction(b)[2] = "closure_drop_nothing" THEN <<>>
                ELSE Releases(a, BoxNamed(DropFunction(b)[2]))) \o <<<<"free", a>>>>
      BY <1>1, <1>5, <1>6, <2>2 DEF Dropped
    <3>2. (IF DropFunction(b)[2] = "closure_drop_nothing" THEN <<>>
                ELSE Releases(a, BoxNamed(DropFunction(b)[2]))) = Objects!Releases(fields[a])
      BY <1>3, <1>4, <1>6, <1>7
    <3> QED BY <2>2, <3>1, <3>2 DEF DropIs
  <2> QED BY <2>1, <2>2
<1>9. DropIs(fields[a], a, n) \in Seq({"release", "free"} \X Addresses)
  <2>1. <<<<"free", a>>>> \in Seq({"release", "free"} \X Addresses)
    BY <1>1
  <2>2. Objects!Releases(fields[a]) \o <<<<"free", a>>>> \in Seq({"release", "free"} \X Addresses)
    BY <1>3, <2>1, ConcatProperties
  <2>3. <<>> \in Seq({"release", "free"} \X Addresses)
    BY EmptySeq
  <2> QED BY <2>2, <2>3 DEF DropIs
<1>10. ASSUME NEW r \in DropBytes(a, <<"count", n>>) PROVE BoundsOf(r, allocs)
  <2>1. r = Bytes(a + CDrop, ptrSize) \/ \E c \in Boxes : r = CaptureBytes(a, c) /\ DropFunction(b) = <<"drop", c.name>>
    <3>1. DropBytes(a, <<"count", n>>) \subseteq {Bytes(a + CDrop, ptrSize)}
                 \cup {CaptureBytes(a, c) : c \in {c \in Boxes : DropFunction(b) = <<"drop", c.name>>}}
      BY <1>1 DEF DropBytes
    <3> QED BY <3>1
  <2>2. ASSUME NEW c \in Boxes, DropFunction(b) = <<"drop", c.name>> PROVE c = b
    <3>1. c.name # "closure_drop_nothing"
      BY BoxAssumption
    <3>2. ClosureCaptures(b) # {}
      BY <1>6, <2>2, <3>1
    <3>3. c.name = b.name
      BY <1>6, <2>2, <3>2
    <3> QED BY <1>1, <3>3, BoxAssumption
  <2>3. BoundsOf(Bytes(a + CDrop, ptrSize), allocs) /\ BoundsOf(CaptureBytes(a, b), allocs)
    BY BoundsFacts DEF b
  <2> QED BY <2>1, <2>2, <2>3
<1> QED BY <1>8, <1>9, <1>10

------------------------------------------------------------------------------
(* The steps *)

\* One count is changed.
CountAdded(count, A, a, n) == [x \in A |-> IF x = a THEN count[x] + n ELSE count[x]]

LEMMA AddOne ==
    ASSUME NEW box, NEW count, NEW fields, NEW a \in DOMAIN box, NEW n
    PROVE  [ObjectsOf(box, count, fields) EXCEPT ![a] = Objects!Add(@, n)]
              = ObjectsOf(box, CountAdded(count, DOMAIN box, a, n), fields)
BY DEF ObjectsOf, CountAdded, Objects!Add

\* The memory after a change of one count.
LEMMA CountStored ==
    ASSUME NEW box, NEW count, NEW fields, MemoryIs(box, count, fields), NEW a \in DOMAIN allocs, NEW n \in Int
    PROVE  /\ Stored({StoreCount(a, n)})
                 = Heap(ptrSize, box, CountAdded(count, DOMAIN allocs, a, n), fields)
           /\ AddTo(CountOf(a), n) = <<"count", count[a] + n>>
<1> DEFINE new == CountAdded(count, DOMAIN allocs, a, n)
<1>1. ptrSize \in PtrSizes /\ Closures(box) /\ mem = Heap(ptrSize, box, count, fields) /\ DOMAIN box = DOMAIN allocs
  BY DEF MemoryIs
<1>2. CountOf(a) = <<"count", count[a]>>
  BY LoadsOf
<1>3. AddTo(CountOf(a), n) = <<"count", count[a] + n>>
  BY <1>2 DEF AddTo
<1>4. new[a] = count[a] + n /\ \A x \in DOMAIN box \ {a} : new[x] = count[x]
  BY <1>1 DEF CountAdded
<1>5. {StoreCount(a, n)} = {Store(x + ptrSize, 4, <<"count", new[x]>>) : x \in {a}}
  <2> HIDE DEF new
  <2> QED BY <1>3, <1>4 DEF StoreCount, CRefcount
<1>6. Stored({Store(x + ptrSize, 4, <<"count", new[x]>>) : x \in {a}}) = Heap(ptrSize, box, new, fields)
  <2> HIDE DEF new
  <2>1. {a} \in SUBSET DOMAIN box
    BY <1>1
  <2>2. \A X \in SUBSET DOMAIN box : (\A x \in DOMAIN box \ X : new[x] = count[x])
           => Stored({Store(x + ptrSize, 4, <<"count", new[x]>>) : x \in X}) = Heap(ptrSize, box, new, fields)
    BY <1>1, CountsStored
  <2> QED BY <1>4, <2>1, <2>2
<1> QED BY <1>3, <1>5, <1>6

LEMMA CountStep ==
    ASSUME NEW box, NEW count, NEW fields, MemoryIs(box, count, fields), AllRead', NEW a \in DOMAIN allocs,
           NEW n \in {1, -1},
           Running, Access({CountBytes(a)}, allocs), mem' = Stored({StoreCount(a, n)}),
           held[a] + n \in 0 .. MaxHeld, held' = [held EXCEPT ![a] = @ + n], seen' = NoCall,
           UNCHANGED <<ptrSize, allocs, next, pending>>
    PROVE  Holds' /\ Objects!Count(a, n)
<1>0. PICK new : new = CountAdded(count, DOMAIN allocs, a, n)
  OBVIOUS
<1>1. ~wild /\ wild' = FALSE
  <2>0. ~wild
    BY DEF Running
  <2>1. \A r \in {CountBytes(a)} : BoundsOf(r, allocs)
    BY <2>0, BoundsFacts
  <2> QED BY <2>0, <2>1 DEF Access, BoundsOf
<1>2. mem' = Heap(ptrSize, box, new, fields)
  BY <1>0, CountStored
<1>3. \A x \in DOMAIN allocs : new[x] \in Int /\ fields[x] \in ValuesFor(box[x], Addresses)
  BY <1>0 DEF MemoryIs, CountAdded
<1>4. DOMAIN held' = DOMAIN allocs /\ \A x \in DOMAIN held' : held'[x] \in 0 .. MaxHeld
  BY DEF MemoryIs
<1>5. MemoryIs(box, new, fields)'
  BY <1>1, <1>2, <1>3, <1>4 DEF MemoryIs
<1>6. Holds'
  BY <1>5 DEF Holds
<1>7. ReadsBack(box, new, fields)' /\ ReadsBack(box, count, fields)
  BY <1>5, ReadsBackHolds DEF AllRead
<1>8. DOMAIN box = DOMAIN allocs
  BY DEF MemoryIs
<1>9. Objects!Count(a, n)
  <2>1. [x \in DOMAIN allocs |-> ObjectAt(x)] = ObjectsOf(box, count, fields)
    BY <1>7 DEF ReadsBack
  <2>2. [x \in DOMAIN allocs |-> ObjectAt(x)]' = ObjectsOf(box, new, fields)
    BY <1>7 DEF ReadsBack
  <2>3. [x \in DOMAIN allocs |-> ObjectAt(x)]'
           = [[x \in DOMAIN allocs |-> ObjectAt(x)] EXCEPT ![a] = Objects!Add(@, n)]
    BY <1>0, <1>8, <2>1, <2>2, AddOne
  <2>4. pending = <<>> /\ seen' = Objects!NoCall
    BY DEF Running, NoCall, Objects!NoCall
  <2> QED BY <2>3, <2>4, Zenon DEF Objects!Count
<1> QED BY <1>6, <1>9

\* closure.call changes nothing; the worker gets what the closure captured.
LEMMA CallStep ==
    ASSUME NEW box, NEW count, NEW fields, MemoryIs(box, count, fields), AllRead', NEW a \in DOMAIN allocs,
           NEW b \in Boxes, NEW args, ClosureCall(a, b, args)
    PROVE  Holds' /\ b.name = ObjectsOf(box, count, fields)[a].box /\ Objects!Call(a, args)
<1>1. /\ ~wild /\ pending = <<>> /\ Load(a, ptrSize) = Wrapper(b)
      /\ Access({Bytes(a, ptrSize), CaptureBytes(a, b)}, allocs)
      /\ seen' = [worker |-> b.name, args |-> LoadCaptures(a, b) \o args]
      /\ ptrSize' = ptrSize /\ mem' = mem /\ allocs' = allocs /\ next' = next /\ held' = held /\ pending' = pending
  BY DEF ClosureCall, Running, WorkerArgs
<1>2. b = box[a] /\ LoadCaptures(a, b) = fields[a]
  <2>1. Load(a, ptrSize) = Wrapper(box[a]) /\ box[a] \in Boxes /\ LoadCaptures(a, box[a]) = fields[a]
    BY LoadsOf
  <2>2. b.name = box[a].name
    BY <1>1, <2>1 DEF Wrapper
  <2> QED BY <2>1, <2>2, BoxAssumption
<1>3. wild' = FALSE
  <2>1. \A r \in {Bytes(a, ptrSize), CaptureBytes(a, b)} : BoundsOf(r, allocs)
    BY <1>1, <1>2, BoundsFacts
  <2> QED BY <1>1, <2>1 DEF Access, BoundsOf
<1>4. MemoryIs(box, count, fields)'
  BY <1>1, <1>3 DEF MemoryIs
<1>5. Holds'
  BY <1>4 DEF Holds
<1>6. /\ [x \in DOMAIN allocs |-> ObjectAt(x)] = ObjectsOf(box, count, fields)
      /\ [x \in DOMAIN allocs |-> ObjectAt(x)]' = ObjectsOf(box, count, fields)
  BY <1>4, ReadsBackHolds DEF AllRead, ReadsBack
<1>7. a \in DOMAIN box
  BY DEF MemoryIs
<1>8. ObjectsOf(box, count, fields)[a] = [box |-> b.name, count |-> count[a], fields |-> fields[a]]
  BY <1>2, <1>7 DEF ObjectsOf
<1>9. ObjectsOf(box, count, fields)[a].box = b.name /\ ObjectsOf(box, count, fields)[a].fields = fields[a]
  BY <1>8
<1>10. Objects!Call(a, args)
  <2>1. seen' = [worker |-> [x \in DOMAIN allocs |-> ObjectAt(x)][a].box,
                 args |-> [x \in DOMAIN allocs |-> ObjectAt(x)][a].fields \o args]
    BY <1>1, <1>2, <1>6, <1>9
  <2>2. [x \in DOMAIN allocs |-> ObjectAt(x)]' = [x \in DOMAIN allocs |-> ObjectAt(x)]
    BY <1>6
  <2> QED BY <1>1, <2>1, <2>2, Zenon DEF Objects!Call
<1> QED BY <1>5, <1>9, <1>10

\* What is still to do stays typed.
LEMMA PendingConcat ==
    ASSUME NEW S, NEW s \in Seq(S), NEW t \in Seq(S), t # <<>>
    PROVE  s \o Tail(t) \in Seq(S) /\ Tail(t) \in Seq(S)
BY HeadTailProperties, ConcatProperties

\* closure_check_drop reads the count and the drop function, and changes nothing.
LEMMA CheckDropStep ==
    ASSUME NEW box, NEW count, NEW fields, MemoryIs(box, count, fields), AllRead', NEW a \in DOMAIN allocs,
           closure_check_drop(a)
    PROVE  Holds' /\ Objects!CheckDrop(a)
<1>1. /\ ~wild /\ pending = <<>> /\ Access({CountBytes(a)} \cup DropBytes(a, CountOf(a)), allocs)
      /\ pending' = Dropped(a, CountOf(a)) /\ seen' = NoCall
      /\ ptrSize' = ptrSize /\ mem' = mem /\ allocs' = allocs /\ next' = next /\ held' = held
  BY DEF closure_check_drop, Running
<1>2. CountOf(a) = <<"count", count[a]>> /\ count[a] \in Int
  BY LoadsOf DEF MemoryIs
<1>3. /\ Dropped(a, CountOf(a)) = DropIs(fields[a], a, count[a])
      /\ DropIs(fields[a], a, count[a]) \in Seq({"release", "free"} \X Addresses)
      /\ \A r \in DropBytes(a, CountOf(a)) : BoundsOf(r, allocs)
  BY <1>1, <1>2, DropFacts
<1>4. wild' = FALSE
  <2>1. \A r \in {CountBytes(a)} \cup DropBytes(a, CountOf(a)) : BoundsOf(r, allocs)
    BY <1>1, <1>3, BoundsFacts
  <2> QED BY <1>1, <2>1 DEF Access, BoundsOf
<1>5. MemoryIs(box, count, fields)'
  BY <1>1, <1>3, <1>4 DEF MemoryIs
<1>6. Holds'
  BY <1>5 DEF Holds
<1>7. /\ [x \in DOMAIN allocs |-> ObjectAt(x)] = ObjectsOf(box, count, fields)
      /\ [x \in DOMAIN allocs |-> ObjectAt(x)]' = ObjectsOf(box, count, fields)
  BY <1>5, ReadsBackHolds DEF AllRead, ReadsBack
<1>8. a \in DOMAIN box
  BY DEF MemoryIs
<1>9. ObjectsOf(box, count, fields)[a].count = count[a] /\ ObjectsOf(box, count, fields)[a].fields = fields[a]
  BY <1>8 DEF ObjectsOf
<1>10. Objects!CheckDrop(a)
  <2>1. [x \in DOMAIN allocs |-> ObjectAt(x)][a].count = count[a]
        /\ [x \in DOMAIN allocs |-> ObjectAt(x)][a].fields = fields[a]
    BY <1>7, <1>9
  <2>2. Objects!DropOf(a, [x \in DOMAIN allocs |-> ObjectAt(x)][a].count) = DropIs(fields[a], a, count[a])
    BY <2>1 DEF Objects!DropOf, DropIs
  <2>3. seen' = Objects!NoCall
    BY <1>1 DEF NoCall, Objects!NoCall
  <2>4. [x \in DOMAIN allocs |-> ObjectAt(x)]' = [x \in DOMAIN allocs |-> ObjectAt(x)]
    BY <1>7
  <2>5. pending' = Objects!DropOf(a, [x \in DOMAIN allocs |-> ObjectAt(x)][a].count)
    BY <1>1, <1>3, <2>2
  <2> QED BY <1>1, <2>3, <2>4, <2>5, Zenon DEF Objects!CheckDrop
<1> QED BY <1>6, <1>10

\* closure_decr_then_drop: the count of a captured closure, and what its drop does.
LEMMA ReleaseStep ==
    ASSUME NEW box, NEW count, NEW fields, MemoryIs(box, count, fields), AllRead', NEW a \in DOMAIN allocs,
           closure_decr_then_drop(a)
    PROVE  Holds' /\ Objects!Release(a)
<1>0. PICK new : new = CountAdded(count, DOMAIN allocs, a, -1)
  OBVIOUS
<1>1. /\ ~wild /\ pending # <<>> /\ Head(pending) = <<"release", a>>
      /\ Access({CountBytes(a)} \cup DropBytes(a, AddTo(CountOf(a), -1)), allocs)
      /\ mem' = Stored({StoreCount(a, -1)})
      /\ pending' = Dropped(a, AddTo(CountOf(a), -1)) \o Tail(pending) /\ seen' = NoCall
      /\ ptrSize' = ptrSize /\ allocs' = allocs /\ next' = next /\ held' = held
  BY DEF closure_decr_then_drop
<1>2. AddTo(CountOf(a), -1) = <<"count", count[a] + -1>> /\ count[a] \in Int
  <2>1. count[a] \in Int
    BY DEF MemoryIs
  <2>2. -1 \in Int
    OBVIOUS
  <2> QED BY <2>1, <2>2, CountStored
<1>3. /\ Dropped(a, AddTo(CountOf(a), -1)) = DropIs(fields[a], a, count[a] + -1)
      /\ DropIs(fields[a], a, count[a] + -1) \in Seq({"release", "free"} \X Addresses)
      /\ \A r \in DropBytes(a, AddTo(CountOf(a), -1)) : BoundsOf(r, allocs)
  <2>1. count[a] + -1 \in Int
    BY <1>2
  <2> QED BY <1>1, <1>2, <2>1, DropFacts
<1>4. wild' = FALSE
  <2>1. \A r \in {CountBytes(a)} \cup DropBytes(a, AddTo(CountOf(a), -1)) : BoundsOf(r, allocs)
    BY <1>1, <1>3, BoundsFacts
  <2> QED BY <1>1, <2>1 DEF Access, BoundsOf
<1>5. pending' \in Seq({"release", "free"} \X Addresses)
  <2>1. pending \in Seq({"release", "free"} \X Addresses)
    BY DEF MemoryIs
  <2> QED BY <1>1, <1>3, <2>1, PendingConcat
<1>6. mem' = Heap(ptrSize, box, new, fields)
  BY <1>0, <1>1, CountStored
<1>7. \A x \in DOMAIN allocs : new[x] \in Int /\ fields[x] \in ValuesFor(box[x], Addresses)
  BY <1>0 DEF MemoryIs, CountAdded
<1>8. MemoryIs(box, new, fields)'
  BY <1>1, <1>4, <1>5, <1>6, <1>7 DEF MemoryIs
<1>9. Holds'
  BY <1>8 DEF Holds
<1>10. /\ [x \in DOMAIN allocs |-> ObjectAt(x)] = ObjectsOf(box, count, fields)
       /\ [x \in DOMAIN allocs |-> ObjectAt(x)]' = ObjectsOf(box, new, fields)
  BY <1>8, ReadsBackHolds DEF AllRead, ReadsBack
<1>11. a \in DOMAIN box /\ DOMAIN box = DOMAIN allocs
  BY DEF MemoryIs
<1>12. ObjectsOf(box, count, fields)[a].count = count[a] /\ ObjectsOf(box, count, fields)[a].fields = fields[a]
  BY <1>11 DEF ObjectsOf
<1>13. Objects!Release(a)
  <2>1. [x \in DOMAIN allocs |-> ObjectAt(x)][a].count = count[a]
        /\ [x \in DOMAIN allocs |-> ObjectAt(x)][a].fields = fields[a]
    BY <1>10, <1>12
  <2>2. count[a] + -1 = count[a] - 1
    BY <1>2
  <2>3. Objects!DropOf(a, [x \in DOMAIN allocs |-> ObjectAt(x)][a].count - 1) = DropIs(fields[a], a, count[a] + -1)
    BY <2>1, <2>2 DEF Objects!DropOf, DropIs
  <2>4. [x \in DOMAIN allocs |-> ObjectAt(x)]'
           = [[x \in DOMAIN allocs |-> ObjectAt(x)] EXCEPT ![a] = Objects!Add(@, -1)]
    BY <1>0, <1>10, <1>11, AddOne
  <2>5. seen' = Objects!NoCall
    BY <1>1 DEF NoCall, Objects!NoCall
  <2>6. pending' = Objects!DropOf(a, [x \in DOMAIN allocs |-> ObjectAt(x)][a].count - 1) \o Tail(pending)
    BY <1>1, <1>3, <2>3
  <2> QED BY <1>1, <2>4, <2>5, <2>6, Zenon DEF Objects!Release
<1> QED BY <1>9, <1>13

\* The heap without one closure.
LEMMA HeapWithout ==
    ASSUME NEW p \in PtrSizes, NEW box, Closures(box), NEW count, NEW fields, NEW a \in DOMAIN box,
           NEW rest, rest = [x \in DOMAIN box \ {a} |-> box[x]]
    PROVE  {c \in Heap(p, box, count, fields) : ~Overlap(c, Bytes(a, FullSize(p, box[a])))}
              = Heap(p, rest, count, fields)
<1> DEFINE cell(x, i) == Cell(p, x, box[x], count[x], fields[x], i)
           H == Heap(p, box, count, fields)
           R == Heap(p, rest, count, fields)
           whole == Bytes(a, FullSize(p, box[a]))
<1>1. /\ DOMAIN rest = DOMAIN box \ {a}
      /\ \A x \in DOMAIN rest : rest[x] = box[x]
  OBVIOUS
<1>2. \A c \in H : \E x \in DOMAIN box : \E i \in Roles(box[x]) : c = cell(x, i)
  BY HeapCells
<1>3. \A c \in R : \E x \in DOMAIN box \ {a} : \E i \in Roles(box[x]) : c = cell(x, i)
  <2>1. \A c \in R : \E x \in DOMAIN rest : \E i \in Roles(rest[x]) : c = Cell(p, x, rest[x], count[x], fields[x], i)
    BY HeapCells
  <2> QED BY <1>1, <2>1
<1>4. \A x \in DOMAIN box : \A i \in Roles(box[x]) : cell(x, i) \in H
  BY HeapCells
<1>5. \A x \in DOMAIN box \ {a} : \A i \in Roles(box[x]) : cell(x, i) \in R
  <2>1. \A x \in DOMAIN rest : \A i \in Roles(rest[x]) : Cell(p, x, rest[x], count[x], fields[x], i) \in R
    BY HeapCells
  <2> QED BY <1>1, <2>1
<1>6. ASSUME NEW x \in DOMAIN box, NEW i \in Roles(box[x])
      PROVE  Overlap(cell(x, i), whole) <=> x = a
  <2> DEFINE at == CellAt(p, box[x], i)
             size == CellSize(p, box[x], i)
             full == FullSize(p, box[x])
             fullA == FullSize(p, box[a])
  <2>1. /\ x \in Nat /\ a \in Nat /\ x \in Places /\ a \in Places /\ box[x] \in Boxes /\ box[a] \in Boxes
        /\ Chunk \in Nat
    BY PlaceFacts, BoundAssumption DEF Closures
  <2>2. /\ at \in Nat /\ size \in Nat /\ size >= 1 /\ at + size <= full
        /\ full \in Nat /\ full <= Chunk /\ fullA \in Nat /\ fullA <= Chunk
    BY <2>1, CellFacts, FullFacts
  <2>3. Overlap(cell(x, i), whole) <=> x + at < a + fullA /\ a < x + at + size
    BY StoreFacts DEF Overlap, Cell
  <2>4. /\ x < a => x + Chunk <= a
        /\ a < x => a + Chunk <= x
    BY <2>1, PlaceFacts
  <2>5. x = a => full = fullA
    OBVIOUS
  <2> HIDE DEF at, size, full, fullA, cell, whole
  <2>6. CASE x = a
    BY <2>1, <2>2, <2>3, <2>5, <2>6
  <2>7. CASE x < a
    BY <2>1, <2>2, <2>3, <2>4, <2>7
  <2>8. CASE a < x
    BY <2>1, <2>2, <2>3, <2>4, <2>8
  <2> QED BY <2>1, <2>6, <2>7, <2>8
<1> HIDE DEF cell, H, R, whole
<1>7. \A c \in H : c \in R <=> ~Overlap(c, whole)
  <2> SUFFICES ASSUME NEW c \in H PROVE c \in R <=> ~Overlap(c, whole)
    OBVIOUS
  <2>1. PICK x \in DOMAIN box : \E i \in Roles(box[x]) : c = cell(x, i)
    BY <1>2
  <2>2. PICK i \in Roles(box[x]) : c = cell(x, i)
    BY <2>1
  <2>3. Overlap(c, whole) <=> x = a
    BY <1>6, <2>2
  <2>4. x # a => c \in R
    BY <1>5, <2>2
  <2>5. c \in R => ~Overlap(c, whole)
    <3> SUFFICES ASSUME c \in R PROVE ~Overlap(c, whole)
      OBVIOUS
    <3>1. PICK y \in DOMAIN box \ {a} : \E j \in Roles(box[y]) : c = cell(y, j)
      BY <1>3
    <3> QED BY <1>6, <3>1
  <2> QED BY <2>3, <2>4, <2>5
<1>8. R \subseteq H
  BY <1>3, <1>4
<1>9. {c \in H : ~Overlap(c, whole)} = R
  BY <1>7, <1>8
<1> QED BY <1>9 DEF H, R, whole

\* free: the closure is gone, and with it what its bytes held.
LEMMA FreeStep ==
    ASSUME NEW box, NEW count, NEW fields, MemoryIs(box, count, fields), AllRead', NEW a \in DOMAIN allocs,
           FreeClosure(a)
    PROVE  Holds' /\ Objects!Free(a)
<1>0. PICK rest : rest = [x \in DOMAIN box \ {a} |-> box[x]]
  OBVIOUS
<1>1. /\ ~wild /\ pending # <<>> /\ Head(pending) = <<"free", a>>
      /\ allocs' = [x \in DOMAIN allocs \ {a} |-> allocs[x]]
      /\ held' = [x \in DOMAIN held \ {a} |-> held[x]]
      /\ pending' = Tail(pending) /\ seen' = NoCall
      /\ mem' = {c \in mem : ~Overlap(c, Bytes(a, allocs[a]))}
      /\ ptrSize' = ptrSize /\ next' = next /\ wild' = wild
  BY DEF FreeClosure
<1>2. /\ ptrSize \in PtrSizes /\ Closures(box) /\ DOMAIN box = DOMAIN allocs
      /\ \A x \in DOMAIN allocs : count[x] \in Int /\ fields[x] \in ValuesFor(box[x], Addresses)
      /\ mem = Heap(ptrSize, box, count, fields)
      /\ \A x \in DOMAIN allocs : allocs[x] = FullSize(ptrSize, box[x])
      /\ next \in Places /\ \A x \in DOMAIN allocs : x < next
      /\ DOMAIN held = DOMAIN allocs /\ \A x \in DOMAIN held : held[x] \in 0 .. MaxHeld
      /\ pending \in Seq({"release", "free"} \X Addresses)
      /\ wild = FALSE
  BY <1>1 DEF MemoryIs
<1>3. pending' \in Seq({"release", "free"} \X Addresses)
  BY <1>1, <1>2, HeadTailProperties
<1>4. mem' = Heap(ptrSize, rest, count, fields)
  <2>1. mem' = {c \in Heap(ptrSize, box, count, fields) : ~Overlap(c, Bytes(a, FullSize(ptrSize, box[a])))}
    BY <1>1, <1>2
  <2>2. a \in DOMAIN box /\ ptrSize \in PtrSizes /\ Closures(box)
    BY <1>2
  <2>3. {c \in Heap(ptrSize, box, count, fields) : ~Overlap(c, Bytes(a, FullSize(ptrSize, box[a])))}
           = Heap(ptrSize, rest, count, fields)
    BY <1>0, <2>2, HeapWithout
  <2> QED BY <2>1, <2>3
<1>5. Closures(rest) /\ DOMAIN rest = DOMAIN allocs' /\ \A x \in DOMAIN rest : rest[x] = box[x] /\ x \in DOMAIN box
  BY <1>0, <1>1, <1>2 DEF Closures
<1>6. /\ \A x \in DOMAIN allocs' : count[x] \in Int /\ fields[x] \in ValuesFor(rest[x], Addresses)
      /\ \A x \in DOMAIN allocs' : allocs'[x] = FullSize(ptrSize, rest[x])
      /\ \A x \in DOMAIN allocs' : x < next
  BY <1>1, <1>2, <1>5
<1>7. DOMAIN held' = DOMAIN allocs' /\ \A x \in DOMAIN held' : held'[x] \in 0 .. MaxHeld
  BY <1>1, <1>2
<1>8. MemoryIs(rest, count, fields)'
  BY <1>1, <1>2, <1>3, <1>4, <1>5, <1>6, <1>7 DEF MemoryIs
<1>9. Holds'
  BY <1>8 DEF Holds
<1>10. /\ [x \in DOMAIN allocs |-> ObjectAt(x)] = ObjectsOf(box, count, fields)
       /\ [x \in DOMAIN allocs |-> ObjectAt(x)]' = ObjectsOf(rest, count, fields)
  BY <1>8, ReadsBackHolds DEF AllRead, ReadsBack
<1>11. ObjectsOf(rest, count, fields)
         = [x \in DOMAIN ObjectsOf(box, count, fields) \ {a} |-> ObjectsOf(box, count, fields)[x]]
  BY <1>0 DEF ObjectsOf
<1>12. Objects!Free(a)
  <2>1. [x \in DOMAIN allocs |-> ObjectAt(x)]'
           = [x \in DOMAIN [y \in DOMAIN allocs |-> ObjectAt(y)] \ {a} |-> [y \in DOMAIN allocs |-> ObjectAt(y)][x]]
    BY <1>10, <1>11
  <2>2. seen' = Objects!NoCall
    BY <1>1 DEF NoCall, Objects!NoCall
  <2> QED BY <1>1, <2>1, <2>2, Zenon DEF Objects!Free
<1> QED BY <1>9, <1>12

\* What a box may capture.
LEMMA CapturedFacts ==
    ASSUME NEW b \in Boxes, NEW A, A \subseteq Addresses, NEW vals \in ValuesFor(b, A)
    PROVE  /\ vals \in ValuesFor(b, Addresses)
           /\ DOMAIN vals = DOMAIN b.captures
           /\ \A x : Times(x, vals) \in Nat /\ Objects!Times(x, vals) = Times(x, vals)
           /\ Objects!ValuesFor(b, A) = ValuesFor(b, A)
<1>1. /\ vals \in [DOMAIN b.captures -> {ClosureRef(a) : a \in A} \cup {Scalar(s) : s \in Scalars}]
      /\ \A n \in DOMAIN vals : vals[n][1] = "closure" <=> n \in ClosureCaptures(b)
  BY DEF ValuesFor
<1>2. vals \in [DOMAIN b.captures -> {ClosureRef(a) : a \in Addresses} \cup {Scalar(s) : s \in Scalars}]
  <2>1. {ClosureRef(a) : a \in A} \subseteq {ClosureRef(a) : a \in Addresses}
    OBVIOUS
  <2> QED BY <1>1, <2>1
<1>3. vals \in ValuesFor(b, Addresses)
  BY <1>1, <1>2 DEF ValuesFor
<1>4. DOMAIN vals = DOMAIN b.captures
  BY <1>1
<1>5. IsFiniteSet(DOMAIN vals)
  <2>1. DOMAIN b.captures = 1 .. Len(b.captures) /\ Len(b.captures) \in Nat
    BY BoxAssumption, LenProperties
  <2>2. \A n \in Nat : IsFiniteSet(1 .. n)
    BY FS_Interval
  <2> QED BY <1>4, <2>1, <2>2
<1>6. ASSUME NEW x PROVE Times(x, vals) \in Nat
  <2>1. IsFiniteSet({n \in DOMAIN vals : vals[n] = ClosureRef(x)})
    BY <1>5, FS_Subset
  <2> QED BY <2>1, FS_CardinalityType DEF Times
<1>7. ASSUME NEW x PROVE Objects!Times(x, vals) = Times(x, vals)
  BY SameCardinality DEF Times, Objects!Times, ClosureRef, Objects!ClosureRef
<1>8. Objects!ValuesFor(b, A) = ValuesFor(b, A)
  BY DEF ValuesFor, Objects!ValuesFor, ClosureRef, Objects!ClosureRef, Scalar, Objects!Scalar,
         ClosureCaptures, Objects!ClosureCaptures
<1> QED BY <1>3, <1>4, <1>6, <1>7, <1>8

\* The struct a box builds is the cells of the closure.
LEMMA InstanceCells ==
    ASSUME ptrSize \in PtrSizes, NEW a \in Nat, NEW b \in Boxes, NEW vals \in ValuesFor(b, Addresses)
    PROVE  Instance(a, b, vals) = {Cell(ptrSize, a, b, 0, vals, i) : i \in Roles(b)}
<1> DEFINE cell(i) == Cell(ptrSize, a, b, 0, vals, i)
           at == Layout[ptrSize][b]
<1>1. DOMAIN vals = DOMAIN b.captures
  BY DEF ValuesFor
<1>2. /\ DOMAIN b.captures = 1 .. Len(b.captures) /\ Len(b.captures) \in Nat
      /\ at.fields[0] = CellAt(ptrSize, b, -2)
      /\ at.fields[1] = CellAt(ptrSize, b, -1)
      /\ at.fields[2] = CellAt(ptrSize, b, 0)
      /\ \A n \in DOMAIN b.captures : /\ at.captures[n] = CellAt(ptrSize, b, n)
                                      /\ CellSize(ptrSize, b, n) = SizeOf(ptrSize, b.captures[n])
  BY LayoutFacts
<1>3. Store(a + at.fields[0], ptrSize, Wrapper(b)) = cell(-2)
  BY <1>2 DEF Cell, CellSize, CellValue
<1>4. Store(a + at.fields[1], 4, <<"count", 0>>) = cell(-1)
  BY <1>2 DEF Cell, CellSize, CellValue
<1>5. Store(a + at.fields[2], ptrSize, DropFunction(b)) = cell(0)
  BY <1>2 DEF Cell, CellSize, CellValue
<1>6. ASSUME NEW n \in DOMAIN b.captures
      PROVE  Store(a + at.captures[n], SizeOf(ptrSize, b.captures[n]), vals[n]) = cell(n)
  <2>1. CellValue(b, 0, vals, n) = vals[n]
    BY <1>2 DEF CellValue
  <2> QED BY <1>2, <2>1 DEF Cell
<1>7. Instance(a, b, vals) = {cell(-2), cell(-1), cell(0)} \cup {cell(n) : n \in DOMAIN b.captures}
  <2> HIDE DEF cell
  <2>1. {Store(a + at.captures[n], SizeOf(ptrSize, b.captures[n]), vals[n]) : n \in DOMAIN vals}
           = {cell(n) : n \in DOMAIN b.captures}
    BY <1>1, <1>6
  <2> QED BY <1>3, <1>4, <1>5, <2>1 DEF Instance
<1> HIDE DEF cell
<1>8. {cell(-2), cell(-1), cell(0)} \cup {cell(n) : n \in DOMAIN b.captures} = {cell(i) : i \in Roles(b)}
  BY DEF Roles
<1> QED BY <1>7, <1>8 DEF cell

\* closure.box: a new closure at the next place, and a count for what it captures.
LEMMA BoxedStored ==
    ASSUME NEW box, NEW count, NEW fields, MemoryIs(box, count, fields),
           NEW b \in Boxes, NEW vals \in ValuesFor(b, DOMAIN allocs), next \in Addresses,
           NEW boxes, NEW counts, NEW values,
           DOMAIN boxes = DOMAIN allocs \cup {next},
           boxes[next] = b /\ counts[next] = 0 /\ values[next] = vals,
           \A x \in DOMAIN allocs : boxes[x] = box[x] /\ counts[x] = count[x] + Times(x, vals) /\ values[x] = fields[x]
    PROVE  Stored(Instance(next, b, vals) \cup {StoreCount(x, Times(x, vals)) : x \in Counted(vals)})
              = Heap(ptrSize, boxes, counts, values)
<1> DEFINE a == next
           old(x, i) == Cell(ptrSize, x, box[x], count[x], fields[x], i)
           now(x, i) == Cell(ptrSize, x, boxes[x], counts[x], values[x], i)
           H == Heap(ptrSize, boxes, counts, values)
           S == Instance(next, b, vals) \cup {StoreCount(x, Times(x, vals)) : x \in Counted(vals)}
<1>1. /\ ptrSize \in PtrSizes /\ Closures(box) /\ DOMAIN box = DOMAIN allocs
      /\ mem = Heap(ptrSize, box, count, fields)
      /\ DOMAIN allocs \subseteq Addresses /\ \A x \in DOMAIN allocs : x < a
      /\ \A x \in DOMAIN allocs : count[x] \in Int
  BY DEF MemoryIs, Closures
<1>2. a \in Nat /\ a \notin DOMAIN allocs /\ ptrSize \in Nat
  BY <1>1, PlaceFacts, PointerAssumption
<1>3. vals \in ValuesFor(b, Addresses) /\ \A x : Times(x, vals) \in Nat
  BY <1>1, CapturedFacts
<1>4. DOMAIN boxes = DOMAIN allocs \cup {a} /\ boxes[a] = b /\ counts[a] = 0 /\ values[a] = vals
  OBVIOUS
<1>5. \A x \in DOMAIN allocs : boxes[x] = box[x] /\ counts[x] = count[x] + Times(x, vals) /\ values[x] = fields[x]
  OBVIOUS
<1>6. Closures(boxes)
  BY <1>1, <1>4, <1>5 DEF Closures
<1>7. Instance(a, b, vals) = {now(a, i) : i \in Roles(b)}
  <2>1. Instance(a, b, vals) = {Cell(ptrSize, a, b, 0, vals, i) : i \in Roles(b)}
    BY <1>1, <1>2, <1>3, InstanceCells
  <2> QED BY <1>4, <2>1
<1>8. \A x \in Counted(vals) : x \in DOMAIN allocs
  BY DEF Counted
<1>9. ASSUME NEW x \in DOMAIN allocs
      PROVE  -1 \in Roles(box[x]) /\ StoreCount(x, Times(x, vals)) = now(x, -1)
  <2>1. CountOf(x) = <<"count", count[x]>>
    BY LoadsOf
  <2>2. AddTo(CountOf(x), Times(x, vals)) = <<"count", counts[x]>>
    BY <1>5, <2>1 DEF AddTo
  <2>3. StoreCount(x, Times(x, vals)) = Store(x + ptrSize, 4, <<"count", counts[x]>>)
    BY <2>2 DEF StoreCount, CRefcount
  <2> QED BY <2>3 DEF Roles, Cell, CellAt, CellSize, CellValue
<1>10. ASSUME NEW x \in DOMAIN allocs, NEW i \in Roles(box[x]) PROVE i = -1 \/ now(x, i) = old(x, i)
  BY <1>5 DEF Cell, CellValue
<1>11. ASSUME NEW x \in DOMAIN allocs, x \notin Counted(vals), NEW i \in Roles(box[x]) PROVE now(x, i) = old(x, i)
  <2>1. Times(x, vals) = 0
    BY <1>3, <1>11 DEF Counted
  <2>2. counts[x] = count[x]
    BY <1>1, <1>5, <2>1
  <2> QED BY <1>5, <2>2
<1>12. ASSUME NEW x \in DOMAIN allocs PROVE Overlap(old(x, -1), now(x, -1))
  <2>1. x \in Nat
    BY <1>1, PlaceFacts
  <2>2. /\ old(x, -1).at = x + ptrSize /\ old(x, -1).size = 4
        /\ now(x, -1).at = x + ptrSize /\ now(x, -1).size = 4
    BY StoreFacts DEF Cell, CellAt, CellSize
  <2> HIDE DEF old, now
  <2> QED BY <1>2, <2>1, <2>2 DEF Overlap
<1>13. ASSUME NEW c \in H PROVE \E x \in DOMAIN boxes : \E i \in Roles(boxes[x]) : c = now(x, i)
  <2>1. c \in Heap(ptrSize, boxes, counts, values)
    OBVIOUS
  <2> HIDE DEF H
  <2> QED BY <2>1, HeapCells
<1>14. \A x \in DOMAIN boxes : \A i \in Roles(boxes[x]) : now(x, i) \in H
  BY HeapCells
<1>15. ASSUME NEW c \in mem PROVE \E x \in DOMAIN allocs : \E i \in Roles(box[x]) : c = old(x, i)
  <2>1. c \in Heap(ptrSize, box, count, fields)
    BY <1>1
  <2>2. \E x \in DOMAIN box : \E i \in Roles(box[x]) : c = Cell(ptrSize, x, box[x], count[x], fields[x], i)
    BY <2>1, HeapCells
  <2> QED BY <1>1, <2>2
<1>16. \A x \in DOMAIN allocs : \A i \in Roles(box[x]) : old(x, i) \in mem
  BY <1>1, HeapCells
<1>17. \A c, d \in H : Overlap(c, d) => c = d
  BY <1>1, <1>6, HeapApart
<1>18. S = {now(a, i) : i \in Roles(b)} \cup {now(x, -1) : x \in Counted(vals)}
  <2> HIDE DEF now
  <2> QED BY <1>7, <1>8, <1>9
<1> HIDE DEF old, now, H, S, a
<1>19. S \in SUBSET H
  <2>1. ASSUME NEW c \in S PROVE c \in H
    <3>1. CASE c \in {now(a, i) : i \in Roles(b)}
      BY <1>4, <1>14, <3>1
    <3>2. CASE c \in {now(x, -1) : x \in Counted(vals)}
      BY <1>4, <1>5, <1>8, <1>9, <1>14, <3>2
    <3> QED BY <1>18, <3>1, <3>2
  <2> QED BY <2>1
<1>20. ASSUME NEW c \in H PROVE c \in mem \/ c \in S
  <2>1. PICK x \in DOMAIN boxes : \E i \in Roles(boxes[x]) : c = now(x, i)
    BY <1>13
  <2>2. PICK i \in Roles(boxes[x]) : c = now(x, i)
    BY <2>1
  <2>3. CASE x = a
    BY <1>4, <1>18, <2>2, <2>3
  <2>4. CASE x \in DOMAIN allocs
    <3>1. i \in Roles(box[x])
      BY <1>5, <2>2, <2>4
    <3>2. x \notin Counted(vals) \/ i # -1 => c \in mem
      BY <1>10, <1>11, <1>16, <2>2, <2>4, <3>1
    <3>3. x \in Counted(vals) /\ i = -1 => c \in S
      BY <1>18, <2>2
    <3> QED BY <3>2, <3>3
  <2> QED BY <1>4, <2>3, <2>4
<1>21. ASSUME NEW c \in mem PROVE c \in H \/ \E s \in S : Overlap(c, s)
  <2>1. PICK x \in DOMAIN allocs : \E i \in Roles(box[x]) : c = old(x, i)
    BY <1>15
  <2>2. PICK i \in Roles(box[x]) : c = old(x, i)
    BY <2>1
  <2>3. now(x, i) \in H
    BY <1>4, <1>5, <1>14, <2>2
  <2>4. CASE x \notin Counted(vals) \/ i # -1
    BY <1>10, <1>11, <2>2, <2>3, <2>4
  <2>5. CASE x \in Counted(vals) /\ i = -1
    BY <1>12, <1>18, <2>2, <2>5
  <2> QED BY <2>4, <2>5
<1>22. Stored(S) = H
  BY <1>17, <1>19, <1>20, <1>21, StoredIs, Zenon
<1> QED BY <1>22 DEF S, H

\* closure.box, whole: with the size it asks for, nothing is written outside;
\* with none, the store is the first sign of it.
LEMMA BoxStep ==
    ASSUME NEW box, NEW count, NEW fields, MemoryIs(box, count, fields), AllRead',
           NEW b \in Boxes, NEW vals \in ValuesFor(b, DOMAIN allocs), Box(b, vals)
    PROVE  Holds' /\ next \in Addresses /\ Objects!New(next, b, vals)
<1> DEFINE a == next
<1>1. /\ ~wild /\ pending = <<>> /\ next < MaxObjs * Chunk
      /\ \E size \in {IF r = "enough" THEN Layout[ptrSize][b].size ELSE 0 : r \in Resolved} :
             allocs' = [x \in DOMAIN allocs \cup {next} |-> IF x = next THEN size ELSE allocs[x]]
      /\ Access(Instance(next, b, vals) \cup {CountBytes(x) : x \in Counted(vals)}, allocs')
      /\ mem' = Stored(Instance(next, b, vals) \cup {StoreCount(x, Times(x, vals)) : x \in Counted(vals)})
      /\ next' = next + Chunk
      /\ held' = [x \in DOMAIN held \cup {next} |-> IF x = next THEN 0 ELSE held[x]]
      /\ seen' = NoCall /\ ptrSize' = ptrSize /\ pending' = pending
  BY DEF Box, Running
<1>2. /\ ptrSize \in PtrSizes /\ Closures(box) /\ DOMAIN box = DOMAIN allocs
      /\ \A x \in DOMAIN allocs : count[x] \in Int /\ fields[x] \in ValuesFor(box[x], Addresses)
      /\ \A x \in DOMAIN allocs : allocs[x] = FullSize(ptrSize, box[x])
      /\ next \in Places /\ \A x \in DOMAIN allocs : x < next
      /\ DOMAIN held = DOMAIN allocs /\ \A x \in DOMAIN held : held[x] \in 0 .. MaxHeld
      /\ pending \in Seq({"release", "free"} \X Addresses)
      /\ DOMAIN allocs \subseteq Addresses
  BY <1>1 DEF MemoryIs, Closures
<1>3. next \in Addresses /\ next \in Nat /\ next + Chunk \in Places /\ next \notin DOMAIN allocs
  BY <1>1, <1>2, PlaceFacts
<1>4. PICK size \in {0, FullSize(ptrSize, b)} :
          allocs' = [x \in DOMAIN allocs \cup {next} |-> IF x = next THEN size ELSE allocs[x]]
  <2>1. PICK r \in Resolved : allocs' = [x \in DOMAIN allocs \cup {next} |->
                                            IF x = next THEN IF r = "enough" THEN Layout[ptrSize][b].size ELSE 0
                                            ELSE allocs[x]]
    BY <1>1
  <2>2. Layout[ptrSize][b].size = FullSize(ptrSize, b)
    BY <1>2, LayoutFacts
  <2> QED BY <2>1, <2>2
<1>5. /\ DOMAIN allocs' = DOMAIN allocs \cup {next} /\ allocs'[next] = size
      /\ \A x \in DOMAIN allocs : allocs'[x] = allocs[x]
  BY <1>3, <1>4
<1>6. /\ vals \in ValuesFor(b, Addresses) /\ \A x : Times(x, vals) \in Nat /\ Objects!Times(x, vals) = Times(x, vals)
  BY <1>2, CapturedFacts
<1>7. PICK boxes : boxes = [x \in DOMAIN allocs \cup {next} |-> IF x = next THEN b ELSE box[x]]
  OBVIOUS
<1>8. PICK counts : counts = [x \in DOMAIN allocs \cup {next} |-> IF x = next THEN 0 ELSE count[x] + Times(x, vals)]
  OBVIOUS
<1>9. PICK values : values = [x \in DOMAIN allocs \cup {next} |-> IF x = next THEN vals ELSE fields[x]]
  OBVIOUS
<1>10. /\ DOMAIN boxes = DOMAIN allocs \cup {next}
       /\ boxes[next] = b /\ counts[next] = 0 /\ values[next] = vals
       /\ \A x \in DOMAIN allocs :
              boxes[x] = box[x] /\ counts[x] = count[x] + Times(x, vals) /\ values[x] = fields[x]
  BY <1>3, <1>7, <1>8, <1>9
<1>11. mem' = Heap(ptrSize, boxes, counts, values)
  BY <1>1, <1>3, <1>10, BoxedStored
<1>12. wild' \in BOOLEAN /\ (wild' => size = 0)
  <2>0. SUFFICES ASSUME size = FullSize(ptrSize, b) PROVE wild' = FALSE
    BY <1>1 DEF Access
  <2>1. ASSUME NEW x \in DOMAIN allocs, NEW r, BoundsOf(r, allocs) PROVE BoundsOf(r, allocs')
    BY <1>5, <2>1 DEF BoundsOf
  <2>2. ASSUME NEW r \in {CountBytes(x) : x \in Counted(vals)} PROVE BoundsOf(r, allocs')
    <3>1. PICK x \in DOMAIN allocs : r = CountBytes(x)
      BY DEF Counted
    <3>2. BoundsOf(r, allocs)
      BY <1>1, <3>1, BoundsFacts
    <3> QED BY <2>1, <3>2
  <2>3. ASSUME NEW r \in Instance(next, b, vals) PROVE BoundsOf(r, allocs')
    <3>1. PICK i \in Roles(b) : r = Cell(ptrSize, next, b, 0, vals, i)
      BY <1>2, <1>3, <1>6, InstanceCells
    <3>2. r.at = next + CellAt(ptrSize, b, i) /\ r.size = CellSize(ptrSize, b, i)
      BY <3>1, StoreFacts DEF Cell
    <3>3. /\ CellAt(ptrSize, b, i) \in Nat /\ CellSize(ptrSize, b, i) \in Nat
          /\ CellAt(ptrSize, b, i) + CellSize(ptrSize, b, i) <= FullSize(ptrSize, b)
          /\ FullSize(ptrSize, b) \in Nat
      BY <1>2, CellFacts, FullFacts
    <3>4. next <= r.at /\ r.at + r.size <= next + allocs'[next]
      BY <1>3, <1>5, <2>0, <3>2, <3>3
    <3> QED BY <1>5, <3>4 DEF BoundsOf
  <2>4. \A r \in Instance(next, b, vals) \cup {CountBytes(x) : x \in Counted(vals)} : BoundsOf(r, allocs')
    BY <2>2, <2>3
  <2> QED BY <1>1, <2>4 DEF Access, BoundsOf
<1>13. \A x \in DOMAIN allocs' : counts[x] \in Int /\ values[x] \in ValuesFor(boxes[x], Addresses)
  BY <1>2, <1>5, <1>6, <1>10
<1>24. size = 0 => wild'
  <2> SUFFICES ASSUME size = 0 PROVE wild'
    OBVIOUS
  <2>1. PICK r : r = Cell(ptrSize, next, b, 0, vals, -2)
    OBVIOUS
  <2>2. r \in Instance(next, b, vals)
    BY <1>2, <1>3, <1>6, <2>1, InstanceCells DEF Roles
  <2>3. r.at = next /\ r.size = ptrSize /\ ptrSize \in {4, 8}
    BY <1>2, <1>3, <2>1, StoreFacts, PointerAssumption DEF Cell, CellAt, CellSize
  <2>4. ASSUME NEW x \in DOMAIN allocs' PROVE ~(x <= r.at /\ r.at + r.size <= x + allocs'[x])
    <3>1. CASE x = next
      BY <1>3, <1>5, <2>3, <3>1
    <3>2. CASE x \in DOMAIN allocs
      <4>1. x \in Nat /\ x + Chunk <= next
        BY <1>2, <3>2, PlaceFacts
      <4>2. allocs'[x] \in Nat /\ allocs'[x] <= Chunk
        <5>1. box[x] \in Boxes
          BY <1>2, <3>2 DEF Closures
        <5> QED BY <1>2, <1>5, <3>2, <5>1, FullFacts
      <4> QED BY <1>3, <2>3, <4>1, <4>2, BoundAssumption
    <3> QED BY <1>5, <3>1, <3>2
  <2> QED BY <1>1, <2>2, <2>4 DEF Access
<1>14. /\ ~wild' => \A x \in DOMAIN allocs' : allocs'[x] = FullSize(ptrSize, boxes[x])
       /\ \A x \in DOMAIN allocs' : allocs'[x] \in {0, FullSize(ptrSize, boxes[x])}
       /\ wild' => \E x \in DOMAIN allocs' : allocs'[x] = 0
  <2>1. ~wild' => size = FullSize(ptrSize, b)
    BY <1>24
  <2> QED BY <1>2, <1>5, <1>10, <1>12, <2>1
<1>15. Chunk \in Nat /\ Chunk > 0
  <2>1. 3 * ptrSize <= FieldOffset(ptrSize, b, 3) /\ FieldOffset(ptrSize, b, 3) \in Nat
        /\ StructSize(ptrSize, b.captures) \in Nat /\ FullSize(ptrSize, b) \in Nat
        /\ FieldOffset(ptrSize, b, 3) + StructSize(ptrSize, b.captures) <= FullSize(ptrSize, b)
        /\ FullSize(ptrSize, b) <= Chunk
    BY <1>2, FullFacts
  <2>2. ptrSize \in {4, 8} /\ Chunk \in Nat
    BY <1>2, PointerAssumption, BoundAssumption
  <2> QED BY <2>1, <2>2
<1>16. next' \in Places /\ \A x \in DOMAIN allocs' : x < next'
  <2>1. next' = next + Chunk /\ next < next + Chunk
    BY <1>1, <1>3, <1>15
  <2>2. \A x \in DOMAIN allocs : x \in Nat /\ x < next
    BY <1>2, PlaceFacts
  <2> QED BY <1>3, <1>5, <1>15, <2>1, <2>2
<1>17. DOMAIN held' = DOMAIN allocs' /\ \A x \in DOMAIN held' : held'[x] \in 0 .. MaxHeld
  BY <1>1, <1>2, <1>5, BoundAssumption
<1>18. Closures(boxes)
  BY <1>2, <1>3, <1>10 DEF Closures
<1>19. MemoryIs(boxes, counts, values)'
  BY <1>1, <1>2, <1>5, <1>10, <1>11, <1>12, <1>13, <1>14, <1>16, <1>17, <1>18 DEF MemoryIs
<1>20. Holds'
  BY <1>19 DEF Holds
<1>21. /\ [x \in DOMAIN allocs |-> ObjectAt(x)] = ObjectsOf(box, count, fields)
       /\ [x \in DOMAIN allocs |-> ObjectAt(x)]' = ObjectsOf(boxes, counts, values)
  BY <1>19, ReadsBackHolds DEF AllRead, ReadsBack
<1>22. ObjectsOf(boxes, counts, values)
         = [x \in DOMAIN ObjectsOf(box, count, fields) \cup {a} |->
               IF x = a THEN [box |-> b.name, count |-> 0, fields |-> vals]
               ELSE Objects!Add(ObjectsOf(box, count, fields)[x], Objects!Times(x, vals))]
  <2>1. DOMAIN ObjectsOf(box, count, fields) = DOMAIN allocs
    BY <1>2 DEF ObjectsOf
  <2>2. \A x \in DOMAIN allocs :
            Objects!Add(ObjectsOf(box, count, fields)[x], Objects!Times(x, vals))
               = [box |-> boxes[x].name, count |-> counts[x], fields |-> values[x]]
    BY <1>2, <1>6, <1>10 DEF ObjectsOf, Objects!Add
  <2> QED BY <1>3, <1>10, <2>1, <2>2 DEF ObjectsOf
<1>23. Objects!New(a, b, vals)
  <2>1. [x \in DOMAIN allocs |-> ObjectAt(x)]'
           = [x \in DOMAIN [y \in DOMAIN allocs |-> ObjectAt(y)] \cup {a} |->
                 IF x = a THEN [box |-> b.name, count |-> 0, fields |-> vals]
                 ELSE Objects!Add([y \in DOMAIN allocs |-> ObjectAt(y)][x], Objects!Times(x, vals))]
    BY <1>21, <1>22
  <2>2. a \notin DOMAIN [y \in DOMAIN allocs |-> ObjectAt(y)]
    BY <1>3
  <2>3. seen' = Objects!NoCall
    BY <1>1 DEF NoCall, Objects!NoCall
  <2> HIDE DEF a
  <2> QED BY <1>1, <2>1, <2>2, <2>3, Zenon DEF Objects!New
<1> QED BY <1>3, <1>20, <1>23

------------------------------------------------------------------------------
(* The theorems *)

LEMMA InitHolds == Init => Holds /\ Objects!ObjInit
<1> SUFFICES ASSUME Init PROVE Holds /\ Objects!ObjInit
  OBVIOUS
<1> USE DEF Init
<1>1. PICK none : none = <<>>
  OBVIOUS
<1>2. DOMAIN none = {}
  BY <1>1
<1>3. Heap(ptrSize, none, none, none) = {}
  BY <1>2 DEF Heap
<1>4. MemoryIs(none, none, none)
  <2>1. Closures(none)
    BY <1>2 DEF Closures
  <2>2. DOMAIN allocs = {} /\ DOMAIN held = {}
    BY <1>1, <1>2
  <2>3. pending \in Seq({"release", "free"} \X Addresses)
    BY EmptySeq
  <2> QED BY <1>2, <1>3, <2>1, <2>2, <2>3, PlaceFacts DEF MemoryIs
<1>5. Holds
  BY <1>4 DEF Holds
<1>6. Objects!ObjInit
  <2>1. [x \in DOMAIN allocs |-> ObjectAt(x)] = <<>>
    <3>1. DOMAIN allocs = {}
      BY <1>1, <1>2
    <3> QED BY <3>1
  <2>2. seen = Objects!NoCall
    BY DEF NoCall, Objects!NoCall
  <2> QED BY <2>1, <2>2 DEF Objects!ObjInit
<1> QED BY <1>5, <1>6

LEMMA NextHolds ==
    ASSUME Holds, AllRead', Next
    PROVE  Holds' /\ [Objects!ObjNext]_Objects!objVars
<1>1. PICK box, count, fields : MemoryIs(box, count, fields)
  BY DEF Holds
<1>2. /\ DOMAIN [x \in DOMAIN allocs |-> ObjectAt(x)] = DOMAIN allocs
      /\ [x \in DOMAIN allocs |-> ObjectAt(x)] = ObjectsOf(box, count, fields)
      /\ DOMAIN allocs \subseteq Addresses
  BY <1>1, ReadsBackHolds DEF ReadsBack, MemoryIs, Closures
<1>3. ASSUME NEW b \in Boxes, NEW vals \in ValuesFor(b, DOMAIN allocs), Box(b, vals)
      PROVE  Holds' /\ Objects!ObjNext
  <2>1. Holds' /\ next \in Addresses /\ Objects!New(next, b, vals)
    BY <1>1, <1>3, BoxStep
  <2>2. vals \in Objects!ValuesFor(b, DOMAIN [x \in DOMAIN allocs |-> ObjectAt(x)])
    BY <1>2, CapturedFacts
  <2>3. Objects!ObjNext
    BY <2>1, <2>2, Zenon DEF Objects!ObjNext
  <2> QED BY <2>1, <2>3
<1>4. ASSUME NEW a \in DOMAIN allocs, closure_incr(a) PROVE Holds' /\ Objects!Count(a, 1)
  <2>1. /\ Running /\ Access({CountBytes(a)}, allocs) /\ mem' = Stored({StoreCount(a, 1)})
        /\ held[a] < MaxHeld /\ held' = [held EXCEPT ![a] = @ + 1] /\ seen' = NoCall
        /\ UNCHANGED <<ptrSize, allocs, next, pending>>
    BY <1>4 DEF closure_incr
  <2>2. held[a] + 1 \in 0 .. MaxHeld
    BY <1>1, <2>1, BoundAssumption DEF MemoryIs
  <2> QED BY <1>1, <2>1, <2>2, CountStep
<1>5. ASSUME NEW a \in DOMAIN allocs, closure_decr(a) PROVE Holds' /\ Objects!Count(a, -1)
  <2>1. /\ Running /\ Access({CountBytes(a)}, allocs) /\ mem' = Stored({StoreCount(a, -1)})
        /\ held[a] > 0 /\ held' = [held EXCEPT ![a] = @ - 1] /\ seen' = NoCall
        /\ UNCHANGED <<ptrSize, allocs, next, pending>>
    BY <1>5 DEF closure_decr
  <2>2. held[a] \in 0 .. MaxHeld
    BY <1>1 DEF MemoryIs
  <2>3. held[a] + -1 \in 0 .. MaxHeld /\ held[a] - 1 = held[a] + -1
    BY <2>1, <2>2, BoundAssumption
  <2>4. held' = [held EXCEPT ![a] = @ + -1]
    BY <2>1, <2>3
  <2>5. -1 \in {1, -1}
    OBVIOUS
  <2> QED BY <1>1, <2>1, <2>3, <2>4, <2>5, CountStep
<1>6. ASSUME NEW a \in DOMAIN allocs, closure_check_drop(a) PROVE Holds' /\ Objects!CheckDrop(a)
  BY <1>1, <1>6, CheckDropStep
<1>7. ASSUME NEW a \in DOMAIN allocs, closure_decr_then_drop(a) PROVE Holds' /\ Objects!Release(a)
  BY <1>1, <1>7, ReleaseStep
<1>8. ASSUME NEW a \in DOMAIN allocs, FreeClosure(a) PROVE Holds' /\ Objects!Free(a)
  BY <1>1, <1>8, FreeStep
<1>9. ASSUME NEW a \in DOMAIN allocs, NEW b \in Boxes, NEW args \in ArgumentsOf(b), ClosureCall(a, b, args)
      PROVE  Holds' /\ \E c \in Boxes : \E rs \in Objects!ArgumentsOf(c) :
                           c.name = [x \in DOMAIN allocs |-> ObjectAt(x)][a].box /\ Objects!Call(a, rs)
  <2>1. Holds' /\ b.name = ObjectsOf(box, count, fields)[a].box /\ Objects!Call(a, args)
    BY <1>1, <1>9, CallStep
  <2>2. args \in Objects!ArgumentsOf(b)
    BY DEF ArgumentsOf, Objects!ArgumentsOf, Scalar, Objects!Scalar
  <2>3. b.name = [x \in DOMAIN allocs |-> ObjectAt(x)][a].box
    BY <1>2, <2>1
  <2> QED BY <2>1, <2>2, <2>3
<1>10. ASSUME UNCHANGED vars PROVE Holds' /\ UNCHANGED Objects!objVars
  <2>1. MemoryIs(box, count, fields)'
    BY <1>1, <1>10 DEF MemoryIs, vars
  <2>2. Holds'
    BY <2>1 DEF Holds
  <2>3. [x \in DOMAIN allocs |-> ObjectAt(x)]' = [x \in DOMAIN allocs |-> ObjectAt(x)]
    BY <1>2, <2>1 DEF AllRead, ReadsBack
  <2>4. pending' = pending /\ seen' = seen
    BY <1>10 DEF vars
  <2> QED BY <2>2, <2>3, <2>4, Zenon DEF Objects!objVars
<1>11. CASE \E b \in Boxes : \E vals \in ValuesFor(b, DOMAIN allocs) : Box(b, vals)
  BY <1>3, <1>11
<1>12. ASSUME NEW a \in DOMAIN allocs,
              \/ closure_incr(a) \/ closure_decr(a) \/ closure_check_drop(a)
              \/ closure_decr_then_drop(a) \/ FreeClosure(a)
              \/ \E b \in Boxes : \E args \in ArgumentsOf(b) : ClosureCall(a, b, args)
       PROVE  Holds' /\ Objects!ObjNext
  <2>1. Holds' /\ \/ Objects!Count(a, 1) \/ Objects!Count(a, -1) \/ Objects!CheckDrop(a)
                  \/ Objects!Release(a) \/ Objects!Free(a)
                  \/ \E c \in Boxes : \E rs \in Objects!ArgumentsOf(c) :
                         c.name = [x \in DOMAIN allocs |-> ObjectAt(x)][a].box /\ Objects!Call(a, rs)
    BY <1>4, <1>5, <1>6, <1>7, <1>8, <1>9, <1>12
  <2>2. a \in DOMAIN [x \in DOMAIN allocs |-> ObjectAt(x)]
    BY <1>2
  <2>3. Objects!ObjNext
    BY <2>1, <2>2, Zenon DEF Objects!ObjNext
  <2> QED BY <2>1, <2>3
<1>13. CASE Terminated
  BY <1>10, <1>13 DEF Terminated
<1> QED BY <1>11, <1>12, <1>13 DEF Next

LEMMA StutterHolds ==
    ASSUME Holds, AllRead', UNCHANGED vars
    PROVE  Holds' /\ UNCHANGED Objects!objVars
<1>1. PICK box, count, fields : MemoryIs(box, count, fields)
  BY DEF Holds
<1>2. MemoryIs(box, count, fields)'
  BY <1>1 DEF MemoryIs, vars
<1>3. Holds'
  BY <1>2 DEF Holds
<1>4. [x \in DOMAIN allocs |-> ObjectAt(x)]' = [x \in DOMAIN allocs |-> ObjectAt(x)]
  BY <1>1, <1>2, ReadsBackHolds DEF AllRead, ReadsBack
<1>5. pending' = pending /\ seen' = seen
  BY DEF vars
<1> QED BY <1>3, <1>4, <1>5, Zenon DEF Objects!objVars

LEMMA StepHolds == Holds /\ AllRead' /\ [Next]_vars => Holds' /\ [Objects!ObjNext]_Objects!objVars
<1> SUFFICES ASSUME Holds, AllRead', [Next]_vars PROVE Holds' /\ [Objects!ObjNext]_Objects!objVars
  OBVIOUS
<1>1. CASE Next
  BY <1>1, NextHolds
<1>2. CASE UNCHANGED vars
  BY <1>2, StutterHolds
<1> QED BY <1>1, <1>2

LEMMA HoldsShows == Holds => TypeOK /\ AccessesInBounds
<1> SUFFICES ASSUME NEW box, NEW count, NEW fields, MemoryIs(box, count, fields)
             PROVE  TypeOK /\ AccessesInBounds
  BY DEF Holds
<1> USE DEF MemoryIs
<1>1. ptrSize \in PtrSizes /\ DOMAIN allocs \subseteq Addresses /\ wild \in BOOLEAN
  BY DEF Closures
<1>2. ASSUME NEW a \in DOMAIN allocs PROVE allocs[a] \in 0 .. Chunk
  <2>1. box[a] \in Boxes /\ allocs[a] \in {0, FullSize(ptrSize, box[a])}
    BY DEF Closures
  <2>2. FullSize(ptrSize, box[a]) \in Nat /\ FullSize(ptrSize, box[a]) <= Chunk
    BY <1>1, <2>1, FullFacts
  <2> QED BY <2>1, <2>2, BoundAssumption
<1>3. next \in 0 .. MaxObjs * Chunk
  BY PlaceFacts, BoundAssumption
<1>4. \A k \in DOMAIN pending : pending[k] \in {"release", "free"} \X Addresses
  BY ElementOfSeq, LenProperties
<1>5. DOMAIN held = DOMAIN allocs /\ \A a \in DOMAIN held : held[a] \in 0 .. MaxHeld
  OBVIOUS
<1>6. ASSUME NEW a \in DOMAIN allocs, allocs[a] = 0 PROVE Undersized(a)
  <2>1. Load(a, ptrSize) = Wrapper(box[a]) /\ box[a] \in Boxes
    BY LoadsOf
  <2>2. BoxNamed(Load(a, ptrSize)[2]) = box[a]
    BY <2>1, BoxNamedFacts DEF Wrapper
  <2>3. Layout[ptrSize][box[a]].size = FullSize(ptrSize, box[a])
    BY <1>1, <2>1, LayoutFacts
  <2>4. FullSize(ptrSize, box[a]) > 0
    <3>1. /\ FieldOffset(ptrSize, box[a], 3) \in Nat /\ 3 * ptrSize <= FieldOffset(ptrSize, box[a], 3)
          /\ StructSize(ptrSize, box[a].captures) \in Nat /\ FullSize(ptrSize, box[a]) \in Nat
          /\ FieldOffset(ptrSize, box[a], 3) + StructSize(ptrSize, box[a].captures) <= FullSize(ptrSize, box[a])
      BY <1>1, <2>1, FullFacts
    <3>2. ptrSize \in {4, 8}
      BY <1>1, PointerAssumption
    <3> QED BY <3>1, <3>2
  <2> QED BY <1>6, <2>2, <2>3, <2>4 DEF Undersized
<1>7. AccessesInBounds
  BY <1>6 DEF AccessesInBounds
<1> QED BY <1>1, <1>2, <1>3, <1>4, <1>5, <1>7 DEF TypeOK

LEMMA HoldsAlways == Spec => []Holds
<1>1. Init => Holds
  BY InitHolds
<1>2. Holds /\ [Next]_vars => Holds'
  <2>1. AllRead'
    BY AllReadHolds, PTL
  <2> QED BY <2>1, StepHolds
<1> QED BY <1>1, <1>2, PTL DEF Spec

\* Types hold, and a drop under way only releases and frees closures: it never
\* jumps through what is no drop function.
THEOREM TypesHold == Spec => []TypeOK
BY HoldsAlways, HoldsShows, PTL

\* An access to a closure, by generated code or by runtime/closure.c, is only ever
\* outside of every allocation when malloc got less than the struct of a closure,
\* whatever boxes capture and whatever the pointer size: no offset or padding of
\* the two layouts leads an access astray.
THEOREM AllAccessesInBounds == Spec => []AccessesInBounds
BY HoldsAlways, HoldsShows, PTL

\* The bytes behave as the objects that generated code and runtime promise each
\* other: every access finds the field the other side stored, and nothing else.
THEOREM BytesAreObjects == Spec => ImplementsObjects
<1>1. Init => Objects!ObjInit
  BY InitHolds
<1>2. Holds /\ [Next]_vars => [Objects!ObjNext]_Objects!objVars
  <2>1. AllRead'
    BY AllReadHolds, PTL
  <2> QED BY <2>1, StepHolds
<1> QED BY <1>1, <1>2, HoldsAlways, PTL DEF Spec, ImplementsObjects, Objects!ObjSpec
==============================================================================
