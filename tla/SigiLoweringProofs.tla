-------------------------- MODULE SigiLoweringProofs --------------------------
(***************************************************************************)
(* Theorems about SigiLowering, for every source module: any number of     *)
(* functions and operations, boxes nested to any depth, both passes: what  *)
(* is converted, and what the symbols of the result refer to.              *)
(***************************************************************************)
EXTENDS SigiLowering, FiniteSetTheorems, SequenceTheorems, WellFoundedInduction, TLAPS

\* What is left to legalize.
Pending(x) == \E n \in 1 .. Len(todo) : todo[n] = x
Places == {InFunc(k) : k \in DOMAIN decls} \cup {InOp(i) : i \in OpIds}

\* The source module, which no step changes.
SourceInv ==
    /\ pass \in {"sigi", "closure"}
    /\ \E n \in Nat : DOMAIN decls = 1 .. n
    /\ \E n \in Nat : OpIds = 1 .. n
    /\ parent \in [OpIds -> Places]
    /\ \A i, j \in OpIds : parent[j] = InOp(i) => i < j /\ ops[i].kind = "box"

\* What is left is a list without repetition, its functions in order and behind
\* those that were converted.
TodoInv ==
    /\ todo \in Seq(Places)
    /\ \A m, n \in 1 .. Len(todo) : todo[m] = todo[n] => m = n
    /\ \A m, n \in 1 .. Len(todo) : \A j, k \in DOMAIN decls :
           m < n /\ todo[m] = InFunc(j) /\ todo[n] = InFunc(k) => j < k
    /\ \A j, k \in DOMAIN decls : Pending(InFunc(k)) /\ ~Pending(InFunc(j)) => j < k

\* The function or box that operation i is in was converted: i was reached.
Reached(i) == ~Pending(parent[i]) /\ \A p \in OpIds : parent[i] = InOp(p) => p \in lowered

\* An operation is pending or lowered only once it is reached, and then it is
\* one of the two unless the pass leaves it alone; nothing the pass cannot
\* convert is behind it.
ProgressInv ==
    /\ lowered \subseteq OpIds
    /\ \A i \in OpIds : i \in lowered \/ Pending(InOp(i)) => Reached(i)
    /\ \A i \in OpIds : Reached(i) => i \in lowered \/ Pending(InOp(i)) \/ ~Illegal(i)
    /\ \A i \in lowered : ~Pending(InOp(i)) /\ Illegal(i) /\ Supported(i)
    /\ \A k \in DOMAIN decls : ~Pending(InFunc(k)) => ~UnknownBuiltin(k) /\ ~UnknownSignature(k)
    /\ {b.op : b \in boxes} = {i \in lowered : ops[i].kind = "box"}
    /\ status \in {"converting", "done", "failed"}
    /\ status = "failed" => Unsupported
    /\ status = "done" => todo = <<>>

OrderInv == SourceInv /\ TodoInv /\ ProgressInv

------------------------------------------------------------------------------
(* Numbers and enumerations *)

\* Induction over the naturals, as the least counterexample.
LEMMA LeastNat ==
    ASSUME NEW T \in SUBSET Nat, T # {}
    PROVE  \E n \in T : \A m \in T : n <= m
<1>1. IsWellFoundedOn(OpToRel(<, Nat), Nat)
  BY NatLessThanWellFounded
<1>2. PICK n \in T : \A m \in T : ~(<<m, n>> \in OpToRel(<, Nat))
  BY <1>1, WFMin
<1>3. \A m \in T : ~(m < n)
  BY <1>2 DEF OpToRel
<1> QED BY <1>3

\* Nth enumerates a finite set of numbers, each once.
LEMMA NthEnumerates ==
    ASSUME NEW S \in SUBSET Nat, IsFiniteSet(S)
    PROVE  /\ Cardinality(S) \in Nat
           /\ \A n \in 1 .. Cardinality(S) : Nth(S, n) \in S
           /\ \A m, n \in 1 .. Cardinality(S) : Nth(S, m) = Nth(S, n) => m = n
           /\ \A i \in S : \E n \in 1 .. Cardinality(S) : Nth(S, n) = i
<1> DEFINE Below(i) == {j \in S : j < i}
           rank == [i \in S |-> Cardinality(Below(i)) + 1]
           N == Cardinality(S)
<1>1. N \in Nat
  BY FS_CardinalityType
<1>2. ASSUME NEW i \in S
      PROVE  IsFiniteSet(Below(i)) /\ Cardinality(Below(i)) \in Nat /\ Cardinality(Below(i)) + 1 \in 1 .. N
  <2>1. Below(i) \subseteq S /\ i \in S \ Below(i)
    OBVIOUS
  <2>2. IsFiniteSet(Below(i)) /\ Cardinality(Below(i)) <= N /\ Cardinality(Below(i)) \in Nat
    BY <2>1, FS_Subset, FS_CardinalityType
  <2>3. Cardinality(Below(i)) # N
    BY <2>1, FS_Subset
  <2> HIDE DEF Below
  <2> QED BY <1>1, <2>2, <2>3
<1>3. ASSUME NEW i \in S, NEW j \in S, i < j PROVE Cardinality(Below(i)) < Cardinality(Below(j))
  <2>0. i \in Nat /\ j \in Nat /\ \A x \in S : x \in Nat
    OBVIOUS
  <2>1. Below(i) \subseteq Below(j) /\ i \in Below(j) /\ i \notin Below(i)
    <3>1. \A x \in S : x < i => x < j
      BY <1>3, <2>0
    <3>2. Below(i) \subseteq Below(j)
      BY <3>1
    <3>3. i \in Below(j)
      BY <1>3
    <3>4. i \notin Below(i)
      BY <2>0
    <3> QED BY <3>2, <3>3, <3>4
  <2>2. Cardinality(Below(i)) <= Cardinality(Below(j)) /\ Cardinality(Below(i)) # Cardinality(Below(j))
    <3>1. IsFiniteSet(Below(j))
      BY <1>2
    <3> HIDE DEF Below
    <3> QED BY <2>1, <3>1, FS_Subset
  <2>3. Cardinality(Below(i)) \in Nat /\ Cardinality(Below(j)) \in Nat
    BY <1>2
  <2> HIDE DEF Below
  <2> QED BY <2>2, <2>3
<1>4. rank \in [S -> 1 .. N]
  BY <1>2
<1>5. ASSUME NEW i \in S, NEW j \in S, rank[i] = rank[j] PROVE i = j
  <2>1. Cardinality(Below(i)) = Cardinality(Below(j))
    <3>1. Cardinality(Below(i)) \in Nat /\ Cardinality(Below(j)) \in Nat
      BY <1>2
    <3>2. Cardinality(Below(i)) + 1 = Cardinality(Below(j)) + 1
      BY <1>5
    <3> HIDE DEF Below
    <3> QED BY <3>1, <3>2
  <2>2. ~(i < j) /\ ~(j < i)
    <3>1. Cardinality(Below(i)) \in Nat
      BY <1>2
    <3> HIDE DEF Below
    <3> QED BY <1>3, <2>1, <3>1
  <2> QED BY <2>2
<1>6. \A n \in 1 .. N : \E i \in S : rank[i] = n
  <2> DEFINE Ranks == {rank[i] : i \in S}
  <2>1. rank \in Bijection(S, Ranks)
    BY <1>4, <1>5 DEF Bijection, Injection, Surjection, IsInjective
  <2>2. Cardinality(Ranks) = N
    <3> HIDE DEF rank, Ranks
    <3> QED BY <2>1, FS_Bijection DEF ExistsBijection
  <2>3. Ranks \subseteq 1 .. N
    BY <1>4
  <2>4. IsFiniteSet(1 .. N) /\ Cardinality(1 .. N) = N
    BY <1>1, FS_Interval
  <2>5. Ranks = 1 .. N
    <3> HIDE DEF rank, Ranks
    <3> QED BY <2>2, <2>3, <2>4, FS_Subset
  <2> QED BY <2>5
<1>7. ASSUME NEW n \in 1 .. N, NEW i \in S, rank[i] = n PROVE Nth(S, n) = i
  <2>1. \A j \in S : Cardinality(Below(j)) = n - 1 <=> j = i
    <3>1. ASSUME NEW j \in S PROVE Cardinality(Below(j)) = n - 1 <=> rank[j] = n
      <4>1. Cardinality(Below(j)) \in Nat /\ rank[j] = Cardinality(Below(j)) + 1
        BY <1>2
      <4> HIDE DEF Below, rank
      <4> QED BY <4>1
    <3> HIDE DEF rank, Below
    <3> QED BY <1>5, <1>7, <3>1
  <2> QED BY <2>1 DEF Nth
<1>8. \A n \in 1 .. N : \E i \in S : rank[i] = n /\ Nth(S, n) = i
  <2> HIDE DEF rank
  <2> QED BY <1>6, <1>7
<1>9. \A i \in S : rank[i] \in 1 .. N /\ Nth(S, rank[i]) = i
  <2> HIDE DEF rank
  <2> QED BY <1>4, <1>7
<1> HIDE DEF rank
<1> QED BY <1>1, <1>8, <1>9

\* The operations of a function or a region, each once.
LEMMA BodyFacts ==
    ASSUME SourceInv, NEW where
    PROVE  /\ Body(where) \in Seq(Places)
           /\ \A m, n \in 1 .. Len(Body(where)) : Body(where)[m] = Body(where)[n] => m = n
           /\ \A x : (\E n \in 1 .. Len(Body(where)) : Body(where)[n] = x)
                         <=> \E i \in OpIds : x = InOp(i) /\ parent[i] = where
<1> DEFINE S == Inside(where)
           N == Cardinality(S)
<1>1. S \in SUBSET Nat /\ IsFiniteSet(S)
  <2>1. PICK n \in Nat : OpIds = 1 .. n
    BY DEF SourceInv
  <2>2. IsFiniteSet(OpIds) /\ OpIds \subseteq Nat /\ S \subseteq OpIds
    BY <2>1, FS_Interval DEF Inside
  <2> QED BY <2>2, FS_Subset
<1>2. /\ N \in Nat
      /\ \A n \in 1 .. N : Nth(S, n) \in S
      /\ \A m, n \in 1 .. N : Nth(S, m) = Nth(S, n) => m = n
      /\ \A i \in S : \E n \in 1 .. N : Nth(S, n) = i
  <2> HIDE DEF S
  <2> QED BY <1>1, NthEnumerates
<1>3. Body(where) = [n \in 1 .. N |-> InOp(Nth(S, n))]
  BY DEF Body
<1>4. \A i \in S : i \in OpIds /\ parent[i] = where /\ InOp(i) \in Places
  BY DEF Inside, Places
<1>5. \A i \in OpIds : parent[i] = where => i \in S
  BY DEF Inside
<1> HIDE DEF S, N
<1>6. Body(where) \in Seq(Places) /\ Len(Body(where)) = N
  BY <1>2, <1>3, <1>4
<1>7. \A i, j : InOp(i) = InOp(j) => i = j
  BY DEF InOp
<1> QED BY <1>2, <1>3, <1>4, <1>5, <1>6, <1>7
------------------------------------------------------------------------------
(* The list of what is left to legalize *)

LEMMA SourceNext == SourceInv /\ [Next]_vars => SourceInv'
<1> SUFFICES ASSUME SourceInv, [Next]_vars PROVE SourceInv'
  OBVIOUS
<1>1. UNCHANGED source
  BY DEF Next, Step, Terminated, vars, ConvertFunc, RejectFunc, LowerPush, LowerPop, LowerCheckDrop,
     LowerCall, LowerBranch, LowerBox, CallRuntime, Skip, RejectOp, Finish, source
<1> QED BY <1>1 DEF SourceInv, source, Places, OpIds

\* The head is the only occurrence of what it is, and the functions behind it
\* come later.
LEMMA HeadFacts ==
    ASSUME TodoInv, todo # <<>>
    PROVE  /\ Len(todo) \in Nat \ {0} /\ Head(todo) = todo[1] /\ Pending(Head(todo)) /\ Head(todo) \in Places
           /\ Tail(todo) \in Seq(Places) /\ Len(Tail(todo)) = Len(todo) - 1
           /\ \A n \in 1 .. Len(todo) - 1 : Tail(todo)[n] = todo[n + 1] /\ n + 1 \in 1 .. Len(todo)
           /\ \A x : (\E n \in 1 .. Len(todo) - 1 : todo[n + 1] = x) <=> Pending(x) /\ x # Head(todo)
<1>1. todo \in Seq(Places) /\ Len(todo) \in Nat \ {0} /\ \A n \in 1 .. Len(todo) : todo[n] \in Places
  BY EmptySeq, LenProperties DEF TodoInv
<1>2. Head(todo) = todo[1] /\ 1 \in 1 .. Len(todo)
  BY <1>1
<1>3. /\ Tail(todo) \in Seq(Places) /\ Len(Tail(todo)) = Len(todo) - 1
      /\ \A n \in 1 .. Len(todo) - 1 : Tail(todo)[n] = todo[n + 1] /\ n + 1 \in 1 .. Len(todo)
  BY <1>1, HeadTailProperties
<1>4. ASSUME NEW x
      PROVE  (\E n \in 1 .. Len(todo) - 1 : todo[n + 1] = x) <=> Pending(x) /\ x # Head(todo)
  <2>1. ASSUME NEW n \in 1 .. Len(todo) - 1, todo[n + 1] = x PROVE Pending(x) /\ x # Head(todo)
    <3>1. n + 1 \in 1 .. Len(todo) /\ n + 1 # 1
      BY <1>1
    <3> QED BY <1>2, <2>1, <3>1 DEF TodoInv, Pending
  <2>2. ASSUME Pending(x), x # Head(todo) PROVE \E n \in 1 .. Len(todo) - 1 : todo[n + 1] = x
    <3>1. PICK m \in 1 .. Len(todo) : todo[m] = x
      BY <2>2 DEF Pending
    <3>2. m # 1
      BY <1>2, <2>2, <3>1
    <3>3. m - 1 \in 1 .. Len(todo) - 1 /\ m - 1 + 1 = m
      BY <1>1, <3>2
    <3> QED BY <3>1, <3>3
  <2> QED BY <2>1, <2>2
<1> QED BY <1>1, <1>2, <1>3, <1>4 DEF Pending

\* When the head is a function or an operation of the program, the functions
\* converted so far come before those that are pending.
LEMMA OrderKept ==
    ASSUME SourceInv, TodoInv, todo # <<>>, UNCHANGED source,
           \A k \in DOMAIN decls :
               Pending(InFunc(k))' <=> Pending(InFunc(k)) /\ InFunc(k) # Head(todo)
    PROVE  \A j, k \in DOMAIN decls' : Pending(InFunc(k))' /\ ~Pending(InFunc(j))' => j < k
<1>1. decls' = decls
  BY DEF source
<1>2. SUFFICES ASSUME NEW j \in DOMAIN decls, NEW k \in DOMAIN decls,
                      Pending(InFunc(k)), InFunc(k) # Head(todo),
                      ~(Pending(InFunc(j)) /\ InFunc(j) # Head(todo))
               PROVE  j < k
  BY <1>1
<1>3. CASE ~Pending(InFunc(j))
  BY <1>2, <1>3 DEF TodoInv
<1>4. CASE InFunc(j) = Head(todo)
  <2>1. PICK n \in 1 .. Len(todo) : todo[n] = InFunc(k)
    BY <1>2 DEF Pending
  <2>2. Len(todo) \in Nat \ {0} /\ todo[1] = InFunc(j) /\ 1 \in 1 .. Len(todo) /\ 1 < n
    BY <1>2, <1>4, <2>1, HeadFacts
  <2> QED BY <2>1, <2>2 DEF TodoInv
<1> QED BY <1>2, <1>3, <1>4

\* The head is done and has nothing inside.
LEMMA TailFacts ==
    ASSUME SourceInv, TodoInv, todo # <<>>, todo' = Tail(todo), UNCHANGED source
    PROVE  /\ TodoInv'
           /\ \A x : Pending(x)' <=> Pending(x) /\ x # Head(todo)
<1>1. Places' = Places /\ DOMAIN decls' = DOMAIN decls
  BY DEF source, Places, OpIds
<1>2. /\ Len(todo) \in Nat \ {0} /\ todo' \in Seq(Places) /\ Len(todo') = Len(todo) - 1
      /\ \A n \in 1 .. Len(todo) - 1 : todo'[n] = todo[n + 1] /\ n + 1 \in 1 .. Len(todo)
      /\ \A x : (\E n \in 1 .. Len(todo) - 1 : todo[n + 1] = x) <=> Pending(x) /\ x # Head(todo)
  BY HeadFacts
<1>3. ASSUME NEW x PROVE Pending(x)' <=> Pending(x) /\ x # Head(todo)
  <2>1. Pending(x)' <=> \E n \in 1 .. Len(todo) - 1 : todo[n + 1] = x
    BY <1>2 DEF Pending
  <2> QED BY <1>2, <2>1
<1>4. \A m, n \in 1 .. Len(todo') : todo'[m] = todo'[n] => m = n
  <2> SUFFICES ASSUME NEW m \in 1 .. Len(todo) - 1, NEW n \in 1 .. Len(todo) - 1, todo'[m] = todo'[n]
               PROVE  m = n
    BY <1>2
  <2>1. m + 1 = n + 1
    BY <1>2 DEF TodoInv
  <2> QED BY <1>2, <2>1
<1>5. \A m, n \in 1 .. Len(todo') : \A j, k \in DOMAIN decls :
          m < n /\ todo'[m] = InFunc(j) /\ todo'[n] = InFunc(k) => j < k
  <2> SUFFICES ASSUME NEW m \in 1 .. Len(todo) - 1, NEW n \in 1 .. Len(todo) - 1, m < n,
                      NEW j \in DOMAIN decls, NEW k \in DOMAIN decls,
                      todo'[m] = InFunc(j), todo'[n] = InFunc(k)
               PROVE  j < k
    BY <1>2
  <2>1. m + 1 < n + 1 /\ todo[m + 1] = InFunc(j) /\ todo[n + 1] = InFunc(k)
    BY <1>2
  <2> QED BY <1>2, <2>1 DEF TodoInv
<1>6. \A j, k \in DOMAIN decls' : Pending(InFunc(k))' /\ ~Pending(InFunc(j))' => j < k
  BY <1>3, OrderKept
<1> QED BY <1>1, <1>2, <1>3, <1>4, <1>5, <1>6 DEF TodoInv

\* The head is done and the operations inside come next.
LEMMA EnterFacts ==
    ASSUME SourceInv, TodoInv, todo # <<>>, NEW where, Enter(where), UNCHANGED source,
           \A i \in OpIds : parent[i] = where => ~Pending(InOp(i))
    PROVE  /\ TodoInv'
           /\ \A x : Pending(x)' <=> \/ Pending(x) /\ x # Head(todo)
                                   \/ \E i \in OpIds : x = InOp(i) /\ parent[i] = where
<1> DEFINE b == Body(where)
           t == Tail(todo)
<1>1. Places' = Places /\ DOMAIN decls' = DOMAIN decls
  BY DEF source, Places, OpIds
<1>2. /\ Len(t) \in Nat /\ t \in Seq(Places) /\ Len(t) = Len(todo) - 1
      /\ \A n \in 1 .. Len(t) : t[n] = todo[n + 1] /\ n + 1 \in 1 .. Len(todo)
      /\ \A x : (\E n \in 1 .. Len(t) : t[n] = x) <=> Pending(x) /\ x # Head(todo)
  BY HeadFacts
<1>3. /\ b \in Seq(Places) /\ Len(b) \in Nat
      /\ \A m, n \in 1 .. Len(b) : b[m] = b[n] => m = n
      /\ \A x : (\E n \in 1 .. Len(b) : b[n] = x) <=> \E i \in OpIds : x = InOp(i) /\ parent[i] = where
  BY BodyFacts, LenProperties
<1>4. todo' = b \o t
  BY DEF Enter
<1> HIDE DEF b, t
<1>5. /\ todo' \in Seq(Places) /\ Len(todo') = Len(b) + Len(t)
      /\ \A n \in 1 .. Len(b) + Len(t) : todo'[n] = IF n <= Len(b) THEN b[n] ELSE t[n - Len(b)]
  BY <1>2, <1>3, <1>4, ConcatProperties
<1>6. \A n \in 1 .. Len(todo') : n \in 1 .. Len(b) \/ (n - Len(b) \in 1 .. Len(t) /\ n > Len(b))
  BY <1>2, <1>3, <1>5
<1>7. /\ \A n \in 1 .. Len(b) : n \in 1 .. Len(todo') /\ todo'[n] = b[n]
      /\ \A n \in 1 .. Len(t) : n + Len(b) \in 1 .. Len(todo') /\ todo'[n + Len(b)] = t[n]
  BY <1>2, <1>3, <1>5
<1>8. ASSUME NEW n \in 1 .. Len(b)
      PROVE  \E i \in OpIds : b[n] = InOp(i) /\ parent[i] = where /\ ~Pending(b[n])
  <2>1. PICK x : x = b[n]
    OBVIOUS
  <2>2. PICK i \in OpIds : x = InOp(i) /\ parent[i] = where
    BY <1>3, <2>1
  <2> QED BY <2>1, <2>2
<1>9. ASSUME NEW x
      PROVE  Pending(x)' <=> \/ Pending(x) /\ x # Head(todo)
                             \/ \E i \in OpIds : x = InOp(i) /\ parent[i] = where
  <2>1. ASSUME NEW n \in 1 .. Len(todo'), todo'[n] = x
        PROVE  (\E m \in 1 .. Len(b) : b[m] = x) \/ (\E m \in 1 .. Len(t) : t[m] = x)
    <3>1. CASE n \in 1 .. Len(b)
      BY <1>7, <2>1, <3>1
    <3>2. CASE n \notin 1 .. Len(b)
      <4>1. n - Len(b) \in 1 .. Len(t) /\ t[n - Len(b)] = x
        BY <1>3, <1>5, <1>6, <2>1, <3>2
      <4> QED BY <4>1
    <3> QED BY <3>1, <3>2
  <2>2. ASSUME NEW n \in 1 .. Len(b), b[n] = x PROVE \E m \in 1 .. Len(todo') : todo'[m] = x
    BY <1>7, <2>2
  <2>3. ASSUME NEW n \in 1 .. Len(t), t[n] = x PROVE \E m \in 1 .. Len(todo') : todo'[m] = x
    BY <1>7, <2>3
  <2>4. Pending(x)' <=> (\E n \in 1 .. Len(b) : b[n] = x) \/ (\E n \in 1 .. Len(t) : t[n] = x)
    BY <2>1, <2>2, <2>3 DEF Pending
  <2> QED BY <1>2, <1>3, <2>4
<1>10. \A m, n \in 1 .. Len(t) : t[m] = t[n] => m = n
  <2> SUFFICES ASSUME NEW m \in 1 .. Len(t), NEW n \in 1 .. Len(t), t[m] = t[n] PROVE m = n
    OBVIOUS
  <2>1. m + 1 = n + 1
    BY <1>2 DEF TodoInv
  <2> QED BY <1>2, <2>1
<1>11. ASSUME NEW m \in 1 .. Len(todo'), NEW n \in 1 .. Len(todo'), todo'[m] = todo'[n]
       PROVE  m = n
  <2>1. CASE m \in 1 .. Len(b) /\ n \in 1 .. Len(b)
    BY <1>3, <1>7, <1>11, <2>1
  <2>2. CASE m \notin 1 .. Len(b) /\ n \notin 1 .. Len(b)
    <3>1. /\ m - Len(b) \in 1 .. Len(t) /\ todo'[m] = t[m - Len(b)]
          /\ n - Len(b) \in 1 .. Len(t) /\ todo'[n] = t[n - Len(b)]
      BY <1>3, <1>5, <1>6, <2>2
    <3>2. m - Len(b) = n - Len(b)
      BY <1>10, <1>11, <3>1
    <3> QED BY <1>3, <3>2
  <2>3. ASSUME NEW p \in 1 .. Len(b), NEW q \in 1 .. Len(todo'), q \notin 1 .. Len(b)
        PROVE  todo'[p] # todo'[q]
    <3>1. q - Len(b) \in 1 .. Len(t) /\ todo'[q] = t[q - Len(b)] /\ todo'[p] = b[p]
      BY <1>3, <1>5, <1>6, <1>7, <2>3
    <3>2. PICK x : x = t[q - Len(b)]
      OBVIOUS
    <3>3. Pending(x)
      BY <1>2, <3>1, <3>2
    <3> QED BY <1>8, <3>1, <3>2, <3>3
  <2> QED BY <1>11, <2>1, <2>2, <2>3
<1>12. ASSUME NEW m \in 1 .. Len(todo'), NEW n \in 1 .. Len(todo'), m < n,
              NEW j \in DOMAIN decls, NEW k \in DOMAIN decls,
              todo'[m] = InFunc(j), todo'[n] = InFunc(k)
       PROVE  j < k
  <2>1. ASSUME NEW p \in 1 .. Len(todo'), NEW q \in DOMAIN decls, todo'[p] = InFunc(q)
        PROVE  p - Len(b) \in 1 .. Len(t) /\ t[p - Len(b)] = InFunc(q)
    <3>1. p \notin 1 .. Len(b)
      BY <1>7, <1>8, <2>1 DEF InFunc, InOp
    <3> QED BY <1>3, <1>5, <1>6, <2>1, <3>1
  <2>2. PICK m1, n1 : m1 = m - Len(b) /\ n1 = n - Len(b)
    OBVIOUS
  <2>3. /\ m1 \in 1 .. Len(t) /\ t[m1] = InFunc(j)
        /\ n1 \in 1 .. Len(t) /\ t[n1] = InFunc(k) /\ m1 < n1
    BY <1>3, <1>12, <2>1, <2>2
  <2>4. /\ m1 + 1 \in 1 .. Len(todo) /\ todo[m1 + 1] = InFunc(j)
        /\ n1 + 1 \in 1 .. Len(todo) /\ todo[n1 + 1] = InFunc(k) /\ m1 + 1 < n1 + 1
    BY <1>2, <2>3
  <2> QED BY <2>4 DEF TodoInv
<1>13. \A j, k \in DOMAIN decls' : Pending(InFunc(k))' /\ ~Pending(InFunc(j))' => j < k
  <2>1. \A i, p : InFunc(p) # InOp(i)
    BY DEF InFunc, InOp
  <2> QED BY <1>9, <2>1, OrderKept
<1>14. TodoInv'
  BY <1>1, <1>5, <1>11, <1>12, <1>13 DEF TodoInv
<1> QED BY <1>9, <1>14
------------------------------------------------------------------------------
(* Progress *)

\* What the passes support is a matter of the source module.
LEMMA SupportKept ==
    ASSUME UNCHANGED source
    PROVE  /\ OpIds' = OpIds /\ decls' = decls /\ ops' = ops /\ parent' = parent
           /\ \A i : Illegal(i)' = Illegal(i) /\ Supported(i)' = Supported(i)
           /\ \A k : UnknownBuiltin(k)' = UnknownBuiltin(k) /\ UnknownSignature(k)' = UnknownSignature(k)
           /\ Unsupported' = Unsupported
<1>1. pass' = pass /\ decls' = decls /\ ops' = ops /\ parent' = parent
  BY DEF source
<1>2. \A ty : Convertible(ty)' = Convertible(ty)
  BY <1>1 DEF Convertible
<1>3. \A i : Illegal(i)' = Illegal(i)
  BY <1>1 DEF Illegal
<1>4. \A i : Supported(i)' = Supported(i)
  BY <1>1, <1>2 DEF Supported
<1>5. \A k : UnknownBuiltin(k)' = UnknownBuiltin(k) /\ UnknownSignature(k)' = UnknownSignature(k)
  BY <1>1, <1>2 DEF UnknownBuiltin, UnknownSignature
<1>6. OpIds' = OpIds
  BY <1>1 DEF OpIds
<1> QED BY <1>1, <1>3, <1>4, <1>5, <1>6 DEF Unsupported

\* Functions are not operations.
LEMMA PlacesDiffer ==
    /\ \A i, k : InFunc(k) # InOp(i)
    /\ \A i, j : InOp(i) = InOp(j) => i = j
    /\ \A j, k : InFunc(j) = InFunc(k) => j = k
  BY DEF InFunc, InOp

\* A function of the program is converted, and what is in it comes next.
LEMMA FuncProgress ==
    ASSUME OrderInv, NEW k \in DOMAIN decls, ConvertFunc(k)
    PROVE  OrderInv'
<1>1. /\ status = "converting" /\ todo # <<>> /\ Head(todo) = InFunc(k) /\ Enter(InFunc(k))
      /\ ~UnknownBuiltin(k) /\ ~UnknownSignature(k)
      /\ UNCHANGED source /\ UNCHANGED <<lowered, boxes, status>>
  BY DEF ConvertFunc, UnknownBuiltin
<1>2. SourceInv /\ TodoInv /\ ProgressInv
  BY DEF OrderInv
<1>3. Pending(InFunc(k))
  BY <1>1, <1>2, HeadFacts
<1>4. \A i \in OpIds : parent[i] = InFunc(k) => ~Pending(InOp(i)) /\ i \notin lowered
  BY <1>2, <1>3 DEF ProgressInv, Reached
<1>5. /\ TodoInv'
      /\ \A x : Pending(x)' <=> \/ Pending(x) /\ x # InFunc(k)
                              \/ \E i \in OpIds : x = InOp(i) /\ parent[i] = InFunc(k)
  BY <1>1, <1>2, <1>4, EnterFacts
<1>6. /\ \A j : Pending(InFunc(j))' <=> Pending(InFunc(j)) /\ j # k
      /\ \A i \in OpIds : Pending(InOp(i))' <=> Pending(InOp(i)) \/ parent[i] = InFunc(k)
  BY <1>5, PlacesDiffer
<1>7. \A i \in OpIds : Reached(i)' <=> Reached(i) \/ parent[i] = InFunc(k)
  <2> SUFFICES ASSUME NEW i \in OpIds PROVE Reached(i)' <=> Reached(i) \/ parent[i] = InFunc(k)
    OBVIOUS
  <2>1. parent[i] \in Places
    BY <1>2 DEF SourceInv
  <2>2. CASE parent[i] \in {InFunc(j) : j \in DOMAIN decls}
    BY <1>1, <1>6, <2>2, PlacesDiffer, SupportKept DEF Reached
  <2>3. ASSUME NEW p \in OpIds, parent[i] = InOp(p) PROVE Reached(i)' <=> Reached(i)
    <3>1. Pending(InOp(p))' <=> Pending(InOp(p)) \/ parent[p] = InFunc(k)
      BY <1>6
    <3>2. parent[p] = InFunc(k) => p \notin lowered
      BY <1>4
    <3> QED BY <1>1, <2>3, <3>1, <3>2, PlacesDiffer, SupportKept DEF Reached
  <2> QED BY <2>1, <2>2, <2>3, PlacesDiffer DEF Places
<1>8. ProgressInv'
  <2> USE <1>1, <1>2, SupportKept DEF ProgressInv
  <2>1. \A i \in OpIds : i \in lowered \/ Pending(InOp(i))' => Reached(i)'
    BY <1>6, <1>7
  <2>2. \A i \in OpIds : Reached(i)' => i \in lowered \/ Pending(InOp(i))' \/ ~Illegal(i)
    BY <1>6, <1>7
  <2>3. \A i \in lowered : ~Pending(InOp(i))'
    BY <1>4, <1>6
  <2>4. \A j \in DOMAIN decls : ~Pending(InFunc(j))' => ~UnknownBuiltin(j) /\ ~UnknownSignature(j)
    BY <1>6
  <2> QED BY <2>1, <2>2, <2>3, <2>4
<1> QED BY <1>1, <1>2, <1>5, <1>8, SourceNext DEF OrderInv, SourceInv, source, Places, OpIds

\* An operation without a region is lowered, or left as it is.
LEMMA FlatProgress ==
    ASSUME OrderInv, UNCHANGED source, NEW i \in OpIds, todo # <<>>, Head(todo) = InOp(i), ops[i].kind # "box",
           todo' = Tail(todo), UNCHANGED <<boxes, status>>, status = "converting",
           \/ lowered' = lowered \cup {i} /\ Illegal(i) /\ Supported(i)
           \/ lowered' = lowered /\ ~Illegal(i)
    PROVE  OrderInv'
<1>1. SourceInv /\ TodoInv /\ ProgressInv /\ Pending(InOp(i))
  BY HeadFacts DEF OrderInv
<1>2. TodoInv' /\ \A x : Pending(x)' <=> Pending(x) /\ x # InOp(i)
  BY <1>1, TailFacts
<1>3. /\ \A k : Pending(InFunc(k))' <=> Pending(InFunc(k))
      /\ \A j : Pending(InOp(j))' <=> Pending(InOp(j)) /\ j # i
  BY <1>2, PlacesDiffer
<1>4. \A j \in OpIds : parent[j] # InOp(i)
  BY <1>1 DEF SourceInv
<1>5. \A j \in OpIds : Reached(j)' <=> Reached(j)
  <2> SUFFICES ASSUME NEW j \in OpIds PROVE Reached(j)' <=> Reached(j)
    OBVIOUS
  <2>1. Pending(parent[j])' <=> Pending(parent[j])
    BY <1>2, <1>4, SupportKept
  <2>2. \A p \in OpIds : parent[j] = InOp(p) => (p \in lowered' <=> p \in lowered)
    BY <1>4
  <2> QED BY <2>1, <2>2, SupportKept DEF Reached
<1>6. ProgressInv'
  <2> USE <1>1, SupportKept DEF ProgressInv
  <2>1. \A j \in OpIds : j \in lowered' \/ Pending(InOp(j))' => Reached(j)'
    BY <1>3, <1>5
  <2>2. \A j \in OpIds : Reached(j)' => j \in lowered' \/ Pending(InOp(j))' \/ ~Illegal(j)
    BY <1>3, <1>5
  <2>3. \A j \in lowered' : ~Pending(InOp(j))' /\ Illegal(j) /\ Supported(j)
    BY <1>3
  <2>4. \A k \in DOMAIN decls : ~Pending(InFunc(k))' => ~UnknownBuiltin(k) /\ ~UnknownSignature(k)
    BY <1>3
  <2>5. {b.op : b \in boxes'} = {j \in lowered' : ops[j].kind = "box"}
    BY DEF ProgressInv
  <2>6. lowered' \subseteq OpIds
    OBVIOUS
  <2> QED BY <2>1, <2>2, <2>3, <2>4, <2>5, <2>6
<1> QED BY <1>1, <1>2, <1>6, SupportKept DEF OrderInv, SourceInv, source, Places, OpIds

\* A box is lowered, and what is in its region comes next.
LEMMA BoxProgress ==
    ASSUME OrderInv, NEW i \in OpIds, LowerBox(i)
    PROVE  OrderInv'
<1>1. /\ status = "converting" /\ todo # <<>> /\ Head(todo) = InOp(i) /\ Enter(InOp(i))
      /\ ops[i].kind = "box" /\ Illegal(i) /\ Supported(i) /\ lowered' = lowered \cup {i}
      /\ UNCHANGED source /\ UNCHANGED status
  BY DEF LowerBox, At
<1>2. {b.op : b \in boxes'} = {b.op : b \in boxes} \cup {i}
  <2> DEFINE worker == UniqueName("closure_worker_")
             wrapper == UniqueName("closure_wrapper_")
             drop == IF ClosureFields(ops[i].captures) # {} THEN UniqueName("closure_drop_")
                     ELSE Plain("closure_drop_nothing")
             b == [op |-> i, worker |-> worker, wrapper |-> wrapper, drop |-> drop]
  <2>1. boxes' = boxes \cup {b}
    BY DEF LowerBox
  <2>2. b.op = i
    OBVIOUS
  <2> HIDE DEF b
  <2> QED BY <2>1, <2>2
<1>3. SourceInv /\ TodoInv /\ ProgressInv /\ Pending(InOp(i))
  BY <1>1, HeadFacts DEF OrderInv
<1>4. \A j \in OpIds : parent[j] = InOp(i) => ~Pending(InOp(j)) /\ j \notin lowered /\ j # i
  <2>1. \A j \in OpIds : parent[j] = InOp(i) => i < j /\ i \in Nat
    BY <1>3 DEF SourceInv
  <2> QED BY <1>3, <2>1 DEF ProgressInv, Reached
<1>5. /\ TodoInv'
      /\ \A x : Pending(x)' <=> \/ Pending(x) /\ x # InOp(i)
                              \/ \E j \in OpIds : x = InOp(j) /\ parent[j] = InOp(i)
  BY <1>1, <1>3, <1>4, EnterFacts
<1>6. /\ \A k : Pending(InFunc(k))' <=> Pending(InFunc(k))
      /\ \A j \in OpIds : Pending(InOp(j))' <=> (Pending(InOp(j)) /\ j # i) \/ parent[j] = InOp(i)
  BY <1>5, PlacesDiffer
<1>7. \A j \in OpIds : Reached(j)' <=> Reached(j) \/ parent[j] = InOp(i)
  <2> SUFFICES ASSUME NEW j \in OpIds PROVE Reached(j)' <=> Reached(j) \/ parent[j] = InOp(i)
    OBVIOUS
  <2>1. parent[j] \in Places
    BY <1>3 DEF SourceInv
  <2>2. CASE parent[j] \in {InFunc(k) : k \in DOMAIN decls}
    BY <1>1, <1>6, <2>2, PlacesDiffer, SupportKept DEF Reached
  <2>3. ASSUME NEW p \in OpIds, parent[j] = InOp(p), p # i PROVE Reached(j)' <=> Reached(j)
    <3>1. Pending(InOp(p))' <=> Pending(InOp(p)) \/ parent[p] = InOp(i)
      BY <1>6, <2>3
    <3>2. parent[p] = InOp(i) => p \notin lowered /\ p \notin lowered'
      BY <1>1, <1>4, <2>3
    <3> QED BY <1>1, <2>3, <3>1, <3>2, PlacesDiffer, SupportKept DEF Reached
  <2>4. CASE parent[j] = InOp(i)
    <3>1. ~Pending(InOp(i))'
      BY <1>4, <1>6
    <3> QED BY <1>1, <2>4, <3>1, PlacesDiffer, SupportKept DEF Reached
  <2> QED BY <2>1, <2>2, <2>3, <2>4, PlacesDiffer DEF Places
<1>8. ProgressInv'
  <2> USE <1>1, <1>3, SupportKept DEF ProgressInv
  <2>1. \A j \in OpIds : j \in lowered' \/ Pending(InOp(j))' => Reached(j)'
    BY <1>6, <1>7
  <2>2. \A j \in OpIds : Reached(j)' => j \in lowered' \/ Pending(InOp(j))' \/ ~Illegal(j)
    BY <1>6, <1>7
  <2>3. \A j \in lowered' : ~Pending(InOp(j))' /\ Illegal(j) /\ Supported(j)
    BY <1>4, <1>6
  <2>4. \A k \in DOMAIN decls : ~Pending(InFunc(k))' => ~UnknownBuiltin(k) /\ ~UnknownSignature(k)
    BY <1>6
  <2>5. {b.op : b \in boxes'} = {j \in lowered' : ops[j].kind = "box"}
    <3>1. {b.op : b \in boxes} = {j \in lowered : ops[j].kind = "box"}
      BY DEF ProgressInv
    <3> QED BY <1>2, <3>1
  <2> QED BY <2>1, <2>2, <2>3, <2>4, <2>5
<1> QED BY <1>1, <1>3, <1>5, <1>8, SupportKept DEF OrderInv, SourceInv, source, Places, OpIds

\* A failure or the end of the conversion leaves the list alone.
LEMMA StopProgress ==
    ASSUME OrderInv, UNCHANGED <<source, todo, lowered, boxes>>,
           \/ status' = "failed" /\ Unsupported
           \/ status' = "done" /\ todo = <<>>
           \/ status' = status
    PROVE  OrderInv'
<1>1. Unsupported' = Unsupported
  BY SupportKept DEF source
<1>2. \A x : Pending(x)' <=> Pending(x)
  BY DEF Pending
<1>3. \A i : Reached(i)' <=> Reached(i)
  BY <1>2, SupportKept DEF Reached, source
<1>4. SourceInv' /\ TodoInv'
  BY <1>2, SupportKept DEF OrderInv, SourceInv, TodoInv, source, Places, OpIds
<1>5. ProgressInv'
  BY <1>1, <1>2, <1>3, SupportKept DEF OrderInv, ProgressInv, source
<1> QED BY <1>4, <1>5 DEF OrderInv

LEMMA OrderNext == OrderInv /\ [Next]_vars => OrderInv'
<1> SUFFICES ASSUME OrderInv, [Next]_vars PROVE OrderInv'
  OBVIOUS
<1>1. ASSUME NEW k \in DOMAIN decls, ConvertFunc(k) PROVE OrderInv'
  BY <1>1, FuncProgress
<1>2. ASSUME NEW k \in DOMAIN decls, RejectFunc(k) PROVE OrderInv'
  <2>1. Unsupported
    BY <1>2 DEF RejectFunc, Unsupported
  <2> QED BY <1>2, <2>1, StopProgress DEF RejectFunc, Fail
<1>3. ASSUME NEW i \in OpIds, NEW bases, At(i, "push") \/ At(i, "pop") \/ At(i, "check_drop") \/ At(i, "closure.call")
                                           \/ At(i, "call") \/ At(i, "branch"), CallRuntime(i, bases)
      PROVE  OrderInv'
  BY <1>3, FlatProgress DEF At, CallRuntime
<1>4. ASSUME NEW i \in OpIds, LowerPush(i) \/ LowerPop(i) \/ LowerCheckDrop(i) \/ LowerCall(i) \/ LowerBranch(i)
      PROVE  OrderInv'
  BY <1>3, <1>4 DEF LowerPush, LowerPop, LowerCheckDrop, LowerCall, LowerBranch
<1>5. ASSUME NEW i \in OpIds, LowerBox(i) PROVE OrderInv'
  BY <1>5, BoxProgress
<1>6. ASSUME NEW i \in OpIds, Skip(i) PROVE OrderInv'
  <2>1. ops[i].kind # "box"
    BY <1>6 DEF Skip, Illegal
  <2> QED BY <1>6, <2>1, FlatProgress DEF Skip
<1>7. ASSUME NEW i \in OpIds, RejectOp(i) PROVE OrderInv'
  <2>1. Unsupported
    BY <1>7 DEF RejectOp, Unsupported
  <2> QED BY <1>7, <2>1, StopProgress DEF RejectOp, Fail
<1>8. CASE Finish
  BY <1>8, StopProgress DEF Finish
<1>9. CASE UNCHANGED vars
  BY <1>9, StopProgress DEF vars
<1> QED BY <1>1, <1>2, <1>4, <1>5, <1>6, <1>7, <1>8, <1>9 DEF Next, Step, Terminated

LEMMA OrderInit == Init => OrderInv
<1> SUFFICES ASSUME Init PROVE OrderInv
  OBVIOUS
<1>1. PICK f \in Inputs : /\ pass = f.pass
                          /\ decls \in UNION {[1 .. n -> f.decls] : n \in 1 .. f.maxDecls}
                          /\ ops \in UNION {[1 .. n -> f.ops] : n \in 0 .. f.numOps}
  BY DEF Init
<1>2. PICK n \in 1 .. f.maxDecls : decls \in [1 .. n -> f.decls]
  BY <1>1
<1>3. PICK m \in 0 .. f.numOps : ops \in [1 .. m -> f.ops]
  BY <1>1
<1>4. pass \in {"sigi", "closure"} /\ n \in Nat /\ m \in Nat /\ DOMAIN decls = 1 .. n /\ OpIds = 1 .. m
  BY <1>1, <1>2, <1>3, InputAssumption DEF OpIds
<1>5. \A i, j \in OpIds : parent[j] = InOp(i) => i < j /\ ops[i].kind = "box"
  <2> SUFFICES ASSUME NEW i \in OpIds, NEW j \in OpIds, parent[j] = InOp(i) PROVE i < j /\ ops[i].kind = "box"
    OBVIOUS
  <2>1. parent[j][1] = "op" /\ parent[j][2] = i
    BY DEF InOp
  <2> QED BY <2>1 DEF Init, PreOrder
<1>6. SourceInv
  BY <1>4, <1>5 DEF Init, SourceInv, Places
<1>7. todo = [k \in 1 .. n |-> InFunc(k)] /\ Len(todo) = n /\ todo \in Seq(Places)
  <2>1. todo = [k \in 1 .. n |-> InFunc(k)]
    BY <1>4 DEF Init
  <2>2. \A k \in 1 .. n : InFunc(k) \in Places
    BY <1>4 DEF Places
  <2> QED BY <1>4, <2>1, <2>2
<1>8. \A x : Pending(x) <=> \E k \in DOMAIN decls : x = InFunc(k)
  BY <1>4, <1>7 DEF Pending
<1>9. TodoInv
  BY <1>4, <1>7, <1>8, PlacesDiffer DEF TodoInv
<1>10. \A i \in OpIds : ~Pending(InOp(i)) /\ ~Reached(i)
  <2> SUFFICES ASSUME NEW i \in OpIds PROVE ~Pending(InOp(i)) /\ ~Reached(i)
    OBVIOUS
  <2>1. parent[i] \in Places
    BY <1>6 DEF SourceInv
  <2> QED BY <1>8, <2>1, PlacesDiffer DEF Reached, Init, Places
<1>11. ProgressInv
  BY <1>8, <1>10 DEF ProgressInv, Init
<1> QED BY <1>6, <1>9, <1>11 DEF OrderInv

\* When nothing is pending, everything was reached: the region of a box is
\* numbered after the box, so a least operation not reached has no parent.
LEMMA AllReached ==
    ASSUME OrderInv, todo = <<>>
    PROVE  \A i \in OpIds : i \in lowered \/ ~Illegal(i)
<1> DEFINE Left == {i \in OpIds : i \notin lowered /\ Illegal(i)}
<1>1. \A x : ~Pending(x)
  BY DEF Pending
<1>2. OpIds \subseteq Nat
  BY DEF OrderInv, SourceInv
<1>3. ASSUME Left # {} PROVE FALSE
  <2>1. PICK i \in Left : \A j \in Left : i <= j
    BY <1>2, <1>3, LeastNat
  <2>2. ASSUME NEW p \in OpIds, parent[i] = InOp(p) PROVE p \in lowered
    <3>1. p < i /\ ops[p].kind = "box" /\ p \in Nat /\ i \in Nat
      BY <1>2, <2>1, <2>2 DEF OrderInv, SourceInv
    <3>2. Illegal(p) /\ p \notin Left
      BY <2>1, <3>1 DEF Illegal
    <3> QED BY <3>2
  <2>3. Reached(i)
    BY <1>1, <2>2 DEF Reached
  <2> QED BY <1>1, <2>1, <2>3 DEF OrderInv, ProgressInv
<1> QED BY <1>3

\* Everything the passes convert, they convert: convert-sigi-to-llvm and
\* convert-closure-to-llvm fail only on a module that has something without a
\* lowering, and leave nothing behind otherwise, however deep boxes are nested.
THEOREM ConversionComplete == Spec => []ConvertsAllOrFails
<1>1. OrderInv => ConvertsAllOrFails
  <2> SUFFICES ASSUME OrderInv PROVE ConvertsAllOrFails
    OBVIOUS
  <2>1. ASSUME status = "done" PROVE ~Unsupported /\ \A i \in OpIds : Illegal(i) => i \in lowered
    <3>1. todo = <<>> /\ \A x : ~Pending(x)
      BY <2>1 DEF OrderInv, ProgressInv, Pending
    <3> QED BY <3>1, AllReached DEF OrderInv, ProgressInv, Unsupported
  <2> QED BY <2>1 DEF ConvertsAllOrFails, OrderInv, ProgressInv
<1> QED BY OrderInit, OrderNext, <1>1, PTL DEF Spec

------------------------------------------------------------------------------
(* The symbols: what the passes declare, generate and refer to *)


\* The functions of the runtime and of C that the passes look up, and the
\* prefixes of what they generate for a box.
RuntimeNames == MainCallees \cup
    {"sigi_push_i32", "sigi_push_bool", "sigi_push_closure", "sigi_pop_i32", "sigi_pop_bool", "sigi_pop_closure",
     "closure_check_drop", "closure_decr_then_drop", "closure_incr", "closure_drop_nothing"}
BoxParts == {"worker", "wrapper", "drop"}
Prefix(part) == CASE part = "worker"  -> "closure_worker_"
                  [] part = "wrapper" -> "closure_wrapper_"
                  [] part = "drop"    -> "closure_drop_"

Function(name, dialect, origin) == [name |-> name, dialect |-> dialect, origin |-> origin]

\* The name of the program's j-th function: its own, or that of the runtime's pp.
NameOf(j, name) ==
    \/ name = decls[j].name
    \/ decls[j].attr = "sigi.builtinfunc" /\ decls[j].name = Pp /\ name = RuntimePp

\* Where a function of the module comes from says what its name is.
OfProgram(f) == \E j \in DOMAIN decls : f.origin = InFunc(j) /\ NameOf(j, f.name)
OfRuntime(f) == f.origin = <<"decl", 0>> /\ \E b \in RuntimeNames : f.name = Plain(b)
OfMain(f) == \E k \in DOMAIN decls : f.origin = <<"main", k>> /\ f.name = Plain("main")
OfBox(f) == \E part \in BoxParts, i \in OpIds, n \in Nat :
                f.origin = <<part, i>> /\ f.name = Numbered(Prefix(part), n)

\* A function that the passes add, and any function of the module.
Added(f) == f = Function(f.name, "llvm", f.origin) /\ (OfRuntime(f) \/ OfMain(f) \/ OfBox(f))
Known(f) == f = Function(f.name, f.dialect, f.origin) /\ f.dialect \in {"func", "llvm"} /\ (OfProgram(f) \/ Added(f))

\* A module has one function for each of the program's.
FunctionsOK(m) ==
    /\ IsFiniteSet(m)
    /\ \A f \in m : Known(f)
    /\ \A j \in DOMAIN decls : \E f \in m : f.origin = InFunc(j)
    /\ \A j \in DOMAIN decls : \A f, g \in m : f.origin = InFunc(j) /\ g.origin = InFunc(j) => f = g

ModuleInv == FunctionsOK(module)

\* In convert-sigi-to-llvm the functions left are the ones not of the LLVM dialect.
DialectInv ==
    pass = "sigi" => \A f \in module, j \in DOMAIN decls :
        f.origin = InFunc(j) => (f.dialect = "func" <=> Pending(InFunc(j)))

------------------------------------------------------------------------------
(* Names *)

LEMMA NamesDiffer ==
    /\ \A a, b : Plain(a) = Plain(b) => a = b
    /\ \A a, p, n : Plain(a) # Numbered(p, n)
    /\ \A p, q, m, n : Numbered(p, m) = Numbered(q, n) => p = q /\ m = n
    /\ \A p, n : Numbered(p, n) # Pp /\ Numbered(p, n) # RuntimePp
    /\ \A b \in RuntimeNames : Plain(b) # Pp /\ Plain(b) # RuntimePp /\ Plain(b) # Plain("main")
    /\ Plain("main") # Pp /\ Plain("main") # RuntimePp /\ Pp # RuntimePp
  BY DEF Plain, Numbered, Pp, RuntimePp, RuntimeNames, MainCallees

LEMMA OriginsDiffer ==
    /\ \A j, k : InFunc(j) = InFunc(k) => j = k
    /\ \A j : InFunc(j) # <<"decl", 0>>
    /\ \A j, k : InFunc(j) # <<"main", k>> /\ <<"main", k>> # <<"decl", 0>>
    /\ \A j, i : \A part \in BoxParts :
           <<part, i>> # InFunc(j) /\ <<part, i>> # <<"main", j>> /\ <<part, i>> # <<"decl", 0>> /\ <<part, i>> # InOp(j)
  BY DEF InFunc, InOp, BoxParts

LEMMA FunctionFacts ==
    ASSUME NEW name, NEW dialect, NEW origin
    PROVE  LET f == Function(name, dialect, origin)
           IN  /\ f.name = name /\ f.dialect = dialect /\ f.origin = origin
               /\ [f EXCEPT !.dialect = "llvm"] = Function(name, "llvm", origin)
               /\ \A x : [f EXCEPT !.name = x] = Function(x, dialect, origin)
  BY DEF Function

\* getUniqueFunctionName finds a number that no symbol of the module has.
LEMMA UniqueFacts ==
    ASSUME IsFiniteSet(module), NEW prefix
    PROVE  \E n \in Nat : UniqueName(prefix) = Numbered(prefix, n) /\ Numbered(prefix, n) \notin Names(module)
<1> DEFINE N == Cardinality(module)
           Free == {n \in 0 .. N : Numbered(prefix, n) \notin Names(module)}
<1>1. N \in Nat
  BY FS_CardinalityType
<1>2. Free # {}
  <2> SUFFICES ASSUME Free = {} PROVE FALSE
    OBVIOUS
  <2> DEFINE holder == [n \in 0 .. N |-> CHOOSE f \in module : f.name = Numbered(prefix, n)]
  <2>1. \A n \in 0 .. N : holder[n] \in module /\ holder[n].name = Numbered(prefix, n)
    BY DEF Names
  <2>2. holder \in [0 .. N -> module]
    BY <2>1
  <2>3. \A n \in 0 .. N : \A m \in 0 .. N : holder[m] = holder[n] => m = n
    <3> HIDE DEF holder
    <3> QED BY <2>1, NamesDiffer
  <2>4. IsFiniteSet(0 .. N) /\ Cardinality(0 .. N) = N + 1
    BY <1>1, FS_Interval
  <2> HIDE DEF holder
  <2> QED BY <1>1, <2>2, <2>3, <2>4, FS_PigeonHole
<1>3. PICK k \in Free : \A m \in Free : k <= m
  <2>1. Free \in SUBSET Nat
    BY <1>1
  <2> HIDE DEF Free
  <2> QED BY <1>2, <2>1, LeastNat
<1>4. k \in 0 .. N /\ Numbered(prefix, k) \notin Names(module)
  OBVIOUS
<1>5. \A j \in 0 .. k - 1 : Numbered(prefix, j) \in Names(module)
  BY <1>1, <1>3, <1>4
<1> DEFINE Least(n) == /\ Numbered(prefix, n) \notin Names(module)
                       /\ \A j \in 0 .. n - 1 : Numbered(prefix, j) \in Names(module)
           c == CHOOSE n \in 0 .. N : Least(n)
<1>6. UniqueName(prefix) = Numbered(prefix, c)
  BY DEF UniqueName
<1>7. c \in 0 .. N /\ Least(c)
  <2>1. Least(k)
    BY <1>4, <1>5
  <2> HIDE DEF Least
  <2> QED BY <1>4, <2>1
<1> HIDE DEF c
<1> QED BY <1>1, <1>6, <1>7

------------------------------------------------------------------------------
(* The module *)

\* lookupOrCreateFn for a set of names.
Declared(m, bases) == {Function(Plain(b), "llvm", <<"decl", 0>>) :
                           b \in {b \in bases : \A f \in m : f.name = Plain(b) => f.dialect # "llvm"}}

LEMMA DeclaredFacts ==
    ASSUME NEW m, NEW bases \in SUBSET RuntimeNames, IsFiniteSet(bases)
    PROVE  /\ LookupOrCreate(m, bases) = m \cup Declared(m, bases)
           /\ IsFiniteSet(Declared(m, bases))
           /\ \A f \in Declared(m, bases) : Added(f) /\ f.origin = <<"decl", 0>> /\ f.dialect = "llvm"
                  /\ \E b \in bases : f.name = Plain(b) /\ \A g \in m : g.name = Plain(b) => g.dialect # "llvm"
           /\ \A b \in bases : \/ \E f \in Declared(m, bases) : f.name = Plain(b)
                               \/ \E f \in m : f.name = Plain(b) /\ f.dialect = "llvm"
<1> DEFINE free == {b \in bases : \A f \in m : f.name = Plain(b) => f.dialect # "llvm"}
           D == Declared(m, bases)
           fn == [b \in free |-> Function(Plain(b), "llvm", <<"decl", 0>>)]
<1>1. LookupOrCreate(m, bases) = m \cup D
  BY DEF LookupOrCreate, Declared, Function
<1>2. IsFiniteSet(D)
  <2>1. fn \in Surjection(free, D)
    BY DEF Declared, Surjection
  <2>2. IsFiniteSet(free)
    BY FS_Subset
  <2> HIDE DEF fn, D, free
  <2> QED BY <2>1, <2>2, FS_Surjection
<1>3. ASSUME NEW f \in D
      PROVE  Added(f) /\ f.origin = <<"decl", 0>> /\ f.dialect = "llvm"
                 /\ \E b \in bases : f.name = Plain(b) /\ \A g \in m : g.name = Plain(b) => g.dialect # "llvm"
  <2>1. PICK b \in free : f = Function(Plain(b), "llvm", <<"decl", 0>>)
    BY DEF Declared
  <2>2. f.name = Plain(b) /\ f.origin = <<"decl", 0>> /\ f.dialect = "llvm"
    BY <2>1, FunctionFacts
  <2>3. Added(f)
    BY <2>1, <2>2 DEF Added, OfRuntime
  <2> QED BY <2>2, <2>3
<1>4. ASSUME NEW b \in bases
      PROVE  (\E f \in D : f.name = Plain(b)) \/ (\E f \in m : f.name = Plain(b) /\ f.dialect = "llvm")
  <2>1. CASE b \in free
    <3>1. Function(Plain(b), "llvm", <<"decl", 0>>) \in D
      BY <2>1 DEF Declared
    <3> QED BY <3>1, FunctionFacts
  <2>2. CASE b \notin free
    BY <2>2
  <2> QED BY <2>1, <2>2
<1> QED BY <1>1, <1>2, <1>3, <1>4

\* What a pass adds leaves the program's functions as they are.
LEMMA GrowFacts ==
    ASSUME NEW m, FunctionsOK(m), NEW new, IsFiniteSet(new), \A f \in new : Added(f)
    PROVE  FunctionsOK(m \cup new) /\ \A f \in new, j \in DOMAIN decls : f.origin # InFunc(j)
<1>1. \A f \in new : Known(f) /\ \A j \in DOMAIN decls : f.origin # InFunc(j)
  <2> SUFFICES ASSUME NEW f \in new PROVE Known(f) /\ \A j \in DOMAIN decls : f.origin # InFunc(j)
    OBVIOUS
  <2>1. Added(f)
    OBVIOUS
  <2>2. \A j \in DOMAIN decls : f.origin # InFunc(j)
    BY <2>1, OriginsDiffer DEF Added, OfRuntime, OfMain, OfBox
  <2>3. f.dialect = "llvm"
    BY <2>1, FunctionFacts DEF Added
  <2> QED BY <2>1, <2>2, <2>3 DEF Known, Added
<1>2. IsFiniteSet(m \cup new)
  BY FS_Union DEF FunctionsOK
<1> QED BY <1>1, <1>2 DEF FunctionsOK

\* What the conversion of the k-th function does to a function of the module.
Conv(f, k) ==
    Function(IF decls[k].attr = "sigi.builtinfunc" /\ f.origin = InFunc(k) THEN RuntimePp ELSE f.name,
             IF f.origin = InFunc(k) THEN "llvm" ELSE f.dialect,
             f.origin)
Converted(k) == {Conv(f, k) : f \in module}

LEMMA ConvFacts ==
    ASSUME NEW f, NEW k
    PROVE  /\ Conv(f, k).origin = f.origin
           /\ Conv(f, k).dialect = IF f.origin = InFunc(k) THEN "llvm" ELSE f.dialect
           /\ Conv(f, k).name = IF decls[k].attr = "sigi.builtinfunc" /\ f.origin = InFunc(k) THEN RuntimePp ELSE f.name
           /\ Conv(f, k) = Function(Conv(f, k).name, Conv(f, k).dialect, Conv(f, k).origin)
  BY FunctionFacts DEF Conv

\* The two conversions of a function, as the code composes them.
LEMMA ConvertedIs ==
    ASSUME ModuleInv, NEW k
    PROVE  /\ decls[k].attr # "sigi.builtinfunc" => ToLLVM(k) = Converted(k)
           /\ decls[k].attr = "sigi.builtinfunc" =>
                  {IF f.origin = InFunc(k) THEN [f EXCEPT !.name = RuntimePp] ELSE f : f \in ToLLVM(k)} = Converted(k)
<1> DEFINE toLLVM(f) == IF f.origin = InFunc(k) THEN [f EXCEPT !.dialect = "llvm"] ELSE f
           renamed(f) == IF f.origin = InFunc(k) THEN [f EXCEPT !.name = RuntimePp] ELSE f
<1>1. ASSUME NEW f \in module
      PROVE  /\ toLLVM(f) = Function(f.name, IF f.origin = InFunc(k) THEN "llvm" ELSE f.dialect, f.origin)
             /\ renamed(toLLVM(f)) = Function(IF f.origin = InFunc(k) THEN RuntimePp ELSE f.name,
                                              IF f.origin = InFunc(k) THEN "llvm" ELSE f.dialect, f.origin)
  <2>1. PICK n, d, o : n = f.name /\ d = f.dialect /\ o = f.origin
    OBVIOUS
  <2>2. f = Function(n, d, o)
    BY <2>1 DEF ModuleInv, FunctionsOK, Known
  <2>3. CASE o = InFunc(k)
    <3>1. toLLVM(f) = Function(n, "llvm", o)
      BY <2>1, <2>2, <2>3, FunctionFacts
    <3>2. [Function(n, "llvm", o) EXCEPT !.name = RuntimePp] = Function(RuntimePp, "llvm", o)
          /\ Function(n, "llvm", o).origin = o
      BY FunctionFacts
    <3>3. renamed(toLLVM(f)) = Function(RuntimePp, "llvm", o)
      BY <2>3, <3>1, <3>2
    <3> HIDE DEF toLLVM, renamed
    <3> QED BY <2>1, <2>3, <3>1, <3>3
  <2>4. CASE o # InFunc(k)
    BY <2>1, <2>2, <2>4
  <2> QED BY <2>3, <2>4
<1>2. ASSUME decls[k].attr # "sigi.builtinfunc", NEW f \in module PROVE toLLVM(f) = Conv(f, k)
  BY <1>1, <1>2 DEF Conv
<1>3. ASSUME decls[k].attr = "sigi.builtinfunc", NEW f \in module PROVE renamed(toLLVM(f)) = Conv(f, k)
  BY <1>1, <1>3 DEF Conv
<1>4. ToLLVM(k) = {toLLVM(f) : f \in module}
  BY DEF ToLLVM
<1>5. {IF f.origin = InFunc(k) THEN [f EXCEPT !.name = RuntimePp] ELSE f : f \in ToLLVM(k)} = {renamed(f) : f \in ToLLVM(k)}
  OBVIOUS
<1> HIDE DEF toLLVM, renamed
<1>6. {renamed(f) : f \in ToLLVM(k)} = {renamed(toLLVM(f)) : f \in module}
  BY <1>4
<1> QED BY <1>2, <1>3, <1>4, <1>5, <1>6 DEF Converted

LEMMA ConvertedFacts ==
    ASSUME ModuleInv, NEW k \in DOMAIN decls, decls[k].attr = "sigi.builtinfunc" => decls[k].name = Pp
    PROVE  FunctionsOK(Converted(k))
<1>1. IsFiniteSet(module)
  BY DEF ModuleInv, FunctionsOK
<1>2. IsFiniteSet(Converted(k))
  <2> DEFINE conv == [f \in module |-> Conv(f, k)]
  <2>1. conv \in Surjection(module, Converted(k))
    BY DEF Converted, Surjection
  <2> HIDE DEF conv
  <2> QED BY <1>1, <2>1, FS_Surjection
<1>3. ASSUME NEW f \in module PROVE Known(Conv(f, k))
  <2>1. Known(f)
    BY DEF ModuleInv, FunctionsOK
  <2>2. CASE f.origin = InFunc(k)
    <3>1. OfProgram(f)
      BY <2>1, <2>2, OriginsDiffer DEF Known, Added, OfRuntime, OfMain, OfBox
    <3>2. OfProgram(Conv(f, k))
      BY <2>2, <3>1, ConvFacts, OriginsDiffer DEF OfProgram, NameOf
    <3> QED BY <2>2, <3>2, ConvFacts DEF Known
  <2>3. CASE f.origin # InFunc(k)
    <3>1. Conv(f, k) = f
      BY <2>1, <2>3 DEF Known, Conv
    <3> QED BY <2>1, <3>1
  <2> QED BY <2>2, <2>3
<1> QED BY <1>2, <1>3, ConvFacts DEF Converted, ModuleInv, FunctionsOK

------------------------------------------------------------------------------
(* References to symbols, and the code of boxes *)

Use(by, fun) == [by |-> by, fun |-> fun]

\* A sigi.push or sigi.pop refers to the function for its type only.
UsesInv ==
    \A u \in uses :
        /\ u = Use(u.by, u.fun)
        /\ \A i \in OpIds : u.by = InOp(i) =>
               /\ ops[i].kind = "push" => ops[i].type \in DOMAIN PushFunction /\ u.fun = Plain(PushFunction[ops[i].type])
               /\ ops[i].kind = "pop" => ops[i].type \in DOMAIN PopFunction /\ u.fun = Plain(PopFunction[ops[i].type])

\* What is generated for a box shares its name with nothing.
FreshBoxes(m) == \A f, g \in m : OfBox(f) /\ f.name = g.name => f = g
FreshInv == FreshBoxes(module)

\* The module has the code that was generated for a box.
HasPart(name, part, i) == \E f \in module : f.name = name /\ f.origin = <<part, i>>
BoxesInv ==
    \A b \in boxes :
        /\ HasPart(b.worker, "worker", b.op) /\ HasPart(b.wrapper, "wrapper", b.op)
        /\ b.drop = Plain("closure_drop_nothing") \/ HasPart(b.drop, "drop", b.op)

SymbolInv == ModuleInv /\ DialectInv /\ FreshInv /\ BoxesInv /\ UsesInv /\ SymbolsResolve /\ MainCallsRuntime

LEMMA UseFacts ==
    /\ \A by, fun : Use(by, fun).by = by /\ Use(by, fun).fun = fun
    /\ \A by, fun, x : [Use(by, fun) EXCEPT !.fun = x] = Use(by, x)
    /\ \A by, names : References(by, names) = {Use(by, n) : n \in names}
  BY DEF Use, References

LEMMA RenameIs ==
    ASSUME UsesInv
    PROVE  RenameUses = {Use(u.by, IF u.fun = Pp THEN RuntimePp ELSE u.fun) : u \in uses}
<1> DEFINE renamed(u) == IF u.fun = Pp THEN [u EXCEPT !.fun = RuntimePp] ELSE u
<1>1. ASSUME NEW u \in uses PROVE renamed(u) = Use(u.by, IF u.fun = Pp THEN RuntimePp ELSE u.fun)
  <2>1. PICK by, fun : by = u.by /\ fun = u.fun
    OBVIOUS
  <2>2. u = Use(by, fun)
    BY <2>1 DEF UsesInv
  <2> QED BY <2>1, <2>2, UseFacts
<1>2. RenameUses = {renamed(u) : u \in uses}
  BY DEF RenameUses
<1> HIDE DEF renamed
<1> QED BY <1>1, <1>2

\* What is behind the head of the list keeps its place when the head is done.
LEMMA EnterPending ==
    ASSUME OrderInv, todo # <<>>, Enter(Head(todo)), UNCHANGED source
    PROVE  \A j : Pending(InFunc(j))' <=> Pending(InFunc(j)) /\ InFunc(j) # Head(todo)
<1>1. SourceInv /\ TodoInv /\ ProgressInv /\ Pending(Head(todo))
  BY HeadFacts DEF OrderInv
<1>2. \A i \in OpIds : parent[i] = Head(todo) => ~Pending(InOp(i))
  BY <1>1 DEF ProgressInv, Reached
<1>3. PICK where : where = Head(todo)
  OBVIOUS
<1>4. \A x : Pending(x)' <=> \/ Pending(x) /\ x # Head(todo)
                            \/ \E i \in OpIds : x = InOp(i) /\ parent[i] = where
  BY <1>1, <1>2, <1>3, EnterFacts
<1> QED BY <1>4, PlacesDiffer

------------------------------------------------------------------------------
(* The steps of a conversion *)

\* An operation becomes calls of functions of the runtime.
Calls(i, bases) ==
    /\ CallRuntime(i, bases) /\ todo # <<>> /\ Head(todo) = InOp(i)
    /\ bases \subseteq RuntimeNames \ MainCallees /\ IsFiniteSet(bases)
    /\ ops[i].kind = "push" => ops[i].type \in DOMAIN PushFunction /\ bases = {PushFunction[ops[i].type]}
    /\ ops[i].kind = "pop" => ops[i].type \in DOMAIN PopFunction /\ bases = {PopFunction[ops[i].type]}

\* A step that leaves the symbols alone.
Quiet ==
    /\ UNCHANGED <<source, module, uses, boxes>>
    /\ \A j : Pending(InFunc(j))' <=> Pending(InFunc(j))

LEMMA CallCases ==
    ASSUME NEW i \in OpIds, LowerPush(i) \/ LowerPop(i) \/ LowerCheckDrop(i) \/ LowerCall(i) \/ LowerBranch(i)
    PROVE  \E bases : Calls(i, bases)
<1>1. \A b : IsFiniteSet({b})
  BY FS_Singleton
<1>2. CASE LowerPush(i)
  <2>1. /\ CallRuntime(i, {PushFunction[ops[i].type]}) /\ todo # <<>> /\ Head(todo) = InOp(i)
        /\ ops[i].kind = "push" /\ ops[i].type \in DOMAIN PushFunction
    BY <1>2 DEF LowerPush, At, Supported
  <2>2. PushFunction[ops[i].type] \in RuntimeNames \ MainCallees
    BY <2>1 DEF PushFunction, RuntimeNames, MainCallees
  <2> QED BY <1>1, <2>1, <2>2 DEF Calls
<1>3. CASE LowerPop(i)
  <2>1. /\ CallRuntime(i, {PopFunction[ops[i].type]}) /\ todo # <<>> /\ Head(todo) = InOp(i)
        /\ ops[i].kind = "pop" /\ ops[i].type \in DOMAIN PopFunction
    BY <1>3 DEF LowerPop, At, Supported
  <2>2. PopFunction[ops[i].type] \in RuntimeNames \ MainCallees
    BY <2>1 DEF PopFunction, RuntimeNames, MainCallees
  <2> QED BY <1>1, <2>1, <2>2 DEF Calls
<1>4. CASE LowerCheckDrop(i)
  <2>1. "closure_check_drop" \in RuntimeNames \ MainCallees
    BY DEF RuntimeNames, MainCallees
  <2> QED BY <1>1, <1>4, <2>1 DEF Calls, LowerCheckDrop, At
<1>5. CASE LowerCall(i) \/ LowerBranch(i)
  BY <1>5, FS_EmptySet DEF Calls, LowerCall, LowerBranch, At
<1> QED BY <1>2, <1>3, <1>4, <1>5

LEMMA StepCases ==
    ASSUME OrderInv, [Next]_vars
    PROVE  \/ Quiet
           \/ \E k \in DOMAIN decls : ConvertFunc(k)
           \/ \E i \in OpIds : \E bases : Calls(i, bases)
           \/ \E i \in OpIds : LowerBox(i)
<1>1. ASSUME UNCHANGED <<source, module, uses, todo, boxes>> PROVE Quiet
  BY <1>1 DEF Quiet, Pending
<1>2. ASSUME NEW k \in DOMAIN decls, RejectFunc(k) PROVE Quiet
  BY <1>1, <1>2 DEF RejectFunc, Fail
<1>3. ASSUME NEW i \in OpIds, Skip(i) PROVE Quiet
  <2>1. \A x : Pending(x)' <=> Pending(x) /\ x # InOp(i)
    BY <1>3, TailFacts DEF Skip, OrderInv
  <2> QED BY <1>3, <2>1, PlacesDiffer DEF Quiet, Skip
<1>4. ASSUME NEW i \in OpIds, RejectOp(i) PROVE Quiet
  BY <1>1, <1>4 DEF RejectOp, Fail
<1>5. CASE Finish
  BY <1>1, <1>5 DEF Finish
<1>6. CASE UNCHANGED vars
  BY <1>1, <1>6 DEF vars
<1> QED BY <1>2, <1>3, <1>4, <1>5, <1>6, CallCases DEF Next, Step, Terminated

\* Where a function comes from is a matter of the source module.
LEMMA SourceKept ==
    ASSUME UNCHANGED source, NEW m, module' = m
    PROVE  /\ ModuleInv' <=> FunctionsOK(m)
           /\ FreshInv' <=> FreshBoxes(m)
<1>1. decls' = decls /\ OpIds' = OpIds
  BY SupportKept
<1>2. \A f : /\ Known(f)' <=> Known(f)
             /\ OfBox(f)' <=> OfBox(f)
  <2> SUFFICES ASSUME NEW f PROVE (Known(f)' <=> Known(f)) /\ (OfBox(f)' <=> OfBox(f))
    OBVIOUS
  <2>1. OfProgram(f)' <=> OfProgram(f)
    BY <1>1 DEF OfProgram, NameOf
  <2>2. OfMain(f)' <=> OfMain(f)
    BY <1>1 DEF OfMain
  <2>3. OfBox(f)' <=> OfBox(f)
    BY <1>1 DEF OfBox
  <2> QED BY <2>1, <2>2, <2>3 DEF Known, Added, OfRuntime
<1>3. ModuleInv' <=> FunctionsOK(m)
  BY <1>1, <1>2 DEF ModuleInv, FunctionsOK
<1>4. FreshInv' <=> FreshBoxes(m)
  BY <1>2 DEF FreshInv, FreshBoxes
<1> QED BY <1>3, <1>4

\* New code for a box has names of its own.
FreshNew(m, new) ==
    \A f \in new : OfBox(f) => f.name \notin Names(m) /\ \A g \in new : g.name = f.name => g = f

LEMMA PlainAndNumbered ==
    ASSUME NEW f, Added(f)
    PROVE  \/ OfBox(f) /\ \A x : f.name # Plain(x)
           \/ ~OfBox(f) /\ \A p, n : f.name # Numbered(p, n)
<1>1. CASE OfBox(f)
  BY <1>1, NamesDiffer DEF OfBox
<1>2. CASE OfRuntime(f) \/ OfMain(f)
  <2>1. \A p, n : f.name # Numbered(p, n)
    BY <1>2, NamesDiffer DEF OfRuntime, OfMain
  <2> QED BY <2>1 DEF OfBox
<1> QED BY <1>1, <1>2 DEF Added

LEMMA FreshGrow ==
    ASSUME NEW m, FreshBoxes(m), NEW new, \A f \in new : Added(f), FreshNew(m, new)
    PROVE  FreshBoxes(m \cup new)
<1>1. ASSUME NEW f \in m, NEW g \in new, OfBox(f) \/ OfBox(g) PROVE f.name # g.name
  <2>1. CASE OfBox(g)
    BY <2>1 DEF FreshNew, Names
  <2>2. CASE ~OfBox(g)
    BY <1>1, <2>2, PlainAndNumbered DEF OfBox
  <2> QED BY <2>1, <2>2
<1> QED BY <1>1 DEF FreshBoxes, FreshNew

\* What a step that only adds functions keeps.
LEMMA GrowSymbols ==
    ASSUME SymbolInv, UNCHANGED source, NEW new, IsFiniteSet(new), \A f \in new : Added(f), FreshNew(module, new),
           module' = module \cup new, \A j : Pending(InFunc(j))' <=> Pending(InFunc(j))
    PROVE  /\ ModuleInv' /\ DialectInv' /\ FreshInv'
           /\ \A name, part, i : HasPart(name, part, i) => HasPart(name, part, i)'
<1>1. FunctionsOK(module) /\ FreshBoxes(module)
  BY DEF SymbolInv, ModuleInv, FreshInv
<1>2. /\ FunctionsOK(module \cup new) /\ FreshBoxes(module \cup new)
      /\ \A f \in new, j \in DOMAIN decls : f.origin # InFunc(j)
  BY <1>1, GrowFacts, FreshGrow
<1>3. ModuleInv' /\ FreshInv'
  BY <1>2, SourceKept
<1>4. DialectInv'
  BY <1>2 DEF DialectInv, SymbolInv, source
<1> QED BY <1>3, <1>4 DEF HasPart

LEMMA QuietSymbols ==
    ASSUME SymbolInv, Quiet
    PROVE  SymbolInv'
<1>1. decls' = decls /\ OpIds' = OpIds /\ ops' = ops /\ pass' = pass /\ UNCHANGED <<module, uses, boxes>> /\ UNCHANGED source
  BY SupportKept DEF Quiet, source
<1>2. ModuleInv' /\ FreshInv'
  BY <1>1, SourceKept DEF SymbolInv, ModuleInv, FreshInv
<1>3. DialectInv'
  BY <1>1 DEF DialectInv, SymbolInv, Quiet
<1>4. BoxesInv' /\ SymbolsResolve' /\ MainCallsRuntime'
  BY <1>1 DEF SymbolInv, BoxesInv, HasPart, SymbolsResolve, Names, MainCallsRuntime
<1>5. UsesInv'
  BY <1>1 DEF SymbolInv, UsesInv
<1> QED BY <1>2, <1>3, <1>4, <1>5 DEF SymbolInv

\* An operation that becomes calls of the runtime.
LEMMA CallSymbols ==
    ASSUME OrderInv, SymbolInv, NEW i \in OpIds, NEW bases, Calls(i, bases)
    PROVE  SymbolInv'
<1> DEFINE new == Declared(module, bases)
           added == {Use(InOp(i), n) : n \in {Plain(b) : b \in bases}}
<1>1. /\ module' = LookupOrCreate(module, bases) /\ uses' = uses \cup References(InOp(i), {Plain(b) : b \in bases})
      /\ todo' = Tail(todo) /\ UNCHANGED source /\ boxes' = boxes
      /\ bases \subseteq RuntimeNames \ MainCallees /\ IsFiniteSet(bases)
      /\ todo # <<>> /\ Head(todo) = InOp(i)
  BY DEF Calls, CallRuntime
<1>2. /\ module' = module \cup new /\ IsFiniteSet(new)
      /\ \A f \in new : Added(f) /\ f.origin = <<"decl", 0>>
      /\ \A b \in bases : (\E f \in new : f.name = Plain(b)) \/ (\E f \in module : f.name = Plain(b))
  <2>1. bases \subseteq RuntimeNames
    BY <1>1
  <2> QED BY <1>1, <2>1, DeclaredFacts
<1>3. uses' = uses \cup added
  BY <1>1, UseFacts
<1>4. \A u \in added : u = Use(InOp(i), u.fun) /\ u.by = InOp(i) /\ \E b \in bases : u.fun = Plain(b)
  BY UseFacts
<1>5. \A j : Pending(InFunc(j))' <=> Pending(InFunc(j))
  <2>1. \A x : Pending(x)' <=> Pending(x) /\ x # InOp(i)
    BY <1>1, TailFacts DEF OrderInv
  <2> QED BY <2>1, PlacesDiffer
<1> HIDE DEF new, added
<1>6. FreshNew(module, new)
  BY <1>2, OriginsDiffer DEF FreshNew, OfBox
<1>7. /\ ModuleInv' /\ DialectInv' /\ FreshInv'
      /\ \A name, part, p : HasPart(name, part, p) => HasPart(name, part, p)'
  BY <1>1, <1>2, <1>5, <1>6, GrowSymbols
<1>8. BoxesInv'
  BY <1>1, <1>7 DEF BoxesInv, SymbolInv
<1>9. SymbolsResolve'
  BY <1>2, <1>3, <1>4 DEF SymbolsResolve, SymbolInv, Names
<1>10. MainCallsRuntime'
  <2>1. \A u \in added : u.by[1] # "main"
    BY <1>4 DEF InOp
  <2> QED BY <1>1, <1>2, <1>3, <2>1 DEF MainCallsRuntime, SymbolInv, source
<1>11. UsesInv'
  <2>1. \A u \in added, j \in OpIds : u.by = InOp(j) => j = i
    BY <1>4, PlacesDiffer
  <2>2. /\ ops[i].kind = "push" => ops[i].type \in DOMAIN PushFunction /\ bases = {PushFunction[ops[i].type]}
        /\ ops[i].kind = "pop" => ops[i].type \in DOMAIN PopFunction /\ bases = {PopFunction[ops[i].type]}
    BY DEF Calls
  <2>3. OpIds' = OpIds /\ ops' = ops
    BY <1>1, SupportKept
  <2>4. \A u \in added : u = Use(u.by, u.fun)
    BY <1>4
  <2>5. \A u \in added : /\ ops[i].kind = "push" => ops[i].type \in DOMAIN PushFunction /\ u.fun = Plain(PushFunction[ops[i].type])
                         /\ ops[i].kind = "pop" => ops[i].type \in DOMAIN PopFunction /\ u.fun = Plain(PopFunction[ops[i].type])
    BY <1>4, <2>2
  <2> QED BY <1>3, <2>1, <2>3, <2>4, <2>5 DEF UsesInv, SymbolInv
<1> QED BY <1>7, <1>8, <1>9, <1>10, <1>11 DEF SymbolInv

------------------------------------------------------------------------------
(* Functions *)

\* What the conversion of a function adds to the module, and to the references.
MainCode(k) == Declared(Converted(k), MainCallees) \cup {Function(Plain("main"), "llvm", <<"main", k>>)}
MainUses(k) == {Use(<<"main", k>>, n) : n \in {Plain(b) : b \in MainCallees} \cup {decls[k].name}}

LEMMA ConvertCases ==
    ASSUME SymbolInv, NEW k \in DOMAIN decls, ConvertFunc(k)
    PROVE  \/ pass = "closure" /\ UNCHANGED <<module, uses>>
           \/ /\ pass = "sigi" /\ decls[k].attr = "none"
              /\ module' = Converted(k) /\ uses' = uses
           \/ /\ pass = "sigi" /\ decls[k].attr = "sigi.main"
              /\ module' = Converted(k) \cup MainCode(k) /\ uses' = uses \cup MainUses(k)
           \/ /\ pass = "sigi" /\ decls[k].attr = "sigi.builtinfunc" /\ decls[k].name = Pp
              /\ module' = Converted(k)
              /\ uses' = {Use(u.by, IF u.fun = Pp THEN RuntimePp ELSE u.fun) : u \in uses}
<1>1. ModuleInv /\ UsesInv
  BY DEF SymbolInv
<1>2. CASE pass = "closure" /\ UNCHANGED <<module, uses>>
  BY <1>2
<1>3. CASE pass = "sigi" /\ decls[k].attr = "none" /\ module' = ToLLVM(k) /\ UNCHANGED uses
  BY <1>1, <1>3, ConvertedIs
<1>4. CASE /\ pass = "sigi" /\ decls[k].attr = "sigi.main" /\ module' = WithMain(ToLLVM(k), k)
           /\ uses' = uses \cup References(<<"main", k>>, {Plain(b) : b \in MainCallees} \cup {decls[k].name})
  <2>1. ToLLVM(k) = Converted(k)
    BY <1>1, <1>4, ConvertedIs
  <2>2. IsFiniteSet(MainCallees) /\ MainCallees \subseteq RuntimeNames
    <3>1. MainCallees = {"malloc"} \cup {"sigi_init_stack"} \cup {"sigi_free_stack"} \cup {"free"}
      BY DEF MainCallees
    <3>2. IsFiniteSet({"malloc"} \cup {"sigi_init_stack"} \cup {"sigi_free_stack"} \cup {"free"})
      BY FS_Singleton, FS_Union
    <3> QED BY <3>1, <3>2 DEF RuntimeNames
  <2>3. LookupOrCreate(Converted(k), MainCallees) = Converted(k) \cup Declared(Converted(k), MainCallees)
    BY <2>2, DeclaredFacts
  <2>4. Generated(Plain("main"), "main", k) = Function(Plain("main"), "llvm", <<"main", k>>)
    BY DEF Generated, Function
  <2>5. module' = Converted(k) \cup MainCode(k)
    BY <1>4, <2>1, <2>3, <2>4 DEF WithMain, MainCode
  <2>6. uses' = uses \cup MainUses(k)
    BY <1>4, UseFacts DEF MainUses
  <2> QED BY <1>4, <2>5, <2>6
<1>5. CASE /\ pass = "sigi" /\ decls[k].attr = "sigi.builtinfunc" /\ decls[k].name = Pp
           /\ module' = {IF f.origin = InFunc(k) THEN [f EXCEPT !.name = RuntimePp] ELSE f : f \in ToLLVM(k)}
           /\ uses' = RenameUses
  BY <1>1, <1>5, ConvertedIs, RenameIs
<1> QED BY <1>2, <1>3, <1>4, <1>5 DEF ConvertFunc

LEMMA MainCodeFacts ==
    ASSUME NEW k \in DOMAIN decls
    PROVE  /\ IsFiniteSet(MainCode(k)) /\ \A f \in MainCode(k) : Added(f) /\ f.dialect = "llvm" /\ ~OfBox(f)
           /\ \A b \in MainCallees : \/ \E f \in MainCode(k) : f.name = Plain(b) /\ f.origin = <<"decl", 0>>
                                     \/ \E f \in Converted(k) : f.name = Plain(b) /\ f.dialect = "llvm"
           /\ \A f \in MainCode(k) :
                  \/ f = Function(Plain("main"), "llvm", <<"main", k>>)
                  \/ /\ f.origin = <<"decl", 0>>
                     /\ \E b \in MainCallees :
                            f.name = Plain(b) /\ \A g \in Converted(k) : g.name = Plain(b) => g.dialect # "llvm"
<1> DEFINE D == Declared(Converted(k), MainCallees)
           M == Function(Plain("main"), "llvm", <<"main", k>>)
<1>1. IsFiniteSet(MainCallees) /\ MainCallees \subseteq RuntimeNames
  <2>1. MainCallees = {"malloc"} \cup {"sigi_init_stack"} \cup {"sigi_free_stack"} \cup {"free"}
    BY DEF MainCallees
  <2>2. IsFiniteSet({"malloc"} \cup {"sigi_init_stack"} \cup {"sigi_free_stack"} \cup {"free"})
    BY FS_Singleton, FS_Union
  <2> QED BY <2>1, <2>2 DEF RuntimeNames
<1>2. /\ IsFiniteSet(D)
      /\ \A f \in D : Added(f) /\ f.origin = <<"decl", 0>> /\ f.dialect = "llvm"
             /\ \E b \in MainCallees : f.name = Plain(b) /\ \A g \in Converted(k) : g.name = Plain(b) => g.dialect # "llvm"
      /\ \A b \in MainCallees : \/ \E f \in D : f.name = Plain(b)
                                \/ \E f \in Converted(k) : f.name = Plain(b) /\ f.dialect = "llvm"
  BY <1>1, DeclaredFacts
<1>3. Added(M) /\ M.dialect = "llvm" /\ M.origin = <<"main", k>>
  BY FunctionFacts DEF Added, OfMain
<1>4. MainCode(k) = D \cup {M}
  BY DEF MainCode
<1> HIDE DEF D, M
<1>5. IsFiniteSet(D \cup {M})
  BY <1>2, FS_AddElement
<1>6. \A f \in D \cup {M} : ~OfBox(f)
  BY <1>2, <1>3, OriginsDiffer DEF OfBox
<1> QED BY <1>2, <1>3, <1>4, <1>5, <1>6 DEF M

\* The conversion of a function keeps the code of boxes apart.
LEMMA FreshConverted ==
    ASSUME ModuleInv, FreshInv, NEW k \in DOMAIN decls
    PROVE  /\ FreshBoxes(Converted(k))
           /\ \A f \in module : f.origin # InFunc(k) => f \in Converted(k)
<1>1. \A f \in module : f.origin # InFunc(k) => Conv(f, k) = f
  BY DEF ModuleInv, FunctionsOK, Known, Conv
<1>2. ASSUME NEW f \in module, NEW g \in module, OfBox(Conv(f, k)), Conv(f, k).name = Conv(g, k).name
      PROVE  Conv(f, k) = Conv(g, k)
  <2>1. f.origin # InFunc(k) /\ Conv(f, k) = f
    <3>1. Conv(f, k).origin = f.origin
      BY ConvFacts
    <3>2. PICK part \in BoxParts, i \in OpIds : Conv(f, k).origin = <<part, i>>
      BY <1>2 DEF OfBox
    <3>3. f.origin # InFunc(k)
      BY <3>1, <3>2, OriginsDiffer
    <3> QED BY <1>1, <3>3
  <2>2. f.name # RuntimePp
    BY <1>2, <2>1, NamesDiffer DEF OfBox
  <2>3. f.name = g.name
    BY <1>2, <2>1, <2>2, ConvFacts
  <2> QED BY <1>2, <2>1, <2>3 DEF FreshInv, FreshBoxes
<1> QED BY <1>1, <1>2 DEF Converted, FreshBoxes

\* A function of the LLVM dialect with the name of a callee of main is the
\* runtime's, or was converted before.
LEMMA CalleeIs ==
    ASSUME SourceInv, TodoInv, ModuleInv, DialectInv, pass = "sigi", NEW k \in DOMAIN decls, Pending(InFunc(k)),
           decls[k].attr # "sigi.builtinfunc",
           NEW b \in MainCallees, NEW f \in Converted(k), f.name = Plain(b), f.dialect = "llvm"
    PROVE  \/ f \in module /\ f.origin = <<"decl", 0>>
           \/ \E j \in 1 .. k : decls[j].name = f.name
<1>1. PICK g \in module : f = Conv(g, k)
  BY DEF Converted
<1>2. Known(g) /\ g.name = Plain(b) /\ f.origin = g.origin /\ (g.origin # InFunc(k) => g.dialect = "llvm")
  BY <1>1, ConvFacts DEF ModuleInv, FunctionsOK
<1>3. CASE OfProgram(g)
  <2>1. PICK j \in DOMAIN decls : g.origin = InFunc(j) /\ NameOf(j, g.name)
    BY <1>3 DEF OfProgram
  <2>2. decls[j].name = Plain(b)
    BY <1>2, <2>1, NamesDiffer DEF NameOf, RuntimeNames
  <2>3. j = k \/ j < k
    <3>1. CASE j = k
      BY <3>1
    <3>2. CASE j # k
      <4>1. g.dialect = "llvm"
        BY <1>2, <2>1, <3>2, OriginsDiffer
      <4>2. ~Pending(InFunc(j))
        BY <2>1, <4>1 DEF DialectInv
      <4> QED BY <4>2 DEF TodoInv
    <3> QED BY <3>1, <3>2
  <2>4. j \in Nat \ {0} /\ k \in Nat
    BY DEF SourceInv
  <2> QED BY <2>2, <2>3, <2>4
<1>4. CASE Added(g)
  <2>1. OfRuntime(g)
    BY <1>2, <1>4, NamesDiffer DEF Added, OfMain, OfBox, RuntimeNames
  <2>2. Conv(g, k) = g
    BY <1>2, <2>1, OriginsDiffer DEF Conv, Known, OfRuntime
  <2> QED BY <1>1, <2>1, <2>2 DEF OfRuntime
<1> QED BY <1>2, <1>3, <1>4 DEF Known

\* A function is converted.
LEMMA FuncSymbols ==
    ASSUME OrderInv, SymbolInv, NEW k \in DOMAIN decls, ConvertFunc(k)
    PROVE  SymbolInv'
<1>1. /\ todo # <<>> /\ Head(todo) = InFunc(k) /\ Enter(InFunc(k))
      /\ UNCHANGED source /\ boxes' = boxes
  BY DEF ConvertFunc
<1>2. /\ SourceInv /\ TodoInv /\ Pending(InFunc(k)) /\ ModuleInv /\ FreshInv /\ DialectInv /\ UsesInv
      /\ k \in Nat \ {0}
  BY <1>1, HeadFacts DEF OrderInv, SymbolInv, SourceInv
<1>3. \A j : Pending(InFunc(j))' <=> Pending(InFunc(j)) /\ j # k
  BY <1>1, EnterPending, PlacesDiffer
<1>4. decls' = decls /\ OpIds' = OpIds /\ ops' = ops /\ pass' = pass
  BY <1>1, SupportKept DEF source
<1>5. CASE pass = "closure" /\ UNCHANGED <<module, uses>>
  <2>1. ModuleInv' /\ FreshInv'
    BY <1>1, <1>2, <1>5, SourceKept DEF ModuleInv, FreshInv
  <2>2. DialectInv'
    BY <1>4, <1>5 DEF DialectInv
  <2>3. BoxesInv' /\ SymbolsResolve' /\ MainCallsRuntime'
    BY <1>1, <1>4, <1>5 DEF SymbolInv, BoxesInv, HasPart, SymbolsResolve, Names, MainCallsRuntime
  <2>4. UsesInv'
    BY <1>4, <1>5 DEF SymbolInv, UsesInv
  <2> QED BY <2>1, <2>2, <2>3, <2>4 DEF SymbolInv
<1>6. ASSUME NEW new, module' = Converted(k) \cup new, IsFiniteSet(new), \A f \in new : Added(f) /\ ~OfBox(f),
             decls[k].attr = "sigi.builtinfunc" => decls[k].name = Pp
      PROVE  ModuleInv' /\ FreshInv' /\ DialectInv' /\ BoxesInv'
  <2>1. FunctionsOK(Converted(k))
    BY <1>2, <1>6, ConvertedFacts
  <2>2. FunctionsOK(Converted(k) \cup new) /\ \A f \in new, j \in DOMAIN decls : f.origin # InFunc(j)
    BY <1>6, <2>1, GrowFacts
  <2>3. FreshBoxes(Converted(k)) /\ \A f \in module : f.origin # InFunc(k) => f \in Converted(k)
    BY <1>2, FreshConverted
  <2>4. FreshBoxes(Converted(k) \cup new)
    BY <1>6, <2>3, FreshGrow DEF FreshNew
  <2>5. ModuleInv' /\ FreshInv'
    BY <1>1, <1>6, <2>2, <2>4, SourceKept
  <2>6. DialectInv'
    <3>1. ASSUME pass = "sigi", NEW f \in module', NEW j \in DOMAIN decls, f.origin = InFunc(j)
          PROVE  f.dialect = "func" <=> Pending(InFunc(j))'
      <4>1. f \in Converted(k)
        BY <1>6, <2>2, <3>1
      <4>2. PICK g \in module : f = Conv(g, k)
        BY <4>1 DEF Converted
      <4>3. f.origin = g.origin /\ f.dialect = IF j = k THEN "llvm" ELSE g.dialect
        BY <3>1, <4>2, ConvFacts, OriginsDiffer
      <4>4. g.dialect = "func" <=> Pending(InFunc(j))
        BY <1>2, <3>1, <4>3 DEF DialectInv
      <4> QED BY <1>3, <4>3, <4>4
    <3> QED BY <1>4, <3>1 DEF DialectInv
  <2>7. \A name, i : \A part \in BoxParts : HasPart(name, part, i) => HasPart(name, part, i)'
    BY <1>6, <2>3, OriginsDiffer DEF HasPart
  <2>8. BoxesInv'
    BY <1>1, <2>7 DEF BoxesInv, SymbolInv, BoxParts
  <2> QED BY <2>5, <2>6, <2>8
<1>7. CASE pass = "sigi" /\ decls[k].attr = "none" /\ module' = Converted(k) /\ uses' = uses
  <2>1. module' = Converted(k) \cup {} /\ IsFiniteSet({})
    BY <1>7, FS_EmptySet
  <2>2. ModuleInv' /\ FreshInv' /\ DialectInv' /\ BoxesInv'
    BY <1>6, <1>7, <2>1
  <2>3. \A f \in module : Conv(f, k).name = f.name /\ Conv(f, k).origin = f.origin
    BY <1>7, ConvFacts
  <2>4. SymbolsResolve' /\ MainCallsRuntime'
    <3>1. \A f \in module : \E g \in module' : g.name = f.name /\ g.origin = f.origin
      BY <1>7, <2>3 DEF Converted
    <3>2. SymbolsResolve'
      BY <1>7, <3>1 DEF SymbolInv, SymbolsResolve, Names
    <3>3. ASSUME NEW u \in uses, u.by[1] = "main", u.fun \in {Plain(b) : b \in MainCallees}
          PROVE  \/ \E f \in module' : f.name = u.fun /\ f.origin = <<"decl", 0>>
                 \/ \E j \in 1 .. u.by[2] : decls[j].name = u.fun
      BY <3>1, <3>3 DEF SymbolInv, MainCallsRuntime
    <3> QED BY <1>4, <1>7, <3>2, <3>3 DEF MainCallsRuntime
  <2>5. UsesInv'
    BY <1>4, <1>7 DEF SymbolInv, UsesInv
  <2> QED BY <2>2, <2>4, <2>5 DEF SymbolInv
<1>8. CASE /\ pass = "sigi" /\ decls[k].attr = "sigi.main"
           /\ module' = Converted(k) \cup MainCode(k) /\ uses' = uses \cup MainUses(k)
  <2>1. ModuleInv' /\ FreshInv' /\ DialectInv' /\ BoxesInv'
    BY <1>6, <1>8, MainCodeFacts
  <2>2. \A f \in module : Conv(f, k).name = f.name /\ Conv(f, k).origin = f.origin
    BY <1>8, ConvFacts
  <2>3. \A f \in module : \E g \in module' : g.name = f.name /\ g.origin = f.origin
    BY <1>8, <2>2 DEF Converted
  <2>4. \A u \in MainUses(k) : /\ u = Use(u.by, u.fun) /\ u.by = <<"main", k>>
                               /\ u.fun = decls[k].name \/ \E b \in MainCallees : u.fun = Plain(b)
    BY UseFacts DEF MainUses
  <2>5. SymbolsResolve'
    <3>1. decls[k].name \in Names(module')
      <4>1. PICK f \in module : f.origin = InFunc(k)
        BY <1>2 DEF ModuleInv, FunctionsOK
      <4>2. Known(f)
        BY <1>2 DEF ModuleInv, FunctionsOK
      <4>3. f.name = decls[k].name
        BY <1>8, <4>1, <4>2, OriginsDiffer DEF Known, Added, OfProgram, OfRuntime, OfMain, OfBox, NameOf
      <4> QED BY <2>3, <4>3 DEF Names
    <3>2. \A b \in MainCallees : Plain(b) \in Names(module')
      BY <1>8, MainCodeFacts DEF Names
    <3> QED BY <1>8, <2>3, <2>4, <3>1, <3>2 DEF SymbolInv, SymbolsResolve, Names
  <2>6. MainCallsRuntime'
    <3>1. ASSUME NEW u \in MainUses(k), NEW b \in MainCallees, u.fun = Plain(b)
          PROVE  \/ \E f \in module' : f.name = u.fun /\ f.origin = <<"decl", 0>>
                 \/ \E j \in 1 .. u.by[2] : decls[j].name = u.fun
      <4>1. u.by[2] = k
        BY <2>4
      <4>2. CASE \E f \in MainCode(k) : f.name = Plain(b) /\ f.origin = <<"decl", 0>>
        BY <1>8, <3>1, <4>2
      <4>3. CASE \E f \in Converted(k) : f.name = Plain(b) /\ f.dialect = "llvm"
        <5>1. PICK f \in Converted(k) : f.name = Plain(b) /\ f.dialect = "llvm"
          BY <4>3
        <5>2. \/ f \in module /\ f.origin = <<"decl", 0>>
              \/ \E j \in 1 .. k : decls[j].name = f.name
          BY <1>2, <1>8, <5>1, CalleeIs
        <5> QED BY <1>8, <3>1, <4>1, <5>1, <5>2
      <4> QED BY <4>2, <4>3, MainCodeFacts
    <3>2. ASSUME NEW u \in uses, u.by[1] = "main", u.fun \in {Plain(b) : b \in MainCallees}
          PROVE  \/ \E f \in module' : f.name = u.fun /\ f.origin = <<"decl", 0>>
                 \/ \E j \in 1 .. u.by[2] : decls[j].name = u.fun
      BY <2>3, <3>2 DEF SymbolInv, MainCallsRuntime
    <3> QED BY <1>4, <1>8, <3>1, <3>2 DEF MainCallsRuntime
  <2>7. UsesInv'
    <3>1. \A i \in OpIds, u \in MainUses(k) : u.by # InOp(i)
      BY <2>4 DEF InOp
    <3> QED BY <1>2, <1>4, <1>8, <2>4, <3>1 DEF UsesInv
  <2> QED BY <2>1, <2>5, <2>6, <2>7 DEF SymbolInv
<1>9. CASE /\ pass = "sigi" /\ decls[k].attr = "sigi.builtinfunc" /\ decls[k].name = Pp
           /\ module' = Converted(k)
           /\ uses' = {Use(u.by, IF u.fun = Pp THEN RuntimePp ELSE u.fun) : u \in uses}
  <2>1. module' = Converted(k) \cup {} /\ IsFiniteSet({})
    BY <1>9, FS_EmptySet
  <2>2. ModuleInv' /\ FreshInv' /\ DialectInv' /\ BoxesInv'
    BY <1>6, <1>9, <2>1
  <2>3. \A v \in uses' : \E u \in uses : v = Use(v.by, v.fun) /\ v.by = u.by /\ v.fun = IF u.fun = Pp THEN RuntimePp ELSE u.fun
    BY <1>9, UseFacts
  <2>4. SymbolsResolve'
    <3>1. RuntimePp \in Names(module')
      <4>1. PICK f \in module : f.origin = InFunc(k)
        BY <1>2 DEF ModuleInv, FunctionsOK
      <4>2. Conv(f, k) \in module' /\ Conv(f, k).name = RuntimePp
        BY <1>9, <4>1, ConvFacts DEF Converted
      <4> QED BY <4>2 DEF Names
    <3>2. ASSUME NEW f \in module, f.name # Pp PROVE f.name \in Names(module')
      <4>1. Conv(f, k).name = f.name \/ Conv(f, k).name = RuntimePp
        BY ConvFacts
      <4>2. Conv(f, k).name = f.name
        <5>1. CASE f.origin = InFunc(k)
          <6>1. Known(f)
            BY <1>2 DEF ModuleInv, FunctionsOK
          <6>2. f.name = RuntimePp
            BY <1>9, <3>2, <5>1, <6>1, OriginsDiffer DEF Known, Added, OfProgram, OfRuntime, OfMain, OfBox, NameOf
          <6> QED BY <4>1, <6>2
        <5>2. CASE f.origin # InFunc(k)
          BY <5>2, ConvFacts
        <5> QED BY <5>1, <5>2
      <4> QED BY <1>9, <4>2 DEF Names, Converted
    <3>3. \A u \in uses : \E f \in module : u.fun = f.name
      BY DEF SymbolInv, SymbolsResolve, Names
    <3> QED BY <2>3, <3>1, <3>2, <3>3 DEF SymbolsResolve
  <2>5. MainCallsRuntime'
    <3>1. ASSUME NEW v \in uses', v.by[1] = "main", NEW b \in MainCallees, v.fun = Plain(b)
          PROVE  \/ \E f \in module' : f.name = v.fun /\ f.origin = <<"decl", 0>>
                 \/ \E j \in 1 .. v.by[2] : decls[j].name = v.fun
      <4>1. PICK u \in uses : v.by = u.by /\ v.fun = u.fun
        BY <2>3, <3>1, NamesDiffer DEF RuntimeNames
      <4>2. \/ \E f \in module : f.name = u.fun /\ f.origin = <<"decl", 0>>
            \/ \E j \in 1 .. u.by[2] : decls[j].name = u.fun
        BY <3>1, <4>1 DEF SymbolInv, MainCallsRuntime
      <4>3. \A f \in module : f.origin = <<"decl", 0>> => f \in module'
        BY <1>2, <1>9, FreshConverted, OriginsDiffer
      <4> QED BY <4>1, <4>2, <4>3
    <3> QED BY <1>4, <3>1 DEF MainCallsRuntime
  <2>6. UsesInv'
    <3>1. /\ \A ty \in DOMAIN PushFunction : Plain(PushFunction[ty]) # Pp
          /\ \A ty \in DOMAIN PopFunction : Plain(PopFunction[ty]) # Pp
      BY DEF PushFunction, PopFunction, Plain, Pp
    <3> QED BY <1>2, <1>4, <2>3, <3>1 DEF UsesInv
  <2> QED BY <2>2, <2>4, <2>5, <2>6 DEF SymbolInv
<1> QED BY <1>5, <1>7, <1>8, <1>9, ConvertCases

------------------------------------------------------------------------------
(* Boxes *)

\* What the lowering of a box declares, generates and refers to.
BoxRuntime(counted) ==
    {"malloc", "closure_decr_then_drop", IF counted THEN "closure_incr" ELSE "closure_drop_nothing"}
BoxCode(i, worker, wrapper, drop, counted) ==
    {Function(worker, "llvm", <<"worker", i>>), Function(wrapper, "llvm", <<"wrapper", i>>)}
        \cup (IF counted THEN {Function(drop, "llvm", <<"drop", i>>)} ELSE {})
BoxUses(i, worker, wrapper, drop, counted) ==
    {Use(InOp(i), n) : n \in {Plain("malloc"), wrapper, drop}}
        \cup {Use(<<"wrapper", i>>, n) : n \in {worker}}
        \cup IF counted
             THEN {Use(InOp(i), n) : n \in {Plain("closure_incr")}}
                     \cup {Use(<<"drop", i>>, n) : n \in {Plain("closure_decr_then_drop")}}
             ELSE {}
FreshName(name, part) == name \notin Names(module) /\ \E n \in Nat : name = Numbered(Prefix(part), n)

LEMMA BoxCases ==
    ASSUME ModuleInv, NEW i \in OpIds, LowerBox(i)
    PROVE  \E worker, wrapper, drop : \E counted \in BOOLEAN :
               /\ FreshName(worker, "worker") /\ FreshName(wrapper, "wrapper")
               /\ IF counted THEN FreshName(drop, "drop") ELSE drop = Plain("closure_drop_nothing")
               /\ module' = module \cup Declared(module, BoxRuntime(counted))
                                   \cup BoxCode(i, worker, wrapper, drop, counted)
               /\ uses' = uses \cup BoxUses(i, worker, wrapper, drop, counted)
               /\ boxes' = boxes \cup {[op |-> i, worker |-> worker, wrapper |-> wrapper, drop |-> drop]}
<1> DEFINE counted == ClosureFields(ops[i].captures) # {}
           worker == UniqueName("closure_worker_")
           wrapper == UniqueName("closure_wrapper_")
           drop == IF counted THEN UniqueName("closure_drop_") ELSE Plain("closure_drop_nothing")
           runtime == {"malloc", "closure_decr_then_drop", IF counted THEN "closure_incr" ELSE "closure_drop_nothing"}
<1>1. /\ module' = LookupOrCreate(module, runtime)
                            \cup {Generated(worker, "worker", i), Generated(wrapper, "wrapper", i)}
                            \cup (IF counted THEN {Generated(drop, "drop", i)} ELSE {})
      /\ uses' = uses \cup References(InOp(i), {Plain("malloc"), wrapper, drop})
                      \cup References(<<"wrapper", i>>, {worker})
                      \cup IF counted
                           THEN References(InOp(i), {Plain("closure_incr")})
                                   \cup References(<<"drop", i>>, {Plain("closure_decr_then_drop")})
                           ELSE {}
      /\ boxes' = boxes \cup {[op |-> i, worker |-> worker, wrapper |-> wrapper, drop |-> drop]}
  BY DEF LowerBox
<1>2. /\ FreshName(worker, "worker") /\ FreshName(wrapper, "wrapper")
      /\ IF counted THEN FreshName(drop, "drop") ELSE drop = Plain("closure_drop_nothing")
  <2>1. IsFiniteSet(module)
    BY DEF ModuleInv, FunctionsOK
  <2>2. FreshName(worker, "worker") /\ FreshName(wrapper, "wrapper")
    BY <2>1, UniqueFacts DEF FreshName, Prefix
  <2>3. FreshName(UniqueName("closure_drop_"), "drop")
    BY <2>1, UniqueFacts DEF FreshName, Prefix
  <2> QED BY <2>2, <2>3
<1>3. counted \in BOOLEAN /\ runtime = BoxRuntime(counted)
  BY DEF BoxRuntime
<1> HIDE DEF counted, worker, wrapper, drop, runtime
<1>4. module' = module \cup Declared(module, runtime) \cup BoxCode(i, worker, wrapper, drop, counted)
  <2>1. LookupOrCreate(module, runtime) = module \cup Declared(module, runtime)
    BY DEF LookupOrCreate, Declared, Function
  <2>2. \A n, kind : Generated(n, kind, i) = Function(n, "llvm", <<kind, i>>)
    BY DEF Generated, Function
  <2>3. {Generated(worker, "worker", i), Generated(wrapper, "wrapper", i)} \cup (IF counted THEN {Generated(drop, "drop", i)} ELSE {})
            = BoxCode(i, worker, wrapper, drop, counted)
    BY <2>2 DEF BoxCode
  <2> QED BY <1>1, <2>1, <2>3
<1>5. uses' = uses \cup BoxUses(i, worker, wrapper, drop, counted)
  <2>1. \A by, names : References(by, names) = {Use(by, n) : n \in names}
    BY UseFacts
  <2> QED BY <1>1, <2>1 DEF BoxUses
<1> QED BY <1>1, <1>2, <1>3, <1>4, <1>5

\* A box is lowered.
LEMMA BoxSymbols ==
    ASSUME OrderInv, SymbolInv, NEW i \in OpIds, LowerBox(i)
    PROVE  SymbolInv'
<1>1. /\ todo # <<>> /\ Head(todo) = InOp(i) /\ Enter(InOp(i)) /\ UNCHANGED source /\ ops[i].kind = "box"
  BY DEF LowerBox, At
<1>2. ModuleInv /\ FreshInv /\ UsesInv
  BY DEF SymbolInv
<1>3. PICK worker, wrapper, drop : \E counted \in BOOLEAN :
               /\ FreshName(worker, "worker") /\ FreshName(wrapper, "wrapper")
               /\ IF counted THEN FreshName(drop, "drop") ELSE drop = Plain("closure_drop_nothing")
               /\ module' = module \cup Declared(module, BoxRuntime(counted))
                                   \cup BoxCode(i, worker, wrapper, drop, counted)
               /\ uses' = uses \cup BoxUses(i, worker, wrapper, drop, counted)
               /\ boxes' = boxes \cup {[op |-> i, worker |-> worker, wrapper |-> wrapper, drop |-> drop]}
  BY <1>2, BoxCases
<1>4. PICK counted \in BOOLEAN :
               /\ FreshName(worker, "worker") /\ FreshName(wrapper, "wrapper")
               /\ IF counted THEN FreshName(drop, "drop") ELSE drop = Plain("closure_drop_nothing")
               /\ module' = module \cup Declared(module, BoxRuntime(counted))
                                   \cup BoxCode(i, worker, wrapper, drop, counted)
               /\ uses' = uses \cup BoxUses(i, worker, wrapper, drop, counted)
               /\ boxes' = boxes \cup {[op |-> i, worker |-> worker, wrapper |-> wrapper, drop |-> drop]}
  BY <1>3
<1> DEFINE D == Declared(module, BoxRuntime(counted))
           code == BoxCode(i, worker, wrapper, drop, counted)
           used == BoxUses(i, worker, wrapper, drop, counted)
           b == [op |-> i, worker |-> worker, wrapper |-> wrapper, drop |-> drop]
<1>5. /\ IsFiniteSet(D) /\ \A f \in D : Added(f) /\ f.origin = <<"decl", 0>>
      /\ \A r \in BoxRuntime(counted) : Plain(r) \in Names(module')
  <2>1. IsFiniteSet(BoxRuntime(counted)) /\ BoxRuntime(counted) \subseteq RuntimeNames
    <3>1. BoxRuntime(counted) = {"malloc"} \cup {"closure_decr_then_drop"}
                                    \cup {IF counted THEN "closure_incr" ELSE "closure_drop_nothing"}
      BY DEF BoxRuntime
    <3>2. IsFiniteSet({"malloc"} \cup {"closure_decr_then_drop"}
                                    \cup {IF counted THEN "closure_incr" ELSE "closure_drop_nothing"})
      BY FS_Singleton, FS_Union
    <3> QED BY <3>1, <3>2 DEF RuntimeNames, MainCallees, BoxRuntime
  <2>2. /\ IsFiniteSet(D) /\ \A f \in D : Added(f) /\ f.origin = <<"decl", 0>>
        /\ \A r \in BoxRuntime(counted) : (\E f \in D : f.name = Plain(r)) \/ (\E f \in module : f.name = Plain(r))
    BY <2>1, DeclaredFacts
  <2> HIDE DEF D
  <2> QED BY <1>4, <2>2 DEF Names, D
<1>6. \A f \in code :
          \/ f = Function(worker, "llvm", <<"worker", i>>)
          \/ f = Function(wrapper, "llvm", <<"wrapper", i>>)
          \/ counted /\ f = Function(drop, "llvm", <<"drop", i>>)
  BY DEF BoxCode
<1>7. \A f \in code : Added(f) /\ f.name \notin Names(module)
  <2>1. \A name : \A part \in BoxParts : FreshName(name, part) => Added(Function(name, "llvm", <<part, i>>))
    BY FunctionFacts DEF Added, OfBox, FreshName
  <2>2. "worker" \in BoxParts /\ "wrapper" \in BoxParts /\ "drop" \in BoxParts
    BY DEF BoxParts
  <2> HIDE DEF code
  <2> QED BY <1>4, <1>6, <2>1, <2>2, FunctionFacts DEF FreshName
<1>8. \A f, g \in code : f.name = g.name => f = g
  <2>1. worker # wrapper /\ (counted => drop # worker /\ drop # wrapper)
    BY <1>4, NamesDiffer DEF FreshName, Prefix
  <2> HIDE DEF code
  <2> QED BY <1>6, <2>1, FunctionFacts
<1>9. IsFiniteSet(code)
  <2>1. IsFiniteSet({Function(worker, "llvm", <<"worker", i>>)} \cup {Function(wrapper, "llvm", <<"wrapper", i>>)}
                       \cup (IF counted THEN {Function(drop, "llvm", <<"drop", i>>)} ELSE {}))
    BY FS_Singleton, FS_Union, FS_EmptySet
  <2>2. code = {Function(worker, "llvm", <<"worker", i>>)} \cup {Function(wrapper, "llvm", <<"wrapper", i>>)}
                       \cup (IF counted THEN {Function(drop, "llvm", <<"drop", i>>)} ELSE {})
    BY DEF BoxCode
  <2> HIDE DEF code
  <2> QED BY <2>1, <2>2
<1>10. /\ HasPart(worker, "worker", i)' /\ HasPart(wrapper, "wrapper", i)'
       /\ counted => HasPart(drop, "drop", i)'
  <2>1. /\ Function(worker, "llvm", <<"worker", i>>) \in module' /\ Function(wrapper, "llvm", <<"wrapper", i>>) \in module'
        /\ counted => Function(drop, "llvm", <<"drop", i>>) \in module'
    BY <1>4 DEF BoxCode
  <2> QED BY <2>1, FunctionFacts DEF HasPart
<1>11. \A u \in used :
          /\ u = Use(u.by, u.fun)
          /\ u.by = InOp(i) \/ u.by = <<"wrapper", i>> \/ u.by = <<"drop", i>>
          /\ u.fun \in {worker, wrapper, drop} \/ \E r \in BoxRuntime(counted) : u.fun = Plain(r)
  BY UseFacts DEF BoxUses, BoxRuntime
<1>12. b.op = i /\ b.worker = worker /\ b.wrapper = wrapper /\ b.drop = drop
  OBVIOUS
<1>13. module' = module \cup (D \cup code) /\ uses' = uses \cup used /\ boxes' = boxes \cup {b}
  BY <1>4
<1>14. \A j : Pending(InFunc(j))' <=> Pending(InFunc(j))
  BY <1>1, EnterPending, PlacesDiffer
<1> HIDE DEF D, code, used, b
<1>15. FreshNew(module, D \cup code)
  <2>1. \A f \in D : ~OfBox(f)
    BY <1>5, OriginsDiffer DEF OfBox
  <2>2. \A f \in D, g \in code : f.name # g.name
    <3>1. \A g \in code : \E p, n : g.name = Numbered(p, n)
      BY <1>4, <1>6, FunctionFacts DEF FreshName
    <3> QED BY <1>5, <2>1, <3>1, PlainAndNumbered
  <2> QED BY <1>7, <1>8, <2>1, <2>2 DEF FreshNew
<1>16. /\ ModuleInv' /\ DialectInv' /\ FreshInv'
       /\ \A name, part, p : HasPart(name, part, p) => HasPart(name, part, p)'
  <2>1. IsFiniteSet(D \cup code) /\ \A f \in D \cup code : Added(f)
    BY <1>5, <1>7, <1>9, FS_Union
  <2> QED BY <1>1, <1>13, <1>14, <1>15, <2>1, GrowSymbols
<1>17. BoxesInv'
  <2>1. \A c \in boxes : /\ HasPart(c.worker, "worker", c.op)' /\ HasPart(c.wrapper, "wrapper", c.op)'
                         /\ c.drop = Plain("closure_drop_nothing") \/ HasPart(c.drop, "drop", c.op)'
    BY <1>16 DEF SymbolInv, BoxesInv
  <2>2. /\ HasPart(b.worker, "worker", b.op)' /\ HasPart(b.wrapper, "wrapper", b.op)'
        /\ b.drop = Plain("closure_drop_nothing") \/ HasPart(b.drop, "drop", b.op)'
    BY <1>4, <1>10, <1>12
  <2> QED BY <1>13, <2>1, <2>2 DEF BoxesInv
<1>18. SymbolsResolve'
  <2>1. worker \in Names(module') /\ wrapper \in Names(module') /\ drop \in Names(module')
    <3>1. ~counted => drop = Plain("closure_drop_nothing") /\ "closure_drop_nothing" \in BoxRuntime(counted)
      BY <1>4 DEF BoxRuntime
    <3> QED BY <1>5, <1>10, <3>1 DEF HasPart, Names
  <2>2. \A u \in uses : u.fun \in Names(module')
    BY <1>13 DEF SymbolInv, SymbolsResolve, Names
  <2>3. \A u \in used : u.fun \in Names(module')
    BY <1>5, <1>11, <2>1
  <2> QED BY <1>13, <2>2, <2>3 DEF SymbolsResolve
<1>19. MainCallsRuntime'
  <2>1. \A u \in used : u.by[1] # "main"
    BY <1>11 DEF InOp
  <2>2. decls' = decls
    BY <1>1, SupportKept
  <2> QED BY <1>13, <2>1, <2>2 DEF MainCallsRuntime, SymbolInv
<1>20. UsesInv'
  <2>1. \A u \in used, j \in OpIds : u.by = InOp(j) => ops[j].kind = "box"
    <3>1. \A j : <<"wrapper", i>> # InOp(j) /\ <<"drop", i>> # InOp(j)
      BY DEF InOp
    <3> QED BY <1>1, <1>11, <3>1, PlacesDiffer
  <2>2. OpIds' = OpIds /\ ops' = ops
    BY <1>1, SupportKept
  <2> QED BY <1>2, <1>11, <1>13, <2>1, <2>2 DEF UsesInv
<1> QED BY <1>16, <1>17, <1>18, <1>19, <1>20 DEF SymbolInv

------------------------------------------------------------------------------
(* Theorems *)

LEMMA SymbolNext == OrderInv /\ SymbolInv /\ [Next]_vars => SymbolInv'
  BY StepCases, QuietSymbols, FuncSymbols, CallSymbols, BoxSymbols

LEMMA SymbolInit == Init => SymbolInv
<1> SUFFICES ASSUME Init PROVE SymbolInv
  OBVIOUS
<1>1. OrderInv
  BY OrderInit
<1>2. PICK n \in Nat : DOMAIN decls = 1 .. n
  BY <1>1 DEF OrderInv, SourceInv
<1>3. module = {Function(decls[k].name, "func", InFunc(k)) : k \in DOMAIN decls}
  BY DEF Init, Function
<1>4. ASSUME NEW f \in module
      PROVE  /\ f = Function(f.name, f.dialect, f.origin) /\ f.dialect = "func"
             /\ \E k \in DOMAIN decls : f = Function(decls[k].name, "func", InFunc(k)) /\ f.origin = InFunc(k) /\ f.name = decls[k].name
  BY <1>3, FunctionFacts
<1>5. ModuleInv
  <2>1. IsFiniteSet(module)
    <3> DEFINE fn == [k \in DOMAIN decls |-> Function(decls[k].name, "func", InFunc(k))]
    <3>1. fn \in Surjection(DOMAIN decls, module)
      BY <1>3 DEF Surjection
    <3>2. IsFiniteSet(DOMAIN decls)
      BY <1>2, FS_Interval
    <3> HIDE DEF fn
    <3> QED BY <3>1, <3>2, FS_Surjection
  <2>2. \A f \in module : Known(f)
    BY <1>4 DEF Known, OfProgram, NameOf
  <2>3. \A j \in DOMAIN decls : \E f \in module : f.origin = InFunc(j)
    BY <1>3, FunctionFacts
  <2>4. \A j \in DOMAIN decls : \A f, g \in module : f.origin = InFunc(j) /\ g.origin = InFunc(j) => f = g
    BY <1>4, OriginsDiffer
  <2> QED BY <2>1, <2>2, <2>3, <2>4 DEF ModuleInv, FunctionsOK
<1>6. DialectInv
  <2>1. \A k \in DOMAIN decls : Pending(InFunc(k))
    <3>1. todo = [k \in DOMAIN decls |-> InFunc(k)]
      BY DEF Init
    <3>2. Len(todo) = n
      BY <1>2, <3>1
    <3> QED BY <1>2, <3>1, <3>2 DEF Pending
  <2> QED BY <1>4, <2>1 DEF DialectInv
<1>7. FreshInv
  <2>1. \A f \in module : ~OfBox(f)
    BY <1>4, OriginsDiffer DEF OfBox
  <2> QED BY <2>1 DEF FreshInv, FreshBoxes
<1>8. BoxesInv
  BY DEF Init, BoxesInv
<1>9. uses = {Use(InOp(i), ops[i].callee) : i \in {i \in OpIds : ops[i].kind = "call"}}
  BY DEF Init, Use
<1>10. \A u \in uses : \E i \in OpIds : /\ ops[i].kind = "call" /\ u = Use(u.by, u.fun)
                                       /\ u.by = InOp(i) /\ u.fun = ops[i].callee
  BY <1>9, UseFacts
<1>11. UsesInv
  BY <1>10, PlacesDiffer DEF UsesInv
<1>12. SymbolsResolve
  <2>1. \A k \in DOMAIN decls : decls[k].name \in Names(module)
    BY <1>3, FunctionFacts DEF Names
  <2>2. \A i \in OpIds : ops[i].kind = "call" => \E k \in DOMAIN decls : decls[k].name = ops[i].callee
    BY DEF Init
  <2> QED BY <1>10, <2>1, <2>2 DEF SymbolsResolve
<1>13. MainCallsRuntime
  <2>1. \A u \in uses : u.by[1] # "main"
    BY <1>10 DEF InOp
  <2> QED BY <2>1 DEF MainCallsRuntime
<1> QED BY <1>5, <1>6, <1>7, <1>8, <1>11, <1>12, <1>13 DEF SymbolInv

\* What is lowered is not left to legalize, every box that is lowered has its
\* code, and every function is of one of the two dialects.
THEOREM LoweringTypes == Spec => []TypeOK
<1>1. OrderInv /\ SymbolInv => TypeOK
  <2> SUFFICES ASSUME OrderInv, SymbolInv PROVE TypeOK
    OBVIOUS
  <2>1. \A f \in module : f.dialect \in {"func", "llvm"}
    BY DEF SymbolInv, ModuleInv, FunctionsOK, Known
  <2>2. todo \in Seq(Places) /\ DOMAIN todo = 1 .. Len(todo)
    BY LenProperties DEF OrderInv, TodoInv
  <2>3. \A n \in DOMAIN todo : todo[n] \in {InFunc(k) : k \in DOMAIN decls} \cup {InOp(i) : i \in OpIds \ lowered}
    <3> SUFFICES ASSUME NEW n \in 1 .. Len(todo)
                 PROVE  todo[n] \in {InFunc(k) : k \in DOMAIN decls} \cup {InOp(i) : i \in OpIds \ lowered}
      BY <2>2
    <3>1. todo[n] \in Places /\ Pending(todo[n])
      BY <2>2 DEF Pending
    <3> QED BY <3>1 DEF Places, OrderInv, ProgressInv
  <2> QED BY <2>1, <2>3 DEF TypeOK, OrderInv, ProgressInv
<1> QED BY OrderInit, OrderNext, SymbolInit, SymbolNext, <1>1, PTL DEF Spec

\* Every symbol a pass emits or leaves behind names a function of the module,
\* at every step: lookupOrCreateFn declares before it is used, a function keeps
\* its name when it is converted, and the uses of sigi::pp are renamed with it.
THEOREM SymbolsAlwaysResolve == Spec => []SymbolsResolve
<1>1. SymbolInv => SymbolsResolve
  BY DEF SymbolInv
<1> QED BY OrderInit, OrderNext, SymbolInit, SymbolNext, <1>1, PTL DEF Spec

\* The generated main calls the functions of C and of the runtime, or one of
\* the user that has such a name and was converted no later than the sigi.main.
THEOREM MainIsLinked == Spec => []MainCallsRuntime
<1>1. SymbolInv => MainCallsRuntime
  BY DEF SymbolInv
<1> QED BY OrderInit, OrderNext, SymbolInit, SymbolNext, <1>1, PTL DEF Spec

\* The wrapper stored in a closure, the worker it calls and the drop function
\* are those generated for that box: getUniqueFunctionName gives each a name
\* that no function of the user, of the runtime or of another box has or gets.
THEOREM BoxesKeepTheirCode == Spec => []BoxesOwnTheirCode
<1>1. SymbolInv => BoxesOwnTheirCode
  <2> SUFFICES ASSUME SymbolInv, NEW b \in boxes
               PROVE  /\ \A f \in module : f.name = b.wrapper => f.origin = <<"wrapper", b.op>>
                      /\ \A f \in module : f.name = b.worker => f.origin = <<"worker", b.op>>
                      /\ \A f \in module : f.name = b.drop /\ f.name # Plain("closure_drop_nothing")
                                               => f.origin = <<"drop", b.op>>
    BY DEF BoxesOwnTheirCode
  <2>1. ASSUME NEW name, NEW part \in BoxParts, NEW i, HasPart(name, part, i), NEW f \in module, f.name = name
        PROVE  f.origin = <<part, i>>
    <3>1. PICK g \in module : g.name = name /\ g.origin = <<part, i>>
      BY <2>1 DEF HasPart
    <3>2. Known(g)
      BY DEF SymbolInv, ModuleInv, FunctionsOK
    <3>3. OfBox(g)
      BY <3>1, <3>2, OriginsDiffer DEF Known, Added, OfProgram, OfRuntime, OfMain
    <3> QED BY <2>1, <3>1, <3>3 DEF SymbolInv, FreshInv, FreshBoxes
  <2>2. /\ HasPart(b.worker, "worker", b.op) /\ HasPart(b.wrapper, "wrapper", b.op)
        /\ b.drop = Plain("closure_drop_nothing") \/ HasPart(b.drop, "drop", b.op)
    BY DEF SymbolInv, BoxesInv
  <2>3. "worker" \in BoxParts /\ "wrapper" \in BoxParts /\ "drop" \in BoxParts
    BY DEF BoxParts
  <2>4. \A f \in module : f.name = b.wrapper => f.origin = <<"wrapper", b.op>>
    BY <2>1, <2>2, <2>3
  <2>5. \A f \in module : f.name = b.worker => f.origin = <<"worker", b.op>>
    BY <2>1, <2>2, <2>3
  <2>6. \A f \in module : f.name = b.drop /\ f.name # Plain("closure_drop_nothing") => f.origin = <<"drop", b.op>>
    BY <2>1, <2>2, <2>3
  <2> QED BY <2>4, <2>5, <2>6
<1> QED BY OrderInit, OrderNext, SymbolInit, SymbolNext, <1>1, PTL DEF Spec

------------------------------------------------------------------------------
(* Theorems about modules whose symbols leave the runtime's alone *)

\* The runtime moves no raw pointers: no sigi.pop has one.
NoPointerPops == \A f \in Inputs : \A o \in f.ops : ~(o.kind = "pop" /\ o.type = "ptr")

\* The program defines no function with a name that the runtime, the generated
\* code or C's main has, except those that the generated main calls; and none
\* called malloc where a box needs it.
ReservedNames ==
    \A f \in Inputs :
        /\ \A d \in f.decls : /\ d.name # Plain("main") /\ d.name # RuntimePp
                              /\ \A b \in RuntimeNames \ MainCallees : d.name # Plain(b)
        /\ (\E d \in f.decls : d.name = Plain("malloc")) => \A o \in f.ops : o.kind # "box"

\* The functions and operations are those of a family of inputs, the functions
\* with a name each.
FamilyInv ==
    /\ \E f \in Inputs : /\ \A k \in DOMAIN decls : decls[k] \in f.decls
                         /\ \A i \in OpIds : ops[i] \in f.ops
    /\ \A j, k \in DOMAIN decls : decls[j].name = decls[k].name => j = k

LEMMA FamilyInit == Init => FamilyInv
<1> SUFFICES ASSUME Init PROVE FamilyInv
  OBVIOUS
<1>1. PICK f \in Inputs : /\ decls \in UNION {[1 .. n -> f.decls] : n \in 1 .. f.maxDecls}
                          /\ ops \in UNION {[1 .. n -> f.ops] : n \in 0 .. f.numOps}
  BY DEF Init
<1>2. PICK n \in 1 .. f.maxDecls : decls \in [1 .. n -> f.decls]
  BY <1>1
<1>3. PICK m \in 0 .. f.numOps : ops \in [1 .. m -> f.ops]
  BY <1>1
<1>4. (\A k \in DOMAIN decls : decls[k] \in f.decls) /\ (\A i \in OpIds : ops[i] \in f.ops)
  BY <1>2, <1>3 DEF OpIds
<1>5. \A j, k \in DOMAIN decls : decls[j].name = decls[k].name => j = k
  BY DEF Init
<1> QED BY <1>4, <1>5 DEF FamilyInv

LEMMA FamilyNext == OrderInv /\ FamilyInv /\ [Next]_vars => FamilyInv'
<1> SUFFICES ASSUME OrderInv, FamilyInv, [Next]_vars PROVE FamilyInv'
  OBVIOUS
<1>1. UNCHANGED source
  BY StepCases DEF Quiet, ConvertFunc, Calls, CallRuntime, LowerBox
<1> QED BY <1>1, SupportKept DEF FamilyInv

\* A sigi.push or sigi.pop calls the function of the runtime that moves a value
\* of its type in its direction, when no raw pointer is popped: for those the
\* list of SigiToLLVM.cpp:115-117 has the function that pushes.
THEOREM RuntimeCallsFit ==
    ASSUME NoPointerPops PROVE Spec => []RuntimeFunctionFits
<1>1. SymbolInv /\ OrderInv /\ FamilyInv => RuntimeFunctionFits
  <2> SUFFICES ASSUME SymbolInv, OrderInv, FamilyInv, NEW i \in lowered, ops[i].kind \in {"push", "pop"},
                      NEW u \in uses, u.by = InOp(i)
               PROVE  Signature[u.fun[1]] = <<ops[i].kind, CType[ops[i].type]>>
    BY DEF RuntimeFunctionFits
  <2>1. i \in OpIds
    BY DEF OrderInv, ProgressInv
  <2>2. /\ ops[i].kind = "push" => ops[i].type \in DOMAIN PushFunction /\ u.fun = Plain(PushFunction[ops[i].type])
        /\ ops[i].kind = "pop" => ops[i].type \in DOMAIN PopFunction /\ u.fun = Plain(PopFunction[ops[i].type])
    BY <2>1 DEF SymbolInv, UsesInv
  <2>3. \A b : Plain(b)[1] = b
    BY DEF Plain
  <2>4. CASE ops[i].kind = "push"
    <3>1. ops[i].type \in {"i32", "i1", "ptr", "closure"} /\ u.fun[1] = PushFunction[ops[i].type]
      BY <2>2, <2>3, <2>4 DEF PushFunction
    <3>2. CASE ops[i].type = "i32"
      BY <2>4, <3>1, <3>2 DEF PushFunction, Signature, CType
    <3>3. CASE ops[i].type = "i1"
      BY <2>4, <3>1, <3>3 DEF PushFunction, Signature, CType
    <3>4. CASE ops[i].type \in {"ptr", "closure"}
      BY <2>4, <3>1, <3>4 DEF PushFunction, Signature, CType
    <3> QED BY <3>1, <3>2, <3>3, <3>4
  <2>5. CASE ops[i].kind = "pop"
    <3>1. ops[i].type # "ptr"
      BY <2>1, <2>5, NoPointerPops DEF NoPointerPops, FamilyInv
    <3>2. ops[i].type \in {"i32", "i1", "closure"} /\ u.fun[1] = PopFunction[ops[i].type]
      BY <2>2, <2>3, <2>5, <3>1 DEF PopFunction
    <3>3. CASE ops[i].type = "i32"
      BY <2>5, <3>2, <3>3 DEF PopFunction, Signature, CType
    <3>4. CASE ops[i].type = "i1"
      BY <2>5, <3>2, <3>4 DEF PopFunction, Signature, CType
    <3>5. CASE ops[i].type = "closure"
      BY <2>5, <3>2, <3>5 DEF PopFunction, Signature, CType
    <3> QED BY <3>2, <3>3, <3>4, <3>5
  <2> QED BY <2>4, <2>5
<1> QED BY OrderInit, OrderNext, SymbolInit, SymbolNext, FamilyInit, FamilyNext, <1>1, PTL DEF Spec

\* A declaration of the runtime shares its name with a function of the program
\* only if a sigi.main was converted before that function.
ClashInv ==
    \A f, g \in module, k \in DOMAIN decls :
        f.origin = <<"decl", 0>> /\ g.origin = InFunc(k) /\ f.name = g.name =>
            LikeCallee(k) /\ \E j \in DOMAIN decls : j < k /\ decls[j].attr = "sigi.main"

\* A function of the program with the name of one of the runtime.
LEMMA ProgramNames ==
    ASSUME ReservedNames, FamilyInv, NEW k \in DOMAIN decls, NEW g, Known(g), g.origin = InFunc(k),
           NEW b \in RuntimeNames, g.name = Plain(b)
    PROVE  b \in MainCallees /\ decls[k].name = Plain(b) /\ (b = "malloc" => \A i \in OpIds : ops[i].kind # "box")
<1>1. NameOf(k, g.name)
  BY OriginsDiffer DEF Known, Added, OfProgram, OfRuntime, OfMain, OfBox
<1>2. decls[k].name = Plain(b)
  BY <1>1, NamesDiffer DEF NameOf
<1>3. PICK f \in Inputs : (\A j \in DOMAIN decls : decls[j] \in f.decls) /\ (\A i \in OpIds : ops[i] \in f.ops)
  BY DEF FamilyInv
<1>4. b \in MainCallees
  BY <1>2, <1>3 DEF ReservedNames
<1>5. b = "malloc" => \A i \in OpIds : ops[i].kind # "box"
  BY <1>2, <1>3 DEF ReservedNames
<1> QED BY <1>2, <1>4, <1>5

LEMMA ClashGrow ==
    ASSUME ReservedNames, FamilyInv, ClashInv, ModuleInv, UNCHANGED source, NEW new, module' = module \cup new,
           \A f \in new : Added(f),
           \A f \in new : f.origin = <<"decl", 0>> =>
               \E b \in RuntimeNames : /\ f.name = Plain(b)
                                       /\ b \notin MainCallees \/ (b = "malloc" /\ \E i \in OpIds : ops[i].kind = "box")
    PROVE  ClashInv'
<1>1. \A f \in new, j \in DOMAIN decls : f.origin # InFunc(j)
  BY OriginsDiffer DEF Added, OfRuntime, OfMain, OfBox
<1>2. ASSUME NEW f \in new, NEW g \in module, NEW k \in DOMAIN decls,
             f.origin = <<"decl", 0>>, g.origin = InFunc(k)
      PROVE  f.name # g.name
  <2>1. Known(g)
    BY DEF ModuleInv, FunctionsOK
  <2> QED BY <1>2, <2>1, ProgramNames
<1>3. decls' = decls
  BY SupportKept
<1> QED BY <1>1, <1>2, <1>3 DEF ClashInv, LikeCallee

LEMMA ClashFunc ==
    ASSUME ReservedNames, FamilyInv, OrderInv, SymbolInv, SymbolInv', ClashInv, NEW k \in DOMAIN decls, ConvertFunc(k)
    PROVE  ClashInv'
<1>1. /\ UNCHANGED source /\ todo # <<>> /\ Head(todo) = InFunc(k) /\ Enter(InFunc(k))
      /\ ModuleInv /\ DialectInv' /\ SourceInv /\ TodoInv
  BY DEF ConvertFunc, SymbolInv, OrderInv
<1>2. decls' = decls /\ pass' = pass
  BY <1>1, SupportKept DEF source
<1>3. \A j : Pending(InFunc(j))' <=> Pending(InFunc(j)) /\ j # k
  BY <1>1, EnterPending, PlacesDiffer
<1>4. CASE pass = "closure" /\ UNCHANGED <<module, uses>>
  BY <1>2, <1>4 DEF ClashInv, LikeCallee
<1>5. ASSUME NEW f \in module, f.origin = <<"decl", 0>>, NEW g \in module, NEW j \in DOMAIN decls, g.origin = InFunc(j),
             f.name = Conv(g, k).name
      PROVE  f.name = g.name
  <2>1. Known(f)
    BY <1>1 DEF ModuleInv, FunctionsOK
  <2>2. f.name # RuntimePp
    BY <1>5, <2>1, OriginsDiffer, NamesDiffer DEF Known, Added, OfProgram, OfRuntime, OfMain, OfBox
  <2> QED BY <1>5, <2>2, ConvFacts
<1>6. ASSUME NEW new, module' = Converted(k) \cup new,
             \A f \in new : Added(f) /\ ~OfBox(f),
             \A f \in new : f.origin = <<"decl", 0>> =>
                 /\ decls[k].attr = "sigi.main" /\ pass = "sigi"
                 /\ \E b \in MainCallees :
                        f.name = Plain(b) /\ \A g \in Converted(k) : g.name = Plain(b) => g.dialect # "llvm"
      PROVE  ClashInv'
  <2>1. ASSUME NEW f \in module', NEW g \in module', NEW j \in DOMAIN decls,
               f.origin = <<"decl", 0>>, g.origin = InFunc(j), f.name = g.name
        PROVE  LikeCallee(j) /\ \E p \in DOMAIN decls : p < j /\ decls[p].attr = "sigi.main"
    <3>1. g \in Converted(k)
      <4>1. g \in new => OfRuntime(g) \/ OfMain(g)
        BY <1>6 DEF Added
      <4>2. ~OfRuntime(g) /\ ~OfMain(g)
        BY <2>1, OriginsDiffer DEF OfRuntime, OfMain
      <4> QED BY <1>6, <4>1, <4>2
    <3>2. PICK h \in module : g = Conv(h, k) /\ h.origin = InFunc(j)
      BY <2>1, <3>1, ConvFacts DEF Converted
    <3>3. CASE f \in Converted(k)
      <4>1. PICK e \in module : f = Conv(e, k) /\ e.origin = <<"decl", 0>>
        BY <2>1, <3>3, ConvFacts DEF Converted
      <4>2. f = e
        BY <1>1, <4>1, OriginsDiffer DEF ModuleInv, FunctionsOK, Known, Conv
      <4>3. f.name = h.name
        BY <1>5, <2>1, <3>2, <4>1, <4>2
      <4> QED BY <3>2, <4>1, <4>2, <4>3 DEF ClashInv
    <3>4. CASE f \in new
      <4>1. PICK b \in MainCallees : /\ f.name = Plain(b) /\ decls[k].attr = "sigi.main" /\ pass = "sigi"
                                     /\ \A e \in Converted(k) : e.name = Plain(b) => e.dialect # "llvm"
        BY <1>6, <2>1, <3>4
      <4>2. g.dialect = "func"
        <5>1. FunctionsOK(Converted(k))
          BY <1>1, <4>1, ConvertedFacts
        <5> QED BY <2>1, <3>1, <4>1, <5>1 DEF FunctionsOK, Known
      <4>3. Pending(InFunc(j))'
        BY <1>1, <1>2, <2>1, <4>1, <4>2 DEF DialectInv
      <4>4. k < j
        <5>1. TodoInv'
          BY <1>1, FuncProgress DEF OrderInv
        <5> QED BY <1>2, <1>3, <4>3, <5>1 DEF TodoInv
      <4>5. LikeCallee(j)
        <5>1. Known(h) /\ h.name = Plain(b)
          <6>1. h.name = g.name
            <7>1. decls[k].attr # "sigi.builtinfunc"
              BY <4>1
            <7> QED BY <3>2, <7>1, ConvFacts
          <6> QED BY <1>1, <2>1, <4>1, <6>1 DEF ModuleInv, FunctionsOK
        <5>2. decls[j].name = Plain(b)
          BY <3>2, <5>1, ProgramNames DEF RuntimeNames
        <5> QED BY <5>2 DEF LikeCallee
      <4> QED BY <4>1, <4>4, <4>5
    <3> QED BY <1>6, <2>1, <3>3, <3>4
  <2> QED BY <1>2, <2>1 DEF ClashInv, LikeCallee
<1>7. CASE module' = Converted(k)
  <2> DEFINE new == {}
  <2>1. module' = Converted(k) \cup new /\ \A f \in new : Added(f) /\ ~OfBox(f) /\ f.origin # <<"decl", 0>>
    BY <1>7
  <2> HIDE DEF new
  <2> QED BY <1>6, <2>1
<1>8. CASE /\ pass = "sigi" /\ decls[k].attr = "sigi.main"
           /\ module' = Converted(k) \cup MainCode(k) /\ uses' = uses \cup MainUses(k)
  <2>1. \A f \in MainCode(k) : Added(f) /\ ~OfBox(f)
    BY MainCodeFacts
  <2>2. ASSUME NEW f \in MainCode(k), f.origin = <<"decl", 0>>
        PROVE  \E b \in MainCallees : f.name = Plain(b) /\ \A g \in Converted(k) : g.name = Plain(b) => g.dialect # "llvm"
    <3>1. f # Function(Plain("main"), "llvm", <<"main", k>>)
      BY <2>2, FunctionFacts, OriginsDiffer
    <3> QED BY <3>1, MainCodeFacts
  <2> HIDE DEF MainCode
  <2> QED BY <1>6, <1>8, <2>1, <2>2
<1> QED BY <1>4, <1>7, <1>8, ConvertCases

LEMMA ClashNext ==
    ReservedNames => (FamilyInv /\ OrderInv /\ SymbolInv /\ SymbolInv' /\ ClashInv /\ [Next]_vars => ClashInv')
<1> SUFFICES ASSUME ReservedNames, FamilyInv, OrderInv, SymbolInv, SymbolInv', ClashInv, [Next]_vars PROVE ClashInv'
  OBVIOUS
<1>1. ModuleInv
  BY DEF SymbolInv
<1>2. CASE Quiet
  <2>1. decls' = decls /\ module' = module
    BY <1>2, SupportKept DEF Quiet
  <2> QED BY <2>1 DEF ClashInv, LikeCallee
<1>3. ASSUME NEW k \in DOMAIN decls, ConvertFunc(k) PROVE ClashInv'
  BY <1>3, ClashFunc
<1>4. ASSUME NEW i \in OpIds, NEW bases, Calls(i, bases) PROVE ClashInv'
  <2>1. /\ UNCHANGED source /\ module' = LookupOrCreate(module, bases)
        /\ bases \subseteq RuntimeNames \ MainCallees /\ bases \subseteq RuntimeNames /\ IsFiniteSet(bases)
    BY <1>4 DEF Calls, CallRuntime
  <2>2. /\ module' = module \cup Declared(module, bases)
        /\ \A f \in Declared(module, bases) : Added(f) /\ \E b \in bases : f.name = Plain(b)
    BY <2>1, DeclaredFacts
  <2> QED BY <1>1, <2>1, <2>2, ClashGrow
<1>5. ASSUME NEW i \in OpIds, LowerBox(i) PROVE ClashInv'
  <2>1. UNCHANGED source /\ ops[i].kind = "box"
    BY <1>5 DEF LowerBox, At
  <2>2. PICK worker, wrapper, drop : \E counted \in BOOLEAN :
               /\ FreshName(worker, "worker") /\ FreshName(wrapper, "wrapper")
               /\ IF counted THEN FreshName(drop, "drop") ELSE drop = Plain("closure_drop_nothing")
               /\ module' = module \cup Declared(module, BoxRuntime(counted))
                                   \cup BoxCode(i, worker, wrapper, drop, counted)
    BY <1>1, <1>5, BoxCases
  <2>3. PICK counted \in BOOLEAN :
               /\ FreshName(worker, "worker") /\ FreshName(wrapper, "wrapper")
               /\ IF counted THEN FreshName(drop, "drop") ELSE drop = Plain("closure_drop_nothing")
               /\ module' = module \cup Declared(module, BoxRuntime(counted))
                                   \cup BoxCode(i, worker, wrapper, drop, counted)
    BY <2>2
  <2> DEFINE new == Declared(module, BoxRuntime(counted)) \cup BoxCode(i, worker, wrapper, drop, counted)
  <2>4. /\ BoxRuntime(counted) \subseteq RuntimeNames /\ IsFiniteSet(BoxRuntime(counted))
        /\ \A b \in BoxRuntime(counted) : b \notin MainCallees \/ b = "malloc"
    <3>1. BoxRuntime(counted) = {"malloc"} \cup {"closure_decr_then_drop"}
                                    \cup {IF counted THEN "closure_incr" ELSE "closure_drop_nothing"}
      BY DEF BoxRuntime
    <3>2. IsFiniteSet({"malloc"} \cup {"closure_decr_then_drop"}
                                    \cup {IF counted THEN "closure_incr" ELSE "closure_drop_nothing"})
      BY FS_Singleton, FS_Union
    <3> QED BY <3>1, <3>2 DEF RuntimeNames, MainCallees, BoxRuntime
  <2>5. \A f \in Declared(module, BoxRuntime(counted)) : Added(f) /\ \E b \in BoxRuntime(counted) : f.name = Plain(b)
    BY <2>4, DeclaredFacts
  <2>6. \A f \in BoxCode(i, worker, wrapper, drop, counted) : Added(f) /\ f.origin # <<"decl", 0>>
    <3>1. \A name : \A part \in BoxParts : FreshName(name, part) =>
              Added(Function(name, "llvm", <<part, i>>)) /\ Function(name, "llvm", <<part, i>>).origin # <<"decl", 0>>
      BY FunctionFacts, OriginsDiffer DEF Added, OfBox, FreshName
    <3>2. "worker" \in BoxParts /\ "wrapper" \in BoxParts /\ "drop" \in BoxParts
      BY DEF BoxParts
    <3>3. \A f \in BoxCode(i, worker, wrapper, drop, counted) :
              \/ f = Function(worker, "llvm", <<"worker", i>>)
              \/ f = Function(wrapper, "llvm", <<"wrapper", i>>)
              \/ counted /\ f = Function(drop, "llvm", <<"drop", i>>)
      BY DEF BoxCode
    <3> QED BY <2>3, <3>1, <3>2, <3>3
  <2>7. module' = module \cup new /\ \A f \in new : Added(f)
    BY <2>3, <2>5, <2>6
  <2>8. \A f \in new : f.origin = <<"decl", 0>> =>
            \E b \in RuntimeNames : /\ f.name = Plain(b)
                                    /\ b \notin MainCallees \/ (b = "malloc" /\ \E j \in OpIds : ops[j].kind = "box")
    BY <2>1, <2>4, <2>5, <2>6
  <2> HIDE DEF new
  <2> QED BY <1>1, <2>1, <2>7, <2>8, ClashGrow
<1> QED BY <1>2, <1>3, <1>4, <1>5, StepCases

LEMMA ClashInit == Init => ClashInv
<1>1. Init => module = {Function(decls[k].name, "func", InFunc(k)) : k \in DOMAIN decls}
  BY DEF Init, Function
<1>2. ASSUME Init, NEW f \in module PROVE f.origin # <<"decl", 0>>
  <2>1. PICK k \in DOMAIN decls : f = Function(decls[k].name, "func", InFunc(k))
    BY <1>1, <1>2
  <2>2. f.origin = InFunc(k)
    BY <2>1 DEF Function
  <2> QED BY <2>2, OriginsDiffer
<1> QED BY <1>2 DEF ClashInv

\* No two functions of the module share a name when the program leaves the
\* runtime's names alone, except a main that was asked for twice, and a function
\* named like a callee of main that stands behind a sigi.main.
THEOREM NamesDoNotClash ==
    ASSUME ReservedNames PROVE Spec => []NamesClashOnlyForMain
<1>1. SymbolInv /\ FamilyInv /\ ClashInv => NamesClashOnlyForMain
  <2> SUFFICES ASSUME SymbolInv, FamilyInv, ClashInv, NEW f \in module, NEW g \in module, f.name = g.name, f # g
               PROVE  \/ f.name = Plain("main") /\ f.origin[1] = "main" /\ g.origin[1] = "main"
                      \/ \E j, k \in DOMAIN decls : /\ j < k /\ decls[j].attr = "sigi.main" /\ LikeCallee(k)
                                                   /\ {f.origin, g.origin} = {InFunc(k), <<"decl", 0>>}
    BY DEF NamesClashOnlyForMain
  <2>1. Known(f) /\ Known(g) /\ ~OfBox(f) /\ ~OfBox(g)
    BY DEF SymbolInv, ModuleInv, FunctionsOK, FreshInv, FreshBoxes
  <2>2. PICK d \in Inputs : \A k \in DOMAIN decls : decls[k] \in d.decls
    BY DEF FamilyInv
  <2>3. CASE OfProgram(f) /\ OfProgram(g)
    <3>1. PICK j \in DOMAIN decls : f.origin = InFunc(j) /\ NameOf(j, f.name)
      BY <2>3 DEF OfProgram
    <3>2. PICK k \in DOMAIN decls : g.origin = InFunc(k) /\ NameOf(k, g.name)
      BY <2>3 DEF OfProgram
    <3>3. j # k
      BY <3>1, <3>2 DEF SymbolInv, ModuleInv, FunctionsOK
    <3>4. decls[j].name # RuntimePp /\ decls[k].name # RuntimePp
      BY <2>2, ReservedNames DEF ReservedNames
    <3>5. decls[j].name # decls[k].name
      BY <3>3 DEF FamilyInv
    <3> QED BY <3>1, <3>2, <3>4, <3>5 DEF NameOf
  <2>4. CASE (OfProgram(f) /\ OfRuntime(g)) \/ (OfRuntime(f) /\ OfProgram(g))
    BY <2>4 DEF ClashInv, OfProgram, OfRuntime
  <2>5. CASE (OfProgram(f) /\ OfMain(g)) \/ (OfMain(f) /\ OfProgram(g))
    <3>1. \A k \in DOMAIN decls : ~NameOf(k, Plain("main"))
      BY <2>2, NamesDiffer, ReservedNames DEF ReservedNames, NameOf
    <3> QED BY <2>5, <3>1 DEF OfMain, OfProgram
  <2>6. CASE Added(f) /\ Added(g)
    <3>1. CASE OfRuntime(f) /\ OfRuntime(g)
      BY <2>6, <3>1 DEF Added, OfRuntime
    <3>2. CASE OfMain(f) /\ OfMain(g)
      BY <3>2 DEF OfMain
    <3>3. CASE (OfRuntime(f) /\ OfMain(g)) \/ (OfMain(f) /\ OfRuntime(g))
      BY <3>3, NamesDiffer DEF OfMain, OfRuntime
    <3> QED BY <2>1, <2>6, <3>1, <3>2, <3>3 DEF Added
  <2> QED BY <2>1, <2>3, <2>4, <2>5, <2>6 DEF Known, Added
<1> QED BY OrderInit, OrderNext, SymbolInit, SymbolNext, FamilyInit, FamilyNext, ClashInit, ClashNext, <1>1, PTL DEF Spec
=============================================================================
