--------------------------- MODULE StackValuesProofs ---------------------------
(***************************************************************************)
(* Theorems about StackValues, for bodies of any length, in which the      *)
(* front end uses each stack value once.                                   *)
(***************************************************************************)
EXTENDS StackValues, FiniteSetTheorems, SequenceTheorems, TLAPS

OpType == [id : 1 .. NumOps, kind : Kinds, in : None .. NumOps, val : None .. NumOps,
           attr : Codes \cup {"none", "int", "closure"}]

\* What an operation returns.
StackOp(o) == o.kind \in {"push", "pop", "pp"}
ValueOp(o) == o.kind \in {"pop", "box"}
ClosureOp(o) == o.kind = "box" \/ (o.kind = "pop" /\ o.attr = "closure")

\* The operands and the attribute that an operation of each kind has.
OpOK(o) ==
    \/ o.kind = "push" /\ o.in # None /\ o.val # None
    \/ o.kind = "pop" /\ o.in # None /\ o.val = None /\ o.attr \in {"int", "closure"}
    \/ o.kind = "pp" /\ o.in # None /\ o.val = None
    \/ o.kind = "box" /\ o.in = None /\ o.val = None /\ o.attr \in Codes
    \/ o.kind = "check_drop" /\ o.in = None /\ o.val # None

\* The operands of the k-th operation are results of operations before it.
InBefore(k) ==
    body[k].in # None => body[k].in = 0 \/ \E j \in 1 .. k - 1 : body[j].id = body[k].in /\ StackOp(body[j])
ValBefore(k) ==
    body[k].val # None => \/ body[k].val = 0 /\ body[k].kind = "push"
                          \/ \E j \in 1 .. k - 1 : /\ body[j].id = body[k].val /\ ValueOp(body[j])
                                                   /\ body[k].kind = "check_drop" => ClosureOp(body[j])

\* A body is a list of operations with ids of their own, in an order that
\* defines operands first, and with one use of each stack at most.
BodyInv ==
    /\ body \in Seq(OpType) /\ Len(body) <= NumOps
    /\ \A k \in 1 .. Len(body) : OpOK(body[k]) /\ InBefore(k) /\ ValBefore(k)
    /\ \A j, k \in 1 .. Len(body) : body[j].id = body[k].id => j = k
    /\ \A j, k \in 1 .. Len(body) : body[j].in = body[k].in /\ body[j].in # None => j = k

\* The stacks that the operations before the p-th have produced and not consumed.
Produced(s, p) == s = 0 \/ \E j \in 1 .. p - 1 : body[j].id = s /\ StackOp(body[j])
Consumed(s, p) == \E j \in 1 .. p - 1 : body[j].in = s
OnlyOpen(c, p) == \A s : Produced(s, p) /\ ~Consumed(s, p) <=> s = c

\* Each operation on a stack consumes one and produces one, so one is left to
\* build on, and then to return.
RetInv ==
    IF status = "building"
    THEN /\ ret = 0 /\ \A k \in 1 .. Len(body) : body[k].id = k
         /\ \E c : OnlyOpen(c, Len(body) + 1)
    ELSE \A s : (Produced(s, Len(body) + 1) /\ ~Consumed(s, Len(body) + 1)) <=> s = ret

StaticInv == BodyInv /\ RetInv

------------------------------------------------------------------------------
(* Bodies *)

LEMMA OpFacts ==
    ASSUME BodyInv, NEW k \in 1 .. Len(body)
    PROVE  /\ body[k] \in OpType /\ body[k].id \in 1 .. NumOps /\ body[k].id # 0 /\ body[k].id # None
           /\ body[k].in # None <=> StackOp(body[k])
           /\ Len(body) \in Nat /\ k \in Nat
<1>1. body[k] \in OpType /\ OpOK(body[k]) /\ Len(body) \in Nat
  BY DEF BodyInv
<1>2. body[k].id \in 1 .. NumOps
  BY <1>1 DEF OpType
<1>3. body[k].in # None <=> StackOp(body[k])
  BY <1>1 DEF OpOK, StackOp
<1> QED BY <1>1, <1>2, <1>3, BoundAssumption DEF None

\* The ids of stacks and values, as positions in the body.
LEMMA IdFacts ==
    ASSUME BodyInv
    PROVE  /\ DOMAIN body = 1 .. Len(body)
           /\ \A s : s \in StackIds <=> Produced(s, Len(body) + 1)
           /\ \A v : v \in ValueIds <=> v = 0 \/ \E j \in 1 .. Len(body) : body[j].id = v /\ ValueOp(body[j])
           /\ \A v : v \in ClosureIds <=> \E j \in 1 .. Len(body) : body[j].id = v /\ ClosureOp(body[j])
<1>1. DOMAIN body = 1 .. Len(body) /\ Len(body) \in Nat
  BY DEF BodyInv
<1>2. Len(body) + 1 - 1 = Len(body)
  BY <1>1
<1> QED BY <1>1, <1>2 DEF StackIds, ValueIds, ClosureIds, BodyOps, Produced, StackOp, ValueOp, ClosureOp

\* What an operation does to the stacks left open.
LEMMA OpenStep ==
    ASSUME BodyInv, NEW p \in 1 .. Len(body), NEW c, OnlyOpen(c, p)
    PROVE  IF StackOp(body[p]) THEN body[p].in = c /\ OnlyOpen(body[p].id, p + 1) ELSE OnlyOpen(c, p + 1)
<1> DEFINE o == body[p]
<1>1. /\ o.id # 0 /\ o.id # None /\ (o.in # None <=> StackOp(o)) /\ Len(body) \in Nat /\ p \in Nat
      /\ p + 1 - 1 = p /\ \A j : j \in 1 .. p <=> j \in 1 .. p - 1 \/ j = p
      /\ \A j \in 1 .. p : j \in 1 .. Len(body)
  BY OpFacts
<1>2. /\ \A s : Produced(s, p + 1) <=> Produced(s, p) \/ (s = o.id /\ StackOp(o))
      /\ \A s : Consumed(s, p + 1) <=> Consumed(s, p) \/ s = o.in
  BY <1>1 DEF Produced, Consumed
<1>3. CASE StackOp(o)
  <2>1. Produced(o.in, p)
    BY <1>1, <1>3 DEF BodyInv, InBefore, Produced
  <2>2. ~Consumed(o.in, p)
    <3> SUFFICES ASSUME NEW j \in 1 .. p - 1, body[j].in = o.in PROVE FALSE
      BY DEF Consumed
    <3>1. j = p
      BY <1>1, <1>3 DEF BodyInv
    <3> QED BY <1>1, <3>1
  <2>3. o.in = c
    BY <2>1, <2>2 DEF OnlyOpen
  <2>4. ~Produced(o.id, p) /\ ~Consumed(o.id, p) /\ o.id # o.in
    <3>1. ASSUME NEW j \in 1 .. p, body[j].in = o.id PROVE FALSE
      <4>1. j \in 1 .. Len(body) /\ body[j].in # 0 /\ body[j].in # None
        BY <1>1, <3>1
      <4>2. PICK i \in 1 .. j - 1 : body[i].id = o.id
        BY <3>1, <4>1 DEF BodyInv, InBefore
      <4>3. i = p
        BY <1>1, <4>1, <4>2 DEF BodyInv
      <4> QED BY <1>1, <4>3
    <3>2. ASSUME NEW j \in 1 .. p - 1, body[j].id = o.id PROVE FALSE
      <4>1. j = p
        BY <1>1, <3>2 DEF BodyInv
      <4> QED BY <1>1, <4>1
    <3> QED BY <1>1, <3>1, <3>2 DEF Produced, Consumed
  <2>5. \A s : Produced(s, p + 1) /\ ~Consumed(s, p + 1) <=> s = o.id
    BY <1>2, <1>3, <2>3, <2>4 DEF OnlyOpen
  <2> QED BY <1>3, <2>3, <2>5 DEF OnlyOpen
<1>4. CASE ~StackOp(o)
  <2>1. ~Produced(None, p)
    <3>1. \A j \in 1 .. p - 1 : body[j].id # None
      BY <1>1, OpFacts
    <3> QED BY <3>1 DEF Produced, None
  <2>2. \A s : Produced(s, p + 1) /\ ~Consumed(s, p + 1) <=> s = c
    BY <1>1, <1>2, <1>4, <2>1 DEF OnlyOpen
  <2> QED BY <1>4, <2>2 DEF OnlyOpen
<1> QED BY <1>3, <1>4

\* One stack is open after an operation when one was before it; to be used of the
\* next state.
OpenStepFact ==
    BodyInv => \A p \in 1 .. Len(body) : \A c : OnlyOpen(c, p) =>
        \E d : OnlyOpen(d, p + 1)

LEMMA OpenStepAnywhere == OpenStepFact
BY OpenStep DEF OpenStepFact

LEMMA Counting == \A n \in Nat : n + 1 - 1 = n /\ 1 .. n \subseteq Nat
OBVIOUS

\* A rearranged body: position i holds what was at h[i], perhaps with another
\* value as its operand; only operations without stacks are missing, and stacks
\* are still produced before they are used.
LEMMA Rearranged ==
    ASSUME BodyInv, RetInv, status # "building", status' # "building", ret' = ret,
           body' \in Seq(OpType), Len(body') <= NumOps,
           NEW h \in [1 .. Len(body') -> 1 .. Len(body)],
           \A i, j \in 1 .. Len(body') : h[i] = h[j] => i = j,
           \A i \in 1 .. Len(body') : /\ body'[i].id = body[h[i]].id /\ body'[i].kind = body[h[i]].kind
                                      /\ body'[i].in = body[h[i]].in /\ body'[i].attr = body[h[i]].attr
                                      /\ OpOK(body'[i]) /\ ValBefore(i)',
           \A j \in 1 .. Len(body) : StackOp(body[j]) => \E i \in 1 .. Len(body') : h[i] = j,
           \A i \in 1 .. Len(body') : \A j \in 1 .. h[i] - 1 :
               StackOp(body[j]) /\ body[h[i]].in = body[j].id => \E m \in 1 .. i - 1 : h[m] = j
    PROVE  BodyInv' /\ RetInv'
<1>1. /\ Len(body) \in Nat /\ Len(body') \in Nat
      /\ Len(body) + 1 - 1 = Len(body) /\ Len(body') + 1 - 1 = Len(body')
      /\ \A i \in 1 .. Len(body') : i \in Nat /\ h[i] \in 1 .. Len(body)
  <2>1. Len(body) \in Nat /\ Len(body') \in Nat
    BY LenProperties DEF BodyInv
  <2>2. \A i \in 1 .. Len(body') : h[i] \in 1 .. Len(body)
    OBVIOUS
  <2> QED BY <2>1, <2>2, Counting
<1>2. \A i \in 1 .. Len(body') : StackOp(body'[i]) <=> StackOp(body[h[i]])
  BY DEF StackOp
<1>3. ASSUME NEW i \in 1 .. Len(body') PROVE InBefore(i)'
  <2> SUFFICES ASSUME body'[i].in # None, body'[i].in # 0
               PROVE  \E j \in 1 .. i - 1 : body'[j].id = body'[i].in /\ StackOp(body'[j])
    BY DEF InBefore
  <2>1. PICK j \in 1 .. h[i] - 1 : body[j].id = body[h[i]].in /\ StackOp(body[j])
    BY <1>1 DEF BodyInv, InBefore
  <2>2. PICK m \in 1 .. i - 1 : h[m] = j
    BY <2>1
  <2>3. m \in 1 .. Len(body')
    BY <1>1, <2>2
  <2> QED BY <1>2, <2>1, <2>2, <2>3
<1>4. ASSUME NEW i \in 1 .. Len(body'), NEW j \in 1 .. Len(body')
      PROVE  /\ body'[i].id = body'[j].id => i = j
             /\ body'[i].in = body'[j].in /\ body'[i].in # None => i = j
  <2>1. h[i] \in 1 .. Len(body) /\ h[j] \in 1 .. Len(body)
    BY <1>1
  <2>2. /\ body[h[i]].id = body[h[j]].id => h[i] = h[j]
        /\ body[h[i]].in = body[h[j]].in /\ body[h[i]].in # None => h[i] = h[j]
    BY <2>1 DEF BodyInv
  <2> QED BY <2>2
<1>5. BodyInv'
  BY <1>3, <1>4 DEF BodyInv
<1>6. ASSUME NEW s PROVE Produced(s, Len(body) + 1) <=> Produced(s, Len(body) + 1)'
  <2>1. Produced(s, Len(body) + 1) <=> s = 0 \/ \E j \in 1 .. Len(body) : body[j].id = s /\ StackOp(body[j])
    BY <1>1 DEF Produced
  <2>2. Produced(s, Len(body) + 1)' <=> s = 0 \/ \E j \in 1 .. Len(body') : body'[j].id = s /\ StackOp(body'[j])
    BY <1>1 DEF Produced
  <2>3. (\E j \in 1 .. Len(body) : body[j].id = s /\ StackOp(body[j])) <=> \E j \in 1 .. Len(body') : body'[j].id = s /\ StackOp(body'[j])
    BY <1>1, <1>2
  <2> QED BY <2>1, <2>2, <2>3
<1>7. ASSUME NEW s, s # None PROVE Consumed(s, Len(body) + 1) <=> Consumed(s, Len(body) + 1)'
  <2>1. Consumed(s, Len(body) + 1) <=> \E j \in 1 .. Len(body) : body[j].in = s
    BY <1>1 DEF Consumed
  <2>2. Consumed(s, Len(body) + 1)' <=> \E j \in 1 .. Len(body') : body'[j].in = s
    BY <1>1 DEF Consumed
  <2>3. \A j \in 1 .. Len(body) : body[j].in # None => StackOp(body[j])
    BY OpFacts
  <2>4. (\E j \in 1 .. Len(body) : body[j].in = s) <=> \E j \in 1 .. Len(body') : body'[j].in = s
    <3>1. ASSUME NEW j \in 1 .. Len(body), body[j].in = s PROVE \E i \in 1 .. Len(body') : body'[i].in = s
      <4>1. StackOp(body[j])
        BY <1>7, <2>3, <3>1
      <4>2. PICK i \in 1 .. Len(body') : h[i] = j
        BY <4>1
      <4> QED BY <3>1, <4>2
    <3>2. ASSUME NEW i \in 1 .. Len(body'), body'[i].in = s PROVE \E j \in 1 .. Len(body) : body[j].in = s
      BY <1>1, <3>2
    <3> QED BY <3>1, <3>2
  <2> QED BY <2>1, <2>2, <2>4
<1>8. ~Produced(None, Len(body) + 1)
  <2>1. \A j \in 1 .. Len(body) : body[j].id # None
    BY OpFacts
  <2> QED BY <1>1, <2>1 DEF Produced, None
<1>9. RetInv'
  <2>1. \A s : (Produced(s, Len(body) + 1) /\ ~Consumed(s, Len(body) + 1)) <=> s = ret
    BY DEF RetInv
  <2>2. \A s : (Produced(s, Len(body) + 1)' /\ ~Consumed(s, Len(body) + 1)') <=> s = ret'
    BY <1>6, <1>7, <1>8, <2>1
  <2> QED BY <2>2 DEF RetInv
<1> QED BY <1>5, <1>9

------------------------------------------------------------------------------
(* The front end *)

LEMMA Appended ==
    ASSUME StaticInv, status = "building", status' = status, ret' = ret, Len(body) < NumOps,
           NEW o \in OpType, OpOK(o), o.id = Len(body) + 1, body' = Append(body, o),
           o.in # None => Produced(o.in, Len(body) + 1) /\ \A k \in 1 .. Len(body) : body[k].in # o.in,
           o.val # None => \/ o.val = 0 /\ o.kind = "push"
                           \/ \E j \in 1 .. Len(body) : /\ body[j].id = o.val /\ ValueOp(body[j])
                                                        /\ o.kind = "check_drop" => ClosureOp(body[j])
    PROVE  StaticInv'
<1>n. PICK n : n = Len(body) + 1
  OBVIOUS
<1>1. /\ BodyInv /\ body \in Seq(OpType) /\ Len(body) \in Nat /\ n \in Nat /\ n - 1 = Len(body)
      /\ \A k : k \in 1 .. n <=> k \in 1 .. Len(body) \/ k = n
      /\ \A k \in 1 .. Len(body) : k \in Nat /\ k # n /\ \A j \in 1 .. k - 1 : j \in 1 .. Len(body)
      /\ n <= NumOps
  BY <1>n, BoundAssumption DEF StaticInv, BodyInv
<1>2. /\ body' \in Seq(OpType) /\ Len(body') = n /\ body'[n] = o
      /\ \A k \in 1 .. Len(body) : body'[k] = body[k]
  BY <1>1, <1>n
<1>3. \A k \in 1 .. Len(body) : body[k].id = k
  BY DEF StaticInv, RetInv
<1>4. ASSUME NEW k \in 1 .. n PROVE OpOK(body'[k]) /\ InBefore(k)' /\ ValBefore(k)'
  <2>1. CASE k = n
    <3>1. o.in # None => o.in = 0 \/ \E j \in 1 .. Len(body) : body[j].id = o.in /\ StackOp(body[j])
      BY <1>1 DEF Produced
    <3>2. InBefore(k)'
      BY <1>1, <1>2, <2>1, <3>1 DEF InBefore
    <3>3. ValBefore(k)'
      BY <1>1, <1>2, <2>1 DEF ValBefore
    <3> QED BY <1>2, <2>1, <3>2, <3>3
  <2>2. CASE k \in 1 .. Len(body)
    <3>1. OpOK(body[k]) /\ InBefore(k) /\ ValBefore(k)
      BY <1>1, <2>2 DEF BodyInv
    <3>2. InBefore(k)'
      BY <1>1, <1>2, <2>2, <3>1 DEF InBefore
    <3>3. ValBefore(k)'
      BY <1>1, <1>2, <2>2, <3>1 DEF ValBefore
    <3> QED BY <1>2, <2>2, <3>1, <3>2, <3>3
  <2> QED BY <1>1, <2>1, <2>2
<1>5. \A k \in 1 .. n : body'[k].id = k
  BY <1>1, <1>2, <1>3, <1>n
<1>6. ASSUME NEW j \in 1 .. n, NEW k \in 1 .. n, body'[j].in = body'[k].in, body'[j].in # None
      PROVE  j = k
  <2>1. CASE j \in 1 .. Len(body) /\ k \in 1 .. Len(body)
    BY <1>1, <1>2, <1>6, <2>1 DEF BodyInv
  <2>2. CASE j = n /\ k \in 1 .. Len(body)
    BY <1>2, <1>6, <2>2
  <2>3. CASE k = n /\ j \in 1 .. Len(body)
    BY <1>2, <1>6, <2>3
  <2> QED BY <1>1, <2>1, <2>2, <2>3
<1>7. BodyInv'
  <2>1. \A j, k \in 1 .. n : body'[j].id = body'[k].id => j = k
    BY <1>5
  <2> QED BY <1>1, <1>2, <1>4, <1>6, <2>1 DEF BodyInv
<1>8. PICK c : OnlyOpen(c, n)
  BY <1>n DEF StaticInv, RetInv
<1>9. OnlyOpen(c, n)'
  <2>1. ASSUME NEW s PROVE (Produced(s, n) <=> Produced(s, n)') /\ (Consumed(s, n) <=> Consumed(s, n)')
    <3>1. \A j \in 1 .. n - 1 : body'[j] = body[j]
      BY <1>1, <1>2
    <3> QED BY <3>1 DEF Produced, Consumed
  <2> QED BY <1>8, <2>1 DEF OnlyOpen
<1>10. OpenStepFact'
  BY OpenStepAnywhere, PTL
<1>11. \E d : OnlyOpen(d, n + 1)'
  <2>1. n \in 1 .. Len(body')
    BY <1>1, <1>2
  <2> QED BY <1>7, <1>9, <1>10, <2>1 DEF OpenStepFact
<1>12. RetInv'
  <2>1. ret' = 0
    BY DEF StaticInv, RetInv
  <2>2. \E d : OnlyOpen(d, Len(body) + 1)'
    BY <1>2, <1>11
  <2> QED BY <1>2, <1>5, <2>1, <2>2 DEF RetInv
<1> QED BY <1>7, <1>12 DEF StaticInv

\* The operands that the front end may choose are what an operation needs.
LEMMA BuildKeeps ==
    ASSUME StaticInv, Linear = TRUE, BuildOp
    PROVE  StaticInv' /\ Len(body') > Len(body) /\ \A k \in 1 .. Len(body) : body'[k] = body[k]
<1>1. PICK kind, in, val, attr :
        /\ Build(kind, in, val, attr)
        /\ \/ kind = "push" /\ in \in StackIds /\ val \in ValueIds /\ attr = "none"
           \/ kind = "pop" /\ in \in StackIds /\ val = None /\ attr \in {"int", "closure"}
           \/ kind = "pp" /\ in \in StackIds /\ val = None /\ attr = "none"
           \/ kind = "box" /\ in = None /\ val = None /\ attr \in Codes
           \/ kind = "check_drop" /\ in = None /\ val \in ClosureIds /\ attr = "none"
  BY DEF BuildOp
<1>2. BodyInv /\ Len(body) \in Nat /\ body \in Seq(OpType) /\ DOMAIN body = 1 .. Len(body)
  BY DEF StaticInv, BodyInv
<1>3. \A j \in 1 .. Len(body) : body[j].id \in 1 .. NumOps /\ body[j].id # None
  BY <1>2, OpFacts
<1>4. in # None => Produced(in, Len(body) + 1) /\ in \in 0 .. NumOps
  <2>1. in # None => Produced(in, Len(body) + 1)
    BY <1>1, <1>2, IdFacts
  <2>2. Produced(in, Len(body) + 1) => in \in 0 .. NumOps
    BY <1>2, <1>3, BoundAssumption DEF Produced
  <2> QED BY <2>1, <2>2
<1>5. val # None => \/ val = 0 /\ kind = "push"
                    \/ \E j \in 1 .. Len(body) : /\ body[j].id = val /\ ValueOp(body[j])
                                                 /\ kind = "check_drop" => ClosureOp(body[j])
  <2>1. \A j \in 1 .. Len(body) : ClosureOp(body[j]) => ValueOp(body[j])
    BY DEF ClosureOp, ValueOp
  <2>2. CASE val \in ValueIds /\ kind = "push"
    BY <1>2, <2>2, IdFacts
  <2>3. CASE val \in ClosureIds /\ kind = "check_drop"
    BY <1>2, <2>1, <2>3, IdFacts
  <2> QED BY <1>1, <2>2, <2>3
<1>6. val \in None .. NumOps /\ in \in None .. NumOps
  <2>1. val # None => val \in 0 .. NumOps
    BY <1>3, <1>5, BoundAssumption
  <2> QED BY <1>4, <2>1, BoundAssumption DEF None
<1>7. attr \in Codes \cup {"none", "int", "closure"}
  BY <1>1
<1> DEFINE o == Op(Len(body) + 1, kind, in, val, attr)
<1>8. /\ status = "building" /\ kind \in Kinds /\ Len(body) < NumOps /\ body' = Append(body, o)
      /\ ret' = ret /\ status' = status
      /\ \A p \in BodyOps : in = None \/ p.in # in
  BY <1>1 DEF Build
<1>9. o \in OpType /\ o.id = Len(body) + 1 /\ o.kind = kind /\ o.in = in /\ o.val = val /\ o.attr = attr
  <2>1. Len(body) + 1 \in 1 .. NumOps
    BY <1>2, <1>8, BoundAssumption
  <2> QED BY <1>6, <1>7, <1>8, <2>1 DEF OpType, Op
<1> HIDE DEF o
<1>10. OpOK(o)
  <2>1. CASE kind = "push"
    <3>1. in # None /\ val # None
      <4>1. ~Produced(None, Len(body) + 1)
        BY <1>2, <1>3 DEF Produced, None
      <4>2. None \notin ValueIds
        <5>1. \A j \in 1 .. Len(body) : body[j].id # None
          BY <1>3
        <5> QED BY <1>2, <5>1, IdFacts DEF None
      <4> QED BY <1>1, <1>2, <2>1, <4>1, <4>2, IdFacts
    <3> QED BY <1>9, <2>1, <3>1 DEF OpOK
  <2>2. CASE kind \in {"pop", "pp"}
    <3>1. in # None
      <4>1. ~Produced(None, Len(body) + 1)
        BY <1>2, <1>3 DEF Produced, None
      <4> QED BY <1>1, <1>2, <2>2, <4>1, IdFacts
    <3> QED BY <1>1, <1>9, <2>2, <3>1 DEF OpOK
  <2>3. CASE kind = "box"
    BY <1>1, <1>9, <2>3 DEF OpOK
  <2>4. CASE kind = "check_drop"
    <3>1. val # None
      <4>1. \A j \in 1 .. Len(body) : body[j].id # None
        BY <1>3
      <4> QED BY <1>1, <1>2, <2>4, <4>1, IdFacts
    <3> QED BY <1>1, <1>9, <2>4, <3>1 DEF OpOK
  <2> QED BY <1>1, <2>1, <2>2, <2>3, <2>4
<1>11. \A k \in 1 .. Len(body) : in # None => body[k].in # in
  BY <1>2, <1>8 DEF BodyOps
<1>12. StaticInv'
  BY <1>4, <1>5, <1>8, <1>9, <1>10, <1>11, Appended
<1> QED BY <1>2, <1>8, <1>9, <1>12

\* The stack returned is the one that is left open.
LEMMA ReturnKeeps ==
    ASSUME StaticInv, Linear = TRUE, BuildReturn
    PROVE  StaticInv'
<1>1. BodyInv /\ DOMAIN body = 1 .. Len(body) /\ Len(body) \in Nat /\ Len(body) + 1 - 1 = Len(body)
  BY DEF StaticInv, BodyInv
<1>2. body' = body /\ status' # "building" /\ status = "building"
  BY DEF BuildReturn
<1>3. Produced(ret', Len(body) + 1)
  BY <1>1, IdFacts DEF BuildReturn
<1>4. ~Consumed(ret', Len(body) + 1)
  BY <1>1 DEF BuildReturn, Consumed, BodyOps
<1>5. PICK c : OnlyOpen(c, Len(body) + 1)
  BY <1>2 DEF StaticInv, RetInv
<1>6. \A s : (Produced(s, Len(body) + 1) /\ ~Consumed(s, Len(body) + 1)) <=> s = ret'
  BY <1>3, <1>4, <1>5 DEF OnlyOpen
<1>7. \A s : (Produced(s, Len(body) + 1)' /\ ~Consumed(s, Len(body) + 1)') <=> s = ret'
  BY <1>2, <1>6 DEF Produced, Consumed
<1>8. BodyInv'
  BY <1>1, <1>2 DEF BodyInv, InBefore, ValBefore
<1> QED BY <1>2, <1>7, <1>8 DEF StaticInv, RetInv

------------------------------------------------------------------------------
(* Rewritings *)

\* Position i of a body without its k-th operation, in the body with it, and back.
Old(k, i) == IF i < k THEN i ELSE i + 1
New(k, m) == IF m < k THEN m ELSE m - 1

LEMMA WithoutFacts ==
    ASSUME BodyInv, NEW k \in 1 .. Len(body)
    PROVE  /\ Without(k) \in Seq(OpType) /\ Len(Without(k)) = Len(body) - 1
           /\ \A i \in 1 .. Len(body) - 1 : Without(k)[i] = body[Old(k, i)] /\ Old(k, i) \in 1 .. Len(body)
<1>1. body \in Seq(OpType) /\ Len(body) \in Nat /\ k \in Nat /\ k >= 1 /\ k <= Len(body)
  BY DEF BodyInv
<1> DEFINE a == SubSeq(body, 1, k - 1)
           b == SubSeq(body, k + 1, Len(body))
<1>2. a \in Seq(OpType) /\ Len(a) = k - 1 /\ \A i \in 1 .. k - 1 : a[i] = body[i]
  BY <1>1
<1>3. b \in Seq(OpType) /\ Len(b) = Len(body) - k /\ \A i \in 1 .. Len(body) - k : b[i] = body[k + i]
  BY <1>1
<1>4. Without(k) = a \o b
  BY DEF Without
<1> HIDE DEF a, b
<1>5. Without(k) \in Seq(OpType) /\ Len(Without(k)) = Len(body) - 1
  <2>1. a \o b \in Seq(OpType)
    BY <1>2, <1>3
  <2>2. Len(a \o b) = Len(a) + Len(b)
    BY <1>2, <1>3, ConcatProperties
  <2>3. (k - 1) + (Len(body) - k) = Len(body) - 1
    BY <1>1
  <2> QED BY <1>2, <1>3, <1>4, <2>1, <2>2, <2>3
<1>6. ASSUME NEW i \in 1 .. Len(body) - 1 PROVE Without(k)[i] = body[Old(k, i)] /\ Old(k, i) \in 1 .. Len(body)
  <2>1. CASE i < k
    BY <1>1, <1>2, <1>3, <1>4, <2>1 DEF Old
  <2>2. CASE ~(i < k)
    <3>1. i - (k - 1) \in 1 .. Len(body) - k /\ k + (i - (k - 1)) = i + 1
      BY <1>1, <2>2
    <3>2. (a \o b)[i] = b[i - (k - 1)]
      BY <1>1, <1>2, <1>3, <2>2
    <3> QED BY <1>1, <1>3, <1>4, <2>2, <3>1, <3>2 DEF Old
  <2> QED BY <2>1, <2>2
<1> QED BY <1>5, <1>6

LEMMA OldNew ==
    ASSUME NEW n \in Nat, NEW k \in 1 .. n + 1
    PROVE  /\ \A i \in 1 .. n : Old(k, i) \in 1 .. n + 1 /\ Old(k, i) # k
           /\ \A i, j \in 1 .. n : Old(k, i) = Old(k, j) => i = j
           /\ \A m \in 1 .. n + 1 : m # k => New(k, m) \in 1 .. n /\ Old(k, New(k, m)) = m
           /\ \A i \in 1 .. n : \A m \in 1 .. Old(k, i) - 1 : m # k => New(k, m) \in 1 .. i - 1
           /\ \A i \in 1 .. n : Old(k, i) > k => k <= i
<1>1. ASSUME NEW i \in 1 .. n PROVE Old(k, i) \in 1 .. n + 1 /\ Old(k, i) # k /\ (Old(k, i) > k => k <= i)
  BY DEF Old
<1>2. ASSUME NEW i \in 1 .. n, NEW j \in 1 .. n, Old(k, i) = Old(k, j) PROVE i = j
  BY <1>2 DEF Old
<1>3. ASSUME NEW m \in 1 .. n + 1, m # k PROVE New(k, m) \in 1 .. n /\ Old(k, New(k, m)) = m
  BY <1>3 DEF Old, New
<1>4. ASSUME NEW i \in 1 .. n, NEW m \in 1 .. Old(k, i) - 1, m # k PROVE New(k, m) \in 1 .. i - 1
  BY <1>4 DEF Old, New
<1> QED BY <1>1, <1>2, <1>3, <1>4

\* The k-th operation goes; where its value is still used, the value of an earlier
\* box takes its place.
RemovedAt(k) ==
    /\ body' \in Seq(OpType) /\ Len(body') = Len(body) - 1
    /\ \A i \in 1 .. Len(body) - 1 :
           /\ body'[i].id = body[Old(k, i)].id /\ body'[i].kind = body[Old(k, i)].kind
           /\ body'[i].in = body[Old(k, i)].in /\ body'[i].attr = body[Old(k, i)].attr
           /\ \/ body'[i].val = body[Old(k, i)].val /\ body'[i].val # body[k].id
              \/ /\ body[Old(k, i)].val = body[k].id
                 /\ \E j \in 1 .. k - 1 : body[j].kind = "box" /\ body'[i].val = body[j].id

LEMMA BoxRemoved ==
    ASSUME StaticInv, status = "rewriting", status' = status, ret' = ret,
           NEW k \in 1 .. Len(body), body[k].kind = "box", RemovedAt(k)
    PROVE  StaticInv'
<1>1. /\ BodyInv /\ RetInv /\ Len(body) \in Nat /\ Len(body) <= NumOps
      /\ body[k].id # 0 /\ body[k].id # None /\ body[k].in = None /\ ~StackOp(body[k])
  <2>1. BodyInv /\ RetInv /\ Len(body) \in Nat /\ Len(body) <= NumOps
    BY DEF StaticInv, BodyInv
  <2>2. ~StackOp(body[k])
    BY DEF StackOp
  <2> QED BY <2>1, <2>2, OpFacts
<1>2. \A j \in 1 .. Len(body) : body[j].id # None /\ body[j].id # 0
  BY <1>1, OpFacts
<1>3. PICK n \in Nat : n = Len(body) - 1 /\ n = Len(body') /\ Len(body) = n + 1
  BY <1>1 DEF RemovedAt
<1>4. /\ \A i \in 1 .. n : Old(k, i) \in 1 .. Len(body) /\ Old(k, i) # k
      /\ \A i, j \in 1 .. n : Old(k, i) = Old(k, j) => i = j
      /\ \A m \in 1 .. Len(body) : m # k => New(k, m) \in 1 .. n /\ Old(k, New(k, m)) = m
      /\ \A i \in 1 .. n : \A m \in 1 .. Old(k, i) - 1 : m # k => New(k, m) \in 1 .. i - 1
      /\ \A i \in 1 .. n : Old(k, i) > k => k <= i
  <2>1. k \in 1 .. n + 1
    BY <1>3
  <2> QED BY <1>3, <2>1, OldNew
<1>5. \A i \in 1 .. n :
               /\ body'[i].id = body[Old(k, i)].id /\ body'[i].kind = body[Old(k, i)].kind
               /\ body'[i].in = body[Old(k, i)].in /\ body'[i].attr = body[Old(k, i)].attr
               /\ \/ body'[i].val = body[Old(k, i)].val /\ body'[i].val # body[k].id
                  \/ /\ body[Old(k, i)].val = body[k].id
                     /\ \E j \in 1 .. k - 1 : body[j].kind = "box" /\ body'[i].val = body[j].id
  BY <1>3 DEF RemovedAt
<1>6. ASSUME NEW i \in 1 .. n PROVE OpOK(body'[i])
  <2>1. OpOK(body[Old(k, i)])
    BY <1>1, <1>4 DEF BodyInv
  <2>2. body'[i].val # None <=> body[Old(k, i)].val # None
    <3>1. \A j \in 1 .. k - 1 : j \in 1 .. Len(body)
      BY <1>1
    <3> QED BY <1>1, <1>2, <1>5, <3>1
  <2> QED BY <1>5, <2>1, <2>2 DEF OpOK
<1>7. ASSUME NEW i \in 1 .. n PROVE ValBefore(i)'
  <2>q. PICK q : q = Old(k, i)
    OBVIOUS
  <2>0. q \in 1 .. Len(body)
    BY <1>4, <2>q
  <2>1. q \in 1 .. Len(body) /\ ValBefore(q)
    BY <1>1, <2>0 DEF BodyInv
  <2>5. body[q].val # None => \/ body[q].val = 0 /\ body[q].kind = "push"
                              \/ \E m \in 1 .. q - 1 : /\ body[m].id = body[q].val /\ ValueOp(body[m])
                                                       /\ body[q].kind = "check_drop" => ClosureOp(body[m])
    BY <2>1 DEF ValBefore
  <2>2. body'[i].kind = body[q].kind
    BY <1>5, <2>q
  <2>3. CASE body'[i].val = body[q].val /\ body'[i].val # body[k].id
    <3> SUFFICES ASSUME body'[i].val # None, ~(body'[i].val = 0 /\ body'[i].kind = "push")
                 PROVE  \E j \in 1 .. i - 1 : /\ body'[j].id = body'[i].val /\ ValueOp(body'[j])
                                              /\ body'[i].kind = "check_drop" => ClosureOp(body'[j])
      BY DEF ValBefore
    <3>1. PICK m \in 1 .. q - 1 : /\ body[m].id = body[q].val /\ ValueOp(body[m])
                                  /\ body[q].kind = "check_drop" => ClosureOp(body[m])
      BY <2>2, <2>3, <2>5
    <3>2. m # k /\ m \in 1 .. Len(body)
      BY <1>1, <2>1, <2>3, <3>1
    <3>3. New(k, m) \in 1 .. i - 1 /\ New(k, m) \in 1 .. n /\ Old(k, New(k, m)) = m
      BY <1>4, <2>q, <3>1, <3>2
    <3>4. body'[New(k, m)].id = body[m].id /\ ValueOp(body'[New(k, m)]) /\ (ClosureOp(body[m]) => ClosureOp(body'[New(k, m)]))
      BY <1>5, <3>1, <3>3 DEF ValueOp, ClosureOp
    <3> QED BY <2>2, <2>3, <3>1, <3>3, <3>4
  <2>4. ASSUME body[q].val = body[k].id, NEW j \in 1 .. k - 1, body[j].kind = "box", body'[i].val = body[j].id
        PROVE  ValBefore(i)'
    <3>1. PICK m \in 1 .. q - 1 : body[m].id = body[q].val
      BY <1>1, <2>4, <2>5
    <3>2. m = k
      <4>1. m \in 1 .. Len(body)
        BY <1>1, <2>1, <3>1
      <4> QED BY <1>1, <2>4, <3>1, <4>1 DEF BodyInv
    <3>3. k <= i
      BY <1>1, <1>4, <2>q, <2>1, <3>1, <3>2
    <3>4. j \in 1 .. i - 1 /\ j \in 1 .. n /\ Old(k, j) = j
      BY <1>1, <1>3, <3>3 DEF Old
    <3>5. body'[j].id = body'[i].val /\ body'[j].kind = "box"
      BY <1>5, <2>4, <3>4
    <3> QED BY <3>4, <3>5 DEF ValBefore, ValueOp, ClosureOp
  <2> QED BY <1>5, <2>q, <2>3, <2>4
<1> DEFINE h == [i \in 1 .. n |-> Old(k, i)]
<1>8. h \in [1 .. Len(body') -> 1 .. Len(body)] /\ \A i \in 1 .. n : h[i] = Old(k, i)
  BY <1>3, <1>4
<1> HIDE DEF h
<1>9. \A i, j \in 1 .. Len(body') : h[i] = h[j] => i = j
  BY <1>3, <1>4, <1>8
<1>10. \A j \in 1 .. Len(body) : StackOp(body[j]) => \E i \in 1 .. Len(body') : h[i] = j
  <2> SUFFICES ASSUME NEW j \in 1 .. Len(body), StackOp(body[j]) PROVE \E i \in 1 .. Len(body') : h[i] = j
    OBVIOUS
  <2>1. j # k
    BY <1>1
  <2>2. New(k, j) \in 1 .. n /\ Old(k, New(k, j)) = j
    BY <1>4, <2>1
  <2> QED BY <1>3, <1>8, <2>2
<1>11. \A i \in 1 .. Len(body') : \A j \in 1 .. h[i] - 1 :
               StackOp(body[j]) /\ body[h[i]].in = body[j].id => \E m \in 1 .. i - 1 : h[m] = j
  <2> SUFFICES ASSUME NEW i \in 1 .. n, NEW j \in 1 .. Old(k, i) - 1, StackOp(body[j])
               PROVE  \E m \in 1 .. i - 1 : h[m] = j
    BY <1>3, <1>8
  <2>1. j # k
    BY <1>1
  <2>2. j \in 1 .. Len(body)
    BY <1>1, <1>4
  <2>3. New(k, j) \in 1 .. i - 1 /\ New(k, j) \in 1 .. n /\ Old(k, New(k, j)) = j
    BY <1>4, <2>1, <2>2
  <2> QED BY <1>8, <2>3
<1>12. \A i \in 1 .. Len(body') : /\ body'[i].id = body[h[i]].id /\ body'[i].kind = body[h[i]].kind
                                  /\ body'[i].in = body[h[i]].in /\ body'[i].attr = body[h[i]].attr
                                  /\ OpOK(body'[i]) /\ ValBefore(i)'
  BY <1>3, <1>5, <1>6, <1>7, <1>8
<1>13. Len(body') <= NumOps /\ status # "building" /\ status' # "building"
  BY <1>1, <1>3, BoundAssumption
<1>14. body' \in Seq(OpType)
  BY DEF RemovedAt
<1> QED BY <1>14, <1>1, <1>8, <1>9, <1>10, <1>11, <1>12, <1>13, Rearranged DEF StaticInv

\* A result that is a stack is used, so what is erased is a box.
LEMMA EraseKeeps ==
    ASSUME StaticInv, NEW k \in 1 .. Len(body), EraseDead(k)
    PROVE  StaticInv'
<1>1. /\ status = "rewriting" /\ status' = status /\ ret' = ret /\ body' = Without(k)
      /\ body[k].kind \in PureKinds /\ ~IsUsed(body[k].id)
  BY DEF EraseDead, Rewrite
<1>2. BodyInv /\ RetInv /\ DOMAIN body = 1 .. Len(body) /\ Len(body) \in Nat /\ Len(body) + 1 - 1 = Len(body)
  BY DEF StaticInv, BodyInv
<1>3. ret # body[k].id /\ \A j \in 1 .. Len(body) : body[j].in # body[k].id /\ body[j].val # body[k].id
  BY <1>1, <1>2 DEF IsUsed, BodyOps
<1>4. ~StackOp(body[k])
  <2> SUFFICES ASSUME StackOp(body[k]) PROVE FALSE
    OBVIOUS
  <2>1. Produced(body[k].id, Len(body) + 1)
    BY <1>2 DEF Produced
  <2>2. ~Consumed(body[k].id, Len(body) + 1)
    BY <1>2, <1>3 DEF Consumed
  <2>3. \A s : (Produced(s, Len(body) + 1) /\ ~Consumed(s, Len(body) + 1)) <=> s = ret
    BY <1>1, <1>2 DEF RetInv
  <2> QED BY <1>3, <2>1, <2>2, <2>3
<1>5. body[k].kind = "box"
  BY <1>1, <1>4 DEF StackOp, PureKinds
<1>6. RemovedAt(k)
  <2>1. body' \in Seq(OpType) /\ Len(body') = Len(body) - 1
    BY <1>1, <1>2, WithoutFacts
  <2>2. \A i \in 1 .. Len(body) - 1 : body'[i] = body[Old(k, i)] /\ Old(k, i) \in 1 .. Len(body)
    BY <1>1, <1>2, WithoutFacts
  <2> QED BY <1>3, <2>1, <2>2 DEF RemovedAt
<1> QED BY <1>1, <1>5, <1>6, BoxRemoved

\* Two operations on stacks have operands of their own, so what is merged is two
\* boxes.
LEMMA MergeKeeps ==
    ASSUME StaticInv, NEW j \in 1 .. Len(body), NEW k \in 1 .. Len(body), Merge(j, k)
    PROVE  StaticInv'
<1> DEFINE Rename(id) == IF id = body[k].id THEN body[j].id ELSE id
           RenameOp(o) == [o EXCEPT !.in = Rename(@), !.val = Rename(@)]
<1>1. /\ status = "rewriting" /\ status' = status /\ ret' = Rename(ret)
      /\ body' = [i \in DOMAIN Without(k) |-> RenameOp(Without(k)[i])]
      /\ body[k].kind \in PureKinds /\ j < k /\ [body[k] EXCEPT !.id = body[j].id] = body[j]
  BY DEF Merge, Rewrite
<1>a. /\ status = "rewriting" /\ status' = status /\ body[k].kind \in PureKinds
      /\ j < k /\ [body[k] EXCEPT !.id = body[j].id] = body[j]
  BY <1>1
<1>b. body' = [i \in DOMAIN Without(k) |-> RenameOp(Without(k)[i])] /\ ret' = Rename(ret)
  BY <1>1
<1> HIDE DEF RenameOp, Rename
<1>2. BodyInv /\ RetInv /\ DOMAIN body = 1 .. Len(body) /\ Len(body) \in Nat /\ Len(body) + 1 - 1 = Len(body)
  BY DEF StaticInv, BodyInv
<1>3. body[k] \in OpType /\ body[j] \in OpType
  BY <1>2, OpFacts
<1>4. body[j].kind = body[k].kind /\ body[j].in = body[k].in
  BY <1>a, <1>3 DEF OpType
<1>5. body[k].kind = "box" /\ body[j].kind = "box"
  <2>1. ~StackOp(body[k])
    <3> SUFFICES ASSUME StackOp(body[k]) PROVE FALSE
      OBVIOUS
    <3>1. body[k].in # None
      BY <1>2, OpFacts
    <3>2. j = k
      BY <1>2, <1>4, <3>1 DEF BodyInv
    <3> QED BY <1>a, <1>2, <3>2
  <2> QED BY <1>a, <1>4, <2>1 DEF StackOp, PureKinds
<1>6. \A i \in 1 .. Len(body) : body[i].in # body[k].id
  <2> SUFFICES ASSUME NEW i \in 1 .. Len(body), body[i].in = body[k].id PROVE FALSE
    OBVIOUS
  <2>1. body[i].in # None /\ body[i].in # 0
    BY <1>2, OpFacts
  <2>2. InBefore(i)
    BY <1>2 DEF BodyInv
  <2>3. PICK m \in 1 .. i - 1 : body[m].id = body[i].in /\ StackOp(body[m])
    BY <2>1, <2>2 DEF InBefore
  <2>4. m = k
    BY <1>2, <2>3 DEF BodyInv
  <2> QED BY <1>5, <2>3, <2>4 DEF StackOp
<1>7. ret # body[k].id
  <2>1. Produced(ret, Len(body) + 1)
    BY <1>a, <1>2 DEF RetInv
  <2>2. body[k].id # 0
    BY <1>2, OpFacts
  <2> SUFFICES ASSUME ret = body[k].id PROVE FALSE
    OBVIOUS
  <2>3. PICK m \in 1 .. Len(body) : body[m].id = body[k].id /\ StackOp(body[m])
    BY <1>2, <2>1, <2>2 DEF Produced
  <2>4. m = k
    BY <1>2, <2>3 DEF BodyInv
  <2> QED BY <1>5, <2>3, <2>4 DEF StackOp
<1>8. PICK W : W = Without(k)
  OBVIOUS
<1>9. /\ W \in Seq(OpType) /\ Len(W) = Len(body) - 1 /\ DOMAIN W = 1 .. Len(body) - 1
      /\ \A i \in 1 .. Len(body) - 1 : W[i] = body[Old(k, i)] /\ Old(k, i) \in 1 .. Len(body)
  <2>1. /\ W \in Seq(OpType) /\ Len(W) = Len(body) - 1
        /\ \A i \in 1 .. Len(body) - 1 : W[i] = body[Old(k, i)] /\ Old(k, i) \in 1 .. Len(body)
    BY <1>2, <1>8, WithoutFacts
  <2>2. DOMAIN W = 1 .. Len(W)
    BY <2>1
  <2> QED BY <2>1, <2>2
<1>10. ASSUME NEW i \in 1 .. Len(body) - 1
       PROVE  /\ body'[i] \in OpType
              /\ body'[i].id = W[i].id /\ body'[i].kind = W[i].kind /\ body'[i].in = W[i].in /\ body'[i].attr = W[i].attr
              /\ body'[i].val = Rename(W[i].val)
  <2>1. W[i] \in OpType /\ W[i].in # body[k].id
    BY <1>6, <1>9
  <2>2. body'[i] = RenameOp(W[i])
    BY <1>b, <1>8, <1>9
  <2>3. Rename(W[i].in) = W[i].in /\ Rename(W[i].val) \in None .. NumOps
    BY <1>3, <2>1, BoundAssumption DEF OpType, None, Rename
  <2>4. RenameOp(W[i]) = [W[i] EXCEPT !.in = W[i].in, !.val = Rename(W[i].val)]
    BY <2>3 DEF RenameOp
  <2>5. RenameOp(W[i]) = [id |-> W[i].id, kind |-> W[i].kind, in |-> W[i].in, val |-> Rename(W[i].val), attr |-> W[i].attr]
    BY <2>1, <2>4 DEF OpType
  <2>6. RenameOp(W[i]) \in OpType
    BY <2>1, <2>3, <2>5 DEF OpType
  <2> QED BY <2>2, <2>5, <2>6
<1>11. RemovedAt(k)
  <2>1. DOMAIN body' = 1 .. Len(body) - 1 /\ Len(body) - 1 \in Nat
    BY <1>b, <1>2, <1>8, <1>9
  <2>2. body' \in Seq(OpType) /\ Len(body') = Len(body) - 1
    <3>1. body' = [i \in 1 .. Len(body) - 1 |-> body'[i]]
      BY <1>b, <1>8, <1>9
    <3>2. body' \in [1 .. Len(body) - 1 -> OpType]
      BY <1>10, <3>1
    <3> QED BY <2>1, <3>2
  <2>3. ASSUME NEW i \in 1 .. Len(body) - 1
        PROVE  \/ body'[i].val = body[Old(k, i)].val /\ body'[i].val # body[k].id
               \/ /\ body[Old(k, i)].val = body[k].id
                  /\ \E m \in 1 .. k - 1 : body[m].kind = "box" /\ body'[i].val = body[m].id
    <3>1. j \in 1 .. k - 1
      BY <1>a, <1>2
    <3> QED BY <1>5, <1>9, <1>10, <3>1 DEF Rename
  <2> QED BY <1>9, <1>10, <2>2, <2>3 DEF RemovedAt
<1>12. ret' = ret
  BY <1>b, <1>7 DEF Rename
<1> QED BY <1>a, <1>5, <1>11, <1>12, BoxRemoved

\* Neighbours that do not need each other change places.
Swap(k, i) == IF i = k THEN k + 1 ELSE IF i = k + 1 THEN k ELSE i

LEMMA MoveKeeps ==
    ASSUME StaticInv, NEW k \in 1 .. Len(body), Move(k)
    PROVE  StaticInv'
<1>1. /\ BodyInv /\ RetInv /\ DOMAIN body = 1 .. Len(body) /\ Len(body) \in Nat /\ body \in Seq(OpType)
      /\ Len(body) <= NumOps
  BY DEF StaticInv, BodyInv
<1>2. /\ status = "rewriting" /\ status' = status /\ ret' = ret /\ k < Len(body)
      /\ body[k + 1].in # body[k].id /\ body[k + 1].val # body[k].id
  BY DEF Move, Rewrite
<1>3. body' = [body EXCEPT ![k] = body[k + 1], ![k + 1] = body[k]]
  BY DEF Move, Rewrite
<1>4. PICK n \in Nat : n = Len(body) /\ k \in 1 .. n /\ k + 1 \in 1 .. n
  <2>1. k \in 1 .. Len(body) /\ k + 1 \in 1 .. Len(body)
    BY <1>1, <1>2
  <2> QED BY <1>1, <2>1
<1>5. /\ \A i \in 1 .. n : Swap(k, i) \in 1 .. n /\ Swap(k, Swap(k, i)) = i
      /\ \A i, j \in 1 .. n : Swap(k, i) = Swap(k, j) => i = j
      /\ \A i \in 1 .. n : \A j \in 1 .. Swap(k, i) - 1 :
             j \in 1 .. n /\ (Swap(k, j) \in 1 .. i - 1 \/ (i = k /\ j = k))
  <2>1. \A i \in 1 .. n : Swap(k, i) \in 1 .. n /\ Swap(k, Swap(k, i)) = i
    BY <1>4 DEF Swap
  <2>2. ASSUME NEW i \in 1 .. n, NEW j \in 1 .. Swap(k, i) - 1
        PROVE  j \in 1 .. n /\ (Swap(k, j) \in 1 .. i - 1 \/ (i = k /\ j = k))
    BY <1>4 DEF Swap
  <2>3. ASSUME NEW i \in 1 .. n, NEW j \in 1 .. n, Swap(k, i) = Swap(k, j) PROVE i = j
    BY <2>1, <2>3
  <2> QED BY <2>1, <2>2, <2>3
<1>6. \A i \in 1 .. n : body'[i] = body[Swap(k, i)]
  <2> SUFFICES ASSUME NEW i \in 1 .. n PROVE body'[i] = body[Swap(k, i)]
    OBVIOUS
  <2>1. i \in DOMAIN body /\ k \in DOMAIN body /\ k + 1 \in DOMAIN body /\ k # k + 1
    BY <1>1, <1>4
  <2>2. CASE i = k
    BY <1>3, <2>1, <2>2 DEF Swap
  <2>3. CASE i = k + 1
    BY <1>3, <2>1, <2>3 DEF Swap
  <2>4. CASE i # k /\ i # k + 1
    BY <1>3, <2>1, <2>4 DEF Swap
  <2> QED BY <2>2, <2>3, <2>4
<1>7. body' \in Seq(OpType) /\ Len(body') = n
  <2>1. DOMAIN body' = 1 .. n
    BY <1>1, <1>3, <1>4
  <2>2. \A i \in 1 .. n : body'[i] \in OpType
    BY <1>1, <1>4, <1>5, <1>6
  <2>3. body' = [i \in 1 .. n |-> body'[i]]
    BY <1>1, <1>3, <1>4
  <2>4. body' \in [1 .. n -> OpType]
    BY <2>2, <2>3
  <2> QED BY <2>1, <2>4
<1>8. ASSUME NEW i \in 1 .. n PROVE OpOK(body'[i]) /\ ValBefore(i)'
  <2>q. PICK q \in 1 .. n : q = Swap(k, i)
    BY <1>5
  <2>1. OpOK(body[q]) /\ ValBefore(q) /\ body'[i] = body[q]
    BY <1>1, <1>4, <1>6, <2>q DEF BodyInv
  <2>2. body[q].val # None => \/ body[q].val = 0 /\ body[q].kind = "push"
                              \/ \E m \in 1 .. q - 1 : /\ body[m].id = body[q].val /\ ValueOp(body[m])
                                                       /\ body[q].kind = "check_drop" => ClosureOp(body[m])
    BY <2>1 DEF ValBefore
  <2>3. ASSUME NEW m \in 1 .. q - 1, body[m].id = body[q].val
        PROVE  Swap(k, m) \in 1 .. i - 1 /\ body'[Swap(k, m)] = body[m]
    <3>1. m \in 1 .. n /\ Swap(k, Swap(k, m)) = m /\ Swap(k, m) \in 1 .. n
      BY <1>5, <2>q
    <3>2. ~(i = k /\ m = k)
      <4>1. i = k => q = k + 1
        BY <2>q DEF Swap
      <4> QED BY <1>2, <2>3, <4>1
    <3>3. Swap(k, m) \in 1 .. i - 1
      BY <1>5, <2>q, <3>2
    <3> QED BY <1>6, <3>1, <3>3
  <2>4. body[q].val # None => \/ body[q].val = 0 /\ body[q].kind = "push"
                              \/ \E m \in 1 .. i - 1 : /\ body'[m].id = body[q].val /\ ValueOp(body'[m])
                                                       /\ body[q].kind = "check_drop" => ClosureOp(body'[m])
    <3> SUFFICES ASSUME NEW m \in 1 .. q - 1, body[m].id = body[q].val, ValueOp(body[m]),
                        body[q].kind = "check_drop" => ClosureOp(body[m])
                 PROVE  \E l \in 1 .. i - 1 : /\ body'[l].id = body[q].val /\ ValueOp(body'[l])
                                              /\ body[q].kind = "check_drop" => ClosureOp(body'[l])
      BY <2>2
    <3>1. Swap(k, m) \in 1 .. i - 1 /\ body'[Swap(k, m)] = body[m]
      BY <2>3
    <3> QED BY <3>1
  <2>5. ValBefore(i)'
    BY <2>1, <2>4 DEF ValBefore
  <2> QED BY <2>1, <2>5
<1> DEFINE h == [i \in 1 .. n |-> Swap(k, i)]
<1>9. h \in [1 .. Len(body') -> 1 .. Len(body)] /\ \A i \in 1 .. n : h[i] = Swap(k, i)
  BY <1>4, <1>5, <1>7
<1> HIDE DEF h
<1>10. \A i, j \in 1 .. Len(body') : h[i] = h[j] => i = j
  BY <1>5, <1>7, <1>9
<1>11. \A j \in 1 .. Len(body) : StackOp(body[j]) => \E i \in 1 .. Len(body') : h[i] = j
  <2> SUFFICES ASSUME NEW j \in 1 .. n PROVE \E i \in 1 .. n : h[i] = j
    BY <1>4, <1>7
  <2>1. Swap(k, j) \in 1 .. n /\ h[Swap(k, j)] = j
    BY <1>5, <1>9
  <2> QED BY <2>1
<1>12. \A i \in 1 .. Len(body') : \A j \in 1 .. h[i] - 1 :
               StackOp(body[j]) /\ body[h[i]].in = body[j].id => \E m \in 1 .. i - 1 : h[m] = j
  <2> SUFFICES ASSUME NEW i \in 1 .. Len(body'), NEW j \in 1 .. h[i] - 1, body[h[i]].in = body[j].id
               PROVE  \E m \in 1 .. i - 1 : h[m] = j
    OBVIOUS
  <2>0. i \in 1 .. n /\ h[i] = Swap(k, i)
    BY <1>7, <1>9
  <2>1. j \in 1 .. n /\ Swap(k, j) \in 1 .. n /\ Swap(k, Swap(k, j)) = j
    BY <1>5, <2>0
  <2>2. ~(i = k /\ j = k)
    <3>1. i = k => Swap(k, i) = k + 1
      BY DEF Swap
    <3> QED BY <1>2, <2>0, <3>1
  <2>3. Swap(k, j) \in 1 .. i - 1
    BY <1>5, <2>0, <2>2
  <2> QED BY <1>9, <2>1, <2>3
<1>13. \A i \in 1 .. Len(body') : /\ body'[i].id = body[h[i]].id /\ body'[i].kind = body[h[i]].kind
                                  /\ body'[i].in = body[h[i]].in /\ body'[i].attr = body[h[i]].attr
                                  /\ OpOK(body'[i]) /\ ValBefore(i)'
  BY <1>6, <1>7, <1>8, <1>9
<1>14. Len(body') <= NumOps /\ status # "building" /\ status' # "building" /\ body' \in Seq(OpType)
  BY <1>1, <1>2, <1>4, <1>7
<1> QED BY <1>1, <1>2, <1>9, <1>10, <1>11, <1>12, <1>13, <1>14, Rearranged DEF StaticInv

------------------------------------------------------------------------------
(* Runs *)

Values == [code : Scalars \cup Codes, at : 0 .. NumOps]
WellValue(v) == v \in Values /\ (v.code \in Codes => v.at # 0)

\* The values known when the p-th operation is next, and what they are.
MachineInv ==
    /\ pc \in 1 .. Len(body) + 1
    /\ DOMAIN pure = DOMAIN regs /\ 0 \in DOMAIN regs
    /\ \A j \in 1 .. pc - 1 : ValueOp(body[j]) => body[j].id \in DOMAIN regs
    /\ \A j \in 1 .. pc - 1 : ClosureOp(body[j]) => regs[body[j].id].code \in Codes
    /\ \A v \in DOMAIN regs : WellValue(regs[v]) /\ regs[v].code = pure[v]
    /\ stack \in Seq(Values) /\ \A i \in 1 .. Len(stack) : WellValue(stack[i])
    /\ \A s \in DOMAIN stacks : stacks[s] \in Seq(Scalars \cup Codes)
    /\ freed \subseteq 1 .. NumOps
    /\ out = pureOut

\* The runtime's stack is what the one open stack value means.
AgreeInv == \E c \in DOMAIN stacks : OnlyOpen(c, pc) /\ stacks[c] = Meaning(stack)

Idle == status \in {"building", "rewriting"}

\* Nothing has run when a body is built or rewritten; all of it has at the end.
StatusInv ==
    /\ status \in {"building", "running", "rewriting", "returned", "aborted", "undefined"} /\ rewritten \in BOOLEAN
    /\ Idle =>
           /\ pc = 1 /\ stack = Entry /\ freed = {} /\ out = <<>> /\ pureOut = <<>>
           /\ stacks = Known(Meaning(Entry)) /\ pure = Known("k") /\ regs = Known(Value("k", 0))
    /\ status = "returned" => pc = Len(body) + 1

StackInv == StaticInv /\ MachineInv /\ AgreeInv /\ StatusInv

LEMMA MeaningFacts ==
    ASSUME NEW s \in Seq(Values), NEW v \in Values
    PROVE  /\ Meaning(s) \in Seq(Scalars \cup Codes) /\ Len(Meaning(s)) = Len(s)
           /\ Append(s, v) \in Seq(Values) /\ Meaning(Append(s, v)) = Append(Meaning(s), v.code)
           /\ \A i \in 1 .. Len(s) : s[i] \in Values
           /\ s # <<>> => /\ Rest(s) \in Seq(Values) /\ Meaning(Rest(s)) = Rest(Meaning(s))
                          /\ Top(s) \in Values /\ Top(Meaning(s)) = Top(s).code /\ Meaning(s) # <<>>
                          /\ Len(s) \in 1 .. Len(s)
                          /\ \A i \in 1 .. Len(Rest(s)) : Rest(s)[i] = s[i] /\ i \in 1 .. Len(s)
<1>1. Len(s) \in Nat /\ DOMAIN s = 1 .. Len(s) /\ \A i \in 1 .. Len(s) : s[i] \in Values /\ s[i].code \in Scalars \cup Codes
  <2>1. Len(s) \in Nat /\ DOMAIN s = 1 .. Len(s) /\ \A i \in 1 .. Len(s) : s[i] \in Values
    OBVIOUS
  <2> QED BY <2>1 DEF Values
<1>2. Meaning(s) \in [1 .. Len(s) -> Scalars \cup Codes]
  BY <1>1 DEF Meaning
<1>3. Meaning(s) \in Seq(Scalars \cup Codes) /\ Len(Meaning(s)) = Len(s) /\ \A i \in 1 .. Len(s) : Meaning(s)[i] = s[i].code
  BY <1>1, <1>2 DEF Meaning
<1>4. Append(s, v) \in Seq(Values) /\ Len(Append(s, v)) = Len(s) + 1
  OBVIOUS
<1>5. Meaning(Append(s, v)) = Append(Meaning(s), v.code)
  <2>1. Meaning(Append(s, v)) = [i \in 1 .. Len(s) + 1 |-> Append(s, v)[i].code]
    BY <1>4 DEF Meaning
  <2>2. Append(Meaning(s), v.code) = [i \in 1 .. Len(s) + 1 |-> IF i = Len(s) + 1 THEN v.code ELSE s[i].code]
    BY <1>3
  <2>3. \A i \in 1 .. Len(s) + 1 : Append(s, v)[i].code = IF i = Len(s) + 1 THEN v.code ELSE s[i].code
    BY <1>1
  <2> QED BY <2>1, <2>2, <2>3
<1>6. ASSUME s # <<>>
      PROVE  /\ Rest(s) \in Seq(Values) /\ Meaning(Rest(s)) = Rest(Meaning(s))
             /\ Top(s) \in Values /\ Top(Meaning(s)) = Top(s).code /\ Meaning(s) # <<>>
             /\ Len(s) \in 1 .. Len(s)
             /\ \A i \in 1 .. Len(Rest(s)) : Rest(s)[i] = s[i] /\ i \in 1 .. Len(s)
  <2>1. Len(s) \in 1 .. Len(s)
    BY <1>1, <1>6
  <2>2. /\ Rest(s) \in Seq(Values) /\ Len(Rest(s)) = Len(s) - 1
        /\ \A i \in 1 .. Len(s) - 1 : Rest(s)[i] = s[i] /\ i \in 1 .. Len(s)
    BY <1>1, <2>1 DEF Rest
  <2>3. /\ Rest(Meaning(s)) \in Seq(Scalars \cup Codes) /\ Len(Rest(Meaning(s))) = Len(s) - 1
        /\ \A i \in 1 .. Len(s) - 1 : Rest(Meaning(s))[i] = s[i].code
    BY <1>1, <1>3, <2>1 DEF Rest
  <2>4. Meaning(Rest(s)) = Rest(Meaning(s))
    <3>1. Meaning(Rest(s)) = [i \in 1 .. Len(s) - 1 |-> s[i].code]
      BY <2>2 DEF Meaning
    <3>2. Rest(Meaning(s)) = [i \in 1 .. Len(s) - 1 |-> s[i].code]
      BY <2>3
    <3> QED BY <3>1, <3>2
  <2>5. Top(s) \in Values /\ Top(Meaning(s)) = Top(s).code
    BY <1>1, <1>3, <2>1 DEF Top
  <2>6. Meaning(s) # <<>>
    BY <1>3, <2>1
  <2> QED BY <2>1, <2>2, <2>4, <2>5, <2>6
<1> QED BY <1>1, <1>3, <1>4, <1>5, <1>6

LEMMA Scalar ==
    /\ \A code \in {"x", "y", "k"} : WellValue(Value(code, 0)) /\ Value(code, 0).code = code
    /\ Entry \in Seq(Values) /\ Len(Entry) = 2 /\ Entry[1] = Value("x", 0) /\ Entry[2] = Value("y", 0)
<1>1. \A code \in {"x", "y", "k"} : WellValue(Value(code, 0)) /\ Value(code, 0).code = code
  BY CodesAssumption, BoundAssumption DEF WellValue, Value, Values, Scalars
<1>2. Value("x", 0) \in Values /\ Value("y", 0) \in Values
  BY <1>1 DEF WellValue
<1> HIDE DEF Value
<1> QED BY <1>1, <1>2 DEF Entry

\* Before a run nothing is known but the function's stack and the constant.
LEMMA FreshRun ==
    BodyInv /\ StatusInv /\ Idle => MachineInv /\ AgreeInv
<1> SUFFICES ASSUME BodyInv, StatusInv, Idle PROVE MachineInv /\ AgreeInv
  OBVIOUS
<1>1. /\ pc = 1 /\ stack = Entry /\ freed = {} /\ out = <<>> /\ pureOut = <<>> /\ Len(body) \in Nat
      /\ stacks = Known(Meaning(Entry)) /\ pure = Known("k") /\ regs = Known(Value("k", 0))
  BY DEF StatusInv, BodyInv
<1>2. \A v : DOMAIN Known(v) = {0} /\ Known(v)[0] = v
  BY DEF Known
<1>3. \A j : j \notin 1 .. pc - 1
  BY <1>1
<1>4. MachineInv
  <2>1. pc \in 1 .. Len(body) + 1
    BY <1>1
  <2>2. DOMAIN pure = {0} /\ DOMAIN regs = {0} /\ DOMAIN stacks = {0}
    BY <1>1, <1>2
  <2>3. WellValue(regs[0]) /\ regs[0].code = pure[0]
    BY <1>1, <1>2, Scalar
  <2>4. stack \in Seq(Values) /\ \A i \in 1 .. Len(stack) : WellValue(stack[i])
    BY <1>1, Scalar
  <2>5. stacks[0] \in Seq(Scalars \cup Codes)
    <3>1. Value("x", 0) \in Values
      BY Scalar DEF WellValue
    <3> QED BY <1>1, <1>2, <3>1, Scalar, MeaningFacts
  <2>6. freed \subseteq 1 .. NumOps /\ out = pureOut
    BY <1>1
  <2> QED BY <1>3, <2>1, <2>2, <2>3, <2>4, <2>5, <2>6 DEF MachineInv
<1>5. OnlyOpen(0, pc)
  BY <1>3 DEF OnlyOpen, Produced, Consumed
<1>6. 0 \in DOMAIN stacks /\ stacks[0] = Meaning(stack)
  BY <1>1, <1>2
<1> QED BY <1>4, <1>5, <1>6 DEF AgreeInv

\* What is known of the operation that is next.
LEMMA NextOp ==
    ASSUME StackInv, NEW o, NEW kind, Next1(o, kind)
    PROVE  /\ pc \in 1 .. Len(body) /\ o = body[pc] /\ o.kind = kind /\ OpOK(o) /\ o \in OpType
           /\ o.id \in 1 .. NumOps /\ o.id # 0
           /\ \A j \in 1 .. pc - 1 : body[j].id # o.id /\ j \in 1 .. Len(body)
           /\ o.val # None => o.val \in DOMAIN regs
           /\ kind = "check_drop" => regs[o.val].code \in Codes
           /\ StackOp(o) => o.in \in DOMAIN stacks /\ stacks[o.in] = Meaning(stack)
<1>1. /\ BodyInv /\ MachineInv /\ AgreeInv /\ DOMAIN body = 1 .. Len(body) /\ Len(body) \in Nat
      /\ pc \in 1 .. Len(body) /\ o = body[pc] /\ o.kind = kind
  <2>1. BodyInv /\ MachineInv /\ AgreeInv
    BY DEF StackInv, StaticInv
  <2>2. DOMAIN body = 1 .. Len(body) /\ Len(body) \in Nat
    BY <2>1 DEF BodyInv
  <2> QED BY <2>1, <2>2 DEF Next1
<1>2. o \in OpType /\ o.id \in 1 .. NumOps /\ o.id # 0
  BY <1>1, OpFacts
<1>3. OpOK(o) /\ ValBefore(pc)
  BY <1>1 DEF BodyInv
<1>4. \A j \in 1 .. pc - 1 : body[j].id # o.id /\ j \in 1 .. Len(body)
  <2> SUFFICES ASSUME NEW j \in 1 .. pc - 1 PROVE body[j].id # o.id /\ j \in 1 .. Len(body)
    OBVIOUS
  <2>1. j \in 1 .. Len(body) /\ j # pc
    BY <1>1
  <2> QED BY <1>1, <2>1 DEF BodyInv
<1>5. o.val # None => o.val \in DOMAIN regs
  BY <1>1, <1>3 DEF ValBefore, MachineInv
<1>6. kind = "check_drop" => regs[o.val].code \in Codes
  <2> SUFFICES ASSUME kind = "check_drop" PROVE regs[o.val].code \in Codes
    OBVIOUS
  <2>1. o.val # None
    BY <1>1, <1>3 DEF OpOK
  <2>2. \E j \in 1 .. pc - 1 : body[j].id = o.val /\ ClosureOp(body[j])
    BY <1>1, <1>3, <2>1 DEF ValBefore
  <2> QED BY <1>1, <2>2 DEF MachineInv
<1>7. StackOp(o) => o.in \in DOMAIN stacks /\ stacks[o.in] = Meaning(stack)
  <2>1. PICK c \in DOMAIN stacks : OnlyOpen(c, pc) /\ stacks[c] = Meaning(stack)
    BY <1>1 DEF AgreeInv
  <2>2. StackOp(o) => o.in = c
    BY <1>1, <2>1, OpenStep
  <2> QED BY <2>1, <2>2
<1> QED BY <1>1, <1>2, <1>3, <1>4, <1>5, <1>6, <1>7

\* An operation that ran: its results are known and nothing else changed.
LEMMA Advanced ==
    ASSUME StackInv, NEW o, NEW kind, Next1(o, kind), Advance,
           IF StackOp(o) THEN stacks' = Define(stacks, o.id, Meaning(stack')) ELSE stacks' = stacks /\ stack' = stack,
           IF ValueOp(o)
           THEN \E v : /\ WellValue(v) /\ regs' = Define(regs, o.id, v) /\ pure' = Define(pure, o.id, v.code)
                       /\ ClosureOp(o) => v.code \in Codes
           ELSE regs' = regs /\ pure' = pure,
           stack' \in Seq(Values), \A i \in 1 .. Len(stack') : WellValue(stack'[i]),
           freed' \subseteq 1 .. NumOps, out' = pureOut'
    PROVE  StackInv'
<1>1. /\ pc \in 1 .. Len(body) /\ o = body[pc] /\ o.kind = kind /\ o.id # 0
      /\ \A j \in 1 .. pc - 1 : body[j].id # o.id /\ j \in 1 .. Len(body)
  BY NextOp
<1>2. pc' = pc + 1 /\ body' = body /\ ret' = ret /\ rewritten' = rewritten /\ status' = status /\ status = "running"
  BY DEF Advance, program, Next1
<1>3. BodyInv /\ RetInv /\ MachineInv /\ AgreeInv /\ StatusInv /\ Len(body) \in Nat
  BY DEF StackInv, StaticInv, BodyInv
<1>4. StaticInv'
  BY <1>2, <1>3 DEF StaticInv, BodyInv, RetInv, InBefore, ValBefore, Produced, Consumed, OnlyOpen
<1>5. StatusInv'
  BY <1>2, <1>3 DEF StatusInv, Idle
<1>6. \A j \in 1 .. pc' - 1 : j \in 1 .. pc - 1 \/ j = pc
  BY <1>1, <1>2, <1>3
<1>7. pc' \in 1 .. Len(body') + 1
  BY <1>1, <1>2, <1>3
<1>8. \A s \in DOMAIN stacks' : stacks'[s] \in Seq(Scalars \cup Codes)
  <2>1. \A s \in DOMAIN stacks : stacks[s] \in Seq(Scalars \cup Codes)
    BY <1>3 DEF MachineInv
  <2>2. Meaning(stack') \in Seq(Scalars \cup Codes)
    <3>1. Value("x", 0) \in Values
      BY Scalar DEF WellValue
    <3> QED BY <3>1, MeaningFacts
  <2>3. CASE StackOp(o)
    <3>1. stacks' = Define(stacks, o.id, Meaning(stack'))
      BY <2>3
    <3>2. /\ DOMAIN stacks' = DOMAIN stacks \cup {o.id} /\ stacks'[o.id] = Meaning(stack')
          /\ \A s \in DOMAIN stacks : s # o.id => stacks'[s] = stacks[s]
      BY <3>1 DEF Define
    <3> QED BY <2>1, <2>2, <3>2
  <2> QED BY <2>1, <2>3
<1>9. AgreeInv'
  <2>1. PICK c \in DOMAIN stacks : OnlyOpen(c, pc) /\ stacks[c] = Meaning(stack)
    BY <1>3 DEF AgreeInv
  <2>2. IF StackOp(o) THEN OnlyOpen(o.id, pc + 1) ELSE OnlyOpen(c, pc + 1)
    BY <1>1, <1>3, <2>1, OpenStep
  <2>3. \A d : OnlyOpen(d, pc + 1) => OnlyOpen(d, pc)'
    BY <1>2 DEF OnlyOpen, Produced, Consumed
  <2>4. CASE StackOp(o)
    <3>1. o.id \in DOMAIN stacks' /\ stacks'[o.id] = Meaning(stack')
      BY <2>4 DEF Define
    <3> QED BY <2>2, <2>3, <2>4, <3>1 DEF AgreeInv
  <2>5. CASE ~StackOp(o)
    BY <2>1, <2>2, <2>3, <2>5 DEF AgreeInv
  <2> QED BY <2>4, <2>5
<1>10. /\ DOMAIN pure' = DOMAIN regs' /\ 0 \in DOMAIN regs'
       /\ \A j \in 1 .. pc' - 1 : ValueOp(body'[j]) => body'[j].id \in DOMAIN regs'
       /\ \A j \in 1 .. pc' - 1 : ClosureOp(body'[j]) => regs'[body'[j].id].code \in Codes
       /\ \A v \in DOMAIN regs' : WellValue(regs'[v]) /\ regs'[v].code = pure'[v]
  <2>1. /\ DOMAIN pure = DOMAIN regs /\ 0 \in DOMAIN regs
        /\ \A j \in 1 .. pc - 1 : ValueOp(body[j]) => body[j].id \in DOMAIN regs
        /\ \A j \in 1 .. pc - 1 : ClosureOp(body[j]) => regs[body[j].id].code \in Codes
        /\ \A v \in DOMAIN regs : WellValue(regs[v]) /\ regs[v].code = pure[v]
    BY <1>3 DEF MachineInv
  <2>2. \A p : ClosureOp(p) => ValueOp(p)
    BY DEF ClosureOp, ValueOp
  <2>3. CASE ~ValueOp(o)
    BY <1>1, <1>2, <1>6, <2>1, <2>2, <2>3
  <2>4. CASE ValueOp(o)
    <3>1. PICK v : /\ WellValue(v) /\ regs' = Define(regs, o.id, v) /\ pure' = Define(pure, o.id, v.code)
                   /\ ClosureOp(o) => v.code \in Codes
      BY <2>4
    <3>2. /\ DOMAIN regs' = DOMAIN regs \cup {o.id} /\ regs'[o.id] = v
          /\ \A y \in DOMAIN regs : y # o.id => regs'[y] = regs[y]
      BY <3>1 DEF Define
    <3>3. /\ DOMAIN pure' = DOMAIN pure \cup {o.id} /\ pure'[o.id] = v.code
          /\ \A y \in DOMAIN pure : y # o.id => pure'[y] = pure[y]
      BY <3>1 DEF Define
    <3>4. DOMAIN pure' = DOMAIN regs' /\ 0 \in DOMAIN regs'
      BY <2>1, <3>2, <3>3
    <3>5. ASSUME NEW j \in 1 .. pc' - 1
          PROVE  /\ ValueOp(body'[j]) => body'[j].id \in DOMAIN regs'
                 /\ ClosureOp(body'[j]) => regs'[body'[j].id].code \in Codes
      <4>1. CASE j = pc
        BY <1>1, <1>2, <3>1, <3>2, <4>1
      <4>2. CASE j \in 1 .. pc - 1
        BY <1>1, <1>2, <2>1, <2>2, <3>2, <4>2
      <4> QED BY <1>6, <4>1, <4>2
    <3>6. \A y \in DOMAIN regs' : WellValue(regs'[y]) /\ regs'[y].code = pure'[y]
      BY <2>1, <3>1, <3>2, <3>3
    <3> QED BY <3>4, <3>5, <3>6
  <2> QED BY <2>3, <2>4
<1>11. MachineInv'
  BY <1>7, <1>8, <1>10 DEF MachineInv
<1> QED BY <1>4, <1>5, <1>9, <1>11 DEF StackInv

LEMMA PushKeeps ==
    ASSUME StackInv, NEW o, ExecPush(o)
    PROVE  StackInv'
<1>1. /\ Next1(o, "push") /\ Advance /\ stack' = Append(stack, regs[o.val])
      /\ stacks' = Define(stacks, o.id, Append(stacks[o.in], pure[o.val]))
      /\ regs' = regs /\ pure' = pure /\ freed' = freed /\ out' = out /\ pureOut' = pureOut
  BY DEF ExecPush
<1>2. /\ o.kind = "push" /\ OpOK(o)
      /\ StackOp(o) => stacks[o.in] = Meaning(stack)
      /\ o.val # None => o.val \in DOMAIN regs
  BY <1>1, NextOp
<1>3. StackOp(o) /\ ~ValueOp(o) /\ o.val # None
  BY <1>2 DEF OpOK, StackOp, ValueOp
<1>4. /\ WellValue(regs[o.val]) /\ regs[o.val] \in Values /\ regs[o.val].code = pure[o.val]
      /\ stack \in Seq(Values) /\ \A i \in 1 .. Len(stack) : WellValue(stack[i])
      /\ freed \subseteq 1 .. NumOps /\ out = pureOut
  BY <1>2, <1>3 DEF StackInv, MachineInv, WellValue
<1>5. stacks' = Define(stacks, o.id, Meaning(stack')) /\ stack' \in Seq(Values)
  BY <1>1, <1>2, <1>3, <1>4, MeaningFacts
<1>6. \A i \in 1 .. Len(stack') : WellValue(stack'[i])
  <2> SUFFICES ASSUME NEW i \in 1 .. Len(stack') PROVE WellValue(stack'[i])
    OBVIOUS
  <2>1. (i \in 1 .. Len(stack) /\ stack'[i] = stack[i]) \/ stack'[i] = regs[o.val]
    BY <1>1, <1>4
  <2> QED BY <1>4, <2>1
<1> QED BY <1>1, <1>3, <1>4, <1>5, <1>6, Advanced

\* The popped value is the last one of what the operand means.
LEMMA PopKeeps ==
    ASSUME StackInv, NEW o, ExecPop(o)
    PROVE  StackInv'
<1>1. /\ Next1(o, "pop") /\ Advance /\ stack' = Rest(stack) /\ stack # <<>> /\ TypeOf(Top(stack).code) = o.attr
      /\ stacks' = Define(stacks, o.id, PureRest(stacks[o.in]))
      /\ pure' = Define(pure, o.id, PureTop(stacks[o.in])) /\ regs' = Define(regs, o.id, Top(stack))
      /\ freed' = freed /\ out' = out /\ pureOut' = pureOut
  BY DEF ExecPop, CanPop
<1>2. o.kind = "pop" /\ StackOp(o) => stacks[o.in] = Meaning(stack)
  BY <1>1, NextOp
<1>3. o.kind = "pop" /\ StackOp(o) /\ ValueOp(o)
  BY <1>1, NextOp DEF StackOp, ValueOp
<1>4. /\ stack \in Seq(Values) /\ \A i \in 1 .. Len(stack) : WellValue(stack[i])
      /\ freed \subseteq 1 .. NumOps /\ out = pureOut
  BY DEF StackInv, MachineInv
<1>5. /\ Rest(stack) \in Seq(Values) /\ Meaning(Rest(stack)) = Rest(Meaning(stack))
      /\ Top(Meaning(stack)) = Top(stack).code /\ Meaning(stack) # <<>> /\ Len(stack) \in 1 .. Len(stack)
      /\ \A i \in 1 .. Len(Rest(stack)) : Rest(stack)[i] = stack[i] /\ i \in 1 .. Len(stack)
  <2>1. Value("x", 0) \in Values
    BY Scalar DEF WellValue
  <2> QED BY <1>1, <1>4, <2>1, MeaningFacts
<1>6. WellValue(Top(stack))
  BY <1>4, <1>5 DEF Top
<1>7. ClosureOp(o) => Top(stack).code \in Codes
  BY <1>1, <1>3 DEF ClosureOp, TypeOf
<1>8. stacks' = Define(stacks, o.id, Meaning(stack'))
  BY <1>1, <1>2, <1>3, <1>5 DEF PureRest
<1>9. pure' = Define(pure, o.id, Top(stack).code)
  BY <1>1, <1>2, <1>3, <1>5 DEF PureTop
<1>10. \A i \in 1 .. Len(stack') : WellValue(stack'[i])
  BY <1>1, <1>4, <1>5
<1>11. stack' \in Seq(Values) /\ freed' \subseteq 1 .. NumOps /\ out' = pureOut'
  BY <1>1, <1>4, <1>5
<1> QED BY <1>1, <1>3, <1>6, <1>7, <1>8, <1>9, <1>10, <1>11, Advanced

LEMMA PpKeeps ==
    ASSUME StackInv, NEW o, ExecPp(o)
    PROVE  StackInv'
<1>1. /\ Next1(o, "pp") /\ Advance /\ stack' = stack /\ stack # <<>>
      /\ stacks' = Define(stacks, o.id, stacks[o.in])
      /\ pureOut' = Append(pureOut, PureTop(stacks[o.in])) /\ out' = Append(out, Top(stack).code)
      /\ regs' = regs /\ pure' = pure /\ freed' = freed
  BY DEF ExecPp
<1>2. o.kind = "pp" /\ StackOp(o) => stacks[o.in] = Meaning(stack)
  BY <1>1, NextOp
<1>3. o.kind = "pp" /\ StackOp(o) /\ ~ValueOp(o)
  BY <1>1, NextOp DEF StackOp, ValueOp
<1>4. /\ stack \in Seq(Values) /\ \A i \in 1 .. Len(stack) : WellValue(stack[i])
      /\ freed \subseteq 1 .. NumOps /\ out = pureOut
  BY DEF StackInv, MachineInv
<1>5. Top(Meaning(stack)) = Top(stack).code /\ Meaning(stack) # <<>>
  <2>1. Value("x", 0) \in Values
    BY Scalar DEF WellValue
  <2> QED BY <1>1, <1>4, <2>1, MeaningFacts
<1>6. out' = pureOut'
  BY <1>1, <1>2, <1>3, <1>4, <1>5 DEF PureTop
<1>7. stacks' = Define(stacks, o.id, Meaning(stack'))
  BY <1>1, <1>2, <1>3
<1>8. stack' \in Seq(Values) /\ (\A i \in 1 .. Len(stack') : WellValue(stack'[i])) /\ freed' \subseteq 1 .. NumOps
  BY <1>1, <1>4
<1> QED BY <1>1, <1>3, <1>6, <1>7, <1>8, Advanced

LEMMA BoxKeeps ==
    ASSUME StackInv, NEW o, ExecBox(o)
    PROVE  StackInv'
<1>1. /\ Next1(o, "box") /\ Advance /\ stack' = stack /\ stacks' = stacks
      /\ pure' = Define(pure, o.id, o.attr) /\ regs' = Define(regs, o.id, Value(o.attr, o.id))
      /\ freed' = freed /\ out' = out /\ pureOut' = pureOut
  BY DEF ExecBox
<1>2. o.kind = "box" /\ OpOK(o) /\ o.id \in 1 .. NumOps /\ o.id # 0
  BY <1>1, NextOp
<1>3. ~StackOp(o) /\ ValueOp(o) /\ o.attr \in Codes
  BY <1>2 DEF StackOp, ValueOp, OpOK
<1>4. /\ stack \in Seq(Values) /\ \A i \in 1 .. Len(stack) : WellValue(stack[i])
      /\ freed \subseteq 1 .. NumOps /\ out = pureOut
  BY DEF StackInv, MachineInv
<1> DEFINE v == Value(o.attr, o.id)
<1>5. WellValue(v) /\ v.code = o.attr
  BY <1>2, <1>3, BoundAssumption DEF Value, WellValue, Values
<1> HIDE DEF v
<1>6. \E w : /\ WellValue(w) /\ regs' = Define(regs, o.id, w) /\ pure' = Define(pure, o.id, w.code)
             /\ ClosureOp(o) => w.code \in Codes
  BY <1>1, <1>3, <1>5 DEF v
<1> QED BY <1>1, <1>3, <1>4, <1>6, Advanced

\* A closure that is dropped has been allocated by a box of the body.
LEMMA CheckDropKeeps ==
    ASSUME StackInv, NEW o, ExecCheckDrop(o)
    PROVE  StackInv'
<1>1. /\ Next1(o, "check_drop") /\ Advance /\ stack' = stack /\ stacks' = stacks /\ regs' = regs /\ pure' = pure
      /\ freed' = IF Count(regs[o.val]) = 0 THEN freed \cup {regs[o.val].at} ELSE freed
      /\ out' = out /\ pureOut' = pureOut
  BY DEF ExecCheckDrop, ir
<1>2. o.kind = "check_drop" /\ OpOK(o) /\ (o.val # None => o.val \in DOMAIN regs) /\ regs[o.val].code \in Codes
  BY <1>1, NextOp
<1>3. ~StackOp(o) /\ ~ValueOp(o) /\ o.val # None
  BY <1>2 DEF StackOp, ValueOp, OpOK
<1>4. /\ stack \in Seq(Values) /\ \A i \in 1 .. Len(stack) : WellValue(stack[i])
      /\ freed \subseteq 1 .. NumOps /\ out = pureOut /\ \A v \in DOMAIN regs : WellValue(regs[v])
  BY DEF StackInv, MachineInv
<1>5. regs[o.val].at \in 1 .. NumOps
  <2>1. WellValue(regs[o.val])
    BY <1>2, <1>3, <1>4
  <2> QED BY <1>2, <2>1, BoundAssumption DEF WellValue, Values
<1>6. freed' \subseteq 1 .. NumOps
  BY <1>1, <1>4, <1>5
<1> QED BY <1>1, <1>3, <1>4, <1>6, Advanced

------------------------------------------------------------------------------
(* The invariant *)

LEMMA StackInit == Init => StackInv
<1> SUFFICES ASSUME Init PROVE StackInv
  OBVIOUS
<1>1. /\ body = <<>> /\ ret = 0 /\ status = "building" /\ Len(body) = 0
  BY DEF Init
<1>2. StatusInv
  BY DEF Init, StatusInv, Idle
<1>3. BodyInv
  <2>1. body \in Seq(OpType) /\ Len(body) <= NumOps
    BY <1>1, BoundAssumption
  <2>2. \A k : k \notin 1 .. Len(body)
    BY <1>1
  <2> QED BY <2>1, <2>2 DEF BodyInv
<1>4. RetInv
  <2>1. \A j : j \notin 1 .. Len(body) + 1 - 1 /\ j \notin 1 .. Len(body)
    BY <1>1
  <2>2. OnlyOpen(0, Len(body) + 1)
    BY <2>1 DEF OnlyOpen, Produced, Consumed
  <2> QED BY <1>1, <2>1, <2>2 DEF RetInv
<1>5. Idle
  BY <1>1 DEF Idle
<1> QED BY <1>2, <1>3, <1>4, <1>5, FreshRun DEF StackInv, StaticInv

\* A step that leaves the body and the machine alone.
LEMMA StatusStep ==
    ASSUME StackInv, UNCHANGED <<body, pc, ir, machine>>, StatusInv', RetInv'
    PROVE  StackInv'
<1>1. BodyInv /\ MachineInv /\ AgreeInv
  BY DEF StackInv, StaticInv
<1>2. BodyInv'
  BY <1>1 DEF BodyInv, InBefore, ValBefore
<1>3. MachineInv'
  BY <1>1 DEF MachineInv, ir, machine
<1>4. AgreeInv'
  BY <1>1 DEF AgreeInv, OnlyOpen, Produced, Consumed, ir, machine
<1> QED BY <1>2, <1>3, <1>4 DEF StackInv, StaticInv

\* A step to a body that has not run.
LEMMA IdleStep ==
    ASSUME StackInv, StaticInv', StatusInv', Idle'
    PROVE  StackInv'
<1>1. (BodyInv /\ StatusInv /\ Idle => MachineInv /\ AgreeInv)'
  BY FreshRun, PTL
<1> QED BY <1>1 DEF StackInv, StaticInv

\* No rewriting, and nothing that a run does, changes which stack is returned.
LEMMA SameReturn ==
    ASSUME StackInv, status # "building", status' # "building", body' = body, ret' = ret
    PROVE  RetInv'
<1>1. \A s : (Produced(s, Len(body) + 1) /\ ~Consumed(s, Len(body) + 1)) <=> s = ret
  BY DEF StackInv, StaticInv, RetInv
<1>2. \A s : (Produced(s, Len(body) + 1)' /\ ~Consumed(s, Len(body) + 1)') <=> s = ret'
  BY <1>1 DEF Produced, Consumed
<1> QED BY <1>2 DEF RetInv

LEMMA StackStep ==
    ASSUME Linear = TRUE, StackInv, [Next]_vars
    PROVE  StackInv'
<1>0. StaticInv /\ BodyInv /\ MachineInv /\ StatusInv /\ DOMAIN body = 1 .. Len(body) /\ Len(body) \in Nat
  BY DEF StackInv, StaticInv, BodyInv
<1>1. CASE BuildOp
  <2>1. StaticInv'
    BY <1>0, <1>1, BuildKeeps
  <2>2. status = "building" /\ UNCHANGED <<status, rewritten, pc, ir, machine>>
    BY <1>1 DEF BuildOp, Build
  <2>3. StatusInv' /\ Idle'
    BY <1>0, <2>2 DEF StatusInv, Idle, ir, machine
  <2> QED BY <2>1, <2>3, IdleStep
<1>2. CASE BuildReturn
  <2>1. RetInv'
    BY <1>0, <1>2, ReturnKeeps DEF StaticInv
  <2>2. status' = "running" /\ UNCHANGED <<body, rewritten, pc, ir, machine>>
    BY <1>2 DEF BuildReturn
  <2>3. StatusInv'
    BY <1>0, <2>2 DEF StatusInv, Idle
  <2> QED BY <2>1, <2>2, <2>3, StatusStep
<1>3. ASSUME NEW o, \/ ExecPush(o) \/ ExecPop(o) \/ ExecPp(o) \/ ExecBox(o) \/ ExecCheckDrop(o) PROVE StackInv'
  BY <1>3, PushKeeps, PopKeeps, PpKeeps, BoxKeeps, CheckDropKeeps
<1>4. ASSUME NEW o, UseFreed(o) \/ Abort(o) PROVE StackInv'
  <2>1. status = "running" /\ status' \in {"undefined", "aborted"} /\ UNCHANGED <<program, pc, ir, machine>>
    BY <1>4 DEF UseFreed, Abort, Stop, Next1
  <2>2. UNCHANGED <<body, ret, rewritten>>
    BY <2>1 DEF program
  <2>3. RetInv'
    BY <2>1, <2>2, SameReturn
  <2>4. StatusInv'
    BY <1>0, <2>1, <2>2 DEF StatusInv, Idle
  <2> QED BY <2>1, <2>2, <2>3, <2>4, StatusStep
<1>5. CASE Return
  <2>1. status = "running" /\ status' = "returned" /\ pc > Len(body) /\ UNCHANGED <<program, pc, ir, machine>>
    BY <1>5 DEF Return
  <2>2. UNCHANGED <<body, ret, rewritten>>
    BY <2>1 DEF program
  <2>3. RetInv'
    BY <2>1, <2>2, SameReturn
  <2>4. pc = Len(body) + 1
    BY <1>0, <2>1 DEF MachineInv
  <2>5. StatusInv'
    BY <1>0, <2>1, <2>2, <2>4 DEF StatusInv, Idle
  <2> QED BY <2>1, <2>2, <2>3, <2>5, StatusStep
<1>6. CASE StartRewriting
  <2>1. status = "returned" /\ status' = "rewriting" /\ UNCHANGED <<body, ret>>
    BY <1>6 DEF StartRewriting
  <2>2. StatusInv' /\ Idle'
    BY <1>0, <1>6 DEF StartRewriting, StatusInv, Idle
  <2>3. RetInv'
    BY <2>1, SameReturn
  <2>4. BodyInv'
    BY <1>0, <2>1 DEF BodyInv, InBefore, ValBefore
  <2> QED BY <2>2, <2>3, <2>4, IdleStep DEF StaticInv
<1>7. CASE RunAgain
  <2>1. status = "rewriting" /\ status' = "running" /\ UNCHANGED <<program, pc, ir, machine>>
    BY <1>7 DEF RunAgain
  <2>2. UNCHANGED <<body, ret, rewritten>>
    BY <2>1 DEF program
  <2>3. RetInv'
    BY <2>1, <2>2, SameReturn
  <2>4. StatusInv'
    BY <1>0, <2>1, <2>2 DEF StatusInv, Idle
  <2> QED BY <2>1, <2>2, <2>3, <2>4, StatusStep
<1>8. ASSUME NEW k \in DOMAIN body, EraseDead(k) \/ Move(k) \/ \E j \in DOMAIN body : Merge(j, k) PROVE StackInv'
  <2>1. k \in 1 .. Len(body)
    BY <1>0
  <2>2. StaticInv'
    BY <1>0, <1>8, <2>1, EraseKeeps, MoveKeeps, MergeKeeps
  <2>3. status = "rewriting" /\ UNCHANGED <<status, rewritten, pc, ir, machine>>
    BY <1>8 DEF EraseDead, Move, Merge, Rewrite
  <2>4. StatusInv' /\ Idle'
    BY <1>0, <2>3 DEF StatusInv, Idle, ir, machine
  <2> QED BY <2>2, <2>4, IdleStep
<1>9. CASE UNCHANGED vars
  <2>1. UNCHANGED <<program, status, pc, ir, machine>>
    BY <1>9 DEF vars
  <2>2. UNCHANGED <<body, ret, rewritten>>
    BY <2>1 DEF program
  <2>3. StaticInv'
    BY <1>0, <2>1, <2>2 DEF StaticInv, BodyInv, RetInv, InBefore, ValBefore, Produced, Consumed, OnlyOpen
  <2>4. StatusInv'
    BY <1>0, <2>1, <2>2 DEF StatusInv, Idle, ir, machine
  <2> QED BY <2>1, <2>2, <2>3, <2>4, StatusStep DEF StaticInv
<1> QED BY <1>1, <1>2, <1>3, <1>4, <1>5, <1>6, <1>7, <1>8, <1>9 DEF Next, Terminated

\* The invariant holds of every body that is built, run, rewritten and run again.
THEOREM StackInvariant ==
    ASSUME Linear = TRUE
    PROVE  Spec => []StackInv
<1>1. StackInv /\ [Next]_vars => StackInv'
  BY StackStep
<1> QED BY <1>1, StackInit, PTL DEF Spec

------------------------------------------------------------------------------
(* What it shows *)

LEMMA TypesHold == StackInv => TypeOK
<1> SUFFICES ASSUME StackInv PROVE TypeOK
  OBVIOUS
<1>1. /\ BodyInv /\ RetInv /\ MachineInv /\ StatusInv /\ DOMAIN body = 1 .. Len(body) /\ Len(body) \in Nat
      /\ body \in Seq(OpType) /\ Len(body) <= NumOps
  BY DEF StackInv, StaticInv, BodyInv
<1>2. \A k \in DOMAIN body : body[k] \in OpType
  BY <1>1
<1>3. ret \in StackIds
  <2>1. CASE status = "building"
    BY <1>1, <2>1 DEF RetInv, StackIds
  <2>2. CASE status # "building"
    <3>1. Produced(ret, Len(body) + 1)
      BY <1>1, <2>2 DEF RetInv
    <3> QED BY <1>1, <3>1, IdFacts
  <2> QED BY <2>1, <2>2
<1>4. pc \in 1 .. NumOps + 1
  BY <1>1, BoundAssumption DEF MachineInv
<1>5. \A s \in DOMAIN stacks : \A i \in DOMAIN stacks[s] : stacks[s][i] \in Scalars \cup Codes
  <2> SUFFICES ASSUME NEW s \in DOMAIN stacks, NEW i \in DOMAIN stacks[s]
               PROVE  stacks[s][i] \in Scalars \cup Codes
    OBVIOUS
  <2>1. stacks[s] \in Seq(Scalars \cup Codes)
    BY <1>1 DEF MachineInv
  <2> QED BY <2>1
<1>6. \A v \in DOMAIN regs : regs[v] \in Values
  BY <1>1 DEF MachineInv, WellValue
<1>7. \A i \in DOMAIN stack : stack[i] \in Values
  <2>1. stack \in Seq(Values)
    BY <1>1 DEF MachineInv
  <2> QED BY <2>1
<1>8. DOMAIN pure = DOMAIN regs /\ freed \subseteq 1 .. NumOps
  BY <1>1 DEF MachineInv
<1>9. status \in {"building", "running", "rewriting", "returned", "aborted", "undefined"} /\ rewritten \in BOOLEAN
  BY <1>1 DEF StatusInv
<1> QED BY <1>2, <1>3, <1>4, <1>5, <1>6, <1>7, <1>8, <1>9 DEF TypeOK, OpType, Values

\* At the return the one stack left open is the one that is returned.
LEMMA AgreementHolds == StackInv => InPlaceAgrees
<1> SUFFICES ASSUME StackInv PROVE InPlaceAgrees
  OBVIOUS
<1>1. MachineInv /\ StatusInv /\ RetInv
  BY DEF StackInv, StaticInv
<1>2. ASSUME status = "returned" PROVE Meaning(stack) = stacks[ret]
  <2>1. pc = Len(body) + 1
    BY <1>1, <1>2 DEF StatusInv
  <2>2. PICK c \in DOMAIN stacks : OnlyOpen(c, pc) /\ stacks[c] = Meaning(stack)
    BY DEF StackInv, AgreeInv
  <2>3. Produced(c, Len(body) + 1) /\ ~Consumed(c, Len(body) + 1)
    BY <2>1, <2>2 DEF OnlyOpen
  <2>4. c = ret
    BY <1>1, <1>2, <2>3 DEF RetInv
  <2> QED BY <2>2, <2>4
<1> QED BY <1>1, <1>2 DEF InPlaceAgrees, MachineInv

LEMMA LinearityHolds == StackInv => StacksStayLinear
<1> SUFFICES ASSUME StackInv, status # "building" PROVE StacksStayLinear
  BY DEF StacksStayLinear
<1>1. BodyInv /\ RetInv /\ DOMAIN body = 1 .. Len(body) /\ Len(body) \in Nat /\ Len(body) + 1 - 1 = Len(body)
  BY DEF StackInv, StaticInv, BodyInv
<1>2. ASSUME NEW s \in StackIds
      PROVE  Cardinality({k \in DOMAIN body : body[k].in = s}) + (IF ret = s THEN 1 ELSE 0) = 1
  <2> DEFINE uses == {k \in DOMAIN body : body[k].in = s}
  <2>1. Produced(s, Len(body) + 1)
    BY <1>1, IdFacts
  <2>2. ~Consumed(s, Len(body) + 1) <=> s = ret
    BY <1>1, <2>1 DEF RetInv
  <2>3. Consumed(s, Len(body) + 1) <=> \E j \in 1 .. Len(body) : body[j].in = s
    BY <1>1 DEF Consumed
  <2>4. CASE s = ret
    <3>1. uses = {}
      BY <1>1, <2>2, <2>3, <2>4
    <3>2. Cardinality(uses) = 0
      BY <3>1, FS_EmptySet
    <3> HIDE DEF uses
    <3>3. Cardinality(uses) + 1 = 1
      BY <3>2
    <3> QED BY <2>4, <3>3 DEF uses
  <2>5. CASE s # ret
    <3>1. PICK j \in 1 .. Len(body) : body[j].in = s
      BY <2>2, <2>3, <2>5
    <3>2. s # None
      <4>1. ~Produced(None, Len(body) + 1)
        <5>1. \A i \in 1 .. Len(body) : body[i].id # None
          BY <1>1, OpFacts
        <5> QED BY <1>1, <5>1 DEF Produced, None
      <4> QED BY <2>1, <4>1
    <3>3. uses = {j}
      <4>1. \A k \in 1 .. Len(body) : body[k].in = s => k = j
        BY <1>1, <3>1, <3>2 DEF BodyInv
      <4> QED BY <1>1, <3>1, <4>1
    <3>4. Cardinality(uses) = 1
      BY <3>3, FS_Singleton
    <3> HIDE DEF uses
    <3>5. Cardinality(uses) + 0 = 1
      BY <3>4
    <3> QED BY <2>5, <3>5 DEF uses
  <2> QED BY <2>4, <2>5
<1>3. ASSUME NEW k \in DOMAIN body
      PROVE  {body[k].in, body[k].val} \subseteq {None, 0} \cup {body[j].id : j \in 1 .. k - 1}
  <2>1. InBefore(k) /\ ValBefore(k)
    BY <1>1 DEF BodyInv
  <2>2. body[k].in \in {None, 0} \cup {body[j].id : j \in 1 .. k - 1}
    BY <2>1 DEF InBefore
  <2>3. body[k].val \in {None, 0} \cup {body[j].id : j \in 1 .. k - 1}
    BY <2>1 DEF ValBefore
  <2> QED BY <2>2, <2>3
<1> QED BY <1>2, <1>3 DEF StacksStayLinear

\* Bodies, values and the machine have the types of SigiOps.td, and what is
\* returned is a stack of the body.
THEOREM StackValueTypes ==
    ASSUME Linear = TRUE
    PROVE  Spec => []TypeOK
BY StackInvariant, TypesHold, PTL

\* Where the front end uses each stack value once, replacing every stack result by
\* the operand (SigiToLLVM.cpp:165-168, 204-206) is right: what is popped and
\* printed and the stack at the return are what the pure operations mean, in
\* bodies of any length and after any erasing, merging and moving.
THEOREM StackInPlace ==
    ASSUME Linear = TRUE
    PROVE  Spec => []InPlaceAgrees
BY StackInvariant, AgreementHolds, PTL

\* The rewritings that Pure allows (SigiOps.td:25-58) keep each stack value used
\* once and each operand defined before it is used.
THEOREM RewritingKeepsLinear ==
    ASSUME Linear = TRUE
    PROVE  Spec => []StacksStayLinear
BY StackInvariant, LinearityHolds, PTL
==============================================================================
